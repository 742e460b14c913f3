---------------------------- MODULE SleepersProofs ----------------------------
(***************************************************************************)
(* Theorems about the drivers whose readers sleep: SleepLabs, for any      *)
(* readers, pollers and writers, CountingLabs, for any readers and writes, *)
(* and KeyRing, for any readers, keys and size of the ring.                *)
(***************************************************************************)
EXTENDS SleepLabs, CountingLabs, KeyRing, FiniteSetTheorems, TLAPS

(* The first n of a sequence, and what is left when they are gone.         *)
LEMMA QueueHead == ASSUME NEW S, NEW s \in Seq(S), NEW n \in 0..Len(s)
  PROVE /\ SubSeq(s, 1, n) \in Seq(S) /\ Len(SubSeq(s, 1, n)) = n
        /\ \A i \in 1..n : SubSeq(s, 1, n)[i] = s[i]
OBVIOUS
LEMMA QueueTail == ASSUME NEW S, NEW s \in Seq(S), NEW n \in 0..Len(s)
  PROVE /\ SubSeq(s, n + 1, Len(s)) \in Seq(S) /\ Len(SubSeq(s, n + 1, Len(s))) = Len(s) - n
        /\ \A i \in 1..Len(s) - n : SubSeq(s, n + 1, Len(s))[i] = s[i + n]
OBVIOUS

Where == {"out", "wait", "asleep", "woken", "locked", "read"}
(* The readers that lab1_excl.c has counted in and not yet out.            *)
Counted == {r \in Readers : pc[r] \in {"wait", "asleep", "woken"}}

SleepTypes == /\ pc \in [Readers \cup Pollers -> Where] /\ wq \in Seq(Readers \cup Pollers)
(* The queue holds sleepers only, each of them once: otherwise a wakeup    *)
(* could put a reader that has counted out back before the wait, and       *)
(* nsleepers would be one short.                                           *)
QueueAsleep == \A i \in 1..Len(wq) : pc[wq[i]] = "asleep" /\ \A j \in 1..Len(wq) : wq[j] = wq[i] => j = i
(* Only finitely many readers have begun to read, however many there are.  *)
CountInv == IsFiniteSet(Counted) /\ (Profile.after = "count" => nsleepers = Cardinality(Counted))
SInv == SleepTypes /\ QueueAsleep /\ CountInv

(* What leaves the counted readers and nsleepers alone keeps the count.    *)
LEMMA CountedStays == ASSUME CountInv, Counted' = Counted, UNCHANGED <<lab, nsleepers>> PROVE CountInv'
BY DEF CountInv, Profile

(* A process that is not asleep is not on the queue, and may move.         *)
LEMMA OffQueue ==
  ASSUME SInv, NEW p \in Readers \cup Pollers, NEW to \in Where,
         pc[p] # "asleep", pc' = [pc EXCEPT ![p] = to], wq' = wq
  PROVE  SleepTypes' /\ QueueAsleep'
<1>1. SleepTypes'
  BY DEF SInv, SleepTypes
<1>2. \A i \in 1..Len(wq) : wq[i] \in Readers \cup Pollers /\ wq[i] # p
  BY DEF SInv, SleepTypes, QueueAsleep
<1>3. \A i \in 1..Len(wq) : pc'[wq[i]] = pc[wq[i]]
  BY <1>2 DEF SInv, SleepTypes
<1>4. QED
  BY <1>1, <1>3 DEF SInv, QueueAsleep

(* A reader counts itself in, then waits.                                  *)
LEMMA ReadKeeps == ASSUME SInv, UNCHANGED lab, NEW r, Read(r) PROVE SInv'
<1>1. r \in Readers /\ pc[r] = "out" /\ pc' = [pc EXCEPT ![r] = "wait"]
  BY DEF Read, Goto
<1>2. SleepTypes' /\ QueueAsleep'
  BY <1>1, OffQueue DEF Read, Where
<1>3. Counted' = Counted \cup {r} /\ r \notin Counted
  BY <1>1 DEF Counted, SInv, SleepTypes, Where
<1>4. IsFiniteSet(Counted') /\ Cardinality(Counted') = Cardinality(Counted) + 1
  BY <1>3, FS_AddElement DEF SInv, CountInv
<1>5. CountInv'
  BY <1>4 DEF SInv, CountInv, Profile, Read
<1>6. QED
  BY <1>2, <1>5 DEF SInv

(* A reader that moves between the wait, the sleep and the wakeup stays    *)
(* counted; a poller never is.                                             *)
LEMMA StaysCounted ==
  ASSUME SInv, NEW p \in Readers \cup Pollers, NEW to \in Where, pc' = [pc EXCEPT ![p] = to],
         (pc[p] \in {"wait", "asleep", "woken"} <=> to \in {"wait", "asleep", "woken"}) \/ p \notin Readers
  PROVE  Counted' = Counted
BY DEF SInv, SleepTypes, Counted

(* The test of the condition, after which the process is awake or queued.  *)
LEMMA TestKeeps == ASSUME SInv, UNCHANGED lab, NEW p \in Readers \cup Pollers, Test(p) PROVE SInv'
<1>1. CASE data_ready = 1
  <2>1. pc[p] = "wait" /\ pc' = [pc EXCEPT ![p] = "woken"] /\ wq' = wq
    BY <1>1 DEF Test, Goto
  <2>2. QED
    BY <2>1, OffQueue, StaysCounted, CountedStays DEF Test, SInv, Where
<1>2. CASE data_ready # 1
  <2>1. pc[p] = "wait" /\ pc' = [pc EXCEPT ![p] = "asleep"] /\ wq' = Append(wq, p)
    BY <1>2 DEF Test, Goto
  <2>2. SleepTypes'
    BY <2>1 DEF SInv, SleepTypes, Where
  <2>3. Len(wq') = Len(wq) + 1 /\ Len(wq) \in Nat /\ wq'[Len(wq) + 1] = p /\ \A i \in 1..Len(wq) : wq'[i] = wq[i]
    BY <2>1 DEF SInv, SleepTypes
  <2>4. \A i \in 1..Len(wq) : wq[i] \in Readers \cup Pollers /\ wq[i] # p /\ pc'[wq[i]] = "asleep"
    BY <2>1 DEF SInv, SleepTypes, QueueAsleep
  <2>5. pc'[p] = "asleep"
    BY <2>1 DEF SInv, SleepTypes
  <2>6. QueueAsleep'
    BY <2>3, <2>4, <2>5 DEF SInv, QueueAsleep
  <2>7. CountInv'
    BY <2>1, StaysCounted, CountedStays DEF Test, SInv, Where
  <2>8. QED
    BY <2>2, <2>6, <2>7 DEF SInv
<1>3. QED
  BY <1>1, <1>2

(* What is left of a queue that one entry leaves.                          *)
LEMMA Unlinked == ASSUME NEW S, NEW s \in Seq(S), NEW i \in 1..Len(s)
  PROVE /\ RemoveAt(s, i) \in Seq(S) /\ Len(RemoveAt(s, i)) = Len(s) - 1
        /\ \A j \in 1..Len(s) - 1 : RemoveAt(s, i)[j] = (IF j < i THEN s[j] ELSE s[j + 1])
<1> DEFINE a == SubSeq(s, 1, i - 1)
           b == SubSeq(s, i + 1, Len(s))
<1>1. a \in Seq(S) /\ Len(a) = i - 1 /\ \A j \in 1..i - 1 : a[j] = s[j]
  OBVIOUS
<1>2. b \in Seq(S) /\ Len(b) = Len(s) - i /\ \A j \in 1..Len(s) - i : b[j] = s[j + i]
  OBVIOUS
<1>3. RemoveAt(s, i) = a \o b
  BY DEF RemoveAt
<1>4. QED
  <2> HIDE DEF a, b
  <2>1. RemoveAt(s, i) \in Seq(S) /\ Len(RemoveAt(s, i)) = Len(s) - 1
    BY <1>1, <1>2, <1>3
  <2>2. ASSUME NEW j \in 1..Len(s) - 1, j < i PROVE RemoveAt(s, i)[j] = s[j]
    BY <1>1, <1>2, <1>3, <2>2
  <2>3. ASSUME NEW j \in 1..Len(s) - 1, ~(j < i) PROVE RemoveAt(s, i)[j] = s[j + 1]
    <3>1. j - (i - 1) \in 1..Len(s) - i /\ (j - (i - 1)) + i = j + 1
      BY <2>3
    <3>2. RemoveAt(s, i)[j] = b[j - (i - 1)]
      <4>1. /\ Len(a) = i - 1 /\ Len(b) = Len(s) - i /\ a \in Seq(S) /\ b \in Seq(S)
            /\ RemoveAt(s, i) = a \o b
        BY <1>1, <1>2, <1>3
      <4>2. j \in Int /\ i - 1 < j /\ j <= (i - 1) + (Len(s) - i) /\ i - 1 \in Nat /\ Len(s) - i \in Nat
        BY <2>3
      <4>3. j \in 1..Len(a) + Len(b) /\ ~(j <= Len(a))
        BY <4>1, <4>2
      <4>4. (a \o b)[j] = b[j - Len(a)]
        BY <4>1, <4>3
      <4>5. QED
        BY <4>1, <4>4
    <3>3. QED
      BY <3>1, <3>2, <1>2
  <2>4. QED
    BY <2>1, <2>2, <2>3

(* A signal takes its reader off the queue, and so no wakeup finds it      *)
(* there.                                                                  *)
LEMMA SignalKeeps == ASSUME SInv, UNCHANGED lab, NEW r, Signal(r) PROVE SInv'
<1>1. r \in Readers /\ pc[r] = "asleep" /\ pc' = [pc EXCEPT ![r] = "woken"]
  BY DEF Signal, Goto
<1>2. wq \in Seq(Readers \cup Pollers) /\ DOMAIN wq = 1..Len(wq) /\ Len(wq) \in Nat
  BY DEF SInv, SleepTypes
<1>3. PICK i \in 1..Len(wq) : wq[i] = r /\ wq' = RemoveAt(wq, i)
  BY <1>2 DEF Signal, Unqueue
<1>4. /\ wq' \in Seq(Readers \cup Pollers) /\ Len(wq') = Len(wq) - 1
      /\ \A j \in 1..Len(wq) - 1 : wq'[j] = (IF j < i THEN wq[j] ELSE wq[j + 1])
  BY <1>2, <1>3, Unlinked
<1>5. SleepTypes'
  BY <1>1, <1>4 DEF SInv, SleepTypes, Where
<1>6. QueueAsleep'
  <2>1. \A j \in 1..Len(wq') : wq'[j] # r /\ wq'[j] \in Readers \cup Pollers /\ pc[wq'[j]] = "asleep"
    BY <1>2, <1>3, <1>4 DEF SInv, QueueAsleep
  <2>2. \A j, k \in 1..Len(wq') : wq'[j] = wq'[k] => j = k
    <3> DEFINE at(j) == IF j < i THEN j ELSE j + 1
    <3>1. \A j \in 1..Len(wq') : at(j) \in 1..Len(wq) /\ wq'[j] = wq[at(j)]
      BY <1>2, <1>4
    <3>2. \A j, k \in 1..Len(wq') : at(j) = at(k) => j = k
      BY <1>2, <1>4
    <3> HIDE DEF at
    <3>3. QED
      BY <3>1, <3>2 DEF SInv, QueueAsleep
  <2>3. QED
    BY <2>1, <2>2, <1>1 DEF SInv, SleepTypes, QueueAsleep
<1>7. CountInv'
  BY <1>1, StaysCounted, CountedStays DEF Signal, SInv, Where
<1>8. QED
  BY <1>5, <1>6, <1>7 DEF SInv

(* A reader past the wait counts itself out, if its driver counts.         *)
LEMMA ProceedKeeps == ASSUME SInv, UNCHANGED lab, NEW r \in Readers, Proceed(r) PROVE SInv'
<1>1. CASE CountOut(r)
  <2>1. PICK to \in {"locked", "read"} : pc[r] = "woken" /\ pc' = [pc EXCEPT ![r] = to]
    BY <1>1 DEF CountOut, Goto
  <2>2. SleepTypes' /\ QueueAsleep'
    BY <2>1, OffQueue DEF Proceed, Where
  <2>3. Counted' = Counted \ {r} /\ r \in Counted
    BY <2>1 DEF Counted, SInv, SleepTypes, Where
  <2>4. IsFiniteSet(Counted') /\ Cardinality(Counted') = Cardinality(Counted) - 1
    BY <2>3, FS_RemoveElement DEF SInv, CountInv
  <2>5. CountInv'
    BY <2>4, <1>1 DEF SInv, CountInv, Profile, CountOut
  <2>6. QED
    BY <2>2, <2>5 DEF SInv
<1>2. CASE LastOut(r)
  <2>1. pc[r] = "locked" /\ pc' = [pc EXCEPT ![r] = "read"] /\ wq' = wq /\ nsleepers' = nsleepers
    BY <1>2 DEF LastOut, Goto, Proceed
  <2>2. QED
    BY <2>1, OffQueue, StaysCounted, CountedStays DEF SInv, Where
<1>3. CASE Keep(r) \/ Reset(r)
  <2>1. pc[r] = "woken" /\ pc' = [pc EXCEPT ![r] = "read"] /\ wq' = wq /\ Profile.after # "count"
    BY <1>3 DEF Keep, Reset, Goto, Proceed
  <2>2. SleepTypes' /\ QueueAsleep'
    BY <2>1, OffQueue DEF Where
  <2>3. Counted' = Counted \ {r}
    BY <2>1 DEF Counted, SInv, SleepTypes, Where
  <2>4. IsFiniteSet(Counted')
    BY <2>3, FS_RemoveElement DEF SInv, CountInv
  <2>5. QED
    BY <2>1, <2>2, <2>4 DEF SInv, CountInv, Profile
<1>4. QED
  BY <1>1, <1>2, <1>3 DEF Proceed

(* Calls that touch neither the queue nor the counter.                     *)
LEMMA CallKeeps ==
  ASSUME SInv, UNCHANGED lab, NEW p \in Readers \cup Pollers, Poll(p) \/ Return(p) \/ PollReturn(p)
  PROVE  SInv'
<1> USE SleepLabsAssumption
<1>1. CASE Return(p)
  <2>1. pc[p] = "read" /\ pc' = [pc EXCEPT ![p] = "out"]
    BY <1>1 DEF Return, Goto
  <2>2. QED
    BY <1>1, <2>1, OffQueue, StaysCounted, CountedStays DEF SInv, Where, Return
<1>2. CASE Poll(p) \/ PollReturn(p)
  <2>1. p \in Pollers /\ p \notin Readers /\ pc[p] # "asleep" /\ UNCHANGED <<nsleepers, wq>>
    BY <1>2 DEF Poll, PollReturn, Goto
  <2>2. PICK to \in {"wait", "out"} : pc' = [pc EXCEPT ![p] = to]
    BY <1>2 DEF Poll, PollReturn, Goto
  <2>3. QED
    BY <2>1, <2>2, OffQueue, StaysCounted, CountedStays DEF SInv, Where
<1>3. QED
  BY <1>1, <1>2

(* A wakeup sends sleepers back to their test and off the queue.           *)
LEMMA WakeUpKeeps == ASSUME SInv, UNCHANGED lab, lab \in Labs, WakeUp PROVE SInv'
<1>1. wq \in Seq(Readers \cup Pollers) /\ Len(wq) \in Nat /\ (wq # << >> => Len(wq) > 0)
  BY DEF SInv, SleepTypes
<1> DEFINE n == Wakes
<1>2. n \in 0..Len(wq)
  BY <1>1, SleepLabsAssumption DEF Wakes, Profile, wait_event, excl, killable, poll
<1>3. /\ SubSeq(wq, 1, n) \in Seq(Readers \cup Pollers) /\ Len(SubSeq(wq, 1, n)) = n
      /\ \A i \in 1..n : SubSeq(wq, 1, n)[i] = wq[i]
  <2> HIDE DEF n
  <2> QED
    BY <1>1, <1>2, QueueHead
<1>4. /\ wq' \in Seq(Readers \cup Pollers) /\ Len(wq') = Len(wq) - n
      /\ \A i \in 1..Len(wq) - n : wq'[i] = wq[i + n]
  <2>1. wq' = SubSeq(wq, n + 1, Len(wq))
    BY DEF WakeUp
  <2> HIDE DEF n
  <2> QED
    BY <1>1, <1>2, <2>1, QueueTail
<1>5. Woken = {wq[i] : i \in 1..n}
  <2>1. DOMAIN SubSeq(wq, 1, n) = 1..n
    <3> HIDE DEF n
    <3> QED
      BY <1>3
  <2>2. Woken = {SubSeq(wq, 1, n)[i] : i \in 1..n}
    BY <2>1 DEF Woken, ToSet
  <2> HIDE DEF n
  <2>3. QED
    BY <2>2, <1>3
<1>6. \A p \in Woken : p \in Readers \cup Pollers /\ pc[p] = "asleep"
  BY <1>1, <1>2, <1>5 DEF SInv, QueueAsleep
<1>7. pc' = [p \in Readers \cup Pollers |-> IF p \in Woken THEN "wait" ELSE pc[p]]
  BY DEF SInv, SleepTypes, WakeUp
<1>8. SleepTypes'
  BY <1>4, <1>7 DEF SInv, SleepTypes, Where
<1>9. QueueAsleep'
  <2>1. \A i, j \in 1..Len(wq') : wq'[i] = wq'[j] => i = j
    BY <1>1, <1>2, <1>4 DEF SInv, QueueAsleep
  <2>2. \A i \in 1..Len(wq') : wq'[i] \in Readers \cup Pollers /\ pc[wq'[i]] = "asleep" /\ wq'[i] \notin Woken
    BY <1>1, <1>2, <1>4, <1>5 DEF SInv, QueueAsleep
  <2>3. QED
    BY <2>1, <2>2, <1>7 DEF QueueAsleep
<1>10. Counted' = Counted
  BY <1>6, <1>7 DEF Counted
<1>11. CountInv'
  BY <1>10, CountedStays DEF SInv, WakeUp
<1>12. QED
  BY <1>8, <1>9, <1>11 DEF SInv

(* Steps of a writer that wake nobody.                                     *)
LEMMA SameKeeps == ASSUME SInv, UNCHANGED <<lab, nsleepers, wq, pc>> PROVE SInv'
<1>1. Counted' = Counted
  BY DEF Counted
<1>2. QED
  BY <1>1, CountedStays DEF SInv, SleepTypes, QueueAsleep

(* At first nobody reads.                                                  *)
LEMMA SInit == SleepInit => SInv /\ lab \in Labs
<1> SUFFICES ASSUME SleepInit PROVE SInv /\ lab \in Labs
  OBVIOUS
<1>1. Counted = {}
  BY DEF SleepInit, Counted
<1>2. CountInv
  BY <1>1, FS_EmptySet DEF SleepInit, CountInv
<1>3. QED
  BY <1>2 DEF SleepInit, SInv, SleepTypes, QueueAsleep, Where

LEMMA SStep == ASSUME SInv, lab \in Labs, [SleepNext]_sleepVars PROVE SInv' /\ lab' = lab
<1>1. CASE UNCHANGED sleepVars
  BY <1>1, SameKeeps DEF sleepVars
<1>2. ASSUME UNCHANGED lab, NEW p \in Readers \cup Pollers, Read(p) \/ Poll(p) \/ Signal(p) \/ ReaderStep(p) PROVE SInv'
  BY <1>2, ReadKeeps, SignalKeeps, TestKeeps, ProceedKeeps, CallKeeps DEF ReaderStep, Proceed
<1>3. ASSUME UNCHANGED lab, NEW w \in Writers, Write(w) \/ WriteStep(w) PROVE SInv'
  BY <1>3, SameKeeps, WakeUpKeeps DEF Write, WriteStep, SetReady
<1>4. QED
  BY <1>1, <1>2, <1>3 DEF SleepNext, sleepVars

(* For any readers, pollers and writers, and any mix of wakeups and        *)
(* signals: nsleepers of lab1_excl.c is the number of readers between its  *)
(* increment and its decrement.                                            *)
THEOREM SleepersCounted == SleepSpec => []NsleepersExact
<1>1. SInv /\ lab \in Labs /\ [SleepNext]_sleepVars => (SInv /\ lab \in Labs)'
  BY SStep
<1>2. SInv => NsleepersExact
  BY DEF SInv, CountInv, Counted, NsleepersExact
<1>3. QED
  BY SInit, <1>1, <1>2, PTL DEF SleepSpec

(* Who is taken off the queue by a wakeup: its first ones.                 *)
LEMMA WokenAre == ASSUME SInv, lab \in Labs PROVE Wakes \in 0..Len(wq) /\ Woken = {wq[i] : i \in 1..Wakes}
<1>1. wq \in Seq(Readers \cup Pollers) /\ Len(wq) \in Nat /\ (wq # << >> => Len(wq) > 0)
  BY DEF SInv, SleepTypes
<1> DEFINE n == Wakes
<1>2. n \in 0..Len(wq)
  BY <1>1, SleepLabsAssumption DEF Wakes, Profile, wait_event, excl, killable, poll
<1>3. /\ SubSeq(wq, 1, n) \in Seq(Readers \cup Pollers) /\ Len(SubSeq(wq, 1, n)) = n
      /\ \A i \in 1..n : SubSeq(wq, 1, n)[i] = wq[i]
  <2> HIDE DEF n
  <2> QED
    BY <1>1, <1>2, QueueHead
<1>4. DOMAIN SubSeq(wq, 1, n) = 1..n
  <2> HIDE DEF n
  <2> QED
    BY <1>3
<1>5. Woken = {SubSeq(wq, 1, n)[i] : i \in 1..n}
  BY <1>4 DEF Woken, ToSet
<1> HIDE DEF n
<1>6. QED
  BY <1>2, <1>3, <1>5 DEF n

Sleeps(p) == pc[p] = "asleep"
(* Nobody is asleep off the queue, where no wakeup would find him.         *)
SleepersQueued == \A p \in Readers \cup Pollers : Sleeps(p) => \E i \in 1..Len(wq) : wq[i] = p

(* A wakeup of all leaves nobody asleep.                                   *)
LEMMA AllWoken == ASSUME SInv, lab \in Labs, SleepersQueued, Profile.wakes = "all", WakeUp
                  PROVE \A p \in Readers \cup Pollers : pc'[p] # "asleep"
<1>1. Wakes = Len(wq)
  BY DEF Wakes
<1>2. \A p \in Readers \cup Pollers : Sleeps(p) => p \in Woken
  BY <1>1, WokenAre DEF SleepersQueued
<1>3. pc' = [p \in Readers \cup Pollers |-> IF p \in Woken THEN "wait" ELSE pc[p]]
  BY DEF SInv, SleepTypes, WakeUp
<1>4. QED
  BY <1>2, <1>3 DEF Sleeps

(* A process that does not fall asleep changes no one else.                *)
LEMMA AwakeQueued ==
  ASSUME SInv, SleepersQueued, NEW p \in Readers \cup Pollers, NEW to \in Where \ {"asleep"},
         pc' = [pc EXCEPT ![p] = to], wq' = wq
  PROVE  SleepersQueued'
BY DEF SInv, SleepTypes, SleepersQueued, Sleeps

LEMMA TestQueued == ASSUME SInv, SleepersQueued, NEW p \in Readers \cup Pollers, Test(p) PROVE SleepersQueued'
<1>1. CASE data_ready = 1
  BY <1>1, AwakeQueued DEF Test, Goto, Where
<1>2. CASE data_ready # 1
  <2>1. pc[p] = "wait" /\ pc' = [pc EXCEPT ![p] = "asleep"] /\ wq' = Append(wq, p)
    BY <1>2 DEF Test, Goto
  <2>2. Len(wq') = Len(wq) + 1 /\ Len(wq) \in Nat /\ wq'[Len(wq) + 1] = p /\ \A i \in 1..Len(wq) : wq'[i] = wq[i]
    BY <2>1 DEF SInv, SleepTypes
  <2>3. \A q \in Readers \cup Pollers : Sleeps(q)' => q = p \/ Sleeps(q)
    BY <2>1 DEF SInv, SleepTypes, Sleeps
  <2>4. QED
    BY <2>2, <2>3 DEF SleepersQueued
<1>3. QED
  BY <1>1, <1>2

LEMMA SignalQueued == ASSUME SInv, SleepersQueued, NEW r, Signal(r) PROVE SleepersQueued'
<1>1. r \in Readers /\ pc' = [pc EXCEPT ![r] = "woken"]
  BY DEF Signal, Goto
<1>2. wq \in Seq(Readers \cup Pollers) /\ DOMAIN wq = 1..Len(wq) /\ Len(wq) \in Nat
  BY DEF SInv, SleepTypes
<1>3. PICK i \in 1..Len(wq) : wq[i] = r /\ wq' = RemoveAt(wq, i)
  BY <1>2 DEF Signal, Unqueue
<1>4. Len(wq') = Len(wq) - 1 /\ \A j \in 1..Len(wq) - 1 : wq'[j] = (IF j < i THEN wq[j] ELSE wq[j + 1])
  BY <1>2, <1>3, Unlinked
<1>5. \A q \in Readers \cup Pollers : Sleeps(q)' => q # r /\ Sleeps(q)
  BY <1>1 DEF SInv, SleepTypes, Sleeps
<1>6. SUFFICES ASSUME NEW q \in Readers \cup Pollers, Sleeps(q)' PROVE \E j \in 1..Len(wq') : wq'[j] = q
  BY DEF SleepersQueued
<1>7. PICK k \in 1..Len(wq) : wq[k] = q /\ k # i
  BY <1>3, <1>5, <1>6 DEF SleepersQueued
<1>8. CASE k < i
  BY <1>2, <1>4, <1>7, <1>8
<1>9. CASE k > i
  <2>1. k - 1 \in 1..Len(wq) - 1 /\ ~(k - 1 < i) /\ (k - 1) + 1 = k
    BY <1>2, <1>9
  <2>2. QED
    BY <2>1, <1>4, <1>7
<1>10. QED
  BY <1>7, <1>8, <1>9

LEMMA WakeUpQueued == ASSUME SInv, lab \in Labs, SleepersQueued, WakeUp PROVE SleepersQueued'
<1> DEFINE n == Wakes
<1>1. n \in 0..Len(wq) /\ Woken = {wq[i] : i \in 1..n}
  BY WokenAre
<1>2. wq \in Seq(Readers \cup Pollers) /\ Len(wq) \in Nat /\ wq' = SubSeq(wq, n + 1, Len(wq))
  BY DEF SInv, SleepTypes, WakeUp
<1>3. pc' = [p \in Readers \cup Pollers |-> IF p \in Woken THEN "wait" ELSE pc[p]]
  BY DEF SInv, SleepTypes, WakeUp
<1>4. \A q \in Readers \cup Pollers : Sleeps(q)' => q \notin Woken /\ Sleeps(q)
  BY <1>3 DEF Sleeps
<1> HIDE DEF n
<1>5. Len(wq') = Len(wq) - n /\ \A i \in 1..Len(wq) - n : wq'[i] = wq[i + n]
  BY <1>1, <1>2, QueueTail
<1>6. SUFFICES ASSUME NEW q \in Readers \cup Pollers, Sleeps(q)' PROVE \E j \in 1..Len(wq') : wq'[j] = q
  BY DEF SleepersQueued
<1>7. PICK k \in 1..Len(wq) : wq[k] = q
  BY <1>4, <1>6 DEF SleepersQueued
<1>8. k - n \in 1..Len(wq) - n /\ (k - n) + n = k
  BY <1>1, <1>2, <1>4, <1>6, <1>7
<1>9. QED
  BY <1>5, <1>7, <1>8

LEMMA QueuedStep == ASSUME SInv, lab \in Labs, SleepersQueued, [SleepNext]_sleepVars PROVE SleepersQueued'
<1>1. CASE UNCHANGED <<wq, pc>>
  BY <1>1 DEF SleepersQueued, Sleeps
<1>2. ASSUME NEW p \in Readers \cup Pollers, Read(p) \/ Poll(p) \/ Return(p) \/ PollReturn(p) PROVE SleepersQueued'
  <2>1. PICK to \in {"wait", "out"} : pc' = [pc EXCEPT ![p] = to] /\ wq' = wq
    BY <1>2 DEF Read, Poll, Return, PollReturn, Goto
  <2>2. QED
    BY <2>1, AwakeQueued DEF Where
<1>3. ASSUME NEW p \in Readers \cup Pollers, Proceed(p) PROVE SleepersQueued'
  <2>1. PICK to \in {"locked", "read"} : pc' = [pc EXCEPT ![p] = to] /\ wq' = wq
    BY <1>3 DEF Proceed, Keep, Reset, CountOut, LastOut, Goto
  <2>2. QED
    BY <2>1, AwakeQueued DEF Where
<1>4. ASSUME NEW w \in Writers, Write(w) \/ WriteStep(w) PROVE SleepersQueued'
  BY <1>1, <1>4, WakeUpQueued DEF Write, WriteStep, SetReady
<1>5. CASE UNCHANGED sleepVars
  BY <1>1, <1>5 DEF sleepVars
<1>6. QED
  BY <1>2, <1>3, <1>4, <1>5, TestQueued, SignalQueued DEF SleepNext, ReaderStep

(* The wait_event driver sets data_ready, which it never resets, before it *)
(* wakes.                                                                  *)
WakeComing == lab = "wait_event" =>
  \A p \in Readers \cup Pollers : Sleeps(p) /\ data_ready = 1 => \E w \in Writers : wpc[w] = "half"
WriterTypes == wpc \in [Writers -> {"out", "copied", "half"}]

LEMMA ComingStep ==
  ASSUME SInv, lab \in Labs, SleepersQueued, WriterTypes, WakeComing, SleepNext
  PROVE  WriterTypes' /\ WakeComing'
<1>1. lab' = lab
  BY DEF SleepNext
<1>2. ASSUME UNCHANGED wpc, \A p \in Readers \cup Pollers : Sleeps(p)' /\ data_ready' = 1 => Sleeps(p) /\ data_ready = 1
      PROVE  WriterTypes' /\ WakeComing'
  BY <1>1, <1>2 DEF WriterTypes, WakeComing
<1>3. ASSUME NEW p \in Readers \cup Pollers, Read(p) \/ Poll(p) \/ Signal(p) \/ Return(p) \/ PollReturn(p)
      PROVE  WriterTypes' /\ WakeComing'
  <2>1. PICK to \in {"wait", "out", "woken"} : pc' = [pc EXCEPT ![p] = to]
    BY <1>3 DEF Read, Poll, Signal, Return, PollReturn, Goto
  <2>2. UNCHANGED <<data_ready, wpc>>
    BY <1>3 DEF Read, Poll, Signal, Return, PollReturn
  <2>3. QED
    BY <1>2, <2>1, <2>2 DEF SInv, SleepTypes, Sleeps
<1>4. ASSUME NEW p \in Readers \cup Pollers, Test(p) PROVE WriterTypes' /\ WakeComing'
  BY <1>2, <1>4 DEF SInv, SleepTypes, Sleeps, Test, Goto
<1>5. ASSUME NEW p \in Readers \cup Pollers, Proceed(p) PROVE WriterTypes' /\ WakeComing'
  <2>1. PICK to \in {"locked", "read"} : pc' = [pc EXCEPT ![p] = to]
    BY <1>5 DEF Proceed, Keep, Reset, CountOut, LastOut, Goto
  <2>2. wpc' = wpc /\ (data_ready' = data_ready \/ data_ready' = 0)
    BY <1>5 DEF Proceed, Keep, Reset, CountOut, LastOut
  <2>3. QED
    BY <1>2, <2>1, <2>2 DEF SInv, SleepTypes, Sleeps
<1>6. ASSUME NEW w \in Writers, Write(w) PROVE WriterTypes' /\ WakeComing'
  <2>1. wpc[w] = "out" /\ wpc' = [wpc EXCEPT ![w] = "copied"] /\ UNCHANGED <<data_ready, pc>>
    BY <1>6 DEF Write
  <2>2. QED
    BY <1>1, <2>1 DEF WriterTypes, WakeComing, Sleeps
<1>7. ASSUME NEW w \in Writers, WriteStep(w) PROVE WriterTypes' /\ WakeComing'
  <2>1. PICK to \in {"half", "out"} : wpc' = [wpc EXCEPT ![w] = to]
    BY <1>7 DEF WriteStep
  <2>2. WriterTypes'
    BY <2>1 DEF WriterTypes
  <2>3. ASSUME lab = "wait_event" PROVE WakeComing'
    <3>1. Profile.setFirst /\ Profile.wakes = "all"
      BY <2>3, SleepLabsAssumption DEF Profile, wait_event
    <3>2. CASE wpc[w] = "copied"
      BY <3>1, <3>2, <1>7 DEF WriteStep, WriterTypes, WakeComing
    <3>3. CASE wpc[w] = "half"
      BY <3>1, <3>3, <1>7, AllWoken DEF WriteStep, WakeComing, Sleeps
    <3>4. QED
      BY <3>2, <3>3, <1>7 DEF WriteStep
  <2>4. QED
    BY <1>1, <2>2, <2>3 DEF WakeComing
<1>8. QED
  BY <1>3, <1>4, <1>5, <1>6, <1>7 DEF SleepNext, ReaderStep

(* What holds of the queue and of the writers at every step.               *)
LostInv == SInv /\ lab \in Labs /\ SleepersQueued /\ WriterTypes /\ WakeComing

LEMMA LostInvariant == SleepSpec => []LostInv
<1>1. SleepInit => LostInv
  BY SInit DEF SleepInit, LostInv, SleepersQueued, Sleeps, WriterTypes, WakeComing
<1>2. ASSUME LostInv, [SleepNext]_sleepVars PROVE LostInv'
  <2>1. SInv' /\ (lab \in Labs)' /\ SleepersQueued'
    BY <1>2, SStep, QueuedStep DEF LostInv
  <2>2. CASE UNCHANGED sleepVars
    BY <2>1, <2>2, <1>2 DEF sleepVars, LostInv, WriterTypes, WakeComing, Sleeps
  <2>3. CASE SleepNext
    BY <2>1, <2>3, <1>2, ComingStep DEF LostInv
  <2>4. QED
    BY <2>2, <2>3, <1>2
<1>3. QED
  BY <1>1, <1>2, PTL DEF SleepSpec

(* For any readers, pollers and writers, and any mix of calls and signals: *)
(* a reader of the wait_event driver that is asleep while data is ready    *)
(* has a writer between setting data_ready and waking.  So the test and    *)
(* the wakeup cannot miss each other, which is the part of WaiterServed    *)
(* that is safety.                                                         *)
THEOREM WakeupNotLost == SleepSpec => []WakeComing
<1>1. LostInv => WakeComing
  BY DEF LostInv
<1>2. QED
  BY <1>1, LostInvariant, PTL

(* The step of WaiterServed that the wait_event and the poll driver share: *)
(* a wakeup of all leaves nobody asleep, whatever signals took from the    *)
(* middle of the queue before it.                                          *)
WakeUpTakesAll == Profile.wakes = "all" /\ WakeUp => \A p \in Readers \cup Pollers : pc'[p] # "asleep"

THEOREM WakeUpReachesAll == SleepSpec => [][WakeUpTakesAll]_sleepVars
<1>1. ASSUME LostInv PROVE WakeUpTakesAll
  BY <1>1, AllWoken DEF LostInv, WakeUpTakesAll
<1>2. LostInv /\ [SleepNext]_sleepVars => [WakeUpTakesAll]_sleepVars
  BY <1>1
<1>3. QED
  BY <1>2, LostInvariant, PTL DEF SleepSpec
-----------------------------------------------------------------------------
(* The permits of a completion never go below zero, because a reader tests *)
(* `done' in the step that takes it.  This is what bounds the reads: those *)
(* of a driver that takes without a test would be conserved, too.          *)
PermitTypes == /\ plab \in PermitLabs /\ count \in Int /\ passed \in Nat /\ writes \in Nat
               /\ plab = "complete" => count >= 0

PInv == PermitTypes /\ passed + count = PermitsFirst + writes

(* A reader that takes a permit, queues, wakes, is interrupted or returns. *)
LEMMA ReaderKeeps ==
  ASSUME PInv, UNCHANGED plab, NEW r \in Takers,
         PermitRead(r) \/ PermitWake(r) \/ PermitSignal(r) \/ PermitReturn(r)
  PROVE  PInv'
<1>1. PermitsFirst' = PermitsFirst
  BY DEF PermitsFirst
<1>2. CASE PermitRead(r)
  BY <1>1, <1>2 DEF PInv, PermitTypes, PermitRead, Pass, Queue
<1>3. CASE PermitWake(r)
  BY <1>1, <1>3 DEF PInv, PermitTypes, PermitWake, Pass, Queue
<1>4. CASE PermitSignal(r) \/ PermitReturn(r)
  BY <1>1, <1>4 DEF PInv, PermitTypes, PermitSignal, PermitReturn
<1>5. QED
  BY <1>2, <1>3, <1>4

(* A write makes a permit, or hands one over that it does not count.       *)
LEMMA WriterKeeps == ASSUME PInv, UNCHANGED plab, PermitWrite PROVE PInv'
<1>1. PermitsFirst' = PermitsFirst /\ PermitsFirst \in Int
  BY DEF PermitsFirst
<1>2. CASE Complete
  <2>1. count' = count + 1 /\ passed' = passed /\ writes' = writes + 1 /\ plab' = plab
    BY <1>2 DEF Complete, PermitWrite
  <2>2. QED
    BY <1>1, <2>1 DEF PInv, PermitTypes
<1>3. CASE Up \/ UpRead
  <2>1. /\ writes' = writes + 1 /\ plab' = plab /\ plab # "complete"
        /\ \/ count' = count + 1 /\ passed' = passed
           \/ count' = count /\ passed' = passed + 1
    BY <1>3 DEF Up, UpRead, Release, HandOver, PermitWrite
  <2>2. QED
    BY <1>1, <2>1 DEF PInv, PermitTypes
<1>4. QED
  BY <1>2, <1>3 DEF PermitWrite

LEMMA PInit == PermitInit => PInv
BY CountingLabsAssumption DEF PermitInit, PInv, PermitTypes, PermitsFirst

LEMMA PStep == ASSUME PInv, [PermitNext]_permitVars PROVE PInv'
<1>1. CASE UNCHANGED permitVars
  BY <1>1 DEF permitVars, PInv, PermitTypes, PermitsFirst
<1>2. CASE PermitNext
  BY <1>2, ReaderKeeps, WriterKeeps DEF PermitNext
<1>3. QED
  BY <1>1, <1>2

(* For any readers, signals and writes: what the writes gave has been used *)
(* by a read or is still there, and with the completion no read gets past  *)
(* its wait without a write of its own.                                    *)
THEOREM PermitsKept == PermitSpec => []PermitsConserved
<1>1. PInv /\ [PermitNext]_permitVars => PInv'
  BY PStep
<1>2. PInv => PermitsConserved
  BY DEF PInv, PermitTypes, PermitsConserved, PermitsFirst
<1>3. QED
  BY PInit, <1>1, <1>2, PTL DEF PermitSpec

(* The readers that complete has woken and that have not run yet.          *)
Wokens == {r \in Takers : ppc[r] = "woken"}

(* The queue holds readers that wait, each once: a reader woken twice      *)
(* would be one permit for which nobody is woken.                          *)
PermitQueue == /\ ppc \in [Takers -> {"out", "waiting", "woken", "read"}] /\ waiters \in Seq(Takers)
               /\ \A i \in 1..Len(waiters) : ppc[waiters[i]] = "waiting"
               /\ \A i, j \in 1..Len(waiters) : waiters[j] = waiters[i] => j = i

(* While a reader waits, for every permit of the completion a reader has   *)
(* been woken; a semaphore has none.                                       *)
NoPermitIdle == waiters # << >> =>
  (plab = "complete" => count <= Cardinality(Wokens)) /\ (plab = "semaphore" => count <= 0)
QInv == PermitQueue /\ IsFiniteSet(Wokens) /\ NoPermitIdle

LEMMA WokensNat == ASSUME QInv PROVE Cardinality(Wokens) \in Nat
BY FS_CardinalityType DEF QInv

(* One reader moves, which is not in the queue.                            *)
LEMMA QueueStays ==
  ASSUME PermitQueue, NEW r \in Takers, NEW to \in {"out", "woken", "read"}, ppc[r] # "waiting",
         ppc' = [ppc EXCEPT ![r] = to], waiters' = waiters
  PROVE  PermitQueue'
BY DEF PermitQueue

(* A reader queues up.                                                     *)
LEMMA QueueGrows ==
  ASSUME PermitQueue, NEW r \in Takers, ppc[r] # "waiting",
         ppc' = [ppc EXCEPT ![r] = "waiting"], waiters' = Append(waiters, r)
  PROVE  PermitQueue'
<1>1. waiters \in Seq(Takers) /\ Len(waiters) \in Nat
  BY DEF PermitQueue
<1>2. /\ waiters' \in Seq(Takers) /\ Len(waiters') = Len(waiters) + 1 /\ waiters'[Len(waiters) + 1] = r
      /\ \A i \in 1..Len(waiters) : waiters'[i] = waiters[i]
  BY <1>1
<1>3. \A i \in 1..Len(waiters) : waiters[i] \in Takers /\ waiters[i] # r /\ ppc'[waiters[i]] = "waiting"
  BY <1>1 DEF PermitQueue
<1>4. ppc'[r] = "waiting"
  BY DEF PermitQueue
<1>5. QED
  BY <1>1, <1>2, <1>3, <1>4 DEF PermitQueue

(* The first in the queue leaves it.                                       *)
LEMMA QueueShrinks ==
  ASSUME PermitQueue, waiters # << >>, NEW to \in {"woken", "read"},
         ppc' = [ppc EXCEPT ![Head(waiters)] = to], waiters' = Tail(waiters)
  PROVE  PermitQueue' /\ Head(waiters) \in Takers /\ ppc[Head(waiters)] = "waiting"
<1>1. waiters \in Seq(Takers) /\ Len(waiters) \in Nat \ {0} /\ Head(waiters) = waiters[1]
  BY DEF PermitQueue
<1>2. /\ waiters' \in Seq(Takers) /\ Len(waiters') = Len(waiters) - 1
      /\ \A i \in 1..Len(waiters) - 1 : waiters'[i] = waiters[i + 1]
  BY <1>1
<1>3. \A i \in 1..Len(waiters') : waiters'[i] \in Takers /\ waiters'[i] # Head(waiters) /\ ppc'[waiters'[i]] = "waiting"
  BY <1>1, <1>2 DEF PermitQueue
<1>4. \A i, j \in 1..Len(waiters') : waiters'[j] = waiters'[i] => j = i
  BY <1>1, <1>2 DEF PermitQueue
<1>5. QED
  BY <1>1, <1>2, <1>3, <1>4 DEF PermitQueue

(* The step of a reader into its wait, past it, or out of it.              *)
LEMMA TakerQueue ==
  ASSUME PInv, QInv, UNCHANGED plab, NEW r \in Takers, PermitRead(r) \/ PermitWake(r) \/ PermitReturn(r)
  PROVE  QInv'
<1>1. Cardinality(Wokens) \in Nat /\ count \in Int /\ ppc[r] # "waiting" /\ r \in DOMAIN ppc
  BY WokensNat DEF PInv, PermitTypes, QInv, PermitQueue, PermitRead, PermitWake, PermitReturn
<1>2. ASSUME ppc[r] # "woken", Pass(r, 1) \/ PermitReturn(r) PROVE QInv'
  <2>1. PICK to \in {"read", "out"} : ppc' = [ppc EXCEPT ![r] = to] /\ waiters' = waiters
    BY <1>2 DEF Pass, PermitReturn
  <2>2. Wokens' = Wokens /\ PermitQueue'
    BY <2>1, <1>1, <1>2, QueueStays DEF QInv, PermitQueue, Wokens
  <2>3. count' \in Int /\ count' <= count
    BY <1>1, <1>2 DEF Pass, PermitReturn
  <2>4. QED
    BY <2>1, <2>2, <2>3, <1>1 DEF QInv, NoPermitIdle
<1>3. ASSUME ppc[r] # "woken", Queue(r), plab = "semaphore_rw" \/ count <= 0 PROVE QInv'
  <2>1. Wokens' = Wokens /\ PermitQueue'
    BY <1>1, <1>3, QueueGrows DEF QInv, PermitQueue, Wokens, Queue
  <2>2. QED
    BY <2>1, <1>1, <1>3 DEF QInv, NoPermitIdle, Queue
<1>4. ASSUME ppc[r] = "woken", PermitWake(r) PROVE QInv'
  <2>1. PICK to \in {"read", "waiting"} : ppc' = [ppc EXCEPT ![r] = to]
    BY <1>4 DEF PermitWake, Pass, Queue
  <2>2. Wokens' = Wokens \ {r} /\ r \in Wokens
    BY <2>1, <1>1, <1>4 DEF QInv, PermitQueue, Wokens
  <2>3. IsFiniteSet(Wokens') /\ Cardinality(Wokens') = Cardinality(Wokens) - 1
    BY <2>2, FS_RemoveElement DEF QInv
  <2>4. CASE count > 0
    <3>1. Pass(r, 1)
      BY <2>4, <1>4 DEF PermitWake
    <3>2. PermitQueue'
      BY <3>1, <1>1, QueueStays DEF QInv, Pass
    <3>3. QED
      BY <3>1, <3>2, <2>3, <1>1 DEF QInv, NoPermitIdle, Pass
  <2>5. CASE ~(count > 0)
    <3>1. Queue(r)
      BY <2>5, <1>4 DEF PermitWake
    <3>2. PermitQueue'
      BY <3>1, <1>1, QueueGrows DEF QInv, Queue
    <3>3. count' <= 0 /\ count' \in Int /\ Cardinality(Wokens') \in Nat
      BY <3>1, <2>3, <2>5, <1>1, FS_CardinalityType DEF Queue
    <3>4. count' <= Cardinality(Wokens')
      BY <3>3
    <3>5. QED
      BY <3>2, <3>3, <3>4, <2>3 DEF QInv, NoPermitIdle
  <2>6. QED
    BY <2>4, <2>5
<1>5. QED
  BY <1>1, <1>2, <1>3, <1>4 DEF PermitRead, PermitReturn, PermitWake

(* A signal takes its reader off the queue of a semaphore.                 *)
LEMMA SignalQueue ==
  ASSUME PInv, QInv, UNCHANGED plab, NEW r \in Takers, PermitSignal(r) PROVE QInv'
<1>1. waiters \in Seq(Takers) /\ Len(waiters) \in Nat /\ DOMAIN waiters = 1..Len(waiters)
  BY DEF QInv, PermitQueue
<1>2. PICK i \in 1..Len(waiters) : waiters[i] = r /\ waiters' = RemoveAt(waiters, i)
  BY <1>1 DEF PermitSignal
<1>3. /\ waiters' \in Seq(Takers) /\ Len(waiters') = Len(waiters) - 1
      /\ \A j \in 1..Len(waiters) - 1 : waiters'[j] = (IF j < i THEN waiters[j] ELSE waiters[j + 1])
  BY <1>1, <1>2, Unlinked
<1>4. ppc' = [ppc EXCEPT ![r] = "out"] /\ ppc[r] = "waiting" /\ ppc \in [Takers -> {"out", "waiting", "woken", "read"}]
  BY DEF PermitSignal, QInv, PermitQueue
<1>5. \A j \in 1..Len(waiters') : waiters'[j] \in Takers /\ waiters'[j] # r /\ ppc[waiters'[j]] = "waiting"
  BY <1>1, <1>2, <1>3 DEF QInv, PermitQueue
<1>6. \A j, k \in 1..Len(waiters') : waiters'[k] = waiters'[j] => k = j
  <2> DEFINE at(j) == IF j < i THEN j ELSE j + 1
  <2>1. \A j \in 1..Len(waiters') : at(j) \in 1..Len(waiters) /\ waiters'[j] = waiters[at(j)]
    BY <1>1, <1>3
  <2>2. \A j, k \in 1..Len(waiters') : at(j) = at(k) => j = k
    BY <1>1, <1>3
  <2> HIDE DEF at
  <2>3. QED
    BY <2>1, <2>2 DEF QInv, PermitQueue
<1>7. PermitQueue'
  BY <1>3, <1>4, <1>5, <1>6 DEF PermitQueue
<1>8. Wokens' = Wokens
  BY <1>4 DEF Wokens
<1>9. waiters # << >>
  BY <1>1, <1>2
<1>10. QED
  BY <1>7, <1>8, <1>9 DEF QInv, NoPermitIdle, PermitSignal

(* A write that gives a permit while readers wait wakes one for it.        *)
LEMMA WriterQueue == ASSUME PInv, QInv, UNCHANGED plab, PermitWrite PROVE QInv'
<1>1. Cardinality(Wokens) \in Nat /\ count \in Int
  BY WokensNat DEF PInv, PermitTypes
<1>2. CASE UNCHANGED <<waiters, ppc>> /\ (waiters = << >> \/ plab = "semaphore_rw")
  BY <1>2 DEF QInv, PermitQueue, Wokens, NoPermitIdle
<1>3. CASE waiters # << >> /\ Complete
  <2>1. ppc' = [ppc EXCEPT ![Head(waiters)] = "woken"] /\ waiters' = Tail(waiters) /\ count' = count + 1
        /\ plab = "complete"
    BY <1>3 DEF Complete
  <2>2. PermitQueue' /\ Head(waiters) \in Takers /\ ppc[Head(waiters)] = "waiting"
    BY <1>3, <2>1, QueueShrinks DEF QInv
  <2>3. Wokens' = Wokens \cup {Head(waiters)} /\ Head(waiters) \notin Wokens
    BY <2>1, <2>2 DEF QInv, PermitQueue, Wokens
  <2>4. IsFiniteSet(Wokens') /\ Cardinality(Wokens') = Cardinality(Wokens) + 1
    BY <2>3, FS_AddElement DEF QInv
  <2>5. QED
    BY <1>1, <1>3, <2>1, <2>2, <2>4 DEF QInv, NoPermitIdle
<1>4. CASE HandOver /\ plab # "complete"
  <2>1. ppc' = [ppc EXCEPT ![Head(waiters)] = "read"] /\ waiters' = Tail(waiters) /\ count' = count /\ waiters # << >>
    BY <1>4 DEF HandOver
  <2>2. PermitQueue' /\ Head(waiters) \in Takers /\ ppc[Head(waiters)] = "waiting"
    BY <2>1, QueueShrinks DEF QInv
  <2>3. Wokens' = Wokens
    BY <2>1, <2>2 DEF QInv, PermitQueue, Wokens
  <2>4. QED
    BY <1>4, <2>1, <2>2, <2>3 DEF QInv, NoPermitIdle
<1>5. QED
  BY <1>2, <1>3, <1>4 DEF PermitWrite, Complete, Up, UpRead, Release, HandOver

LEMMA QStep == ASSUME PInv, QInv, [PermitNext]_permitVars PROVE QInv'
<1>1. CASE UNCHANGED permitVars
  BY <1>1 DEF permitVars, QInv, PermitQueue, Wokens, NoPermitIdle
<1>2. CASE PermitNext
  BY <1>2, TakerQueue, SignalQueue, WriterQueue DEF PermitNext
<1>3. QED
  BY <1>1, <1>2

(* For any readers, signals and writes: while a reader waits, there is a   *)
(* woken reader for every permit of the completion, and the semaphore has  *)
(* no permit.  So no reader waits beside a free permit that nobody is on   *)
(* his way to take; this is the part of PermitUsed that is safety.         *)
THEOREM PermitNotIdle == PermitSpec => []NoPermitIdle
<1>1. PermitInit => PInv /\ QInv
  <2> SUFFICES ASSUME PermitInit PROVE PInv /\ QInv
    OBVIOUS
  <2>1. PInv
    BY PInit
  <2>2. Wokens = {}
    BY DEF PermitInit, Wokens
  <2>3. QED
    BY <2>1, <2>2, FS_EmptySet DEF PermitInit, QInv, PermitQueue, NoPermitIdle
<1>2. PInv /\ QInv /\ [PermitNext]_permitVars => (PInv /\ QInv)'
  BY PStep, QStep
<1>3. PInv /\ QInv => NoPermitIdle
  BY DEF QInv
<1>4. QED
  BY <1>1, <1>2, <1>3, PTL DEF PermitSpec
-----------------------------------------------------------------------------
(* Facts about the remainder, which the provers do not find by themselves: *)
(* it is unique, it goes up by one or back to zero, and it tells apart     *)
(* numbers that are less than the modulus apart.                           *)
LEMMA Mod == ASSUME NEW M \in Nat \ {0}, NEW x \in Int, NEW q \in Int, NEW r \in 0..M - 1, x = (M * q) + r
             PROVE x % M = r
OBVIOUS
LEMMA ModDiv == ASSUME NEW M \in Nat \ {0}, NEW x \in Int
             PROVE x % M \in 0..M - 1 /\ x \div M \in Int /\ x = (M * (x \div M)) + (x % M)
OBVIOUS
LEMMA ModNext == ASSUME NEW M \in Nat \ {0}, NEW x \in Int
             PROVE (x + 1) % M = (IF (x % M) + 1 >= M THEN 0 ELSE (x % M) + 1)
<1> DEFINE q == x \div M
           r == x % M
<1>1. q \in Int /\ r \in 0..M - 1 /\ x = (M * q) + r
  BY ModDiv
<1>2. CASE r + 1 < M
  <2>1. x + 1 = (M * q) + (r + 1) /\ r + 1 \in 0..M - 1
    BY <1>1, <1>2
  <2>2. (x + 1) % M = r + 1
    <3> HIDE DEF q, r
    <3> QED BY <1>1, <2>1, Mod
  <2>3. QED BY <2>2, <1>2, <1>1
<1>3. CASE r + 1 >= M
  <2>1. r + 1 = M
    BY <1>1, <1>3
  <2>2. x + 1 = (M * (q + 1)) + 0
    <3> HIDE DEF q, r
    <3> QED BY <1>1, <2>1
  <2>3. (x + 1) % M = 0
    <3> HIDE DEF q, r
    <3> QED BY <1>1, <2>2, Mod
  <2>4. QED BY <2>3, <1>3
<1>4. QED BY <1>1, <1>2, <1>3

LEMMA ModApart == ASSUME NEW M \in Nat \ {0}, NEW x \in Int, NEW y \in Int, x < y, y < x + M
             PROVE x % M # y % M
<1> DEFINE q == x \div M
           r == x % M
           p == y \div M
<1>1. q \in Int /\ r \in 0..M - 1 /\ x = (M * q) + r /\ p \in Int /\ y = (M * p) + (y % M) /\ y % M \in Int
  BY ModDiv
<1>2. SUFFICES ASSUME y % M = r PROVE FALSE
  OBVIOUS
<1> HIDE DEF q, r, p
<1>3. y - x = M * (p - q) /\ p - q \in Int
  BY <1>1, <1>2
<1>4. CASE p - q <= 0
  <2>1. M * (p - q) <= 0
    BY <1>4, <1>3
  <2>2. QED BY <2>1, <1>3
<1>5. CASE p - q >= 1
  <2>1. M * (p - q) >= M
    BY <1>5, <1>3
  <2>2. QED BY <2>1, <1>3
<1>6. QED BY <1>4, <1>5, <1>3
-----------------------------------------------------------------------------
(* The readers that have sent their key and not yet advanced buf_rd.       *)
Incs == {r \in KeyReaders : kpc[r] \in {"inc", "store"}}
KeyPlace == {"out", "test", "asleep", "send", "inc", "store", "wrap", "zero"}

RingTypes ==
  /\ edition \in {"first", "second"} /\ smp \in BOOLEAN /\ storeFirst \in BOOLEAN /\ (~smp => storeFirst)
  /\ hello_keys_buf \in [Slot -> Key \cup {"none"}] /\ buf_rd \in Nat /\ buf_wr \in 0..MAX_KEY_STATES
  /\ isr \in {"idle", "store", "advance", "late store", "wrap", "wake"} /\ val \in Key
  /\ kpc \in [KeyReaders -> KeyPlace] /\ IsFiniteSet(Incs) /\ loaded \in [KeyReaders -> Nat]
  /\ keys \in Seq(Key) /\ sent \in Seq(Key \cup {"none", "beyond"}) /\ overran \in BOOLEAN /\ overlap \in BOOLEAN
  /\ isr = "late store" => ~storeFirst

(* While the handler has advanced buf_wr and not yet wrapped it, buf_wr    *)
(* may be MAX_KEY_STATES.                                                  *)
WriteInv == IF isr \in {"late store", "wrap"} THEN buf_wr = ((KeysPosted - 1) % MAX_KEY_STATES) + 1
            ELSE buf_wr = KeysPosted % MAX_KEY_STATES

(* Who has stored a buf_rd beyond the ring has its wrap still before it.   *)
BeyondInv == buf_rd >= MAX_KEY_STATES =>
  \E r \in KeyReaders : kpc[r] = "zero" \/ (kpc[r] = "wrap" /\ loaded[r] + 1 >= MAX_KEY_STATES)

(* A reader that is alone past the wait finds buf_rd as it has left it.    *)
OneReaderPast == \A r, o \in KeyReaders : PastWait(r) /\ PastWait(o) => r = o
AloneInv ==
  /\ OneReaderPast /\ buf_rd % MAX_KEY_STATES = Taken % MAX_KEY_STATES
  /\ \A r \in KeyReaders : /\ kpc[r] = "store" => loaded[r] = buf_rd
                           /\ kpc[r] = "wrap" => buf_rd = loaded[r] + 1 /\ buf_rd <= MAX_KEY_STATES
                           /\ kpc[r] = "zero" => buf_rd = MAX_KEY_STATES

(* With such readers on the CPU of the handler, and a ring that has never  *)
(* been full: the slots from buf_rd to buf_wr hold the keys that nobody    *)
(* has taken, in order; the key the handler works on is the last one; a    *)
(* reader past the wait has a key to take.                                 *)
Taking(r) == kpc[r] \in {"send", "inc", "store"}
OneCpuInv ==
  /\ 0 <= Taken /\ Taken <= KeysPosted /\ KeysPosted < Taken + MAX_KEY_STATES
  /\ \A r \in KeyReaders : Taking(r) => Taken < KeysPosted
  /\ \A i \in Int : Taken <= i /\ i < KeysPosted => hello_keys_buf[i % MAX_KEY_STATES] = keys[i + 1]
  /\ isr = "store" => val = keys[Len(keys)]
  /\ isr = "advance" => hello_keys_buf[buf_wr] = keys[Len(keys)]
  /\ isr \in {"store", "advance"} => Len(keys) > 0
  /\ Len(sent) <= Len(keys) /\ \A i \in 1..Len(sent) : sent[i] = keys[i]

Calm == ~overran /\ ~overlap /\ ~smp
RInv == RingTypes /\ WriteInv /\ BeyondInv /\ (~overlap => AloneInv) /\ (Calm => OneCpuInv)
-----------------------------------------------------------------------------
ringParams == <<edition, smp, storeFirst>>

(* The counts are integers.                                                *)
LEMMA RingCounts == ASSUME RingTypes PROVE KeysPosted \in Int /\ Taken \in Int /\ Cardinality(Incs) \in Nat
                       /\ Taken = Len(sent) - Cardinality(Incs)
<1>1. Cardinality(Incs) \in Nat
  BY FS_CardinalityType DEF RingTypes
<1>2. Len(keys) \in Nat /\ Len(sent) \in Nat
  <2>1. keys \in Seq(Key) /\ sent \in Seq(Key \cup {"none", "beyond"})
    BY DEF RingTypes
  <2>2. QED
    BY <2>1
<1>3. QED
  BY <1>1, <1>2 DEF KeysPosted, Taken, Incs

(* The histories are sequences.                                            *)
LEMMA RingSeqs == ASSUME RingTypes
  PROVE keys \in Seq(Key) /\ sent \in Seq(Key \cup {"none", "beyond"}) /\ Len(keys) \in Nat /\ Len(sent) \in Nat
<1>1. keys \in Seq(Key) /\ sent \in Seq(Key \cup {"none", "beyond"})
  BY DEF RingTypes
<1>2. QED
  BY <1>1

(* A sequence with one more at its end.                                    *)
LEMMA Appended == ASSUME NEW S, NEW s \in Seq(S), NEW e \in S
  PROVE /\ Append(s, e) \in Seq(S) /\ Len(Append(s, e)) = Len(s) + 1 /\ Append(s, e)[Len(s) + 1] = e
        /\ \A i \in 1..Len(s) : Append(s, e)[i] = s[i]
OBVIOUS

(* Outside wrap and zero, a reader that is alone finds buf_rd in the ring; *)
(* and so does whoever gets past the wait when nobody is.                  *)
LEMMA AloneInRing ==
  ASSUME RInv, ~overlap, \A r \in KeyReaders : kpc[r] \notin {"wrap", "zero"}
  PROVE  buf_rd \in Slot /\ buf_rd = Taken % MAX_KEY_STATES
<1> USE KeyRingAssumption
<1>1. buf_rd \in Slot
  <2>1. ~(buf_rd >= MAX_KEY_STATES)
    BY DEF RInv, BeyondInv
  <2>2. buf_rd \in Nat
    BY DEF RInv, RingTypes
  <2>3. QED
    BY <2>1, <2>2 DEF Slot
<1>2. buf_rd % MAX_KEY_STATES = buf_rd
  BY <1>1 DEF Slot
<1>3. QED
  BY <1>1, <1>2 DEF RInv, AloneInv
LEMMA AlonePast ==
  ASSUME RInv, ~overlap, NEW r \in KeyReaders, Taking(r)
  PROVE  buf_rd \in Slot /\ buf_rd = Taken % MAX_KEY_STATES
<1>1. \A o \in KeyReaders : kpc[o] \notin {"wrap", "zero"}
  BY DEF RInv, AloneInv, OneReaderPast, PastWait, Taking
<1>2. QED
  BY <1>1, AloneInRing

(* A step that leaves buf_rd alone and the readers past the wait, or takes *)
(* away one that has sent nothing.                                         *)
LEMMA AloneStays ==
  ASSUME RInv, kpc' \in [KeyReaders -> KeyPlace], UNCHANGED <<buf_rd, loaded, sent, overlap>>,
         \A r \in KeyReaders : kpc'[r] = kpc[r] \/ (kpc[r] \in {"out", "test", "asleep", "send"} /\ kpc'[r] \in {"out", "test", "asleep"})
  PROVE  Incs' = Incs /\ Taken' = Taken /\ BeyondInv' /\ (~overlap' => AloneInv')
         /\ \A r \in KeyReaders : Taking(r)' => Taking(r)
<1>1. Incs' = Incs
  BY DEF Incs
<1>2. Taken' = Taken
  BY <1>1 DEF Taken, Incs
<1>3. BeyondInv'
  BY DEF RInv, BeyondInv
<1>4. ASSUME ~overlap' PROVE AloneInv'
  <2>1. AloneInv
    BY <1>4 DEF RInv
  <2>2. OneReaderPast'
    BY <2>1 DEF AloneInv, OneReaderPast, PastWait
  <2>3. QED
    BY <1>2, <2>1, <2>2 DEF AloneInv
<1>5. \A r \in KeyReaders : Taking(r)' => Taking(r)
  BY DEF Taking
<1>6. QED
  BY <1>1, <1>2, <1>3, <1>4, <1>5

(* The interrupt: its key is in no slot yet.                               *)
LEMMA InterruptKeeps == ASSUME RInv, UNCHANGED ringParams, Interrupt PROVE RInv'
<1> USE KeyRingAssumption
<1>0. Incs' = Incs /\ Taken' = Taken /\ BeyondInv' /\ (~overlap' => AloneInv')
  BY AloneStays DEF Interrupt, RInv, RingTypes
<1>1. PICK k \in Key : val' = k /\ keys' = Append(keys, k)
  BY DEF Interrupt
<1>2. RingTypes'
  <2>1. keys' \in Seq(Key)
    BY <1>1, RingSeqs, Appended DEF RInv
  <2>2. QED
    BY <1>0, <1>1, <2>1 DEF RInv, RingTypes, ringParams, Interrupt
<1>3. Len(keys') = Len(keys) + 1 /\ Len(keys) \in Nat /\ keys'[Len(keys')] = k
      /\ \A i \in 1..Len(keys) : keys'[i] = keys[i]
  BY <1>1, RingSeqs, Appended DEF RInv
<1>4. KeysPosted' = KeysPosted /\ KeysPosted \in Int /\ Taken \in Int /\ KeysPosted = Len(keys)
  BY <1>1, <1>3, RingCounts DEF RInv, RingTypes, Interrupt, KeysPosted
<1>5. WriteInv'
  BY <1>4 DEF RInv, WriteInv, Interrupt
<1>6. ASSUME Calm' PROVE OneCpuInv'
  <2>1. Calm /\ OneCpuInv
    BY <1>6 DEF Calm, Interrupt, ringParams, RInv
  <2>2. isr' = "store" 
    BY <1>6 DEF Calm, Interrupt, RInv, RingTypes, ringParams
  <2>3. \A i \in Int : Taken' <= i /\ i < KeysPosted' => hello_keys_buf'[i % MAX_KEY_STATES] = keys'[i + 1]
    <3> SUFFICES ASSUME NEW i \in Int, Taken <= i, i < KeysPosted PROVE hello_keys_buf[i % MAX_KEY_STATES] = keys'[i + 1]
      BY <1>0, <1>4 DEF Interrupt
    <3>1. i >= 0
      BY <2>1, <1>4 DEF OneCpuInv
    <3> QED BY <2>1, <3>1, <1>3, <1>4 DEF OneCpuInv
  <2>4. Len(sent)' <= Len(keys)' /\ \A i \in 1..Len(sent)' : sent'[i] = keys'[i]
    BY <2>1, <1>3, RingSeqs DEF OneCpuInv, Interrupt, RInv
  <2>5. isr' = "store" => val' = keys'[Len(keys')]
    BY <1>1, <1>3
  <2>6. QED
    BY <1>0, <1>3, <1>4, <2>1, <2>2, <2>3, <2>4, <2>5 DEF OneCpuInv, Interrupt, Taking
<1>7. QED
  BY <1>0, <1>2, <1>5, <1>6 DEF RInv

(* A step that only moves readers, none of them past the wait.             *)
LEMMA MovesKeep ==
  ASSUME RInv, kpc' \in [KeyReaders -> KeyPlace],
         UNCHANGED <<edition, smp, storeFirst, hello_keys_buf, buf_rd, buf_wr, loaded, val, keys, sent, overran, overlap>>,
         isr' = isr \/ (isr = "wake" /\ isr' = "idle"),
         \A r \in KeyReaders : kpc'[r] = kpc[r] \/ (kpc[r] \in {"out", "test", "asleep", "send"} /\ kpc'[r] \in {"out", "test", "asleep"})
  PROVE  RInv'
<1>1. Incs' = Incs /\ Taken' = Taken /\ BeyondInv' /\ (~overlap' => AloneInv') /\ \A r \in KeyReaders : Taking(r)' => Taking(r)
  BY AloneStays
<1>2. KeysPosted' = KeysPosted
  BY DEF KeysPosted
<1>3. RingTypes'
  BY <1>1 DEF RInv, RingTypes
<1>4. WriteInv'
  BY <1>2 DEF RInv, WriteInv
<1>5. ASSUME Calm' PROVE OneCpuInv'
  <2>1. OneCpuInv
    BY <1>5 DEF RInv, Calm
  <2>2. QED
    BY <1>1, <1>2, <2>1 DEF OneCpuInv
<1>6. QED
  BY <1>1, <1>3, <1>4, <1>5 DEF RInv

(* A reader gets past the wait only when the indices differ, and then      *)
(* there is a key for it.                                                  *)
LEMMA KeyTestKeeps == ASSUME RInv, UNCHANGED ringParams, NEW r \in KeyReaders, KeyTest(r) PROVE RInv'
<1>1. CASE buf_wr = buf_rd
  <2>1. overlap' = overlap
    BY <1>1 DEF KeyTest, RInv, RingTypes
  <2>2. kpc' = [kpc EXCEPT ![r] = "asleep"] /\ kpc[r] = "test"
    BY <1>1 DEF KeyTest, RingGoto
  <2>3. kpc \in [KeyReaders -> KeyPlace] /\ "asleep" \in KeyPlace
    BY DEF RInv, RingTypes, KeyPlace
  <2>4. /\ kpc' \in [KeyReaders -> KeyPlace]
        /\ \A o \in KeyReaders : kpc'[o] = kpc[o] \/ (kpc[o] = "test" /\ kpc'[o] = "asleep")
    BY <2>2, <2>3
  <2>5. QED
    BY <2>1, <2>4, MovesKeep DEF KeyTest, ringParams
<1>2. CASE buf_wr # buf_rd
  <2>1. kpc' = [kpc EXCEPT ![r] = "send"] /\ kpc[r] = "test"
    BY <1>2 DEF KeyTest, RingGoto
  <2>2. kpc \in [KeyReaders -> KeyPlace] /\ "send" \in KeyPlace
    BY DEF RInv, RingTypes, KeyPlace
  <2>3. kpc' \in [KeyReaders -> KeyPlace] /\ Incs' = Incs
        /\ \A o \in KeyReaders : o # r => kpc'[o] = kpc[o]
    BY <2>1, <2>2 DEF Incs
  <2>4. KeysPosted' = KeysPosted /\ Taken' = Taken /\ KeysPosted \in Int /\ Taken \in Int
    BY <2>3, RingCounts DEF KeysPosted, Taken, Incs, KeyTest, RInv
  <2>5. RingTypes' /\ WriteInv'
    BY <2>3, <2>4 DEF RInv, RingTypes, WriteInv, KeyTest, ringParams
  <2>6. BeyondInv'
    BY <2>1, <2>2 DEF RInv, BeyondInv, KeyTest
  <2>7. ASSUME ~overlap' PROVE AloneInv' /\ \A o \in KeyReaders : ~PastWait(o)
    <3>1. ~overlap /\ AloneInv /\ \A o \in KeyReaders : ~PastWait(o)
      BY <2>7, <1>2 DEF RInv, RingTypes, KeyTest
    <3>2. OneReaderPast'
      BY <3>1, <2>1, <2>2 DEF OneReaderPast, PastWait
    <3>3. QED
      BY <3>1, <3>2, <2>1, <2>2, <2>4 DEF AloneInv, KeyTest, PastWait
  <2>8. ASSUME Calm' PROVE OneCpuInv'
    <3>1. OneCpuInv /\ isr = "idle" /\ ~overlap /\ \A o \in KeyReaders : ~PastWait(o)
      BY <2>7, <2>8, <1>2 DEF RInv, RingTypes, Calm, KeyTest, RingGoto, ringParams
    <3>2. buf_rd = Taken % MAX_KEY_STATES
      BY <3>1, AloneInRing DEF PastWait
    <3>3. Taken < KeysPosted
      BY <3>1, <3>2, <1>2, <2>4 DEF RInv, WriteInv, OneCpuInv
    <3>4. QED
      BY <3>1, <3>3, <2>4 DEF OneCpuInv, KeyTest
  <2>9. QED
    BY <2>5, <2>6, <2>7, <2>8 DEF RInv
<1>3. QED
  BY <1>1, <1>2

(* The slot the handler writes to holds no key that is still to be read.   *)
LEMMA StoreKeeps == ASSUME RInv, UNCHANGED ringParams, Store PROVE RInv'
<1> USE KeyRingAssumption
<1>0. Incs' = Incs /\ Taken' = Taken /\ BeyondInv' /\ (~overlap' => AloneInv')
  BY AloneStays DEF Store, RInv, RingTypes
<1>1. KeysPosted' = KeysPosted
  BY DEF Store, KeysPosted
<1>2. buf_wr \in Slot /\ KeysPosted \in Int /\ Taken \in Int /\ buf_wr = KeysPosted % MAX_KEY_STATES
  BY RingCounts, ModDiv DEF RInv, WriteInv, Store, Slot
<1>3. hello_keys_buf' \in [Slot -> Key \cup {"none"}]
  BY <1>2 DEF RInv, RingTypes, Store
<1>4. RingTypes' /\ WriteInv'
  BY <1>0, <1>1, <1>3 DEF RInv, RingTypes, WriteInv, Store, ringParams
<1>5. ASSUME Calm' PROVE OneCpuInv'
  <2>1. OneCpuInv
    BY <1>5 DEF RInv, Calm, Store, ringParams
  <2>2. ASSUME NEW i \in Int, Taken <= i, i < KeysPosted
        PROVE  hello_keys_buf'[i % MAX_KEY_STATES] = hello_keys_buf[i % MAX_KEY_STATES]
    <3>1. i % MAX_KEY_STATES # buf_wr /\ i % MAX_KEY_STATES \in Slot
      <4>1. i % MAX_KEY_STATES # KeysPosted % MAX_KEY_STATES
        <5>1. KeysPosted < i + MAX_KEY_STATES
          BY <1>2, <2>1, <2>2 DEF OneCpuInv
        <5>2. QED
          BY <5>1, <1>2, <2>2, ModApart
      <4>2. i % MAX_KEY_STATES \in 0..MAX_KEY_STATES - 1
        BY ModDiv
      <4>3. QED
        BY <4>1, <4>2, <1>2 DEF Slot
    <3>2. QED
      BY <3>1 DEF Store, RInv, RingTypes
  <2>3. hello_keys_buf'[buf_wr] = keys[Len(keys)]
    BY <1>2, <2>1 DEF Store, OneCpuInv, RInv, RingTypes
  <2>4. QED
    BY <1>0, <1>1, <2>1, <2>2, <2>3 DEF OneCpuInv, Store, Taking
<1>6. QED
  BY <1>0, <1>4, <1>5 DEF RInv

(* Advancing buf_wr makes one more key readable; the ring is full, and     *)
(* overran says so, before it makes the oldest unreadable.                 *)
LEMMA AdvanceKeeps == ASSUME RInv, UNCHANGED ringParams, Advance PROVE RInv'
<1> USE KeyRingAssumption
<1>0. Incs' = Incs /\ Taken' = Taken /\ BeyondInv' /\ (~overlap' => AloneInv')
  BY AloneStays DEF Advance, RInv, RingTypes
<1>1. KeysPosted' = KeysPosted + 1 /\ KeysPosted \in Int /\ Taken \in Int /\ KeysPosted = Len(keys) - 1
  <2>1. KeysPosted' = Len(keys) /\ KeysPosted = Len(keys) - 1 /\ Len(keys) \in Nat
    <3>1. isr = "advance" /\ isr' \notin {"store", "advance"} /\ keys' = keys
      BY DEF Advance
    <3>2. QED
      BY <3>1, RingSeqs DEF KeysPosted, RInv
  <2>2. QED
    BY <2>1, RingCounts DEF RInv
<1>2. buf_wr = KeysPosted % MAX_KEY_STATES /\ buf_wr \in Slot /\ buf_wr' = buf_wr + 1
  BY <1>1, ModDiv DEF RInv, WriteInv, Advance, Slot
<1>3. buf_wr' \in 0..MAX_KEY_STATES /\ isr' \in {"late store", "wrap"}
  <2>1. buf_wr' \in 0..MAX_KEY_STATES
    BY <1>2 DEF Slot
  <2>2. QED
    BY <2>1 DEF Advance
<1>4. RingTypes'
  BY <1>0, <1>3 DEF RInv, RingTypes, Advance, ringParams
<1>5. WriteInv'
  <2>1. KeysPosted' - 1 = KeysPosted
    BY <1>1
  <2>2. QED
    BY <1>1, <1>2, <1>3, <2>1 DEF RInv, WriteInv, Advance
<1>6. ASSUME Calm' PROVE OneCpuInv'
  <2>1. OneCpuInv /\ KeysPosted + 1 < Taken + MAX_KEY_STATES
    <3>1. Calm /\ ~(Unread + 1 >= MAX_KEY_STATES)
      BY <1>6 DEF Calm, Advance, ringParams, RInv, RingTypes
    <3>2. QED
      BY <3>1, <1>1 DEF RInv, Unread
  <2>2. hello_keys_buf[KeysPosted % MAX_KEY_STATES] = keys[KeysPosted + 1]
    <3>1. KeysPosted + 1 = Len(keys)
      BY <1>1, RingSeqs DEF RInv
    <3>2. QED
      BY <3>1, <1>2, <2>1 DEF OneCpuInv, Advance
  <2>3. \A i \in Int : Taken <= i /\ i < KeysPosted + 1 => hello_keys_buf[i % MAX_KEY_STATES] = keys[i + 1]
    <3> SUFFICES ASSUME NEW i \in Int, Taken <= i, i < KeysPosted + 1
                 PROVE hello_keys_buf[i % MAX_KEY_STATES] = keys[i + 1]
      OBVIOUS
    <3>1. i = KeysPosted \/ i < KeysPosted
      BY <1>1
    <3>2. QED
      BY <3>1, <2>1, <2>2 DEF OneCpuInv
  <2>4. Taken <= KeysPosted + 1 /\ \A r \in KeyReaders : Taking(r)' => Taken < KeysPosted + 1
    <3>1. Taken <= KeysPosted /\ \A r \in KeyReaders : Taking(r)' => Taken < KeysPosted
      BY <2>1 DEF OneCpuInv, Taking, Advance
    <3>2. QED
      BY <3>1, <1>1
  <2>5. QED
    BY <1>0, <1>1, <1>3, <2>1, <2>3, <2>4 DEF OneCpuInv, Advance
<1>7. QED
  BY <1>0, <1>4, <1>5, <1>6 DEF RInv

(* A store after the advance, which only a reader on another CPU can see.  *)
LEMMA LateStoreKeeps == ASSUME RInv, UNCHANGED ringParams, LateStore PROVE RInv'
<1> USE KeyRingAssumption
<1>0. Incs' = Incs /\ Taken' = Taken /\ BeyondInv' /\ (~overlap' => AloneInv')
  BY AloneStays DEF LateStore, RInv, RingTypes
<1>1. KeysPosted' = KeysPosted /\ KeysPosted \in Int
  BY RingCounts DEF LateStore, KeysPosted, RInv
<1>2. buf_wr - 1 \in Slot
  <2>1. KeysPosted - 1 \in Int
    BY <1>1
  <2>2. (KeysPosted - 1) % MAX_KEY_STATES \in 0..MAX_KEY_STATES - 1
    BY <2>1, ModDiv
  <2>3. buf_wr = ((KeysPosted - 1) % MAX_KEY_STATES) + 1
    BY DEF RInv, WriteInv, LateStore
  <2>4. QED
    BY <2>2, <2>3 DEF Slot
<1>3. hello_keys_buf' \in [Slot -> Key \cup {"none"}]
  BY <1>2 DEF RInv, RingTypes, LateStore
<1>4. RingTypes' /\ WriteInv'
  BY <1>0, <1>1, <1>3 DEF RInv, RingTypes, WriteInv, LateStore, ringParams
<1>5. ~Calm'
  BY DEF RInv, RingTypes, LateStore, Calm, ringParams
<1>6. QED
  BY <1>0, <1>4, <1>5 DEF RInv

(* Wrapping buf_wr.                                                        *)
LEMMA WrapWrKeeps == ASSUME RInv, UNCHANGED ringParams, WrapWr PROVE RInv'
<1> USE KeyRingAssumption
<1>0. Incs' = Incs /\ Taken' = Taken /\ BeyondInv' /\ (~overlap' => AloneInv')
  BY AloneStays DEF WrapWr, RInv, RingTypes
<1>1. KeysPosted' = KeysPosted /\ KeysPosted \in Int
  BY RingCounts DEF WrapWr, KeysPosted, RInv
<1>2. buf_wr' = KeysPosted % MAX_KEY_STATES /\ buf_wr' \in Slot
  <2>1. (KeysPosted - 1) % MAX_KEY_STATES \in 0..MAX_KEY_STATES - 1
    BY <1>1, ModDiv
  <2>2. ((KeysPosted - 1) + 1) % MAX_KEY_STATES
          = (IF ((KeysPosted - 1) % MAX_KEY_STATES) + 1 >= MAX_KEY_STATES THEN 0 ELSE ((KeysPosted - 1) % MAX_KEY_STATES) + 1)
    <3>1. KeysPosted - 1 \in Int
      BY <1>1
    <3>2. QED
      BY <3>1, ModNext
  <2>3. (KeysPosted - 1) + 1 = KeysPosted
    BY <1>1
  <2>4. buf_wr = ((KeysPosted - 1) % MAX_KEY_STATES) + 1 /\ buf_wr' = (IF buf_wr >= MAX_KEY_STATES THEN 0 ELSE buf_wr)
    BY DEF RInv, WriteInv, WrapWr, Wrapped
  <2>5. buf_wr' = KeysPosted % MAX_KEY_STATES
    BY <2>2, <2>3, <2>4
  <2>6. KeysPosted % MAX_KEY_STATES \in 0..MAX_KEY_STATES - 1
    BY <1>1, ModDiv
  <2>7. QED
    BY <2>5, <2>6 DEF Slot
<1>3. RingTypes' /\ WriteInv'
  BY <1>0, <1>1, <1>2 DEF RInv, RingTypes, WriteInv, WrapWr, ringParams, Slot
<1>4. ASSUME Calm' PROVE OneCpuInv'
  <2>1. OneCpuInv
    BY <1>4 DEF RInv, Calm, WrapWr, ringParams
  <2>2. QED
    BY <1>0, <1>1, <2>1 DEF OneCpuInv, WrapWr, Taking
<1>5. QED
  BY <1>0, <1>3, <1>4 DEF RInv

(* The reader sends the oldest key that nobody has taken.                  *)
LEMMA SendKeyKeeps == ASSUME RInv, UNCHANGED ringParams, NEW r \in KeyReaders, SendKey(r) PROVE RInv'
<1> USE KeyRingAssumption
<1> DEFINE k == IF buf_rd \in Slot THEN hello_keys_buf[buf_rd] ELSE "beyond"
<1>1. kpc' = [kpc EXCEPT ![r] = "inc"] /\ kpc[r] = "send" /\ sent' = Append(sent, k)
  BY DEF SendKey, RingGoto
<1>2. k \in Key \cup {"none", "beyond"} /\ kpc \in [KeyReaders -> KeyPlace] /\ kpc' \in [KeyReaders -> KeyPlace]
  BY <1>1 DEF RInv, RingTypes, KeyPlace
<1>3. Incs' = Incs \cup {r} /\ r \notin Incs /\ IsFiniteSet(Incs)
  BY <1>1, <1>2 DEF Incs, RInv, RingTypes
<1>4. IsFiniteSet(Incs') /\ Cardinality(Incs') = Cardinality(Incs) + 1
  BY <1>3, FS_AddElement
<1>5. /\ Len(sent') = Len(sent) + 1 /\ sent' \in Seq(Key \cup {"none", "beyond"}) /\ sent'[Len(sent) + 1] = k
      /\ \A i \in 1..Len(sent) : sent'[i] = sent[i]
  <2> HIDE DEF k
  <2> QED BY <1>1, <1>2, RingSeqs, Appended DEF RInv
<1>6. RingTypes'
  BY <1>2, <1>4, <1>5 DEF RInv, RingTypes, SendKey, ringParams
<1>7. KeysPosted' = KeysPosted /\ Taken' = Taken /\ KeysPosted \in Int /\ Taken \in Int /\ KeysPosted <= Len(keys)
      /\ Taken = Len(sent) - Cardinality(Incs)
  <2>1. Taken = Len(sent) - Cardinality(Incs) /\ Taken' = Len(sent') - Cardinality(Incs')
    BY DEF Taken, Incs
  <2>2. Cardinality(Incs) \in Nat /\ Len(sent) \in Nat /\ Len(keys) \in Nat
    BY RingCounts, RingSeqs DEF RInv
  <2>3. KeysPosted' = KeysPosted /\ KeysPosted \in Int /\ KeysPosted <= Len(keys)
    BY <2>2 DEF KeysPosted, SendKey
  <2>4. QED
    BY <2>1, <2>2, <2>3, <1>4, <1>5
<1>8. WriteInv' /\ BeyondInv'
  BY <1>1, <1>2, <1>7 DEF RInv, WriteInv, BeyondInv, SendKey
<1>9. ASSUME ~overlap' PROVE AloneInv'
  <2>1. AloneInv
    BY <1>9 DEF RInv, SendKey
  <2>2. OneReaderPast'
    BY <2>1, <1>1, <1>2 DEF AloneInv, OneReaderPast, PastWait
  <2>3. QED
    BY <2>1, <2>2, <1>1, <1>2, <1>7 DEF AloneInv, SendKey
<1>10. ASSUME Calm' PROVE OneCpuInv'
  <2>1. OneCpuInv /\ AloneInv /\ ~overlap
    BY <1>10 DEF RInv, Calm, SendKey, ringParams
  <2>2. Taken < KeysPosted
    BY <2>1, <1>1 DEF OneCpuInv, Taking
  <2>3. Taken = Len(sent)
    <3>1. Incs = {}
      BY <2>1, <1>1 DEF AloneInv, OneReaderPast, PastWait, Incs
    <3>2. Cardinality(Incs) = 0
      BY <3>1, FS_EmptySet
    <3>3. QED
      BY <3>2, <1>7, RingSeqs DEF RInv
  <2>4. k = keys[Len(sent) + 1] /\ Len(sent) < Len(keys)
    <3>1. hello_keys_buf[Taken % MAX_KEY_STATES] = keys[Taken + 1]
      BY <2>1, <2>2, <1>7 DEF OneCpuInv
    <3>2. buf_rd \in Slot /\ buf_rd = Taken % MAX_KEY_STATES
      BY <2>1, <1>1, AlonePast DEF Taking
    <3>3. Len(sent) < Len(keys)
      BY <2>2, <2>3, <1>7, RingSeqs DEF RInv
    <3>4. QED
      BY <3>1, <3>2, <3>3, <2>3
  <2>5. Len(sent') <= Len(keys) /\ \A i \in 1..Len(sent') : sent'[i] = keys[i]
    <3>1. Len(sent) \in Nat /\ Len(keys) \in Nat
      BY RingSeqs DEF RInv
    <3> HIDE DEF k
    <3>2. QED
      BY <3>1, <2>1, <2>4, <1>5 DEF OneCpuInv
  <2>6. QED
    BY <1>7, <2>1, <2>2, <2>5 DEF OneCpuInv, SendKey
<1>11. QED
  BY <1>6, <1>8, <1>9, <1>10 DEF RInv

(* A reader that is alone loads the buf_rd that it will advance.           *)
LEMMA LoadRdKeeps == ASSUME RInv, UNCHANGED ringParams, NEW r \in KeyReaders, LoadRd(r) PROVE RInv'
<1>1. /\ kpc' = [kpc EXCEPT ![r] = "store"] /\ kpc[r] = "inc" /\ loaded' = [loaded EXCEPT ![r] = buf_rd]
      /\ kpc \in [KeyReaders -> KeyPlace] /\ loaded \in [KeyReaders -> Nat] /\ buf_rd \in Nat
  BY DEF LoadRd, RingGoto, RInv, RingTypes
<1>2. kpc' \in [KeyReaders -> KeyPlace] /\ loaded' \in [KeyReaders -> Nat] /\ Incs' = Incs
  BY <1>1 DEF KeyPlace, Incs
<1>3. Taken' = Taken /\ KeysPosted' = KeysPosted
  BY <1>2 DEF Taken, KeysPosted, Incs, LoadRd
<1>4. RingTypes' /\ WriteInv'
  BY <1>2, <1>3 DEF RInv, RingTypes, WriteInv, LoadRd, ringParams
<1>5. BeyondInv'
  BY <1>1 DEF RInv, BeyondInv, LoadRd
<1>6. ASSUME ~overlap' PROVE AloneInv'
  <2>1. AloneInv
    BY <1>6 DEF RInv, LoadRd
  <2>2. OneReaderPast'
    BY <2>1, <1>1 DEF AloneInv, OneReaderPast, PastWait
  <2>3. QED
    BY <2>1, <2>2, <1>1, <1>3 DEF AloneInv, LoadRd
<1>7. ASSUME Calm' PROVE OneCpuInv'
  <2>1. OneCpuInv
    BY <1>7 DEF RInv, Calm, LoadRd, ringParams
  <2>2. \A o \in KeyReaders : Taking(o)' => Taking(o)
    BY <1>1 DEF Taking
  <2>3. QED
    BY <1>3, <2>1, <2>2 DEF OneCpuInv, LoadRd
<1>8. QED
  BY <1>4, <1>5, <1>6, <1>7 DEF RInv

(* buf_rd moves on, the key is taken.                                      *)
LEMMA StoreRdKeeps == ASSUME RInv, UNCHANGED ringParams, NEW r \in KeyReaders, StoreRd(r) PROVE RInv'
<1> USE KeyRingAssumption
<1>1. PICK to \in {"wrap", "out"} :
        /\ kpc' = [kpc EXCEPT ![r] = to] /\ kpc[r] = "store"
        /\ to = "wrap" => buf_rd' = loaded[r] + 1 /\ loaded' = loaded
        /\ to = "out" => buf_rd' = Wrapped(loaded[r] + 1) /\ loaded' = [loaded EXCEPT ![r] = 0]
  BY DEF StoreRd, RingGoto
<1>2. kpc \in [KeyReaders -> KeyPlace] /\ kpc' \in [KeyReaders -> KeyPlace] /\ loaded \in [KeyReaders -> Nat]
      /\ loaded' \in [KeyReaders -> Nat] /\ buf_rd' \in Nat
  <2>1. kpc \in [KeyReaders -> KeyPlace] /\ loaded \in [KeyReaders -> Nat]
    BY DEF RInv, RingTypes
  <2>2. kpc' \in [KeyReaders -> KeyPlace]
    BY <1>1, <2>1 DEF KeyPlace
  <2>3. loaded' \in [KeyReaders -> Nat]
    BY <1>1, <2>1
  <2>4. loaded[r] + 1 \in Nat
    BY <2>1
  <2>5. buf_rd' \in Nat
    BY <1>1, <2>4 DEF Wrapped
  <2>6. QED
    BY <2>1, <2>2, <2>3, <2>5
<1>3. Incs' = Incs \ {r} /\ r \in Incs /\ IsFiniteSet(Incs)
  BY <1>1, <1>2 DEF Incs, RInv, RingTypes
<1>4. IsFiniteSet(Incs') /\ Cardinality(Incs') = Cardinality(Incs) - 1
  BY <1>3, FS_RemoveElement
<1>5. KeysPosted' = KeysPosted /\ Taken' = Taken + 1 /\ KeysPosted \in Int /\ Taken \in Int
  <2>1. Taken = Len(sent) - Cardinality(Incs) /\ Taken' = Len(sent') - Cardinality(Incs') /\ sent' = sent
    BY DEF Taken, Incs, StoreRd
  <2>2. Cardinality(Incs) \in Nat /\ Len(sent) \in Nat /\ Len(keys) \in Nat
    BY RingCounts, RingSeqs DEF RInv
  <2>3. KeysPosted' = KeysPosted /\ KeysPosted \in Int
    BY <2>2 DEF KeysPosted, StoreRd
  <2>4. QED
    BY <2>1, <2>2, <2>3, <1>4
<1>6. RingTypes' /\ WriteInv'
  BY <1>2, <1>4, <1>5 DEF RInv, RingTypes, WriteInv, StoreRd, ringParams
<1>7. BeyondInv'
  <2> SUFFICES ASSUME buf_rd' >= MAX_KEY_STATES PROVE kpc'[r] = "wrap" /\ loaded'[r] + 1 >= MAX_KEY_STATES
    BY DEF BeyondInv
  <2>1. QED
    BY <1>1, <1>2 DEF Wrapped
<1>8. ASSUME ~overlap' PROVE AloneInv'
  <2>1. AloneInv /\ ~overlap
    BY <1>8 DEF RInv, StoreRd
  <2>2. OneReaderPast' /\ \A o \in KeyReaders : o # r => ~PastWait(o)'
    BY <2>1, <1>1, <1>2 DEF AloneInv, OneReaderPast, PastWait
  <2>3. buf_rd \in Slot /\ buf_rd = Taken % MAX_KEY_STATES /\ loaded[r] = buf_rd
    BY <2>1, <1>1, AlonePast DEF Taking, AloneInv
  <2>4. (Taken + 1) % MAX_KEY_STATES = Wrapped(buf_rd + 1)
    BY <2>3, <1>5, ModNext DEF Wrapped
  <2>5. buf_rd' \in 0..MAX_KEY_STATES /\ (buf_rd' = buf_rd + 1 \/ buf_rd' = Wrapped(buf_rd + 1))
    BY <1>1, <2>3 DEF Slot, Wrapped
  <2>6. buf_rd' % MAX_KEY_STATES = Wrapped(buf_rd + 1)
    <3>1. CASE buf_rd + 1 = MAX_KEY_STATES
      BY <3>1, <2>5 DEF Wrapped
    <3>2. CASE buf_rd + 1 < MAX_KEY_STATES
      BY <3>2, <2>3, <2>5 DEF Wrapped, Slot
    <3>3. QED
      BY <3>1, <3>2, <2>3 DEF Slot
  <2>7. \A o \in KeyReaders : /\ kpc'[o] = "store" => FALSE
                              /\ kpc'[o] = "wrap" => buf_rd' = loaded'[o] + 1
                              /\ kpc'[o] = "zero" => FALSE
    BY <2>2, <1>1, <1>2 DEF PastWait
  <2>8. QED
    BY <2>2, <2>4, <2>5, <2>6, <2>7, <1>5 DEF AloneInv
<1>9. ASSUME Calm' PROVE OneCpuInv'
  <2>1. OneCpuInv /\ AloneInv
    BY <1>9 DEF RInv, Calm, StoreRd, ringParams
  <2>2. \A o \in KeyReaders : ~Taking(o)'
    BY <2>1, <1>1, <1>2 DEF AloneInv, OneReaderPast, PastWait, Taking
  <2>3. Taken + 1 <= KeysPosted
    BY <2>1, <1>1, <1>5 DEF OneCpuInv, Taking
  <2>4. 0 <= Taken + 1 /\ KeysPosted < (Taken + 1) + MAX_KEY_STATES
    <3>1. 0 <= Taken /\ KeysPosted < Taken + MAX_KEY_STATES
      BY <2>1 DEF OneCpuInv
    <3>2. QED
      BY <3>1, <1>5
  <2>5. \A i \in Int : Taken + 1 <= i /\ i < KeysPosted => hello_keys_buf[i % MAX_KEY_STATES] = keys[i + 1]
    BY <1>5, <2>1 DEF OneCpuInv
  <2>6. QED
    BY <1>5, <2>1, <2>2, <2>3, <2>4, <2>5 DEF OneCpuInv, StoreRd
<1>10. QED
  BY <1>6, <1>7, <1>8, <1>9 DEF RInv

(* A buf_rd beyond the ring is seen by whoever has stored it.              *)
LEMMA WrapRdKeeps == ASSUME RInv, UNCHANGED ringParams, NEW r \in KeyReaders, WrapRd(r) PROVE RInv'
<1> USE KeyRingAssumption
<1>1. PICK seen \in {buf_rd, loaded[r] + 1} :
        kpc' = [kpc EXCEPT ![r] = IF seen >= MAX_KEY_STATES THEN "zero" ELSE "out"] /\ kpc[r] = "wrap"
  BY DEF WrapRd, RingGoto
<1>2. kpc \in [KeyReaders -> KeyPlace] /\ kpc' \in [KeyReaders -> KeyPlace] /\ loaded \in [KeyReaders -> Nat]
      /\ loaded' \in [KeyReaders -> Nat] /\ buf_rd \in Nat /\ Incs' = Incs
      /\ \A o \in KeyReaders : o # r => kpc'[o] = kpc[o] /\ loaded'[o] = loaded[o]
  BY <1>1 DEF RInv, RingTypes, KeyPlace, WrapRd, Incs
<1>3. Taken' = Taken /\ KeysPosted' = KeysPosted
  BY <1>2 DEF Taken, KeysPosted, Incs, WrapRd
<1>4. RingTypes' /\ WriteInv'
  BY <1>2, <1>3 DEF RInv, RingTypes, WriteInv, WrapRd, ringParams
<1>5. BeyondInv'
  <2> SUFFICES ASSUME buf_rd >= MAX_KEY_STATES
               PROVE \E o \in KeyReaders : kpc'[o] = "zero" \/ (kpc'[o] = "wrap" /\ loaded'[o] + 1 >= MAX_KEY_STATES)
    BY DEF BeyondInv, WrapRd
  <2>1. PICK o \in KeyReaders : kpc[o] = "zero" \/ (kpc[o] = "wrap" /\ loaded[o] + 1 >= MAX_KEY_STATES)
    BY DEF RInv, BeyondInv
  <2>2. CASE o # r
    BY <1>2, <2>1, <2>2
  <2>3. CASE o = r
    BY <1>1, <1>2, <2>1, <2>3
  <2>4. QED
    BY <2>2, <2>3
<1>6. ASSUME ~overlap' PROVE AloneInv'
  <2>1. AloneInv
    BY <1>6 DEF RInv, WrapRd
  <2>2. OneReaderPast' /\ \A o \in KeyReaders : o # r => ~PastWait(o)'
    BY <2>1, <1>1, <1>2 DEF AloneInv, OneReaderPast, PastWait
  <2>3. buf_rd = loaded[r] + 1 /\ buf_rd <= MAX_KEY_STATES
    BY <2>1, <1>1 DEF AloneInv
  <2>4. kpc'[r] = "zero" => buf_rd = MAX_KEY_STATES
    BY <1>1, <1>2, <2>3
  <2>5. kpc'[r] \in {"zero", "out"} /\ \A o \in KeyReaders : o # r => kpc'[o] \notin {"store", "wrap", "zero"}
    BY <1>1, <1>2, <2>2 DEF PastWait
  <2>6. QED
    BY <2>1, <2>2, <2>4, <2>5, <1>3 DEF AloneInv, WrapRd
<1>7. ASSUME Calm' PROVE OneCpuInv'
  <2>1. OneCpuInv
    BY <1>7 DEF RInv, Calm, WrapRd, ringParams
  <2>2. \A o \in KeyReaders : Taking(o)' => Taking(o)
    BY <1>1, <1>2 DEF Taking
  <2>3. QED
    BY <1>3, <2>1, <2>2 DEF OneCpuInv, WrapRd
<1>8. QED
  BY <1>4, <1>5, <1>6, <1>7 DEF RInv

LEMMA ZeroRdKeeps == ASSUME RInv, UNCHANGED ringParams, NEW r \in KeyReaders, ZeroRd(r) PROVE RInv'
<1> USE KeyRingAssumption
<1>1. kpc' = [kpc EXCEPT ![r] = "out"] /\ kpc[r] = "zero" /\ buf_rd' = 0
  BY DEF ZeroRd, RingGoto
<1>2. kpc \in [KeyReaders -> KeyPlace] /\ kpc' \in [KeyReaders -> KeyPlace] /\ Incs' = Incs
  BY <1>1 DEF RInv, RingTypes, KeyPlace, Incs
<1>3. Taken' = Taken /\ KeysPosted' = KeysPosted
  BY <1>2 DEF Taken, KeysPosted, Incs, ZeroRd
<1>4. RingTypes' /\ WriteInv' /\ BeyondInv'
  <2>1. /\ RingTypes /\ buf_rd' \in Nat
        /\ UNCHANGED <<edition, smp, storeFirst, hello_keys_buf, buf_wr, loaded, isr, val, keys, sent, overran, overlap>>
    BY <1>1 DEF RInv, ZeroRd, ringParams
  <2>2. RingTypes'
    BY <1>2, <2>1 DEF RingTypes
  <2>3. WriteInv'
    BY <1>3, <2>1 DEF RInv, WriteInv
  <2>4. BeyondInv'
    BY <1>1 DEF BeyondInv
  <2>5. QED
    BY <2>2, <2>3, <2>4
<1>5. ASSUME ~overlap' PROVE AloneInv'
  <2>1. AloneInv
    BY <1>5 DEF RInv, ZeroRd
  <2>2. OneReaderPast' /\ \A o \in KeyReaders : ~PastWait(o)'
    BY <2>1, <1>1, <1>2 DEF AloneInv, OneReaderPast, PastWait
  <2>3. buf_rd = MAX_KEY_STATES /\ MAX_KEY_STATES % MAX_KEY_STATES = 0 /\ 0 % MAX_KEY_STATES = 0
    BY <2>1, <1>1 DEF AloneInv
  <2>4. buf_rd' % MAX_KEY_STATES = Taken' % MAX_KEY_STATES
    BY <2>1, <2>3, <1>1, <1>3 DEF AloneInv
  <2>5. QED
    BY <2>2, <2>4 DEF AloneInv, PastWait
<1>6. ASSUME Calm' PROVE OneCpuInv'
  <2>1. OneCpuInv
    BY <1>6 DEF RInv, Calm, ZeroRd, ringParams
  <2>2. \A o \in KeyReaders : Taking(o)' => Taking(o)
    BY <1>1, <1>2 DEF Taking
  <2>3. QED
    BY <1>3, <2>1, <2>2 DEF OneCpuInv, ZeroRd
<1>7. QED
  BY <1>4, <1>5, <1>6 DEF RInv

(* The steps of the handler.                                               *)
LEMMA FinishKeeps == ASSUME RInv, UNCHANGED ringParams, Finish PROVE RInv'
<1>1. CASE KeyWake
  <2>1. kpc \in [KeyReaders -> KeyPlace]
    BY DEF RInv, RingTypes
  <2>2. kpc' \in [KeyReaders -> KeyPlace]
        /\ \A r \in KeyReaders : kpc'[r] = kpc[r] \/ (kpc[r] = "asleep" /\ kpc'[r] = "test")
    BY <1>1, <2>1 DEF KeyWake, KeyPlace
  <2>3. QED
    BY <1>1, <2>2, MovesKeep DEF KeyWake, ringParams
<1>2. QED
  BY <1>1, StoreKeeps, AdvanceKeeps, LateStoreKeeps, WrapWrKeeps DEF Finish

(* The steps of a reader.                                                  *)
LEMMA KeyReaderKeeps ==
  ASSUME RInv, UNCHANGED ringParams, NEW r \in KeyReaders, KeyRead(r) \/ KeyReadStep(r) \/ KeyFail(r)
  PROVE  RInv'
<1>1. CASE KeyRead(r) \/ KeyFail(r)
  <2>1. PICK to \in {"test", "out"} : kpc' = [kpc EXCEPT ![r] = to] /\ kpc[r] \in {"out", "asleep", "send"}
    BY <1>1 DEF KeyRead, KeyFail, RingGoto
  <2>2. kpc \in [KeyReaders -> KeyPlace]
    BY DEF RInv, RingTypes
  <2>3. kpc' \in [KeyReaders -> KeyPlace]
        /\ \A o \in KeyReaders : kpc'[o] = kpc[o] \/ (kpc[o] \in {"out", "asleep", "send"} /\ kpc'[o] \in {"test", "out"})
    BY <2>1, <2>2 DEF KeyPlace
  <2>4. QED
    BY <1>1, <2>3, MovesKeep DEF KeyRead, KeyFail, ringParams
<1>2. CASE KeyReadStep(r)
  BY <1>2, KeyTestKeeps, SendKeyKeeps, LoadRdKeeps, StoreRdKeeps, WrapRdKeeps, ZeroRdKeeps DEF KeyReadStep, AdvanceRd
<1>3. QED
  BY <1>1, <1>2

(* The ring is empty at first.                                             *)
LEMMA RInvInit == RingInit => RInv
<1> USE KeyRingAssumption
<1> SUFFICES ASSUME RingInit PROVE RInv
  OBVIOUS
<1>1. Incs = {} /\ IsFiniteSet(Incs) /\ Cardinality(Incs) = 0
  BY FS_EmptySet DEF RingInit, Incs
<1>2. RingTypes
  <2>1. 0 \in 0..MAX_KEY_STATES
    OBVIOUS
  <2>2. keys \in Seq(Key) /\ sent \in Seq(Key \cup {"none", "beyond"})
    BY DEF RingInit
  <2>3. QED
    BY <1>1, <2>1, <2>2 DEF RingInit, RingTypes, Key, KeyPlace
<1>3. Len(keys) = 0 /\ Len(sent) = 0
  BY DEF RingInit
<1>4. KeysPosted = 0 /\ Taken = 0
  BY <1>1, <1>3 DEF RingInit, KeysPosted, Taken, Incs
<1>5. 0 % MAX_KEY_STATES = 0
  OBVIOUS
<1>6. WriteInv /\ BeyondInv
  BY <1>4, <1>5 DEF RingInit, WriteInv, BeyondInv
<1>7. AloneInv
  BY <1>4 DEF RingInit, AloneInv, OneReaderPast, PastWait
<1>8. OneCpuInv
  BY <1>3, <1>4 DEF RingInit, OneCpuInv, Taking
<1>9. QED
  BY <1>2, <1>6, <1>7, <1>8 DEF RInv

(* The invariant implies the property.                                     *)
LEMMA RInvIndices == RInv => IndicesExact
<1> USE KeyRingAssumption
<1> SUFFICES ASSUME RInv PROVE buf_wr % MAX_KEY_STATES = KeysPosted % MAX_KEY_STATES
  BY DEF RInv, AloneInv, BeyondInv, IndicesExact
<1>1. KeysPosted \in Int
  BY RingCounts DEF RInv
<1>2. CASE isr \in {"late store", "wrap"}
  <2>1. buf_wr = ((KeysPosted - 1) % MAX_KEY_STATES) + 1 /\ KeysPosted - 1 \in Int
    <3>1. buf_wr = ((KeysPosted - 1) % MAX_KEY_STATES) + 1
      BY <1>2 DEF RInv, WriteInv
    <3>2. QED
      BY <3>1, <1>1
  <2>2. ((KeysPosted - 1) + 1) % MAX_KEY_STATES
          = (IF ((KeysPosted - 1) % MAX_KEY_STATES) + 1 >= MAX_KEY_STATES THEN 0 ELSE ((KeysPosted - 1) % MAX_KEY_STATES) + 1)
    BY <2>1, ModNext
  <2>3. (KeysPosted - 1) % MAX_KEY_STATES \in 0..MAX_KEY_STATES - 1 /\ (KeysPosted - 1) + 1 = KeysPosted
    BY <2>1, <1>1, ModDiv
  <2>4. CASE buf_wr = MAX_KEY_STATES
    <3>1. buf_wr % MAX_KEY_STATES = 0
      BY <2>4
    <3>2. KeysPosted % MAX_KEY_STATES = 0
      BY <2>1, <2>2, <2>3, <2>4
    <3>3. QED
      BY <3>1, <3>2
  <2>5. CASE buf_wr # MAX_KEY_STATES
    <3>1. buf_wr \in 0..MAX_KEY_STATES - 1 /\ KeysPosted % MAX_KEY_STATES = buf_wr
      BY <2>1, <2>2, <2>3, <2>5
    <3>2. buf_wr % MAX_KEY_STATES = buf_wr
      BY <3>1
    <3>3. QED
      BY <3>1, <3>2
  <2>6. QED
    BY <2>4, <2>5
<1>3. CASE isr \notin {"late store", "wrap"}
  <2>1. KeysPosted % MAX_KEY_STATES \in 0..MAX_KEY_STATES - 1 /\ buf_wr = KeysPosted % MAX_KEY_STATES
    BY <1>3, <1>1, ModDiv DEF RInv, WriteInv
  <2>2. buf_wr % MAX_KEY_STATES = buf_wr
    BY <2>1
  <2>3. QED
    BY <2>1, <2>2
<1>4. QED
  BY <1>2, <1>3

LEMMA RInvProves == RInv => KeysExact
<1> SUFFICES ASSUME RInv PROVE KeysExact
  OBVIOUS
<1>1. Calm => IsPrefix(sent, keys)
  BY RingSeqs DEF RInv, OneCpuInv, IsPrefix
<1>2. QED
  BY <1>1, RInvIndices DEF KeysExact, Calm

LEMMA RStep == ASSUME RInv, [RingNext]_ringVars PROVE RInv'
<1>1. CASE UNCHANGED ringVars
  BY <1>1, MovesKeep DEF RInv, RingTypes, ringVars
<1>2. CASE RingNext
  BY <1>2, InterruptKeeps, FinishKeeps, KeyReaderKeeps DEF RingNext, ringParams
<1>3. QED
  BY <1>1, <1>2

(* For any size of the ring, any readers and any number of keys: buf_wr is *)
(* what the keys stored say, buf_rd is what the keys taken say as long as  *)
(* no two readers have been past the wait together, and however they       *)
(* overlap it is beyond the ring only before a wrap; and what has been     *)
(* sent is what was pressed, in order and without gaps, as long as the     *)
(* ring has not been full and readers neither overlapped nor ran on        *)
(* another CPU.                                                            *)
THEOREM KeysSentExactly == RingSpec => []KeysExact
<1>1. RInv /\ [RingNext]_ringVars => RInv'
  BY RStep
<1>2. QED
  BY <1>1, RInvInit, RInvProves, PTL DEF RingSpec

(* A ring that has never been full, and whose readers have not overlapped, *)
(* tells by its indices whether there is a key, and a reader that sleeps   *)
(* beside one is about to be woken.                                        *)
NotFull == ~overran => Unread < MAX_KEY_STATES
KeyWakeComing == \A r \in KeyReaders :
  kpc[r] = "asleep" /\ Unread > 0 /\ ~overran /\ ~overlap => isr \in {"late store", "wrap", "wake"}

(* What a step does to the keys stored and taken: only the advance of      *)
(* buf_wr stores one, and only a reader's of buf_rd takes one.             *)
LEMMA RingMoves == ASSUME RInv, RInv', RingNext
  PROVE /\ KeysPosted \in Int /\ Taken \in Int
        /\ \/ KeysPosted' = KeysPosted /\ Taken' = Taken
           \/ Advance /\ KeysPosted' = KeysPosted + 1 /\ Taken' = Taken
           \/ KeysPosted' = KeysPosted /\ Taken' = Taken + 1
<1>1. KeysPosted \in Int /\ Taken \in Int
  BY RingCounts DEF RInv
<1>2. Incs \in SUBSET KeyReaders /\ IsFiniteSet(Incs) /\ Cardinality(Incs) \in Nat
      /\ keys \in Seq(Key) /\ sent \in Seq(Key \cup {"none", "beyond"}) /\ Len(sent) \in Nat /\ Len(keys) \in Nat
      /\ kpc \in [KeyReaders -> KeyPlace]
  BY RingCounts, RingSeqs DEF RInv, RingTypes, Incs
<1>3. Taken = Len(sent) - Cardinality(Incs) /\ Taken' = Len(sent') - Cardinality(Incs')
  BY DEF Taken, Incs
<1>4. CASE Interrupt
  <2>1. PICK k \in Key : keys' = Append(keys, k)
    BY <1>4 DEF Interrupt
  <2>2. Len(keys') = Len(keys) + 1
    BY <2>1, <1>2, Appended
  <2>3. Incs' = Incs /\ sent' = sent /\ isr = "idle" /\ isr' \in {"store", "advance"}
    BY <1>4 DEF Interrupt, Incs
  <2>4. KeysPosted' = KeysPosted
    BY <2>2, <2>3, <1>2 DEF KeysPosted
  <2>5. QED
    BY <1>1, <1>3, <2>3, <2>4
<1>5. CASE Store \/ LateStore \/ WrapWr \/ KeyWake
  <2>1. Incs' = Incs /\ sent' = sent /\ keys' = keys
        /\ (isr \in {"store", "advance"} <=> isr' \in {"store", "advance"})
    BY <1>2, <1>5 DEF Store, LateStore, WrapWr, KeyWake, Incs
  <2>2. QED
    BY <1>1, <1>3, <2>1 DEF KeysPosted
<1>6. CASE Advance
  <2>1. Incs' = Incs /\ sent' = sent /\ keys' = keys /\ isr = "advance" /\ isr' \notin {"store", "advance"}
    BY <1>6 DEF Advance, Incs
  <2>2. QED
    BY <1>1, <1>2, <1>3, <1>6, <2>1 DEF KeysPosted
<1>7. ASSUME NEW r \in KeyReaders, KeyRead(r) \/ KeyTest(r) \/ KeyFail(r) PROVE KeysPosted' = KeysPosted /\ Taken' = Taken
  <2>1. PICK to \in {"test", "out", "send", "asleep"} : kpc' = [kpc EXCEPT ![r] = to] /\ kpc[r] \notin {"inc", "store"}
    BY <1>7 DEF KeyRead, KeyTest, KeyFail, RingGoto
  <2>2. Incs' = Incs /\ sent' = sent /\ keys' = keys /\ isr' = isr
    BY <2>1, <1>2, <1>7 DEF KeyRead, KeyTest, KeyFail, Incs
  <2>3. QED
    BY <1>1, <1>3, <2>2 DEF KeysPosted
<1>8. ASSUME NEW r \in KeyReaders, SendKey(r) PROVE KeysPosted' = KeysPosted /\ Taken' = Taken
  <2>1. Incs' = Incs \cup {r} /\ r \notin Incs /\ keys' = keys /\ isr' = isr
    BY <1>2, <1>8 DEF SendKey, RingGoto, Incs
  <2>2. Cardinality(Incs') = Cardinality(Incs) + 1
    BY <1>2, <2>1, FS_AddElement
  <2>3. hello_keys_buf \in [Slot -> Key \cup {"none"}]
    BY DEF RInv, RingTypes
  <2>4. Len(sent') = Len(sent) + 1
    <3> DEFINE k == IF buf_rd \in Slot THEN hello_keys_buf[buf_rd] ELSE "beyond"
    <3>1. k \in Key \cup {"none", "beyond"} /\ sent' = Append(sent, k)
      BY <1>8, <2>3 DEF SendKey
    <3> HIDE DEF k
    <3>2. QED
      BY <3>1, <1>2, Appended
  <2>5. QED
    BY <1>1, <1>2, <1>3, <2>1, <2>2, <2>4 DEF KeysPosted
<1>9. ASSUME NEW r \in KeyReaders, StoreRd(r) PROVE KeysPosted' = KeysPosted /\ Taken' = Taken + 1
  <2>1. Incs' = Incs \ {r} /\ r \in Incs /\ keys' = keys /\ isr' = isr /\ sent' = sent
    BY <1>2, <1>9 DEF StoreRd, RingGoto, Incs
  <2>2. Cardinality(Incs') = Cardinality(Incs) - 1
    BY <1>2, <2>1, FS_RemoveElement
  <2>3. QED
    BY <1>1, <1>2, <1>3, <2>1, <2>2 DEF KeysPosted
<1>10. ASSUME NEW r \in KeyReaders, LoadRd(r) \/ WrapRd(r) \/ ZeroRd(r) PROVE KeysPosted' = KeysPosted /\ Taken' = Taken
  <2>1. Incs' = Incs /\ sent' = sent /\ keys' = keys /\ isr' = isr
    BY <1>2, <1>10 DEF LoadRd, WrapRd, ZeroRd, RingGoto, Incs
  <2>2. QED
    BY <1>1, <1>3, <2>1 DEF KeysPosted
<1>11. QED
  BY <1>1, <1>4, <1>5, <1>6, <1>7, <1>8, <1>9, <1>10 DEF RingNext, Finish, KeyReadStep, AdvanceRd

LEMMA UnreadMoves == ASSUME RInv, RInv', RingNext
  PROVE /\ Unread \in Int /\ Unread' \in Int
        /\ Unread' <= Unread \/ (Advance /\ Unread' = Unread + 1)
BY RingMoves DEF Unread

(* With fewer unread keys than slots, a reader that finds the indices      *)
(* equal falls asleep beside a key only while the handler is on its way to *)
(* wake it.                                                                *)
LEMMA AsleepOnEmpty ==
  ASSUME RInv, NotFull, NEW r \in KeyReaders, KeyTest(r), buf_wr = buf_rd, ~overran, ~overlap, Unread > 0
  PROVE  isr \in {"late store", "wrap", "wake"}
<1> USE KeyRingAssumption
<1>1. KeysPosted \in Int /\ Taken \in Int /\ Taken < KeysPosted /\ KeysPosted < Taken + MAX_KEY_STATES
  <2>1. KeysPosted \in Int /\ Taken \in Int
    BY RingCounts DEF RInv
  <2>2. QED
    BY <2>1 DEF NotFull, Unread
<1>2. KeysPosted % MAX_KEY_STATES = Taken % MAX_KEY_STATES
  BY RInvIndices DEF IndicesExact
<1>3. QED
  BY <1>1, <1>2, ModApart

LEMMA FullStep == ASSUME RInv, RInv', NotFull, [RingNext]_ringVars PROVE NotFull'
<1> USE KeyRingAssumption
<1>1. CASE UNCHANGED ringVars
  BY <1>1 DEF ringVars, NotFull, Unread, KeysPosted, Taken
<1>2. CASE RingNext
  <2>1. overran' = overran \/ (Advance /\ overran' = (overran \/ Unread + 1 >= MAX_KEY_STATES))
    BY <1>2 DEF RingNext, Interrupt, Finish, Store, Advance, LateStore, WrapWr, KeyWake,
                KeyRead, KeyReadStep, KeyFail, KeyTest, SendKey, AdvanceRd, LoadRd, StoreRd, WrapRd, ZeroRd
  <2>2. /\ Unread \in Int /\ Unread' \in Int
        /\ Unread' <= Unread \/ (Advance /\ Unread' = Unread + 1)
    BY <1>2, UnreadMoves
  <2>3. overran \in BOOLEAN /\ (Advance => overran' = (overran \/ Unread + 1 >= MAX_KEY_STATES))
    BY DEF RInv, RingTypes, Advance
  <2>4. SUFFICES ASSUME ~overran' PROVE Unread' < MAX_KEY_STATES
    BY DEF NotFull
  <2>5. Unread < MAX_KEY_STATES /\ (Advance => Unread + 1 < MAX_KEY_STATES)
    <3>1. ~overran /\ (Advance => ~(Unread + 1 >= MAX_KEY_STATES))
      BY <2>1, <2>3, <2>4
    <3>2. QED
      BY <3>1, <2>2 DEF NotFull
  <2>6. QED
    BY <2>2, <2>5
<1>3. QED
  BY <1>1, <1>2

LEMMA KeyComingStep == ASSUME RInv, RInv', NotFull, KeyWakeComing, [RingNext]_ringVars PROVE KeyWakeComing'
<1>1. CASE UNCHANGED ringVars
  BY <1>1 DEF ringVars, KeyWakeComing, Unread, KeysPosted, Taken
<1>2. CASE RingNext
  <2>1. SUFFICES ASSUME NEW r \in KeyReaders, kpc'[r] = "asleep", Unread' > 0, ~overran', ~overlap'
                 PROVE  isr' \in {"late store", "wrap", "wake"}
    BY DEF KeyWakeComing
  <2>2. /\ Unread \in Int /\ Unread' \in Int
        /\ Unread' <= Unread \/ (Advance /\ Unread' = Unread + 1)
    BY <1>2, UnreadMoves
  <2>3. kpc \in [KeyReaders -> KeyPlace] /\ overran \in BOOLEAN
    BY DEF RInv, RingTypes
  <2>4. CASE Advance
    BY <2>4 DEF Advance
  <2>5. CASE ~Advance
    <3>1. Unread > 0 /\ ~overran /\ ~overlap
      <4>1. Unread > 0
        BY <2>1, <2>2, <2>5
      <4>2. overran' = overran
        BY <1>2, <2>5 DEF RingNext, Interrupt, Finish, Store, LateStore, WrapWr, KeyWake,
                KeyRead, KeyReadStep, KeyFail, KeyTest, SendKey, AdvanceRd, LoadRd, StoreRd, WrapRd, ZeroRd
      <4>3. overlap => overlap'
        BY <1>2, <2>5 DEF RingNext, Interrupt, Finish, Store, LateStore, WrapWr, KeyWake,
                KeyRead, KeyReadStep, KeyFail, KeyTest, SendKey, AdvanceRd, LoadRd, StoreRd, WrapRd, ZeroRd
      <4>4. QED
        BY <2>1, <4>1, <4>2, <4>3
    <3>2. CASE KeyWake
      BY <2>1, <3>2 DEF KeyWake
    <3>3. CASE Interrupt \/ Store \/ LateStore \/ WrapWr
      BY <2>1, <3>1, <3>3 DEF KeyWakeComing, Interrupt, Store, LateStore, WrapWr
    <3>4. ASSUME NEW o \in KeyReaders, KeyRead(o) \/ KeyFail(o) \/ SendKey(o) \/ AdvanceRd(o)
          PROVE  isr' \in {"late store", "wrap", "wake"}
      <4>1. PICK to \in {"test", "out", "inc", "store", "wrap", "zero"} : kpc' = [kpc EXCEPT ![o] = to] /\ isr' = isr
        BY <3>4 DEF KeyRead, KeyFail, SendKey, AdvanceRd, LoadRd, StoreRd, WrapRd, ZeroRd, RingGoto
      <4>2. kpc[r] = "asleep"
        BY <2>1, <2>3, <4>1
      <4>3. QED
        BY <3>1, <4>1, <4>2 DEF KeyWakeComing
    <3>5. ASSUME NEW o \in KeyReaders, KeyTest(o) PROVE isr' \in {"late store", "wrap", "wake"}
      <4>1. isr' = isr /\ kpc' = [kpc EXCEPT ![o] = IF buf_wr # buf_rd THEN "send" ELSE "asleep"]
        BY <3>5 DEF KeyTest, RingGoto
      <4>2. CASE r # o
        BY <2>1, <2>3, <3>1, <4>1, <4>2 DEF KeyWakeComing
      <4>3. CASE r = o
        BY <2>1, <2>3, <3>1, <3>5, <4>1, <4>3, AsleepOnEmpty
      <4>4. QED
        BY <4>2, <4>3
    <3>6. QED
      BY <1>2, <2>5, <3>2, <3>3, <3>4, <3>5 DEF RingNext, Finish, KeyReadStep
  <2>6. QED
    BY <2>4, <2>5
<1>3. QED
  BY <1>1, <1>2

(* For any size of the ring, any readers, keys and orders of the handler's *)
(* stores, on one CPU and on two: a reader asleep while there is a key     *)
(* has the handler on its way to wake it, as long as the ring has never    *)
(* been full and no two readers have been past the wait together.  This    *)
(* is the part of KeyServed that is safety.                                *)
THEOREM KeyWakeNotLost == RingSpec => []KeyWakeComing
<1>1. RingInit => RInv /\ NotFull /\ KeyWakeComing
  <2> SUFFICES ASSUME RingInit PROVE RInv /\ NotFull /\ KeyWakeComing
    OBVIOUS
  <2>1. Incs = {} /\ Cardinality(Incs) = 0
    BY FS_EmptySet DEF RingInit, Incs
  <2>2. Unread = 0
    BY <2>1 DEF RingInit, Unread, KeysPosted, Taken, Incs
  <2>3. QED
    BY <2>2, RInvInit, KeyRingAssumption DEF RingInit, NotFull, KeyWakeComing
<1>2. RInv /\ NotFull /\ KeyWakeComing /\ [RingNext]_ringVars => (RInv /\ NotFull /\ KeyWakeComing)'
  BY RStep, FullStep, KeyComingStep
<1>3. QED
  BY <1>1, <1>2, PTL DEF RingSpec
-----------------------------------------------------------------------------
(*************************************************************************)
(* What two of these drivers promise is what EventDelivery says of the   *)
(* bottom halves, without its liveness: what comes is counted, and each  *)
(* read answers for one of them that no other read answers for.          *)
(*************************************************************************)
PermitED == INSTANCE EventDelivery WITH raised <- writes, handled <- passed, open <- TRUE
KeyED    == INSTANCE EventDelivery WITH raised <- KeysPosted, handled <- Taken, open <- TRUE

(* A step of the completion's readers and writers.                         *)
LEMMA PermitMaps ==
  ASSUME PInv, PInv', plab = "complete", [PermitNext]_permitVars
  PROVE  [PermitED!ENext]_(PermitED!evars)
<1>1. CASE UNCHANGED permitVars
  BY <1>1 DEF permitVars, PermitED!evars
<1>2. CASE PermitWrite
  BY <1>2 DEF PermitWrite, Complete, Up, UpRead, PermitED!ENext, PermitED!Raise
<1>3. ASSUME NEW r \in Takers, PermitRead(r) \/ PermitWake(r) PROVE [PermitED!ENext]_(PermitED!evars)
  <2>1. CASE passed' = passed + 1 /\ count > 0 /\ writes' = writes
    <3>1. passed + count = writes /\ passed \in Nat /\ writes \in Nat /\ count \in Int
      BY DEF PInv, PermitTypes, PermitsFirst
    <3>2. QED
      BY <2>1, <3>1 DEF PermitED!ENext, PermitED!Handle
  <2>2. QED
    BY <1>3, <2>1 DEF PermitRead, PermitWake, Pass, Queue, PermitED!evars
<1>4. ASSUME NEW r \in Takers, PermitSignal(r) \/ PermitReturn(r) PROVE [PermitED!ENext]_(PermitED!evars)
  BY <1>4 DEF PermitSignal, PermitReturn, PermitED!evars
<1>5. QED
  BY <1>1, <1>2, <1>3, <1>4 DEF PermitNext

(* For any readers and writes: a read that gets past wait_for_completion   *)
(* is one that a write before it has let in, and lets in no other.         *)
THEOREM CompletionDelivers == PermitSpec /\ plab = "complete" => PermitED!ESafety
<1>1. PermitInit /\ plab = "complete" => PermitED!EInit
  BY DEF PermitInit, PermitED!EInit
<1>2. PInv /\ [PermitNext]_permitVars => PInv'
  BY PStep
<1>3. plab = "complete" /\ [PermitNext]_permitVars => (plab = "complete")'
  BY DEF PermitNext, permitVars
<1>4. PInv /\ PInv' /\ plab = "complete" /\ [PermitNext]_permitVars => [PermitED!ENext]_(PermitED!evars)
  BY PermitMaps
<1>5. QED
  BY PInit, <1>1, <1>2, <1>3, <1>4, PTL DEF PermitSpec, PermitED!ESafety

(* A step of the handler and the readers of the keys.                      *)
LEMMA KeyMaps == ASSUME RInv, RInv', Calm', [RingNext]_ringVars PROVE [KeyED!ENext]_(KeyED!evars)
<1>1. CASE UNCHANGED ringVars
  BY <1>1 DEF ringVars, KeyED!evars, KeysPosted, Taken
<1>2. CASE RingNext
  <2>1. /\ KeysPosted \in Int /\ Taken \in Int
        /\ \/ KeysPosted' = KeysPosted /\ Taken' = Taken
           \/ KeysPosted' = KeysPosted + 1 /\ Taken' = Taken
           \/ KeysPosted' = KeysPosted /\ Taken' = Taken + 1
    BY <1>2, RingMoves
  <2>2. Taken' <= KeysPosted'
    BY DEF RInv, OneCpuInv
  <2>3. CASE KeysPosted' = KeysPosted /\ Taken' = Taken
    BY <2>3 DEF KeyED!evars
  <2>4. CASE KeysPosted' = KeysPosted + 1 /\ Taken' = Taken
    BY <2>4 DEF KeyED!ENext, KeyED!Raise
  <2>5. CASE KeysPosted' = KeysPosted /\ Taken' = Taken + 1
    BY <2>1, <2>2, <2>5 DEF KeyED!ENext, KeyED!Handle
  <2>6. QED
    BY <2>1, <2>3, <2>4, <2>5
<1>3. QED
  BY <1>1, <1>2

(* For any size of the ring, any readers and keys: as long as the ring has *)
(* not been full and readers neither overlap nor run on another CPU, each  *)
(* key stored is taken out by one read, and none before it was stored.     *)
THEOREM KeysDelivered == RingSpec /\ []Calm => KeyED!ESafety
<1>1. RingInit => KeyED!EInit
  <2> SUFFICES ASSUME RingInit PROVE KeyED!EInit
    OBVIOUS
  <2>1. Incs = {} /\ Cardinality(Incs) = 0
    BY FS_EmptySet DEF RingInit, Incs
  <2>2. QED
    BY <2>1 DEF RingInit, KeyED!EInit, KeysPosted, Taken, Incs
<1>2. RInv /\ [RingNext]_ringVars => RInv'
  BY RStep
<1>3. RInv /\ RInv' /\ Calm' /\ [RingNext]_ringVars => [KeyED!ENext]_(KeyED!evars)
  BY KeyMaps
<1>4. QED
  BY RInvInit, <1>1, <1>2, <1>3, PTL DEF RingSpec, KeyED!ESafety
=============================================================================
