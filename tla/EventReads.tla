----------------------------- MODULE EventReads -----------------------------
(***************************************************************************)
(* Drivers whose read waits for an interrupt and consumes it: the number   *)
(* of interrupts since the last read (s_20/lab7_uio.c), or a flag that an  *)
(* analog-to-digital converter is to be read now, set by the handler       *)
(* (2nd_edition/ltc2422_stm32mp1_trigger.c, whose reads take a mutex) or   *)
(* by the work it queues (lab09/LTC2422_dual_trigger_bottom.c, whose reads *)
(* take none).  Reads of several processes overlap; a signal may end a     *)
(* wait.  The converted value is left out.                                 *)
(***************************************************************************)
EXTENDS Integers, FiniteSets

CONSTANTS EventDrivers,  \* the drivers a run considers
          Fetchers,      \* processes that read
          MaxEvents,     \* bound: interrupts
          MaxFetches     \* bound: reads that got past the wait

uio_s20     == [flag |-> FALSE, mutex |-> FALSE, work |-> FALSE]
trigger_2nd == [flag |-> TRUE,  mutex |-> TRUE,  work |-> FALSE]
trigger_1st == [flag |-> TRUE,  mutex |-> FALSE, work |-> TRUE]

AllEventDrivers == {uio_s20, trigger_2nd, trigger_1st}
ASSUME EventAssumption ==
  /\ EventDrivers \subseteq AllEventDrivers /\ IsFiniteSet(Fetchers) /\ "free" \notin Fetchers
  /\ MaxEvents \in Nat /\ MaxFetches \in Nat

VARIABLES edrv,       \* the driver
          ready,      \* the device can be read (init or probe is through)
          pending,    \* nevents, or 1 for conversion_done and done
          ework,      \* the work is queued
          lock,       \* st->lock: who has taken it, or "free"
          epc,        \* where each process is
          nev,        \* the local variable of each read of lab7_uio.c
          raised, reported, lost, forgotten, \* history: interrupts; told to user
                      \* space; dropped by a fault; wiped out by init
          fetches,    \* history: reads that got past the wait
          together    \* history: two reads have been past the wait at once

eventVars == <<edrv, ready, pending, ework, lock, epc, nev, raised, reported, lost, forgotten, fetches, together>>
Histories == <<raised, reported, lost, forgotten, fetches, together>>

EventInit == /\ edrv \in EventDrivers /\ ready = FALSE /\ pending = 0 /\ ework = FALSE /\ lock = "free"
             /\ epc = [p \in Fetchers |-> "out"] /\ nev = [p \in Fetchers |-> 0]
             /\ raised = 0 /\ reported = 0 /\ lost = 0 /\ forgotten = 0 /\ fetches = 0 /\ together = FALSE

Steps(p, from, to) == epc[p] = from /\ epc' = [epc EXCEPT ![p] = to]
Past(p) == epc[p] \in {"fetch", "take", "clear"}
-----------------------------------------------------------------------------
(* Plausible bugs, which the properties below must catch.                  *)
TakeClears(p) == pending' = 0 /\ UNCHANGED reported
-----------------------------------------------------------------------------
(* my_init of lab7_uio.c resets the count, and both probes the flag, after *)
(* the interrupt has been requested; only then there is something to read. *)
EventReady == /\ ~ready /\ ready' = TRUE
              /\ pending' = 0 /\ forgotten' = forgotten + pending
              /\ UNCHANGED <<edrv, ework, lock, epc, nev, raised, reported, lost, fetches, together>>

(* A wakeup: whoever sleeps tests again.                                   *)
WakeSleepers == epc' = [p \in Fetchers |-> IF epc[p] = "asleep" THEN "test" ELSE epc[p]]
Signalled == /\ pending' = (IF edrv.flag THEN 1 ELSE pending + 1) /\ WakeSleepers

(* The handler; queueing a work that is queued already changes nothing.    *)
EventInterrupt == /\ raised < MaxEvents /\ raised' = raised + 1
                  /\ IF edrv.work THEN ework' = TRUE /\ UNCHANGED <<pending, epc>>
                                  ELSE Signalled /\ UNCHANGED ework
                  /\ UNCHANGED <<edrv, ready, lock, nev, reported, lost, forgotten, fetches, together>>

ADC_trigger_int == /\ ework /\ ework' = FALSE /\ Signalled
                   /\ UNCHANGED <<edrv, ready, lock, nev, Histories>>
-----------------------------------------------------------------------------
(* mutex_lock waits for the mutex, and no signal ends that.                *)
LockFree == lock = "free"
EventRead(p) == /\ ready /\ Steps(p, "out", "test")
                /\ IF edrv.mutex THEN LockFree /\ lock' = p ELSE UNCHANGED lock
                /\ UNCHANGED <<edrv, ready, pending, ework, nev, Histories>>

EventTest(p) == /\ fetches < MaxFetches
                /\ Steps(p, "test", IF pending > 0 THEN "fetch" ELSE "asleep")
                /\ fetches' = (IF pending > 0 THEN fetches + 1 ELSE fetches)
                /\ together' = (together \/ (pending > 0 /\ \E q \in Fetchers \ {p} : Past(q)))
                /\ UNCHANGED <<edrv, ready, pending, ework, lock, nev, raised, reported, lost, forgotten>>

(* A signal makes the read return; the mutex stays locked.                 *)
EventSignal(p) == /\ Steps(p, "asleep", "out")
                  /\ UNCHANGED <<edrv, ready, pending, ework, lock, nev, Histories>>

(* nev = atomic_read(&nevents), or the transfer from the converter.        *)
Fetch1(p) == /\ Steps(p, "fetch", IF edrv.flag THEN "clear" ELSE "take")
             /\ nev' = [nev EXCEPT ![p] = pending]
             /\ UNCHANGED <<edrv, ready, pending, ework, lock, Histories>>

(* atomic_sub(nev, &nevents), and then the copy to the user.               *)
Take(p) == /\ pending' = pending - nev[p] /\ UNCHANGED reported
EventTake(p) == /\ Steps(p, "take", "copy") /\ Take(p)
                /\ UNCHANGED <<edrv, ready, ework, lock, nev, raised, lost, forgotten, fetches, together>>
EventCopy(p) == /\ Steps(p, "copy", "out")
                /\ \/ reported' = reported + nev[p] /\ UNCHANGED lost
                   \/ lost' = lost + nev[p] /\ UNCHANGED reported
                /\ UNCHANGED <<edrv, ready, pending, ework, lock, nev, raised, forgotten, fetches, together>>

(* conversion_done = false, whatever has been set since; unlock.           *)
EventClear(p) == /\ Steps(p, "clear", "out") /\ pending' = 0
                 /\ lock' = (IF edrv.mutex THEN "free" ELSE lock)
                 /\ UNCHANGED <<edrv, ready, ework, nev, Histories>>

EventNext == \/ EventReady \/ EventInterrupt \/ ADC_trigger_int
             \/ \E p \in Fetchers : \/ EventRead(p) \/ EventTest(p) \/ EventSignal(p)
                                    \/ Fetch1(p) \/ EventTake(p) \/ EventCopy(p) \/ EventClear(p)
EventSpec == EventInit /\ [][EventNext]_eventVars
-----------------------------------------------------------------------------
(* What the processes in f add up to.                                      *)
Total(f) == LET S[Q \in SUBSET Fetchers] == IF Q = {} THEN 0
                   ELSE LET q == CHOOSE x \in Q : TRUE IN f[q] + S[Q \ {q}]
           IN S[Fetchers]

(* lab7_uio.c: every interrupt is in the count, on its way to a user,      *)
(* reported, or lost by a fault or by my_init, also when two reads subtract *)
(* the same count and it becomes negative; reads one at a time never       *)
(* report an interrupt that was not raised, and never none.                *)
(* The converters: under the mutex each read has an interrupt of its own,  *)
(* and without it as long as no two reads are past the wait together.      *)
EventsAccounted ==
  /\ ~edrv.flag =>
       /\ raised = pending + reported + lost + forgotten
                     + Total([p \in Fetchers |-> IF epc[p] = "copy" THEN nev[p] ELSE 0])
       /\ ~together => pending >= 0 /\ \A p \in Fetchers : epc[p] \in {"take", "copy"} => nev[p] > 0
  /\ edrv.flag /\ ~together => fetches <= raised
  /\ edrv.mutex => ~together /\ \A p \in Fetchers : epc[p] # "out" => lock = p
=============================================================================
