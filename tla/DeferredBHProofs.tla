--------------------------- MODULE DeferredBHProofs ---------------------------
(***************************************************************************)
(* Theorems about DeferredBH, for any number of lines and of interrupts    *)
(* and for all four kinds of driver.                                       *)
(***************************************************************************)
EXTENDS DeferredBH, FiniteSetTheorems, TLAPS

DTypes ==
  /\ driver \in Drivers /\ next \in Nat
  /\ interrupts \in [Line -> Int] /\ unseen \in [Line -> Int] /\ bhs \in [Line -> Int]
  /\ line \in [Line -> {"unasked", "asking", "refused", "requested", "freed"}]
  /\ mod \in {"loading", "loaded", "unloading", "gone", "oops"}
  /\ top \in [Line -> {"idle", "recorded", "counted"}]
  /\ queued \cup running \cup leaving \cup data \subseteq Line \X Int

(* 0 is a line, so that the one-interrupt drivers have theirs.             *)
LEMMA ZeroIsLine == Line \subseteq Nat /\ 0 \in Line /\ Static \in Line \X Int /\ Last \in 1..MAXIRQS
  BY DeferredBHAssumption DEF Line, Static, Last

(* An allocated item is that of an interrupt taken on its line.            *)
LEMMA ItemTyped == ASSUME DTypes, NEW l \in Line PROVE Taken(l) \in Int /\ ItemOf(l) \in Line \X Int
  BY ZeroIsLine DEF DTypes, Taken, ItemOf

LEMMA InitTypes == Init => DTypes
  BY ZeroIsLine DEF Init, DTypes

(* The steps of load and unload.                                           *)
LEMMA AdminTypes == ASSUME DTypes, UNCHANGED driver, Admin PROVE DTypes'
<1>1. CASE Loaded \/ Unload \/ Gone
  BY <1>1 DEF DTypes, Loaded, Unload, Gone, counts, items
<1>2. ASSUME NEW l \in Line, Ask(l) PROVE DTypes'
  BY <1>2, ZeroIsLine DEF DTypes, Ask, counts, items
<1>3. ASSUME NEW l \in Line, Flag(l) PROVE DTypes'
  BY <1>3, ZeroIsLine, ItemTyped DEF DTypes, Flag, items
<1>4. ASSUME NEW l \in Line, Free(l) PROVE DTypes'
  BY <1>4 DEF DTypes, Free, counts, items
<1>5. QED
  BY <1>1, <1>2, <1>3, <1>4 DEF Admin

(* The steps of a handler.                                                 *)
LEMMA TopTypes == ASSUME DTypes, UNCHANGED driver, NEW l \in Line, TopHalf(l) PROVE DTypes'
<1>1. CASE TopRecord(l) \/ AllocFails(l)
  BY <1>1 DEF DTypes, TopRecord, AllocFails, admin, counts, items
<1>2. CASE TopCount(l)
  <2>1. <<l, Taken(l) + 1>> \in Line \X Int
    BY ItemTyped
  <2>2. QED
    BY <1>2, <2>1 DEF DTypes, TopCount, admin
<1>3. CASE TopSchedule(l)
  BY <1>3, ItemTyped DEF DTypes, TopSchedule, counts, admin
<1>4. QED
  BY <1>1, <1>2, <1>3 DEF TopHalf

(* The steps of a bottom half.                                             *)
LEMMA BottomTypes == ASSUME DTypes, UNCHANGED driver, NEW i, BottomHalf(i) PROVE DTypes'
<1>1. CASE Run(i)
  BY <1>1 DEF DTypes, Run, counts, admin
<1>2. CASE Count(i)
  <2>1. bhs' \in [Line -> Int]
    <3>1. \A k \in Line : bhs[k] + 1 \in Int
      BY DEF DTypes
    <3>2. bhs' = [bhs EXCEPT ![LineOf(i)] = bhs[LineOf(i)] + 1]
      BY <1>2 DEF Count
    <3>3. QED
      BY <3>1, <3>2 DEF DTypes
  <2>2. QED
    BY <1>2, <2>1 DEF DTypes, Count, admin
<1>3. CASE Return(i)
  BY <1>3 DEF DTypes, Return, counts, admin
<1>4. CASE Unlock(i)
  BY <1>4 DEF DTypes, Unlock, counts, admin
<1>5. QED
  BY <1>1, <1>2, <1>3, <1>4 DEF BottomHalf

LEMMA StepTypes == DTypes /\ [Next]_vars => DTypes'
<1>1. ASSUME DTypes, UNCHANGED vars PROVE DTypes'
  BY <1>1 DEF DTypes, vars, counts, admin, items
<1>2. ASSUME DTypes, Next PROVE DTypes'
  BY <1>2, AdminTypes, TopTypes, BottomTypes DEF Next
<1>3. QED
  BY <1>1, <1>2
-----------------------------------------------------------------------------
(* The items that are queued or run.  Those of a dynamic driver belong to  *)
(* interrupts that were taken, and none of them to the interrupt whose     *)
(* handler has not scheduled its item yet: so the item that is scheduled   *)
(* is a new one, and the one that is freed is not scheduled again.         *)
Live == queued \cup running \cup leaving

TakenBefore == \A i \in Live : i[2] <= Taken(i[1]) /\ (top[i[1]] = "counted" => i[2] < Taken(i[1]))
OnePlace    == queued \cap (running \cup leaving) = {} /\ running \cap leaving = {}
Allocated   == \A l \in Line : top[l] = "counted" => <<l, Taken(l)>> \in data
OneStatic   == data = {Static} /\ Live \subseteq {Static}

MInv == /\ DTypes
        /\ Dynamic => TakenBefore /\ OnePlace /\ Allocated /\ Live \subseteq data
        /\ ~Dynamic => OneStatic

LEMMA InitMInv == Init => MInv
<1>1. Init => (\A l \in Line : top[l] = "idle") /\ Live = {} /\ (~Dynamic => data = {Static})
  BY DEF Init, Live
<1>2. QED
  BY <1>1, InitTypes DEF MInv, TakenBefore, OnePlace, Allocated, OneStatic, Live

(* Load and unload show no interrupt more or less.                         *)
LEMMA AdminMInv == ASSUME MInv, UNCHANGED driver, Admin PROVE MInv'
<1>1. DTypes'
  BY AdminTypes DEF MInv
<1>2. UNCHANGED <<queued, running, leaving, data, top>> /\ \A l \in Line : Taken(l)' = Taken(l)
  <2>1. CASE Loaded \/ Unload \/ Gone \/ \E l \in Line : Ask(l) \/ Free(l)
    BY <2>1 DEF Loaded, Unload, Gone, Ask, Free, counts, items, Taken
  <2>2. CASE \E l \in Line : Flag(l)
    BY <2>2, ItemTyped DEF MInv, DTypes, Flag, items, Taken
  <2>3. QED
    BY <2>1, <2>2 DEF Admin
<1>3. QED
  BY <1>1, <1>2 DEF MInv, DTypes, Dynamic, TakenBefore, OnePlace, Allocated, OneStatic, Live

LEMMA TopMInv == ASSUME MInv, UNCHANGED driver, NEW l \in Line, TopHalf(l) PROVE MInv'
<1>1. DTypes' /\ Dynamic' = Dynamic
  BY TopTypes DEF MInv, Dynamic
<1>2. CASE TopRecord(l) \/ AllocFails(l)
  <2>1. /\ UNCHANGED <<queued, running, leaving, data>> /\ \A k \in Line : Taken(k)' = Taken(k)
        /\ \A k \in Line : top'[k] = "counted" => top[k] = "counted"
    BY <1>2 DEF TopRecord, AllocFails, counts, items, Taken, MInv, DTypes
  <2>2. QED
    BY <1>1, <2>1 DEF MInv, DTypes, TakenBefore, OnePlace, Allocated, OneStatic, Live
<1>3. CASE TopCount(l)
  <2>1. /\ UNCHANGED <<queued, running, leaving>> /\ top' = [top EXCEPT ![l] = "counted"]
        /\ data' = (IF Dynamic THEN data \cup {<<l, Taken(l) + 1>>} ELSE data)
    BY <1>3 DEF TopCount
  <2>2. \A k \in Line : Taken(k) \in Int /\ Taken(k)' = IF k = l THEN Taken(k) + 1 ELSE Taken(k)
    BY <1>3 DEF TopCount, Taken, MInv, DTypes
  <2>3. Live' = Live
    BY <2>1 DEF Live
  <2>4. ASSUME Dynamic PROVE TakenBefore' /\ OnePlace' /\ Allocated' /\ (Live \subseteq data)'
    <3>1. TakenBefore'
      BY <2>1, <2>2, <2>3, <2>4 DEF MInv, DTypes, TakenBefore, Live
    <3>2. Allocated'
      BY <2>1, <2>2, <2>4 DEF MInv, DTypes, Allocated
    <3>3. QED
      BY <2>1, <2>3, <2>4, <3>1, <3>2 DEF MInv, OnePlace
  <2>5. QED
    BY <1>1, <2>1, <2>3, <2>4 DEF MInv, OneStatic
<1>4. CASE TopSchedule(l)
  <2>1. /\ top[l] = "counted" /\ top' = [top EXCEPT ![l] = "idle"]
        /\ queued' = queued \cup {ItemOf(l)} /\ UNCHANGED <<running, leaving, data>>
        /\ \A k \in Line : Taken(k)' = Taken(k)
    BY <1>4 DEF TopSchedule, counts, Taken
  <2>2. ASSUME Dynamic PROVE TakenBefore' /\ OnePlace' /\ Allocated' /\ (Live \subseteq data)'
    <3>1. ItemOf(l) = <<l, Taken(l)>> /\ Taken(l) \in Int
      BY <2>2, ItemTyped DEF ItemOf, MInv
    <3>2. ItemOf(l) \notin Live /\ ItemOf(l) \in data
      BY <2>1, <2>2, <3>1 DEF MInv, TakenBefore, Allocated
    <3>3. Live' = Live \cup {ItemOf(l)}
      BY <2>1 DEF Live
    <3>4. TakenBefore'
      <4>1. SUFFICES ASSUME NEW i \in Live'
                     PROVE  i[2] <= Taken(i[1])' /\ (top'[i[1]] = "counted" => i[2] < Taken(i[1])')
        BY DEF TakenBefore
      <4>2. CASE i = ItemOf(l)
        BY <2>1, <3>1, <4>2 DEF MInv, DTypes
      <4>3. CASE i \in Live
        <5>1. i[1] \in Line /\ (top'[i[1]] = "counted" => top[i[1]] = "counted")
          BY <2>1, <4>3 DEF MInv, DTypes, Live
        <5>2. QED
          BY <2>1, <2>2, <4>3, <5>1 DEF MInv, TakenBefore
      <4>4. QED
        BY <3>3, <4>2, <4>3
    <3>5. OnePlace'
      BY <2>1, <2>2, <3>2 DEF MInv, OnePlace, Live
    <3>6. Allocated'
      BY <2>1, <2>2 DEF MInv, DTypes, Allocated
    <3>7. QED
      BY <2>1, <2>2, <3>2, <3>3, <3>4, <3>5, <3>6 DEF MInv
  <2>3. ASSUME ~Dynamic PROVE OneStatic'
    BY <2>1, <2>3 DEF MInv, OneStatic, Live, ItemOf
  <2>4. QED
    BY <1>1, <2>2, <2>3 DEF MInv
<1>5. QED
  BY <1>2, <1>3, <1>4 DEF TopHalf

LEMMA BottomMInv == ASSUME MInv, UNCHANGED driver, NEW i, BottomHalf(i) PROVE MInv'
<1>1. DTypes' /\ Dynamic' = Dynamic
  BY BottomTypes DEF MInv, Dynamic
<1>2. UNCHANGED top /\ (\A l \in Line : Taken(l)' = Taken(l)) /\ Live' \subseteq Live
  BY DEF BottomHalf, Run, Count, Return, Unlock, counts, Taken, Live
<1>3. ASSUME Dynamic PROVE TakenBefore' /\ OnePlace' /\ Allocated' /\ (Live \subseteq data)'
  <2>1. TakenBefore'
    BY <1>2, <1>3 DEF MInv, DTypes, TakenBefore, Live
  <2>2. CASE Run(i) \/ Count(i)
    <3>1. UNCHANGED data /\ OnePlace'
      BY <1>3, <2>2 DEF MInv, Run, Count, OnePlace
    <3>2. QED
      BY <1>2, <1>3, <2>1, <3>1 DEF MInv, Allocated
  <2>3. CASE Return(i)
    <3>1. i \in leaving /\ leaving' = leaving \ {i} /\ data' = data \ {i} /\ UNCHANGED <<queued, running>>
      BY <1>3, <2>3 DEF Return
    <3>2. OnePlace' /\ (Live \subseteq data)'
      BY <1>3, <3>1 DEF MInv, OnePlace, Live
    <3>3. \A l \in Line : top[l] = "counted" => <<l, Taken(l)>> # i
      <4>1. SUFFICES ASSUME NEW l \in Line, top[l] = "counted", i = <<l, Taken(l)>> PROVE FALSE
        OBVIOUS
      <4>2. i[1] = l /\ i[2] = Taken(l) /\ Taken(l) \in Int
        BY <4>1, ItemTyped DEF MInv
      <4>3. i[2] < Taken(i[1])
        BY <1>3, <3>1, <4>1, <4>2 DEF MInv, TakenBefore, Live
      <4>4. QED
        BY <4>2, <4>3
    <3>4. Allocated'
      BY <1>2, <1>3, <3>1, <3>3 DEF MInv, Allocated
    <3>5. QED
      BY <2>1, <3>2, <3>4
  <2>4. CASE Unlock(i)
    <3>1. UNCHANGED <<data, queued, running, leaving>>
      BY <2>4 DEF Unlock
    <3>2. QED
      BY <1>2, <1>3, <2>1, <3>1 DEF MInv, OnePlace, Allocated, Live
  <2>5. QED
    BY <2>2, <2>3, <2>4 DEF BottomHalf
<1>4. ASSUME ~Dynamic PROVE OneStatic'
  BY <1>2, <1>4 DEF MInv, OneStatic, BottomHalf, Run, Count, Return, Unlock
<1>5. QED
  BY <1>1, <1>3, <1>4 DEF MInv

LEMMA StepMInv == MInv /\ [Next]_vars => MInv'
<1>1. ASSUME MInv, UNCHANGED vars PROVE MInv'
  BY <1>1, StepTypes DEF MInv, vars, counts, admin, items, Dynamic, TakenBefore, OnePlace, Allocated,
                         OneStatic, Live, Taken
<1>2. ASSUME MInv, Next PROVE MInv'
  BY <1>2, AdminMInv, TopMInv, BottomMInv DEF Next
<1>3. QED
  BY <1>1, <1>2

(* Only where tasklets are unlocked is an item in use after its function;  *)
(* the static one is never freed.                                          *)
UInv == /\ unlocks \in BOOLEAN /\ (~unlocks => unlocking = {})
        /\ ~Dynamic => unlocking \subseteq {Static}

LEMMA StepUInv == MInv /\ UInv /\ [Next]_vars => UInv'
<1>1. ASSUME UInv, UNCHANGED <<driver, unlocks, unlocking>> PROVE UInv'
  BY <1>1 DEF UInv, Dynamic
<1>2. ASSUME UInv, UNCHANGED <<driver, unlocks>>, Admin PROVE UInv'
  BY <1>1, <1>2 DEF Admin, Loaded, Unload, Gone, Ask, Flag, Free, items
<1>3. ASSUME UInv, UNCHANGED <<driver, unlocks>>, NEW l \in Line, TopHalf(l) PROVE UInv'
  BY <1>1, <1>3 DEF TopHalf, TopRecord, TopCount, AllocFails, TopSchedule, items
<1>4. ASSUME MInv, UInv, UNCHANGED <<driver, unlocks>>, NEW i, BottomHalf(i) PROVE UInv'
  <2>1. CASE Run(i) \/ Count(i)
    BY <1>1, <1>4, <2>1 DEF Run, Count
  <2>2. CASE Return(i)
    <3>1. ~Dynamic => i = Static
      BY <1>4, <2>2 DEF MInv, OneStatic, Live, Return
    <3>2. QED
      BY <1>4, <2>2, <3>1 DEF UInv, Dynamic, Return
  <2>3. CASE Unlock(i)
    BY <1>4, <2>3 DEF UInv, Dynamic, Unlock
  <2>4. QED
    BY <1>4, <2>1, <2>2, <2>3 DEF BottomHalf
<1>5. QED
  BY <1>1, <1>2, <1>3, <1>4 DEF Next, vars, items

(* For any lines and any interrupts: what is queued or runs is allocated   *)
(* until its function has returned; and what called the function finds it  *)
(* so, too, but for the dynamic tasklets on several CPUs.                  *)
THEOREM UsedWhileAllocated == Spec => []NoUseAfterFree
<1>1. Init => UInv
  BY DEF Init, UInv
<1>2. MInv /\ UInv => NoUseAfterFree
  BY DEF MInv, UInv, OneStatic, Live, NoUseAfterFree, Busy
<1>3. QED
  BY InitMInv, StepMInv, <1>1, StepUInv, <1>2, PTL DEF Spec
-----------------------------------------------------------------------------
(* The interrupt that came last is on its way to an item that will run.    *)
THEOREM LastIsNoticed == Spec => []NoneUnnoticed
<1> DEFINE NInv == DTypes /\ NoneUnnoticed
<1>1. Init => NInv
  BY InitTypes DEF Init, NoneUnnoticed
<1>2. NInv /\ [Next]_vars => NInv'
  <2>1. SUFFICES ASSUME NInv, [Next]_vars PROVE NoneUnnoticed'
    BY StepTypes
  <2>2. CASE UNCHANGED vars \/ Admin
    BY <2>1, <2>2 DEF NoneUnnoticed, vars, items, Admin, Loaded, Unload, Gone, Ask, Flag, Free
  <2>3. ASSUME NEW l \in Line, TopHalf(l) PROVE NoneUnnoticed'
    <3>1. CASE TopRecord(l)
      BY <2>1, <3>1 DEF DTypes, NoneUnnoticed, TopRecord
    <3>2. CASE TopCount(l)
      BY <2>1, <3>2 DEF DTypes, NoneUnnoticed, TopCount
    <3>3. CASE AllocFails(l)
      BY <2>1, <3>3 DEF NoneUnnoticed, AllocFails, items
    <3>4. CASE TopSchedule(l)
      BY <2>1, <3>4 DEF NoneUnnoticed, TopSchedule
    <3>5. QED
      BY <2>3, <3>1, <3>2, <3>3, <3>4 DEF TopHalf
  <2>4. ASSUME NEW i, BottomHalf(i) PROVE NoneUnnoticed'
    BY <2>1, <2>4 DEF NoneUnnoticed, BottomHalf, Run, Count, Return, Unlock
  <2>5. QED
    BY <2>1, <2>2, <2>3, <2>4 DEF Next
<1>3. QED
  BY <1>1, <1>2, PTL DEF Spec
-----------------------------------------------------------------------------
(* How far the loops of get_irqs and freeup_irqs have come, and that the   *)
(* counter of a line that is the driver's is not negative, by which the    *)
(* second loop knows it.                                                   *)
Mine == {"asking", "requested"}

Loop == \A l \in Line :
  /\ line[l] = "requested" => interrupts[l] >= 0
  /\ interrupts[l] >= -1 /\ (~All => interrupts[l] >= 0)
  /\ line[l] = "asking" => All /\ mod \in {"loading", "oops"} /\ next = l
  /\ mod = "loading" => (l > next => line[l] = "unasked") /\ (l >= Last => line[l] = "unasked")
  /\ mod \in {"loaded", "unloading"} => (l >= Last => line[l] \notin Mine)
  /\ mod = "unloading" => (l < next => line[l] \notin Mine)
  /\ mod = "gone" => line[l] \notin Mine

LInv == DTypes /\ Loop

LEMMA AdminLInv == ASSUME LInv, UNCHANGED driver, Admin PROVE Loop'
<1>1. All' = All /\ Last' = Last
  BY DEF All, Last
<1>2. CASE Loaded
  BY <1>1, <1>2, ZeroIsLine DEF LInv, DTypes, Loop, Loaded, counts, Mine
<1>3. CASE Unload
  BY <1>1, <1>3, ZeroIsLine DEF LInv, DTypes, Loop, Unload, counts, Mine
<1>4. CASE Gone
  BY <1>1, <1>4, ZeroIsLine DEF LInv, DTypes, Loop, Gone, counts, Mine
<1>5. ASSUME NEW l \in Line, Ask(l) PROVE Loop'
  <2>1. /\ mod = "loading" /\ next = l /\ l < Last /\ line[l] = "unasked" /\ interrupts' = interrupts
        /\ l \in Nat /\ (~All => l = 0 /\ Last = 1)
    BY <1>5, ZeroIsLine DEF Ask, counts, Last
  <2>2. \/ /\ line' = [line EXCEPT ![l] = "asking"] /\ All /\ next' = l /\ mod' = mod
        \/ /\ line' = [line EXCEPT ![l] = "requested"] /\ ~All /\ next' = l + 1 /\ mod' = mod
        \/ /\ line' = [line EXCEPT ![l] = "refused"] /\ All /\ next' = l + 1 /\ mod' = mod
        \/ /\ line' = [line EXCEPT ![l] = "refused"] /\ ~All /\ next' = l + 1 /\ mod' = "gone"
    BY <1>5 DEF Ask
  <2>3. SUFFICES ASSUME NEW k \in Line
                 PROVE  /\ line'[k] = "requested" => interrupts[k] >= 0
                        /\ interrupts[k] >= -1 /\ (~All => interrupts[k] >= 0)
                        /\ line'[k] = "asking" => All /\ mod' \in {"loading", "oops"} /\ next' = k
                        /\ mod' = "loading" => (k > next' => line'[k] = "unasked") /\ (k >= Last => line'[k] = "unasked")
                        /\ mod' \in {"loaded", "unloading"} => (k >= Last => line'[k] \notin Mine)
                        /\ mod' = "unloading" => (k < next' => line'[k] \notin Mine)
                        /\ mod' = "gone" => line'[k] \notin Mine
    BY <1>1, <2>1 DEF Loop, Mine
  <2>4. k \in Nat /\ interrupts[k] \in Int
    BY ZeroIsLine DEF LInv, DTypes
  <2>5. line'[k] = IF k = l THEN line'[l] ELSE line[k]
    BY <2>2 DEF LInv, DTypes
  <2>6. /\ interrupts[k] >= -1 /\ (~All => interrupts[k] >= 0)
        /\ line[k] = "requested" => interrupts[k] >= 0
        /\ line[k] = "asking" => next = k
        /\ (k > next => line[k] = "unasked") /\ (k >= Last => line[k] = "unasked")
    BY <2>1 DEF LInv, Loop
  <2>7. CASE k = l
    <3>1. line'[k] \in {"asking", "requested", "refused"} /\ (line'[k] = "requested" => ~All)
          /\ (line'[k] = "asking" => All /\ next' = k /\ mod' = mod)
          /\ (mod' = "gone" => line'[k] = "refused") /\ mod' \in {"loading", "gone"}
      BY <2>1, <2>2, <2>7 DEF LInv, DTypes
    <3>2. ~(k > next') /\ ~(k >= Last)
      BY <2>1, <2>2, <2>4, <2>7, ZeroIsLine
    <3>3. QED
      BY <2>1, <2>6, <3>1, <3>2 DEF Mine
  <2>8. CASE k # l
    <3>1. line'[k] = line[k] /\ line[k] # "asking"
      BY <2>1, <2>5, <2>6, <2>8
    <3>2. (mod' = mod \/ (mod' = "gone" /\ ~All)) /\ (next' = l \/ next' = l + 1)
      BY <2>2
    <3>3. ~All => k >= Last
      BY <2>1, <2>4, <2>8
    <3>4. k > next' => k > next
      BY <2>1, <2>4, <3>2
    <3>5. QED
      BY <2>1, <2>6, <3>1, <3>2, <3>3, <3>4 DEF Mine
  <2>9. QED
    BY <2>7, <2>8
<1>6. ASSUME NEW l \in Line, Flag(l) PROVE Loop'
  BY <1>1, <1>6, ZeroIsLine DEF LInv, DTypes, Loop, Flag, Mine
<1>7. ASSUME NEW l \in Line, Free(l) PROVE Loop'
  BY <1>1, <1>7, ZeroIsLine DEF LInv, DTypes, Loop, Free, counts, Mine
<1>8. QED
  BY <1>2, <1>3, <1>4, <1>5, <1>6, <1>7 DEF Admin

LEMMA TopLInv == ASSUME LInv, UNCHANGED driver, NEW l \in Line, TopHalf(l) PROVE Loop'
<1>1. All' = All /\ Last' = Last
  BY DEF All, Last
<1>2. CASE TopRecord(l) \/ TopSchedule(l)
  BY <1>1, <1>2 DEF LInv, Loop, TopRecord, TopSchedule, admin, counts
<1>3. CASE AllocFails(l)
  BY <1>1, <1>3 DEF LInv, Loop, AllocFails, counts
<1>4. CASE TopCount(l)
  BY <1>1, <1>4 DEF LInv, DTypes, Loop, TopCount, admin
<1>5. QED
  BY <1>2, <1>3, <1>4 DEF TopHalf

LEMMA BottomLInv == ASSUME LInv, UNCHANGED driver, NEW i, BottomHalf(i) PROVE Loop'
  BY DEF LInv, Loop, BottomHalf, Run, Count, Return, Unlock, counts, admin, All, Last

(* For any number of lines, whichever are refused and whenever they        *)
(* interrupt: the unload frees every line that the load was given.         *)
THEOREM EveryLineFreed == Spec => []NoLineLeft
<1>1. Init => LInv
  BY InitTypes, ZeroIsLine DEF Init, LInv, Loop, Mine
<1>2. LInv /\ [Next]_vars => LInv'
  <2>1. ASSUME LInv, UNCHANGED vars PROVE LInv'
    BY <2>1, StepTypes DEF LInv, Loop, vars, counts, admin, All, Last
  <2>2. ASSUME LInv, Next PROVE LInv'
    BY <2>2, StepTypes, AdminLInv, TopLInv, BottomLInv DEF Next, LInv
  <2>3. QED
    BY <2>1, <2>2
<1>3. LInv => NoLineLeft
  BY DEF LInv, Loop, NoLineLeft, Mine
<1>4. QED
  BY <1>1, <1>2, <1>3, PTL DEF Spec
-----------------------------------------------------------------------------
(* The items of line l that have not counted their pass yet.               *)
Flight(l)  == {i \in queued \cup running : i[1] = l}
Counted(l) == IF top[l] = "counted" THEN 1 ELSE 0

Accounted == \A l \in Line : Taken(l) = bhs[l] + Cardinality(Flight(l)) + Counted(l)
NoneLeaks == data \subseteq Live \cup {ItemOf(l) : l \in {k \in Line : top[k] = "counted"}}
CInv == MInv /\ IsFiniteSet(queued \cup running) /\ (Dynamic => Accounted /\ NoneLeaks)

LEMMA FlightFinite == ASSUME IsFiniteSet(queued \cup running), NEW l
                      PROVE  IsFiniteSet(Flight(l)) /\ Cardinality(Flight(l)) \in Nat
<1>1. IsFiniteSet(Flight(l))
  BY FS_Subset DEF Flight
<1>2. QED
  BY <1>1, FS_CardinalityType

(* Load, unload and the steps of handlers that touch no item.              *)
LEMMA QuietCInv ==
  ASSUME CInv, MInv', UNCHANGED <<driver, bhs, queued, running, leaving, data, top>>,
         \A l \in Line : Taken(l)' = Taken(l)
  PROVE  CInv'
<1>1. \A l \in Line : ItemOf(l)' = ItemOf(l) /\ Flight(l)' = Flight(l) /\ Counted(l)' = Counted(l)
  BY DEF ItemOf, Dynamic, Flight, Counted
<1>2. QED
  BY <1>1 DEF CInv, Accounted, NoneLeaks, Dynamic, Live

LEMMA AdminCInv == ASSUME CInv, UNCHANGED driver, Admin PROVE CInv'
<1>1. MInv'
  BY AdminMInv DEF CInv
<1>2. CASE Loaded \/ Unload \/ Gone \/ \E l \in Line : Ask(l) \/ Free(l)
  BY <1>1, <1>2, QuietCInv DEF Loaded, Unload, Gone, Ask, Free, counts, items, Taken
<1>3. CASE \E l \in Line : Flag(l)
  <2>1. \A k \in Line : Taken(k)' = Taken(k)
    BY <1>3, ItemTyped DEF CInv, MInv, DTypes, Flag, Taken
  <2>2. QED
    BY <1>1, <1>3, <2>1, QuietCInv DEF Flag, items
<1>4. QED
  BY <1>2, <1>3 DEF Admin

LEMMA TopCInv == ASSUME CInv, UNCHANGED driver, NEW l \in Line, TopHalf(l) PROVE CInv'
<1>1. MInv' /\ Dynamic' = Dynamic /\ (Dynamic => driver # "all_static")
  BY TopMInv DEF CInv, Dynamic
<1>2. CASE AllocFails(l)
  BY <1>1, <1>2, QuietCInv DEF AllocFails, counts, items, Taken
<1>3. CASE TopRecord(l)
  BY <1>1, <1>3 DEF CInv, TopRecord, items
<1>4. CASE TopCount(l)
  <2>1. UNCHANGED <<queued, running, leaving, bhs>> /\ IsFiniteSet(queued' \cup running')
    BY <1>4 DEF CInv, TopCount
  <2>2. ASSUME Dynamic PROVE Accounted' /\ NoneLeaks'
    <3>1. top[l] = "idle" /\ top' = [top EXCEPT ![l] = "counted"] /\ data' = data \cup {<<l, Taken(l) + 1>>}
      BY <1>1, <1>4, <2>2 DEF TopCount, CanInterrupt
    <3>2. \A k \in Line : Taken(k) \in Int /\ Taken(k)' = IF k = l THEN Taken(k) + 1 ELSE Taken(k)
      BY <1>4 DEF TopCount, Taken, CInv, MInv, DTypes
    <3>3. \A k \in Line : /\ top'[k] = IF k = l THEN "counted" ELSE top[k]
                         /\ Flight(k)' = Flight(k) /\ bhs[k] \in Int /\ Cardinality(Flight(k)) \in Nat
      BY <2>1, <3>1, FlightFinite DEF CInv, MInv, DTypes, Flight
    <3>4. \A k \in Line : /\ Counted(k)' = IF k = l THEN 1 ELSE Counted(k)
                         /\ Counted(l) = 0 /\ Counted(k) \in Int
      BY <3>1, <3>3 DEF Counted
    <3>5. Accounted'
      <4>1. SUFFICES ASSUME NEW k \in Line
                     PROVE  Taken(k)' = bhs[k] + Cardinality(Flight(k)) + Counted(k)'
        BY <2>1, <3>3 DEF Accounted
      <4>2. Taken(k) = bhs[k] + Cardinality(Flight(k)) + Counted(k)
        BY <2>2 DEF CInv, Accounted
      <4>3. QED
        BY <3>2, <3>3, <3>4, <4>2
    <3>6. NoneLeaks'
      <4>1. SUFFICES ASSUME NEW i \in data', i \notin Live'
                     PROVE  \E k \in Line : top'[k] = "counted" /\ i = ItemOf(k)'
        BY DEF NoneLeaks
      <4>2. CASE i = <<l, Taken(l) + 1>>
        BY <1>1, <2>2, <3>2, <3>3, <4>2 DEF ItemOf
      <4>3. CASE i \in data
        <5>1. PICK k \in Line : top[k] = "counted" /\ i = ItemOf(k)
          BY <2>1, <2>2, <4>1, <4>3 DEF CInv, NoneLeaks, Live
        <5>2. k # l
          BY <3>1, <5>1
        <5>3. QED
          BY <1>1, <2>2, <3>2, <3>3, <5>1, <5>2 DEF ItemOf
      <4>4. QED
        BY <3>1, <4>2, <4>3
    <3>7. QED
      BY <3>5, <3>6
  <2>3. QED
    BY <1>1, <2>1, <2>2 DEF CInv
<1>5. CASE TopSchedule(l)
  <2>1. /\ top[l] = "counted" /\ top' = [top EXCEPT ![l] = "idle"]
        /\ queued' = queued \cup {ItemOf(l)} /\ UNCHANGED <<bhs, running, leaving, data>>
        /\ \A k \in Line : Taken(k)' = Taken(k) /\ ItemOf(k)' = ItemOf(k)
    BY <1>1, <1>5 DEF TopSchedule, counts, Taken, ItemOf
  <2>2. IsFiniteSet(queued' \cup running')
    <3>1. queued' \cup running' = (queued \cup running) \cup {ItemOf(l)}
      BY <2>1
    <3>2. QED
      BY <3>1, FS_AddElement DEF CInv
  <2>3. ASSUME Dynamic PROVE Accounted' /\ NoneLeaks'
    <3>1. ItemOf(l) = <<l, Taken(l)>> /\ Taken(l) \in Int
      BY <2>3, ItemTyped DEF ItemOf, CInv, MInv
    <3>2. ItemOf(l) \notin Live
      BY <2>1, <2>3, <3>1 DEF CInv, MInv, TakenBefore
    <3>3. \A k \in Line : top'[k] = IF k = l THEN "idle" ELSE top[k]
      BY <2>1 DEF CInv, MInv, DTypes
    <3>4. \A k \in Line \ {l} : Flight(k)' = Flight(k) /\ Counted(k)' = Counted(k)
      BY <2>1, <3>1, <3>3 DEF Flight, Counted
    <3>5. Cardinality(Flight(l)') = Cardinality(Flight(l)) + 1
      <4>1. Flight(l)' = Flight(l) \cup {ItemOf(l)} /\ ItemOf(l) \notin Flight(l)
        BY <2>1, <3>1, <3>2 DEF Flight, Live
      <4>2. QED
        BY <4>1, FlightFinite, FS_AddElement DEF CInv
    <3>6. Counted(l) = 1 /\ Counted(l)' = 0
      BY <2>1, <3>3 DEF Counted
    <3>7. Accounted'
      <4>1. SUFFICES ASSUME NEW k \in Line
                     PROVE  Taken(k) = bhs[k] + Cardinality(Flight(k)') + Counted(k)'
        BY <2>1 DEF Accounted
      <4>2. Taken(k) = bhs[k] + Cardinality(Flight(k)) + Counted(k)
        BY <2>3 DEF CInv, Accounted
      <4>3. bhs[k] \in Int /\ Cardinality(Flight(k)) \in Nat
        BY FlightFinite DEF CInv, MInv, DTypes
      <4>4. CASE k = l
        BY <3>5, <3>6, <4>2, <4>3, <4>4
      <4>5. CASE k # l
        BY <3>4, <4>2, <4>5
      <4>6. QED
        BY <4>4, <4>5
    <3>8. NoneLeaks'
      <4>1. SUFFICES ASSUME NEW i \in data, i \notin Live'
                     PROVE  \E k \in Line : top'[k] = "counted" /\ i = ItemOf(k)
        BY <2>1 DEF NoneLeaks
      <4>2. i \notin Live /\ i # ItemOf(l)
        BY <2>1, <4>1 DEF Live
      <4>3. QED
        BY <2>3, <3>3, <4>2 DEF CInv, NoneLeaks
    <3>9. QED
      BY <3>7, <3>8
  <2>4. QED
    BY <1>1, <2>2, <2>3 DEF CInv
<1>6. QED
  BY <1>2, <1>3, <1>4, <1>5 DEF TopHalf

(* A pass that is counted takes its item out of flight.                    *)
LEMMA BottomCInv == ASSUME CInv, UNCHANGED driver, NEW i, BottomHalf(i) PROVE CInv'
<1>1. MInv' /\ Dynamic' = Dynamic
  BY BottomMInv DEF CInv, Dynamic
<1>2. /\ UNCHANGED top /\ queued' \cup running' \subseteq queued \cup running
      /\ \A l \in Line : Taken(l)' = Taken(l) /\ ItemOf(l)' = ItemOf(l) /\ Counted(l)' = Counted(l)
  BY <1>1 DEF BottomHalf, Run, Count, Return, Unlock, counts, Taken, ItemOf, Counted
<1>3. IsFiniteSet(queued' \cup running')
  BY <1>2, FS_Subset DEF CInv
<1>4. ASSUME Dynamic PROVE NoneLeaks'
  <2>1. SUFFICES ASSUME NEW d \in data', d \notin Live'
                 PROVE  \E k \in Line : top[k] = "counted" /\ d = ItemOf(k)
    BY <1>2 DEF NoneLeaks
  <2>2. d \in data /\ d \notin Live
    BY <1>4, <2>1 DEF BottomHalf, Run, Count, Return, Unlock, Live
  <2>3. QED
    BY <1>4, <2>2 DEF CInv, NoneLeaks
<1>5. ASSUME Dynamic PROVE Accounted'
  <2>1. CASE Run(i) \/ Return(i) \/ Unlock(i)
    <3>1. UNCHANGED bhs /\ \A l \in Line : Flight(l)' = Flight(l)
      BY <2>1 DEF Run, Return, Unlock, counts, Flight
    <3>2. QED
      BY <1>2, <1>5, <3>1 DEF CInv, Accounted
  <2>2. CASE Count(i)
    <3>1. /\ i \in running /\ i[1] \in Line /\ bhs' = [bhs EXCEPT ![i[1]] = bhs[i[1]] + 1]
          /\ queued' \cup running' = (queued \cup running) \ {i}
      BY <1>5, <2>2 DEF Count, LineOf, CInv, MInv, DTypes, OnePlace
    <3>2. \A l \in Line : bhs[l] \in Int /\ Cardinality(Flight(l)) \in Nat /\ Counted(l) \in Int
                         /\ bhs'[l] = IF l = i[1] THEN bhs[l] + 1 ELSE bhs[l]
      BY <3>1, FlightFinite DEF CInv, MInv, DTypes, Counted
    <3>3. \A l \in Line \ {i[1]} : Flight(l)' = Flight(l)
      BY <3>1 DEF Flight
    <3>4. Cardinality(Flight(i[1])') = Cardinality(Flight(i[1])) - 1
      <4>1. Flight(i[1])' = Flight(i[1]) \ {i} /\ i \in Flight(i[1])
        BY <3>1 DEF Flight
      <4>2. QED
        BY <4>1, FlightFinite, FS_RemoveElement DEF CInv
    <3>5. SUFFICES ASSUME NEW l \in Line
                   PROVE  Taken(l) = bhs'[l] + Cardinality(Flight(l)') + Counted(l)
      BY <1>2 DEF Accounted
    <3>6. Taken(l) = bhs[l] + Cardinality(Flight(l)) + Counted(l)
      BY <1>5 DEF CInv, Accounted
    <3>7. CASE l = i[1]
      BY <3>2, <3>4, <3>6, <3>7
    <3>8. CASE l # i[1]
      BY <3>2, <3>3, <3>6, <3>8
    <3>9. QED
      BY <3>7, <3>8
  <2>3. QED
    BY <2>1, <2>2 DEF BottomHalf
<1>6. QED
  BY <1>1, <1>3, <1>4, <1>5 DEF CInv

(* For any lines and any interrupts, a dynamic driver runs one bottom half *)
(* for each, and frees what it has allocated.                              *)
THEOREM EachItemCounted == Spec => []EveryItemCounted
<1>1. Init => CInv
  <2>1. SUFFICES ASSUME Init PROVE CInv
    OBVIOUS
  <2>2. MInv
    BY <2>1, InitMInv
  <2>3. queued = {} /\ running = {} /\ IsFiniteSet(queued \cup running)
    BY <2>1, FS_EmptySet DEF Init
  <2>4. \A l \in Line : Flight(l) = {} /\ Cardinality(Flight(l)) = 0
    BY <2>3, FS_EmptySet DEF Flight
  <2>5. Accounted
    BY <2>1, <2>4 DEF Init, Accounted, Counted, Taken
  <2>6. Dynamic => NoneLeaks
    BY <2>1 DEF Init, NoneLeaks
  <2>7. QED
    BY <2>2, <2>3, <2>5, <2>6 DEF CInv
<1>2. CInv /\ [Next]_vars => CInv'
  <2>1. ASSUME CInv, UNCHANGED vars PROVE CInv'
    <3>1. \A l \in Line : Taken(l)' = Taken(l)
      BY <2>1 DEF vars, counts, Taken
    <3>2. QED
      BY <2>1, <3>1, StepMInv, QuietCInv DEF CInv, vars, counts, items
  <2>2. ASSUME CInv, Next PROVE CInv'
    BY <2>2, AdminCInv, TopCInv, BottomCInv DEF Next
  <2>3. QED
    BY <2>1, <2>2
<1>3. CInv => EveryItemCounted
  <2>1. SUFFICES ASSUME CInv, Dynamic
                 PROVE  /\ \A l \in Line : Taken(l) = bhs[l] + Cardinality({i \in queued \cup running : i[1] = l})
                                                       + (IF top[l] = "counted" THEN 1 ELSE 0)
                        /\ data \subseteq queued \cup running \cup leaving
                                          \cup {ItemOf(l) : l \in {k \in Line : top[k] = "counted"}}
    BY DEF EveryItemCounted
  <2>2. QED
    BY <2>1 DEF CInv, Accounted, NoneLeaks, Flight, Counted, Live
<1>4. QED
  BY <1>1, <1>2, <1>3, PTL DEF Spec
-----------------------------------------------------------------------------
(* The refinement counts over all lines.  s adds up f over the sets of     *)
(* lines: nothing over no line, and over one more its value more.          *)
Adds(s, f) == /\ s \in [SUBSET Line -> Int] /\ s[{}] = 0
              /\ \A Q \in SUBSET Line : \A l \in Q : s[Q] = f[l] + s[Q \ {l}]
Summable(f) == \E s : Adds(s, f)

(* SumOver, which takes the lines in some order, is what any such s gives: *)
(* in a smallest set where the two differ, the line that SumOver takes     *)
(* first could be left out.                                                *)
LEMMA SumIs == ASSUME NEW f, NEW s, Adds(s, f) PROVE SumOver(f) = s[Line]
<1> DEFINE Is(g) == g = [Q \in SUBSET Line |-> IF Q = {} THEN 0
                           ELSE LET l == CHOOSE k \in Q : TRUE IN f[l] + g[Q \ {l}]]
           S == CHOOSE g : Is(g)
<1>1. Is(s)
  <2>1. ASSUME NEW Q \in SUBSET Line, Q # {}
        PROVE  s[Q] = f[CHOOSE k \in Q : TRUE] + s[Q \ {CHOOSE k \in Q : TRUE}]
    <3>1. (CHOOSE k \in Q : TRUE) \in Q
      BY <2>1
    <3>2. QED BY <3>1 DEF Adds
  <2>2. \A Q \in SUBSET Line : s[Q] = (IF Q = {} THEN 0
          ELSE LET l == CHOOSE k \in Q : TRUE IN f[l] + s[Q \ {l}])
    BY <2>1 DEF Adds
  <2>3. QED BY <2>2 DEF Adds
<1>2. Is(S)
  BY <1>1
<1>3. SumOver(f) = S[Line]
  BY DEF SumOver
<1>4. \A Q \in SUBSET Line : S[Q] = (IF Q = {} THEN 0
          ELSE LET l == CHOOSE k \in Q : TRUE IN f[l] + S[Q \ {l}])
  <2> HIDE DEF S
  <2>1. QED BY <1>2
<1> HIDE DEF S, Is
<1> DEFINE T == {Q \in SUBSET Line : S[Q] # s[Q]}
<1>5. T = {}
  <2> SUFFICES ASSUME T # {} PROVE FALSE
    OBVIOUS
  <2>1. IsWellFoundedOn(StrictSubsetOrdering(Line), FiniteSubsetsOf(Line))
    BY FS_StrictSubsetOrderingWellFounded
  <2>2. IsFiniteSet(Line)
    BY DeferredBHAssumption, FS_Interval DEF Line
  <2>3. T \subseteq FiniteSubsetsOf(Line)
    BY <2>2, FS_FiniteSubsetsOfFinite
  <2>4. PICK Q \in T : \A R \in T : <<R, Q>> \notin StrictSubsetOrdering(Line)
    <3> HIDE DEF T
    <3>1. QED BY <2>1, <2>3, WFMin
  <2>5. Q \in SUBSET Line /\ S[Q] # s[Q]
    OBVIOUS
  <2>6. Q # {}
    BY <2>5, <1>4 DEF Adds
  <2> DEFINE l == CHOOSE k \in Q : TRUE
  <2>7. l \in Q /\ S[Q] = f[l] + S[Q \ {l}]
    BY <2>5, <2>6, <1>4
  <2> HIDE DEF l
  <2>8. s[Q] = f[l] + s[Q \ {l}]
    BY <2>5, <2>7 DEF Adds
  <2>9. Q \ {l} \in T
    BY <2>5, <2>7, <2>8
  <2>10. <<Q \ {l}, Q>> \in StrictSubsetOrdering(Line)
    BY <2>5, <2>7 DEF StrictSubsetOrdering
  <2>11. QED BY <2>4, <2>9, <2>10
<1>6. QED BY <1>3, <1>5

(* When one line's value changes, the sum changes by as much.              *)
LEMMA SumChanges ==
  ASSUME NEW f \in [Line -> Int], Summable(f), NEW p \in Line, NEW d \in Int,
         NEW g \in [Line -> Int], g[p] = f[p] + d, \A l \in Line \ {p} : g[l] = f[l]
  PROVE  Summable(g) /\ SumOver(f) \in Int /\ SumOver(g) = SumOver(f) + d
<1>1. PICK s : Adds(s, f)
  BY DEF Summable
<1> DEFINE t == [Q \in SUBSET Line |-> IF p \in Q THEN s[Q] + d ELSE s[Q]]
<1>2. t \in [SUBSET Line -> Int] /\ t[{}] = 0
  BY <1>1 DEF Adds
<1>3. ASSUME NEW Q \in SUBSET Line, NEW l \in Q PROVE t[Q] = g[l] + t[Q \ {l}]
  <2>1. s[Q] = f[l] + s[Q \ {l}] /\ s[Q] \in Int /\ s[Q \ {l}] \in Int /\ f[l] \in Int
    BY <1>1 DEF Adds
  <2>2. t[Q] = (IF p \in Q THEN s[Q] + d ELSE s[Q])
        /\ t[Q \ {l}] = (IF p \in Q \ {l} THEN s[Q \ {l}] + d ELSE s[Q \ {l}])
    OBVIOUS
  <2> HIDE DEF t
  <2>3. CASE p = l
    <3>1. g[l] = f[l] + d
      BY <2>3
    <3>2. QED BY <2>1, <2>2, <2>3, <3>1
  <2>4. CASE p # l
    <3>1. g[l] = f[l]
      BY <2>4
    <3>2. QED BY <2>1, <2>2, <2>4, <3>1
  <2>5. QED BY <2>3, <2>4
<1>4. Adds(t, g)
  BY <1>2, <1>3 DEF Adds
<1>5. t[Line] = s[Line] + d /\ s[Line] \in Int
  BY <1>1 DEF Adds
<1> HIDE DEF t
<1>6. SumOver(f) = s[Line] /\ SumOver(g) = t[Line]
  BY <1>1, <1>4, SumIs
<1>7. QED BY <1>4, <1>5, <1>6 DEF Summable

LEMMA SumOfNone == ASSUME NEW f, f = [l \in Line |-> 0] PROVE Summable(f) /\ SumOver(f) = 0
<1> DEFINE s == [Q \in SUBSET Line |-> 0]
<1>1. Adds(s, f)
  BY DEF Adds
<1>2. s[Line] = 0
  OBVIOUS
<1> HIDE DEF s
<1>3. QED BY <1>1, <1>2, SumIs DEF Summable

(* The lines whose handler is about to schedule an item.                   *)
TakenOf    == [l \in Line |-> Taken(l)]
Scheduling == {l \in Line : top[l] = "counted"}

(* The passes made, those that are queued or under way, and those that a   *)
(* handler is about to queue are covered by interrupts.  This holds of the *)
(* sum over all lines only: the static item of lab4_all_tasklet.c counts   *)
(* its pass for whichever line has interrupted last.                       *)
Credit ==
  /\ IsFiniteSet(queued) /\ IsFiniteSet(running) /\ IsFiniteSet(Scheduling)
  /\ Summable(TakenOf) /\ Summable(bhs) /\ SumOver(TakenOf) \in Int /\ SumOver(bhs) \in Int
  /\ SumOver(bhs) + Cardinality(queued) + Cardinality(running) + Cardinality(Scheduling) <= SumOver(TakenOf)

(* A handler runs only on a line that is the driver's.                     *)
OnLine == /\ \A l \in Line : top[l] # "idle" => line[l] \in Mine
          /\ irq \in Line /\ (mod = "oops" => Dynamic)

RInv == LInv /\ OnLine /\ Credit

(* The sums of the next state are the sums of what it counts.              *)
LEMMA PrimedSums == /\ SumOver(TakenOf)' = SumOver(TakenOf') /\ SumOver(bhs)' = SumOver(bhs')
                    /\ (Summable(TakenOf)' <=> Summable(TakenOf')) /\ (Summable(bhs)' <=> Summable(bhs'))
<1>1. SumOver(TakenOf)' = SumOver(TakenOf') /\ SumOver(bhs)' = SumOver(bhs')
  BY DEF SumOver
<1>2. (Summable(TakenOf)' <=> Summable(TakenOf')) /\ (Summable(bhs)' <=> Summable(bhs'))
  BY DEF Summable, Adds
<1>3. QED BY <1>1, <1>2

(* A step that counts no interrupt and makes no pass, and leaves what is   *)
(* queued, under way or about to be queued alone.                          *)
LEMMA QuietCredit ==
  ASSUME DTypes, Credit, UNCHANGED <<bhs, queued, running>>, Scheduling' = Scheduling,
         \A l \in Line : Taken(l)' = Taken(l)
  PROVE  Credit' /\ TakenOf' = TakenOf
<1>1. TakenOf' = TakenOf
  BY DEF TakenOf
<1>2. SumOver(TakenOf)' = SumOver(TakenOf) /\ SumOver(bhs)' = SumOver(bhs)
  BY <1>1, PrimedSums
<1>3. Summable(TakenOf)' /\ Summable(bhs)'
  BY <1>1, PrimedSums DEF Credit
<1>4. QED BY <1>1, <1>2, <1>3 DEF Credit

LEMMA AdminStep ==
  ASSUME RInv, UNCHANGED driver, Admin
  PROVE  RInv' /\ TakenOf' = TakenOf /\ bhs' = bhs /\ (mod' = "oops" => mod = "oops")
         /\ (mod \in {"gone", "oops"} => mod' = mod)
<1>1. LInv'
  BY AdminLInv, AdminTypes DEF RInv, LInv
<1>2. UNCHANGED <<bhs, queued, running, top, irq>> /\ \A l \in Line : Taken(l)' = Taken(l)
  <2>1. CASE Loaded \/ Unload \/ Gone \/ \E l \in Line : Ask(l) \/ Free(l)
    BY <2>1 DEF Loaded, Unload, Gone, Ask, Free, counts, items, Taken
  <2>2. CASE \E l \in Line : Flag(l)
    BY <2>2, ItemTyped DEF RInv, LInv, DTypes, Flag, items, Taken
  <2>3. QED BY <2>1, <2>2 DEF Admin
<1>3. Scheduling' = Scheduling
  BY <1>2 DEF Scheduling
<1>4. Credit' /\ TakenOf' = TakenOf
  BY <1>2, <1>3, QuietCredit DEF RInv, LInv
<1>5. /\ mod' = "oops" => mod = "oops"
      /\ mod \in {"gone", "oops"} => mod' = mod
  <2>1. CASE Loaded \/ Unload \/ Gone \/ \E l \in Line : Free(l)
    BY <2>1 DEF Loaded, Unload, Gone, Free
  <2>2. CASE \E l \in Line : Ask(l)
    BY <2>2 DEF Ask
  <2>3. CASE \E l \in Line : Flag(l)
    BY <2>3 DEF Flag
  <2>4. QED BY <2>1, <2>2, <2>3 DEF Admin
<1>6. \A l \in Line : top[l] # "idle" => line'[l] \in Mine
  <2>1. CASE Loaded \/ Unload \/ Gone
    BY <2>1 DEF Loaded, Unload, Gone, RInv, OnLine
  <2>2. ASSUME NEW k \in Line, Ask(k) PROVE \A l \in Line : top[l] # "idle" => line'[l] \in Mine
    BY <2>2 DEF Ask, RInv, OnLine, LInv, DTypes, Mine
  <2>3. ASSUME NEW k \in Line, Flag(k) PROVE \A l \in Line : top[l] # "idle" => line'[l] \in Mine
    BY <2>3 DEF Flag, RInv, OnLine, LInv, DTypes, Mine
  <2>4. ASSUME NEW k \in Line, Free(k) PROVE \A l \in Line : top[l] # "idle" => line'[l] \in Mine
    BY <2>4 DEF Free, RInv, OnLine, LInv, DTypes, Mine
  <2>5. QED BY <2>1, <2>2, <2>3, <2>4 DEF Admin
<1>7. OnLine'
  BY <1>2, <1>5, <1>6 DEF RInv, OnLine, Dynamic
<1>8. QED BY <1>1, <1>2, <1>4, <1>5, <1>7 DEF RInv

(* The handler counts one more interrupt: the module is loaded.            *)
LEMMA CountedStep ==
  ASSUME RInv, UNCHANGED driver, NEW l \in Line, TopCount(l)
  PROVE  RInv' /\ SumOver(TakenOf)' = SumOver(TakenOf) + 1 /\ bhs' = bhs /\ mod' = mod /\ mod \notin {"gone", "oops"}
<1>1. LInv'
  BY TopLInv, TopTypes DEF RInv, LInv, TopHalf
<1>2. /\ UNCHANGED <<bhs, unseen, irq, queued, running, line, mod>>
      /\ interrupts' = [interrupts EXCEPT ![l] = @ + 1] /\ top' = [top EXCEPT ![l] = "counted"]
      /\ top[l] # "counted"
  BY DEF TopCount, CanInterrupt, admin
<1>3. line[l] \in Mine /\ mod \notin {"gone", "oops"}
  <2>1. CASE driver = "all_static"
    <3>1. top[l] = "recorded"
      BY <2>1 DEF TopCount
    <3>2. line[l] \in Mine
      BY <3>1 DEF RInv, OnLine
    <3>3. QED BY <2>1, <3>2 DEF RInv, OnLine, LInv, Loop, Dynamic
  <2>2. CASE driver # "all_static"
    <3>1. line[l] \in Mine /\ mod # "oops"
      BY <2>2 DEF TopCount, CanInterrupt, Mine
    <3>2. QED BY <3>1 DEF RInv, LInv, Loop
  <2>3. QED BY <2>1, <2>2
<1>4. OnLine'
  BY <1>2, <1>3 DEF RInv, OnLine, LInv, DTypes, Dynamic
<1>5. /\ TakenOf \in [Line -> Int] /\ TakenOf' \in [Line -> Int] /\ TakenOf'[l] = TakenOf[l] + 1
      /\ \A k \in Line \ {l} : TakenOf'[k] = TakenOf[k]
  BY <1>2 DEF RInv, LInv, DTypes, TakenOf, Taken
<1>6. ASSUME NEW g, g = TakenOf'
      PROVE  Summable(g) /\ SumOver(g) = SumOver(TakenOf) + 1
  BY <1>5, <1>6, SumChanges DEF RInv, Credit
<1>7. Summable(TakenOf)' /\ SumOver(TakenOf)' = SumOver(TakenOf) + 1
  <2>1. Summable(TakenOf') /\ SumOver(TakenOf') = SumOver(TakenOf) + 1
    BY <1>6
  <2>2. QED BY <2>1, PrimedSums
<1>8. Scheduling' = Scheduling \cup {l} /\ l \notin Scheduling
  BY <1>2 DEF RInv, LInv, DTypes, Scheduling
<1>9. IsFiniteSet(Scheduling') /\ Cardinality(Scheduling') = Cardinality(Scheduling) + 1
  BY <1>8, FS_AddElement DEF RInv, Credit
<1>10. /\ Cardinality(queued) \in Nat /\ Cardinality(running) \in Nat /\ Cardinality(Scheduling) \in Nat
  BY FS_CardinalityType DEF RInv, Credit
<1>11. SumOver(bhs)' = SumOver(bhs) /\ Summable(bhs)'
  BY <1>2, PrimedSums DEF RInv, Credit
<1>12. Credit'
  BY <1>2, <1>7, <1>9, <1>10, <1>11 DEF RInv, Credit
<1>13. QED BY <1>1, <1>2, <1>3, <1>4, <1>7, <1>12 DEF RInv

(* The other steps of a handler.                                           *)
LEMMA HandlerStep ==
  ASSUME RInv, UNCHANGED driver, NEW l \in Line, TopRecord(l) \/ AllocFails(l) \/ TopSchedule(l)
  PROVE  RInv' /\ TakenOf' = TakenOf /\ bhs' = bhs
         /\ (mod' = mod \/ (mod \notin {"gone", "oops"} /\ mod' = "oops"))
<1>1. LInv'
  BY TopLInv, TopTypes DEF RInv, LInv, TopHalf
<1>2. /\ UNCHANGED <<bhs, unseen, interrupts, line, running>> /\ \A k \in Line : Taken(k)' = Taken(k)
  BY DEF TopRecord, AllocFails, TopSchedule, counts, admin, items, Taken
<1>3. CASE TopRecord(l)
  <2>1. /\ UNCHANGED <<queued, mod>> /\ irq' = l /\ top' = [top EXCEPT ![l] = "recorded"]
        /\ line[l] \in Mine /\ top[l] = "idle"
    BY <1>3 DEF TopRecord, CanInterrupt, admin, items, Mine
  <2>2. Scheduling' = Scheduling
    BY <2>1 DEF Scheduling, RInv, LInv, DTypes
  <2>3. Credit' /\ TakenOf' = TakenOf
    BY <1>2, <2>1, <2>2, QuietCredit DEF RInv, LInv
  <2>4. OnLine'
    BY <1>2, <2>1 DEF RInv, OnLine, LInv, DTypes, Dynamic
  <2>5. QED BY <1>1, <1>2, <2>1, <2>3, <2>4 DEF RInv
<1>4. CASE AllocFails(l)
  <2>1. UNCHANGED <<queued, top, irq>> /\ mod' = "oops" /\ Dynamic /\ line[l] \in Mine /\ mod # "oops"
    BY <1>4 DEF AllocFails, CanInterrupt, items, Mine
  <2>2. Scheduling' = Scheduling
    BY <2>1 DEF Scheduling
  <2>3. Credit' /\ TakenOf' = TakenOf
    BY <1>2, <2>1, <2>2, QuietCredit DEF RInv, LInv
  <2>4. OnLine'
    BY <1>2, <2>1 DEF RInv, OnLine, Dynamic
  <2>5. mod # "gone"
    BY <2>1 DEF RInv, LInv, Loop
  <2>6. QED BY <1>1, <1>2, <2>1, <2>3, <2>4, <2>5 DEF RInv
<1>5. CASE TopSchedule(l)
  <2>1. /\ UNCHANGED <<mod, irq>> /\ queued' = queued \cup {ItemOf(l)} /\ top' = [top EXCEPT ![l] = "idle"]
        /\ top[l] = "counted"
    BY <1>5 DEF TopSchedule, admin
  <2>2. TakenOf' = TakenOf
    BY <1>2 DEF TakenOf
  <2>3. OnLine'
    BY <1>2, <2>1 DEF RInv, OnLine, LInv, DTypes, Dynamic
  <2>4. Scheduling' = Scheduling \ {l} /\ l \in Scheduling
    BY <2>1 DEF RInv, LInv, DTypes, Scheduling
  <2>5. IsFiniteSet(Scheduling') /\ Cardinality(Scheduling') = Cardinality(Scheduling) - 1
    BY <2>4, FS_RemoveElement DEF RInv, Credit
  <2>6. IsFiniteSet(queued') /\ Cardinality(queued') <= Cardinality(queued) + 1
    <3>1. Cardinality(queued) \in Nat /\ IsFiniteSet(queued)
      BY FS_CardinalityType DEF RInv, Credit
    <3>2. CASE ItemOf(l) \in queued
      <4>1. queued' = queued
        BY <2>1, <3>2
      <4>2. QED BY <3>1, <4>1
    <3>3. CASE ItemOf(l) \notin queued
      <4>1. IsFiniteSet(queued') /\ Cardinality(queued') = Cardinality(queued) + 1
        BY <2>1, <3>1, <3>3, FS_AddElement
      <4>2. QED BY <3>1, <4>1
    <3>4. QED BY <3>2, <3>3
  <2>7. /\ Cardinality(queued) \in Nat /\ Cardinality(queued') \in Nat /\ Cardinality(running) \in Nat
        /\ Cardinality(Scheduling) \in Nat
    BY <2>6, FS_CardinalityType DEF RInv, Credit
  <2>8. /\ SumOver(TakenOf)' = SumOver(TakenOf) /\ SumOver(bhs)' = SumOver(bhs)
        /\ Summable(TakenOf)' /\ Summable(bhs)'
    BY <1>2, <2>2, PrimedSums DEF RInv, Credit
  <2>9. Credit'
    BY <1>2, <2>5, <2>6, <2>7, <2>8 DEF RInv, Credit
  <2>10. QED BY <1>1, <1>2, <2>1, <2>2, <2>3, <2>9 DEF RInv
<1>6. QED BY <1>3, <1>4, <1>5

(* A pass is counted, for whichever line: an interrupt covers it.          *)
LEMMA PassStep ==
  ASSUME RInv, UNCHANGED driver, NEW i, Count(i), mod \notin {"gone", "oops"}
  PROVE  RInv' /\ SumOver(bhs)' = SumOver(bhs) + 1 /\ SumOver(bhs) < SumOver(TakenOf)
         /\ TakenOf' = TakenOf /\ mod' = mod
<1>1. LInv'
  BY BottomLInv, BottomTypes DEF RInv, LInv, BottomHalf
<1>2. /\ i \in running /\ bhs' = [bhs EXCEPT ![LineOf(i)] = @ + 1] /\ running' = running \ {i}
      /\ UNCHANGED <<interrupts, unseen, irq, line, mod, queued, top>>
  BY DEF Count, admin
<1>3. LineOf(i) \in Line
  <2>1. running \subseteq Line \X Int /\ irq \in Line
    BY DEF RInv, LInv, DTypes, OnLine
  <2>2. i[1] \in Line
    BY <1>2, <2>1
  <2>3. QED BY <2>1, <2>2 DEF LineOf
<1>4. TakenOf' = TakenOf /\ Scheduling' = Scheduling
  BY <1>2 DEF TakenOf, Taken, Scheduling
<1>5. ASSUME NEW p \in Line, p = LineOf(i), NEW g, g = bhs'
      PROVE  Summable(g) /\ SumOver(g) = SumOver(bhs) + 1
  <2>1. bhs \in [Line -> Int] /\ g \in [Line -> Int] /\ g[p] = bhs[p] + 1 /\ \A k \in Line \ {p} : g[k] = bhs[k]
    BY <1>2, <1>5 DEF RInv, LInv, DTypes
  <2>2. QED BY <2>1, SumChanges DEF RInv, Credit
<1>6. Summable(bhs') /\ SumOver(bhs') = SumOver(bhs) + 1
  BY <1>3, <1>5
<1>7. Summable(bhs)' /\ SumOver(bhs)' = SumOver(bhs) + 1
  BY <1>6, PrimedSums
<1>8. SumOver(TakenOf)' = SumOver(TakenOf) /\ Summable(TakenOf)'
  BY <1>4, PrimedSums DEF RInv, Credit
<1>9. /\ Cardinality(queued) \in Nat /\ Cardinality(Scheduling) \in Nat /\ Cardinality(running) \in Nat
      /\ IsFiniteSet(running') /\ Cardinality(running') = Cardinality(running) - 1 /\ Cardinality(running') \in Nat
  <2>1. IsFiniteSet(running') /\ Cardinality(running') = Cardinality(running) - 1
    BY <1>2, FS_RemoveElement DEF RInv, Credit
  <2>2. QED BY <2>1, FS_CardinalityType DEF RInv, Credit
<1>10. SumOver(bhs) < SumOver(TakenOf)
  BY <1>9 DEF RInv, Credit
<1>11. Credit'
  BY <1>2, <1>4, <1>7, <1>8, <1>9 DEF RInv, Credit
<1>12. OnLine'
  BY <1>2 DEF RInv, OnLine, Dynamic
<1>13. QED BY <1>1, <1>2, <1>4, <1>7, <1>10, <1>11, <1>12 DEF RInv

LEMMA ItemStep ==
  ASSUME RInv, UNCHANGED driver, NEW i, mod \notin {"gone", "oops"}, Run(i) \/ Return(i) \/ Unlock(i)
  PROVE  RInv' /\ TakenOf' = TakenOf /\ bhs' = bhs /\ mod' = mod
<1>1. LInv'
  BY BottomLInv, BottomTypes DEF RInv, LInv, BottomHalf
<1>2. /\ UNCHANGED <<bhs, interrupts, unseen, irq, line, mod, top>> /\ \A l \in Line : Taken(l)' = Taken(l)
      /\ Scheduling' = Scheduling /\ TakenOf' = TakenOf
  BY DEF Run, Return, Unlock, counts, admin, Taken, Scheduling, TakenOf
<1>3. OnLine'
  BY <1>2 DEF RInv, OnLine, Dynamic
<1>4. CASE Return(i) \/ Unlock(i)
  <2>1. UNCHANGED <<queued, running>>
    BY <1>4 DEF Return, Unlock
  <2>2. Credit'
    BY <1>2, <2>1, QuietCredit DEF RInv, LInv
  <2>3. QED BY <1>1, <1>2, <1>3, <2>2 DEF RInv
<1>5. CASE Run(i)
  <2>1. i \in queued /\ i \notin running /\ queued' = queued \ {i} /\ running' = running \cup {i}
    BY <1>5 DEF Run, Busy
  <2>2. IsFiniteSet(queued') /\ Cardinality(queued') = Cardinality(queued) - 1
    BY <2>1, FS_RemoveElement DEF RInv, Credit
  <2>3. IsFiniteSet(running') /\ Cardinality(running') = Cardinality(running) + 1
    BY <2>1, FS_AddElement DEF RInv, Credit
  <2>4. Cardinality(queued) \in Nat /\ Cardinality(Scheduling) \in Nat /\ Cardinality(running) \in Nat
    BY FS_CardinalityType DEF RInv, Credit
  <2>5. /\ SumOver(TakenOf)' = SumOver(TakenOf) /\ SumOver(bhs)' = SumOver(bhs)
        /\ Summable(TakenOf)' /\ Summable(bhs)'
    BY <1>2, PrimedSums DEF RInv, Credit
  <2>6. Credit'
    BY <1>2, <2>2, <2>3, <2>4, <2>5 DEF RInv, Credit
  <2>7. QED BY <1>1, <1>2, <1>3, <2>6 DEF RInv
<1>6. QED BY <1>4, <1>5

LEMMA InitRInv == Init => RInv /\ ED!EInit
<1> SUFFICES ASSUME Init PROVE RInv /\ ED!EInit
  OBVIOUS
<1>1. LInv
  BY InitTypes, ZeroIsLine DEF Init, LInv, Loop, Mine
<1>2. OnLine
  BY ZeroIsLine DEF Init, OnLine
<1>3. TakenOf = [l \in Line |-> 0] /\ bhs = [l \in Line |-> 0]
  BY DEF Init, TakenOf, Taken
<1>4. Summable(TakenOf) /\ SumOver(TakenOf) = 0 /\ Summable(bhs) /\ SumOver(bhs) = 0
  BY <1>3, SumOfNone
<1>5. queued = {} /\ running = {} /\ Scheduling = {}
  BY DEF Init, Scheduling
<1>6. Credit
  BY <1>4, <1>5, FS_EmptySet DEF Credit
<1>7. ED!EInit
  BY <1>4 DEF ED!EInit, TakenOf, Init
<1>8. QED BY <1>1, <1>2, <1>6, <1>7 DEF RInv

(* Counting an interrupt is a Raise, counting a pass a Handle, the end of  *)
(* the module a Close; no other step shows.                                *)
LEMMA StepSimulation == RInv /\ [Next]_vars => RInv' /\ [ED!ENext]_(ED!evars)
<1> SUFFICES ASSUME RInv, [Next]_vars PROVE RInv' /\ [ED!ENext]_(ED!evars)
  OBVIOUS
<1> DEFINE raised == SumOver(TakenOf)
           handled == SumOver(bhs)
           open == mod \notin {"gone", "oops"}
<1>1. SUFFICES RInv' /\ \/ UNCHANGED <<raised, handled, open>>
                        \/ open /\ raised' = raised + 1 /\ UNCHANGED <<handled, open>>
                        \/ open /\ handled < raised /\ handled' = handled + 1 /\ UNCHANGED <<raised, open>>
                        \/ open /\ ~open' /\ UNCHANGED <<raised, handled>>
  BY DEF ED!ENext, ED!evars, ED!Raise, ED!Handle, ED!Close, TakenOf
<1>2. ASSUME TakenOf' = TakenOf PROVE raised' = raised
  BY <1>2, PrimedSums
<1>3. ASSUME bhs' = bhs PROVE handled' = handled
  BY <1>3, PrimedSums
<1>4. CASE UNCHANGED vars
  <2>1. UNCHANGED <<bhs, mod, line, irq, top, driver, queued, running, interrupts, unseen, next>> /\ TakenOf' = TakenOf
        /\ Scheduling' = Scheduling /\ \A l \in Line : Taken(l)' = Taken(l)
    BY <1>4 DEF vars, counts, admin, items, TakenOf, Taken, Scheduling
  <2>2. LInv'
    BY <1>4, <2>1, StepTypes DEF RInv, LInv, Loop, All, Last
  <2>3. Credit'
    BY <2>1, QuietCredit DEF RInv, LInv
  <2>4. OnLine'
    BY <2>1 DEF RInv, OnLine, Dynamic
  <2>5. QED BY <1>2, <1>3, <2>1, <2>2, <2>3, <2>4 DEF RInv
<1>5. CASE Next
  <2>1. UNCHANGED driver
    BY <1>5 DEF Next
  <2>2. CASE Admin
    BY <1>2, <1>3, <2>1, <2>2, AdminStep
  <2>3. ASSUME NEW l \in Line, TopHalf(l)
        PROVE  RInv' /\ \/ UNCHANGED <<raised, handled, open>>
                        \/ open /\ raised' = raised + 1 /\ UNCHANGED <<handled, open>>
                        \/ open /\ ~open' /\ UNCHANGED <<raised, handled>>
    <3>1. CASE TopCount(l)
      BY <1>3, <2>1, <3>1, CountedStep
    <3>2. CASE TopRecord(l) \/ AllocFails(l) \/ TopSchedule(l)
      BY <1>2, <1>3, <2>1, <3>2, HandlerStep
    <3>3. QED BY <2>3, <3>1, <3>2 DEF TopHalf
  <2>4. ASSUME NEW i \in Item, BottomHalf(i)
        PROVE  RInv' /\ \/ UNCHANGED <<raised, handled, open>>
                        \/ open /\ handled < raised /\ handled' = handled + 1 /\ UNCHANGED <<raised, open>>
    <3>1. open /\ (Run(i) \/ Count(i) \/ Return(i) \/ Unlock(i))
      BY <2>4 DEF BottomHalf
    <3>2. CASE Count(i)
      BY <1>2, <2>1, <3>1, <3>2, PassStep
    <3>3. CASE Run(i) \/ Return(i) \/ Unlock(i)
      BY <1>2, <1>3, <2>1, <3>1, <3>3, ItemStep
    <3>4. QED BY <3>1, <3>2, <3>3
  <2>5. QED BY <1>5, <2>2, <2>3, <2>4 DEF Next
<1>6. QED BY <1>4, <1>5

(* All four kinds of driver, on any number of lines, implement the safety  *)
(* of EventDelivery: no bottom half is ever ahead of the interrupts, and   *)
(* none counts after the module is gone.                                   *)
THEOREM Refinement == Spec => ED!ESafety
<1>1. QED
  BY InitRInv, StepSimulation, PTL DEF Spec, ED!ESafety
=============================================================================
