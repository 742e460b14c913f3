--------------------------- MODULE TaskletBHProofs ---------------------------
(***************************************************************************)
(* What TLC checks of TaskletBH for a few interrupts, proved for any       *)
(* number: the accounting of events, that no event is stranded, and the    *)
(* safety part of the refinement of EventDelivery.                         *)
(***************************************************************************)
EXTENDS TaskletBH, TLAPS

(* The inductive invariant.  Accounting alone is not inductive: that       *)
(* nevents stays a natural number needs LoopHasWork, and NoStrandedEvent   *)
(* needs Accounting's types.                                               *)
IInv == TypeOK /\ Accounting /\ NoStrandedEvent /\ LoopHasWork

(* A driver that is not loaded yet satisfies it. *)
LEMMA InitIInv == Init => IInv
<1> SUFFICES ASSUME Init PROVE IInv
  OBVIOUS
<1>1. TypeOK
  <2>1. sched \in BOOLEAN
    BY Zenon DEF Init
  <2>2. QED
    BY <2>1, MaxIrqAssumption DEF Init, TypeOK
<1>2. Accounting
  BY DEF Init, Accounting, InTop, InBot
<1>3. NoStrandedEvent /\ LoopHasWork
  BY DEF Init, NoStrandedEvent, LoopHasWork
<1>4. QED
  BY <1>1, <1>2, <1>3 DEF IInv

(* Every step of the handler, the bottom half and the (un)load keeps it. *)
LEMMA StepIInv == IInv /\ [Next]_vars => IInv'
<1> SUFFICES ASSUME IInv, [Next]_vars PROVE IInv'
  OBVIOUS
<1> USE MaxIrqAssumption DEF IInv, TypeOK, Accounting, NoStrandedEvent, LoopHasWork, InTop, InBot
<1>1. CASE MyInit
  BY <1>1 DEF MyInit
<1>2. CASE MyExit
  BY <1>2 DEF MyExit
<1>3. CASE TopHalf
  <2>1. CASE TopCount
    BY <2>1 DEF TopCount
  <2>2. CASE TopPost
    BY <2>2 DEF TopPost
  <2>3. CASE TopSchedule
    BY <2>3 DEF TopSchedule
  <2>4. CASE TopReturn
    BY <2>4 DEF TopReturn
  <2>5. QED
    BY <1>3, <2>1, <2>2, <2>3, <2>4 DEF TopHalf
<1>4. CASE BottomHalf
  <2>1. CASE TaskletAction
    BY <2>1 DEF TaskletAction
  <2>2. CASE BotCheck
    BY <2>2 DEF BotCheck
  <2>3. CASE BotCount
    BY <2>3 DEF BotCount
  <2>4. CASE BotDec
    BY <2>4 DEF BotDec
  <2>5. CASE BotCatchup
    BY <2>5 DEF BotCatchup
  <2>6. QED
    BY <1>4, <2>1, <2>2, <2>3, <2>4, <2>5 DEF BottomHalf
<1>5. CASE UNCHANGED vars
  BY <1>5 DEF vars
<1>6. QED
  BY <1>1, <1>2, <1>3, <1>4, <1>5 DEF Next

(* The strengthening holds in every reachable state. *)
THEOREM Inductive == Spec => []IInv
  BY InitIInv, StepIInv, PTL DEF Spec

(* The variables keep their types; in particular nevents never goes below  *)
(* zero, so t_fun never handles an event that was not posted.              *)
THEOREM TypeCorrect == Spec => []TypeOK
<1>1. IInv => TypeOK
  BY DEF IInv
<1>2. QED
  BY <1>1, Inductive, PTL

(* Every interrupt counted by my_interrupt is handled or still accounted   *)
(* for in nevents, up to the step each half is in the middle of.           *)
THEOREM EventsAccounted == Spec => []Accounting
<1>1. IInv => Accounting
  BY DEF IInv
<1>2. QED
  BY <1>1, Inductive, PTL

(* While an event is pending the tasklet is queued, running or about to be *)
(* queued by my_interrupt.                                                 *)
THEOREM NoneStranded == Spec => []NoStrandedEvent
<1>1. IInv => NoStrandedEvent
  BY DEF IInv
<1>2. QED
  BY <1>1, Inductive, PTL

(* A step of the driver is a step of EventDelivery or leaves it unchanged. *)
LEMMA StepSimulation == IInv /\ [Next]_vars => [ED!ENext]_(ED!evars)
<1> SUFFICES ASSUME IInv, [Next]_vars PROVE [ED!ENext]_(ED!evars)
  OBVIOUS
<1> USE DEF ED!ENext, ED!evars
<1>1. CASE MyInit
  BY <1>1 DEF MyInit
<1>2. CASE MyExit
  BY <1>2 DEF MyExit, ED!Close
<1>3. CASE TopHalf
  BY <1>3 DEF TopHalf, TopCount, TopPost, TopSchedule, TopReturn, ED!Raise
<1>4. CASE BottomHalf
  <2>1. CASE BotCount
    <3>1. counter_bh < counter_th
      BY <2>1 DEF IInv, TypeOK, Accounting, LoopHasWork, InTop, InBot, BotCount
    <3>2. QED
      BY <1>4, <2>1, <3>1 DEF BottomHalf, BotCount, ED!Handle
  <2>2. CASE TaskletAction \/ BotCheck \/ BotDec \/ BotCatchup
    BY <2>2 DEF TaskletAction, BotCheck, BotDec, BotCatchup
  <2>3. QED
    BY <1>4, <2>1, <2>2 DEF BottomHalf
<1>5. CASE UNCHANGED vars
  BY <1>5 DEF vars
<1>6. QED
  BY <1>1, <1>2, <1>3, <1>4, <1>5 DEF Next

(* The tasklet driver implements the safety part of EventDelivery: the     *)
(* bottom half is never ahead of the interrupts and skips none of them.    *)
THEOREM Refinement == Spec => ED!ESafety
<1>1. Init => ED!EInit
  BY DEF Init, ED!EInit
<1>2. QED
  BY <1>1, StepSimulation, Inductive, PTL DEF Spec, ED!ESafety
=============================================================================
