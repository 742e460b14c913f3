---------------------------- MODULE ThreadBHProofs ----------------------------
(***************************************************************************)
(* The safety of both thread drivers for any number of interrupts:         *)
(* accounting, no missed wakeup, no pass ahead of the interrupts, and the  *)
(* safety refinement of EventDelivery.                                     *)
(***************************************************************************)
EXTENDS ThreadBH, TLAPS

(* The basic driver posts no events, and its passes are covered by the     *)
(* interrupts even while a handler has counted one and not yet set cond.   *)
BasicCredit == ~CatchUp =>
   /\ nevents = 0 /\ top # "posted" /\ thr \notin Loop \cup {"check"}
   /\ counter_bh + Owed + (IF top = "counted" THEN 1 ELSE 0) <= counter_th

(* cond = 1 from my_init is cleared before the thread first waits.         *)
NoDebtBeforeRequest == module \in {"unloaded", "spawned", "failed"} => Owed = 0

(* The inductive invariant: NothingBeforeRequest is what makes the late    *)
(* reset of the counters in my_generic_init harmless, LoopHasWork what     *)
(* keeps nevents natural, BasicCredit what keeps the basic driver's passes *)
(* behind its interrupts.                                                  *)
IInv == /\ TypeOK /\ Accounting /\ LoopHasWork /\ NothingBeforeRequest
        /\ NoMissedWake /\ FreedWithoutThread
        /\ BasicCredit /\ NoDebtBeforeRequest

(* A driver that is not loaded yet satisfies it. *)
LEMMA InitIInv == ThreadInit => IInv
<1> SUFFICES ASSUME ThreadInit PROVE IInv
  OBVIOUS
<1>1. TypeOK
  <2>1. stop \in BOOLEAN
    BY Zenon DEF ThreadInit
  <2>2. QED
    BY <2>1 DEF ThreadInit, TypeOK, Alive, Loop
<1>2. Accounting /\ LoopHasWork /\ NothingBeforeRequest
  BY DEF ThreadInit, Accounting, Posted, InLoop, LoopHasWork, Loop, NothingBeforeRequest
<1>3. NoMissedWake /\ FreedWithoutThread
  BY DEF ThreadInit, NoMissedWake, FreedWithoutThread
<1>4. BasicCredit /\ NoDebtBeforeRequest
  BY DEF ThreadInit, BasicCredit, NoDebtBeforeRequest, Owed, Loop
<1>5. QED
  BY <1>1, <1>2, <1>3, <1>4 DEF IInv

(* Every step of the handler, the bottom half and the (un)load keeps it. *)
LEMMA StepIInv == IInv /\ [ThreadNext]_threadVars => IInv'
<1> SUFFICES ASSUME IInv, [ThreadNext]_threadVars PROVE IInv'
  OBVIOUS
<1>0. driver' = driver
  BY DEF ThreadNext, threadVars
<1> USE <1>0, ThreadBHAssumption
<1> USE DEF IInv, TypeOK, Accounting, LoopHasWork, NothingBeforeRequest,
            NoMissedWake, FreedWithoutThread, BasicCredit, NoDebtBeforeRequest,
            Posted, InLoop, Owed, CatchUp, Alive, Loop
<1>1. CASE Admin
  <2>1. CASE Spawn
    BY <2>1 DEF Spawn
  <2>2. CASE RequestIrq
    BY <2>2 DEF RequestIrq
  <2>3. CASE KthreadStop
    BY <2>3 DEF KthreadStop
  <2>4. CASE FreeIrq
    BY <2>4 DEF FreeIrq
  <2>5. QED
    BY <1>1, <2>1, <2>2, <2>3, <2>4 DEF Admin
<1>2. CASE TopHalf
  <2>1. CASE TopPost
    BY <2>1 DEF TopPost, Requested
  <2>2. CASE TopCount
    BY <2>2 DEF TopCount, Requested
  <2>3. CASE TopSetCond
    BY <2>3 DEF TopSetCond
  <2>4. CASE TopWake
    BY <2>4 DEF TopWake
  <2>5. QED
    BY <1>2, <2>1, <2>2, <2>3, <2>4 DEF TopHalf
<1>3. CASE Thread
  <2>1. CASE ThrStart \/ ThrClear \/ ThrWait \/ ThrWhile
    BY <2>1 DEF ThrStart, ThrClear, ThrWait, ThrWhile, ThrGoto
  <2>2. CASE ThrWoken
    BY <2>2 DEF ThrWoken, ThrGoto
  <2>3. CASE ThrCheck
    BY <2>3 DEF ThrCheck, ThrGoto
  <2>4. CASE ThrCount
    BY <2>4 DEF ThrCount, ThrGoto
  <2>5. CASE ThrDec
    BY <2>5 DEF ThrDec, ThrGoto
  <2>6. QED
    BY <1>3, <2>1, <2>2, <2>3, <2>4, <2>5 DEF Thread
<1>4. CASE UNCHANGED threadVars
  BY <1>4 DEF threadVars
<1>5. QED
  BY <1>1, <1>2, <1>3, <1>4 DEF ThreadNext

(* The strengthening holds in every reachable state. *)
THEOREM Inductive == ThreadSpec => []IInv
<1>1. IInv /\ [ThreadNext]_threadVars => IInv'
  BY StepIInv
<1>2. QED
  BY <1>1, InitIInv, PTL DEF ThreadSpec

(* The variables of both drivers keep their types; in particular nevents   *)
(* never goes below zero, although the thread decrements it untested.      *)
THEOREM TypeCorrect == ThreadSpec => []TypeOK
<1>1. IInv => TypeOK
  BY DEF IInv
<1>2. ThreadSpec => []IInv
  BY Inductive
<1>3. QED
  BY <1>1, <1>2, PTL

(* Every event posted by my_interrupt is in nevents or has been handled.   *)
THEOREM EventsAccounted == ThreadSpec => []Accounting
<1>1. IInv => Accounting
  BY DEF IInv
<1>2. ThreadSpec => []IInv
  BY Inductive
<1>3. QED
  BY <1>1, <1>2, PTL

(* The thread never sleeps on a set cond without a wakeup on its way.      *)
THEOREM WakeupsKept == ThreadSpec => []NoMissedWake
<1>1. IInv => NoMissedWake
  BY DEF IInv
<1>2. ThreadSpec => []IInv
  BY Inductive
<1>3. QED
  BY <1>1, <1>2, PTL

(* my_exit does not return while the thread lives. *)
THEOREM ThreadGone == ThreadSpec => []FreedWithoutThread
<1>1. IInv => FreedWithoutThread
  BY DEF IInv
<1>2. ThreadSpec => []IInv
  BY Inductive
<1>3. QED
  BY <1>1, <1>2, PTL

(* Neither driver makes a pass that no interrupt of its own asked for.     *)
THEOREM NotAhead == ThreadSpec => []PassesNotAhead
<1>1. IInv => PassesNotAhead
  BY DEF IInv, TypeOK, Accounting, LoopHasWork, BasicCredit, PassesNotAhead,
         Owed, Posted, InLoop, Loop
<1>2. ThreadSpec => []IInv
  BY Inductive
<1>3. QED
  BY <1>1, <1>2, PTL

(* A step of the driver is a step of EventDelivery or leaves it unchanged. *)
LEMMA StepSimulation == IInv /\ [ThreadNext]_threadVars => [ED!ENext]_(ED!evars)
<1> SUFFICES ASSUME IInv, [ThreadNext]_threadVars PROVE [ED!ENext]_(ED!evars)
  OBVIOUS
<1> USE DEF ED!ENext, ED!evars, Posted
<1>1. CASE Admin
  <2>1. CASE Spawn \/ KthreadStop
    BY <2>1 DEF Spawn, KthreadStop
  <2>2. CASE RequestIrq
    BY <2>2 DEF RequestIrq, IInv, NothingBeforeRequest
  <2>3. CASE FreeIrq
    BY <2>3 DEF FreeIrq, ED!Close
  <2>4. QED
    BY <1>1, <2>1, <2>2, <2>3 DEF Admin
<1>2. CASE TopHalf
  <2>1. CASE TopPost
    BY <2>1 DEF TopPost, Requested, ED!Raise, IInv, TypeOK
  <2>2. CASE TopCount
    <3>1. CASE CatchUp
      BY <2>2, <3>1 DEF TopCount, IInv, TypeOK
    <3>2. CASE ~CatchUp
      BY <2>2, <3>2 DEF TopCount, Requested, ED!Raise, IInv, TypeOK
    <3>3. QED
      BY <3>1, <3>2
  <2>3. CASE TopSetCond \/ TopWake
    BY <2>3 DEF TopSetCond, TopWake
  <2>4. QED
    BY <1>2, <2>1, <2>2, <2>3 DEF TopHalf
<1>3. CASE Thread
  <2>1. CASE ThrCount
    <3>1. counter_bh < counter_th + Posted
      BY <2>1 DEF ThrCount, ThrGoto, IInv, TypeOK, Accounting, LoopHasWork, BasicCredit, Loop, InLoop
    <3>2. module # "freed"
      BY <2>1 DEF ThrCount, ThrGoto, IInv, FreedWithoutThread
    <3>3. QED
      BY <2>1, <3>1, <3>2 DEF ThrCount, ThrGoto, ED!Handle
  <2>2. CASE ThrWoken
    <3>1. CASE CatchUp \/ cond = 0
      BY <2>2, <3>1 DEF ThrWoken, ThrGoto, IInv, TypeOK
    <3>2. CASE ~CatchUp /\ cond = 1
      <4>1. counter_bh < counter_th + Posted
        BY <2>2, <3>2 DEF ThrWoken, ThrGoto, IInv, TypeOK, BasicCredit, Owed
      <4>2. module # "freed"
        BY <2>2 DEF ThrWoken, ThrGoto, IInv, FreedWithoutThread
      <4>3. QED
        BY <2>2, <3>2, <4>1, <4>2 DEF ThrWoken, ThrGoto, ED!Handle
    <3>3. QED
      BY <3>1, <3>2 DEF IInv, TypeOK
  <2>3. CASE ThrStart \/ ThrClear \/ ThrWait \/ ThrCheck \/ ThrDec \/ ThrWhile
    BY <2>3 DEF ThrStart, ThrClear, ThrWait, ThrCheck, ThrDec, ThrWhile, ThrGoto
  <2>4. QED
    BY <1>3, <2>1, <2>2, <2>3 DEF Thread
<1>4. CASE UNCHANGED threadVars
  BY <1>4 DEF threadVars
<1>5. QED
  BY <1>1, <1>2, <1>3, <1>4 DEF ThreadNext

(* Both thread drivers implement the safety of EventDelivery.              *)
THEOREM Refinement == ThreadSpec => ImplementsEventDelivery
<1>1. ThreadInit => ED!EInit
  BY DEF ThreadInit, ED!EInit, Posted
<1>2. IInv /\ [ThreadNext]_threadVars => [ED!ENext]_(ED!evars)
  BY StepSimulation
<1>3. ThreadSpec => []IInv
  BY Inductive
<1>4. QED
  BY <1>1, <1>2, <1>3, PTL DEF ThreadSpec, ImplementsEventDelivery, ED!ESafety
=============================================================================
