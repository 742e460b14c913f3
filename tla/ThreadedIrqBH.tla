---------------------------- MODULE ThreadedIrqBH ----------------------------
(***************************************************************************)
(* The threaded interrupt handler of s_20/lab6_one_threaded.c, of its gpio *)
(* and platform variants, and of lab6_all_threaded.c on each of its lines. *)
(* my_interrupt returns IRQ_WAKE_THREAD, on which the kernel sets          *)
(* IRQTF_RUNTHREAD and wakes the thread of the line; that thread clears    *)
(* the flag and calls thread_fun.  Without IRQF_ONESHOT the line is not    *)
(* masked while thread_fun runs, so interrupts keep coming.                *)
(***************************************************************************)
EXTENDS Integers

CONSTANTS MaxIrq,   \* bound: interrupts raised on the line
          IntMax    \* INT_MAX, the largest atomic_t (2^31 - 1 in the kernel)
ASSUME ThreadedIrqAssumption == MaxIrq \in Nat /\ IntMax \in Nat /\ MaxIrq <= IntMax

VARIABLES counter_th, counter_bh, nevents,  \* atomic_t: they wrap
          top,        \* where my_interrupt is
          runthread,  \* IRQTF_RUNTHREAD
          thr,        \* where thread_fun is
          irq

vars == <<counter_th, counter_bh, nevents, top, runthread, thr, irq>>

Wrap(n) == ((n + IntMax + 1) % (2 * IntMax + 2)) - IntMax - 1

Init == /\ counter_th = 0 /\ counter_bh = 0 /\ nevents = 0
        /\ top = "idle" /\ runthread = FALSE /\ thr = "idle" /\ irq = "unloaded"

MyInit == /\ irq = "unloaded" /\ irq' = "requested"
          /\ UNCHANGED <<counter_th, counter_bh, nevents, top, runthread, thr>>

(* synchronize_irq and free_irq wait for the handler and for the thread.   *)
MyExit == /\ irq = "requested" /\ top = "idle" /\ ~runthread /\ thr = "idle" /\ irq' = "freed"
          /\ UNCHANGED <<counter_th, counter_bh, nevents, top, runthread, thr>>
-----------------------------------------------------------------------------
(* Plausible bugs, which the properties below must catch.                  *)
TopPostLost   == /\ top = "counted" /\ top' = "posted"
                 /\ UNCHANGED <<counter_th, counter_bh, nevents, runthread, thr, irq>>
TopReturnNone == /\ top = "posted" /\ top' = "idle"
                 /\ UNCHANGED <<counter_th, counter_bh, nevents, runthread, thr, irq>>
ThreadDecOnly == /\ thr = "dec" /\ nevents' = Wrap(nevents - 1) /\ thr' = "count"
                 /\ UNCHANGED <<counter_th, counter_bh, top, runthread, irq>>
-----------------------------------------------------------------------------
TopCount == /\ irq = "requested" /\ top = "idle" /\ counter_th < MaxIrq
            /\ counter_th' = counter_th + 1 /\ top' = "counted"
            /\ UNCHANGED <<counter_bh, nevents, runthread, thr, irq>>

TopPost == /\ top = "counted" /\ nevents' = Wrap(nevents + 1) /\ top' = "posted"
           /\ UNCHANGED <<counter_th, counter_bh, runthread, thr, irq>>

(* The handler returns IRQ_WAKE_THREAD.                                    *)
TopReturn == /\ top = "posted" /\ top' = "idle" /\ runthread' = TRUE
             /\ UNCHANGED <<counter_th, counter_bh, nevents, thr, irq>>

(* The thread of the line takes the flag and calls thread_fun, which tests *)
(* nevents only after its first pass.                                      *)
ThreadRun == /\ runthread /\ thr = "idle" /\ runthread' = FALSE /\ thr' = "count"
             /\ UNCHANGED <<counter_th, counter_bh, nevents, top, irq>>

ThreadCount == /\ thr = "count" /\ counter_bh' = Wrap(counter_bh + 1) /\ thr' = "dec"
               /\ UNCHANGED <<counter_th, nevents, top, runthread, irq>>

ThreadDec == /\ thr = "dec" /\ nevents' = Wrap(nevents - 1)
             /\ thr' = (IF Wrap(nevents - 1) = 0 THEN "idle" ELSE "count")
             /\ UNCHANGED <<counter_th, counter_bh, top, runthread, irq>>

TopHalf == TopCount \/ TopPost \/ TopReturn
Thread  == ThreadRun \/ ThreadCount \/ ThreadDec
Next    == MyInit \/ MyExit \/ TopHalf \/ Thread

(* A handler that started returns, a flagged thread is scheduled.          *)
Fairness == WF_vars(TopPost \/ TopReturn) /\ WF_vars(Thread)
Spec == Init /\ [][Next]_vars /\ Fairness
-----------------------------------------------------------------------------
(* Events and passes balance, but only modulo the width of the counters.   *)
AccountingModulo ==
  Wrap(counter_bh + nevents + (IF top = "counted" THEN 1 ELSE 0))
    = Wrap(counter_th + (IF thr = "dec" THEN 1 ELSE 0))

(* A pending event has its thread flagged or running.                      *)
NoStrandedEvent == nevents # 0 => runthread \/ thr # "idle" \/ top = "posted"

(* Every run of thread_fun ends, if only by wrapping round.                *)
RunTerminates == thr # "idle" ~> thr = "idle"

(* "solve the producer/consumer problem with a threaded interrupt handler" *)
(* (lab6_one_threaded.c:22): nothing is consumed that was not produced.    *)
HandledNotAhead == counter_bh <= counter_th
=============================================================================
