------------------------------ MODULE TaskletBH ------------------------------
(***************************************************************************)
(* The shared-interrupt driver with a catch-up tasklet:                    *)
(* s_20/lab3_one_tasklet_improved.c over s_20/lab_one_interrupt.h.         *)
(*                                                                         *)
(* The top half (my_interrupt) and the bottom half (t_fun) run on any CPU  *)
(* and interleave at every atomic_t operation.  The kernel serialises the  *)
(* handler of one line with itself, and a tasklet with itself; it clears   *)
(* TASKLET_STATE_SCHED before it calls t_fun, so a schedule during the run *)
(* queues one more run.                                                    *)
(***************************************************************************)
EXTENDS Integers

CONSTANT MaxIrq     \* bound: interrupts raised on the line
ASSUME MaxIrqAssumption == MaxIrq \in Nat

VARIABLES counter_th, counter_bh,  \* executions of the two halves
          nevents,                 \* events the tasklet has still to handle
          catchup,                 \* events handled without a run of their own
          top,                     \* where my_interrupt is
          bot,                     \* where t_fun is
          sched,                   \* TASKLET_STATE_SCHED of t_name
          irq                      \* "unloaded", "requested" or "freed"

vars == <<counter_th, counter_bh, nevents, catchup, top, bot, sched, irq>>

Init == /\ counter_th = 0 /\ counter_bh = 0 /\ nevents = 0 /\ catchup = 0
        /\ top = "idle" /\ bot = "idle" /\ sched = FALSE /\ irq = "unloaded"

(* my_init and my_generic_init zero the four counters before request_irq;  *)
(* a failing request_irq fails the load and leaves everything unchanged.   *)
MyInit == /\ irq = "unloaded" /\ irq' = "requested"
          /\ UNCHANGED <<counter_th, counter_bh, nevents, catchup, top, bot, sched>>

(* synchronize_irq and free_irq wait for the handler, not for the tasklet. *)
MyExit == /\ irq = "requested" /\ top = "idle" /\ irq' = "freed"
          /\ UNCHANGED <<counter_th, counter_bh, nevents, catchup, top, bot, sched>>
-----------------------------------------------------------------------------
(* Plausible bugs, one per property: the run of a mutated action must fail. *)
TopPostSets     == /\ top = "counted" /\ nevents' = 1 /\ top' = "posted"
                   /\ UNCHANGED <<counter_th, counter_bh, catchup, bot, sched, irq>>
TopScheduleLost == /\ top = "posted" /\ top' = "delay"
                   /\ UNCHANGED <<counter_th, counter_bh, nevents, catchup, bot, sched, irq>>
BotDecOnce      == /\ bot = "dec" /\ nevents' = nevents - 1 /\ bot' = "idle"
                   /\ UNCHANGED <<counter_th, counter_bh, catchup, top, sched, irq>>
-----------------------------------------------------------------------------
(* my_interrupt: count the interrupt, post the event, schedule, return.    *)
TopCount == /\ irq = "requested" /\ top = "idle" /\ counter_th < MaxIrq
            /\ counter_th' = counter_th + 1 /\ top' = "counted"
            /\ UNCHANGED <<counter_bh, nevents, catchup, bot, sched, irq>>

TopPost == /\ top = "counted" /\ nevents' = nevents + 1 /\ top' = "posted"
           /\ UNCHANGED <<counter_th, counter_bh, catchup, bot, sched, irq>>

TopSchedule == /\ top = "posted" /\ sched' = TRUE /\ top' = "delay"
               /\ UNCHANGED <<counter_th, counter_bh, nevents, catchup, bot, irq>>

TopReturn == /\ top = "delay" /\ top' = "idle"
             /\ UNCHANGED <<counter_th, counter_bh, nevents, catchup, bot, sched, irq>>

TopHalf == TopCount \/ TopPost \/ TopSchedule \/ TopReturn
-----------------------------------------------------------------------------
(* The softirq takes the tasklet off its list and calls t_fun.             *)
TaskletAction == /\ sched /\ bot = "idle" /\ sched' = FALSE /\ bot' = "check"
                 /\ UNCHANGED <<counter_th, counter_bh, nevents, catchup, top, irq>>

(* t_fun returns at once when there is nothing left to handle.             *)
BotCheck == /\ bot = "check" /\ bot' = (IF nevents <= 0 THEN "idle" ELSE "count")
            /\ UNCHANGED <<counter_th, counter_bh, nevents, catchup, top, sched, irq>>

BotCount == /\ bot = "count" /\ counter_bh' = counter_bh + 1 /\ bot' = "dec"
            /\ UNCHANGED <<counter_th, nevents, catchup, top, sched, irq>>

(* atomic_dec_and_test: the pass that takes the last event ends the loop.  *)
BotDec == /\ bot = "dec" /\ nevents' = nevents - 1
          /\ bot' = (IF nevents = 1 THEN "idle" ELSE "catchup")
          /\ UNCHANGED <<counter_th, counter_bh, catchup, top, sched, irq>>

BotCatchup == /\ bot = "catchup" /\ catchup' = catchup + 1 /\ bot' = "count"
              /\ UNCHANGED <<counter_th, counter_bh, nevents, top, sched, irq>>

(* After MyExit the text and the data of the module are gone: what a step  *)
(* of t_fun does is undefined, so its steps exist only while loaded.       *)
BottomHalf == irq = "requested"
              /\ (TaskletAction \/ BotCheck \/ BotCount \/ BotDec \/ BotCatchup)

Next == MyInit \/ MyExit \/ TopHalf \/ BottomHalf

(* A handler that has started runs to its return; a scheduled tasklet is   *)
(* run by the softirq (or ksoftirqd) and its loop is not preempted for     *)
(* ever.  Nothing obliges the device to interrupt or the user to load or   *)
(* unload the module.                                                      *)
Fairness == /\ WF_vars(TopPost \/ TopSchedule \/ TopReturn)
            /\ WF_vars(BottomHalf)

Spec == Init /\ [][Next]_vars /\ Fairness
-----------------------------------------------------------------------------
TypeOK == /\ counter_th \in 0..MaxIrq /\ counter_bh \in Nat
          /\ nevents \in Nat /\ catchup \in Nat
          /\ top \in {"idle", "counted", "posted", "delay"}
          /\ bot \in {"idle", "check", "count", "dec", "catchup"}
          /\ sched \in BOOLEAN /\ irq \in {"unloaded", "requested", "freed"}

InTop == IF top = "counted" THEN 1 ELSE 0   \* counted, not posted yet
InBot == IF bot = "dec" THEN 1 ELSE 0       \* handled, not taken off yet

(* Every interrupt is, at every moment, either handled or still accounted  *)
(* for in nevents, up to the one step each half may be in the middle of.   *)
Accounting == counter_th + InBot = counter_bh + nevents + InTop

(* The bottom half is never ahead of the top half, whatever the two CPUs   *)
(* interleave: the statistics the driver prints are ordered.               *)
HandledNotAhead == counter_bh <= counter_th

(* No event is stranded: while some event is unhandled the tasklet is      *)
(* queued or in its loop, or the top half is about to queue it.            *)
NoStrandedEvent == nevents > 0 => sched \/ bot # "idle" \/ top = "posted"

(* The inductive invariant: the loop is entered and left on nevents > 0.   *)
LoopHasWork == bot \in {"count", "dec", "catchup"} => nevents > 0

(* The refinement of EventDelivery, with its fairness: each interrupt is   *)
(* handled by a pass of its own unless the module is unloaded first.       *)
ED == INSTANCE EventDelivery WITH raised <- counter_th, handled <- counter_bh,
                                  open <- irq # "freed"
ImplementsEventDelivery == ED!ESpec
=============================================================================
