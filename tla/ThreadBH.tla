------------------------------- MODULE ThreadBH -------------------------------
(***************************************************************************)
(* The shared-interrupt drivers whose bottom half is a kernel thread:      *)
(* "improved" is s_20/lab3_one_thread_improved.c, which counts pending     *)
(* events in nevents and catches up with them; "basic" is                  *)
(* s_20/lab2_one_thread.c, which only has the flag cond.  The top half,    *)
(* the thread and the loading and unloading process interleave at every    *)
(* atomic operation.  The statistic catchup, which nothing reads, is left  *)
(* out.                                                                    *)
(***************************************************************************)
EXTENDS Integers

CONSTANTS Drivers,  \* the drivers a run considers
          MaxIrq    \* bound: interrupts raised on the line
ASSUME ThreadBHAssumption == Drivers \subseteq {"basic", "improved"} /\ MaxIrq \in Nat

VARIABLES driver,   \* the one that is loaded
          counter_th, counter_bh, nevents, cond,
          top,      \* where my_interrupt is
          thr,      \* where thr_fun is; "asleep" is on wq
          stop,     \* kthread_should_stop() of the thread
          module    \* how far my_init and my_exit have come

threadVars == <<driver, counter_th, counter_bh, nevents, cond, top, thr, stop, module>>

Loop  == {"count", "dec"}                         \* the drain loop of thr_fun
Alive == {"created", "clear", "wait", "asleep", "woken", "check", "while"} \cup Loop

CatchUp == driver = "improved"

ThreadInit == /\ driver \in Drivers /\ counter_th = 0 /\ counter_bh = 0 /\ nevents = 0 /\ cond = 0
              /\ top = "idle" /\ thr = "none" /\ stop = FALSE /\ module = "unloaded"
-----------------------------------------------------------------------------
(* A step of thr_fun that moves it from one place to another.  Once the    *)
(* load has failed its text is gone and its steps are undefined.           *)
ThrGoto(from, to) == /\ module # "failed" /\ thr = from /\ thr' = to
                     /\ UNCHANGED <<counter_th, top, stop, module>>

(* Plausible bugs, which the properties below must catch.                  *)
TopPostSets   == /\ CatchUp /\ module \in {"loaded", "stopping"} /\ top = "idle"
                 /\ counter_th < MaxIrq /\ nevents' = 1 /\ top' = "posted"
                 /\ UNCHANGED <<counter_th, counter_bh, cond, thr, stop, module>>
TopWakeLost   == /\ top = "set" /\ top' = "idle"
                 /\ UNCHANGED <<counter_th, counter_bh, nevents, cond, thr, stop, module>>
ThrWaitDeaf   == /\ ThrGoto("wait", IF cond = 1 THEN "woken" ELSE "asleep")
                 /\ UNCHANGED <<counter_bh, nevents, cond>>
ThrWokenBlind == /\ ThrGoto("woken", IF ~CatchUp THEN "while" ELSE IF stop THEN "done" ELSE "check")
                 /\ counter_bh' = counter_bh + (IF CatchUp THEN 0 ELSE 1)
                 /\ UNCHANGED <<nevents, cond>>
ThrDecOnce    == /\ ThrGoto("dec", "while") /\ nevents' = nevents - 1
                 /\ UNCHANGED <<counter_bh, cond>>
-----------------------------------------------------------------------------
(* my_init: the thread is running before the line is requested.  A failing *)
(* kthread_run returns an error pointer, which the test for NULL lets by.  *)
Spawn == /\ module = "unloaded" /\ module' = "spawned"
         /\ cond' = 1 /\ nevents' = 0 /\ thr' \in {"created", "error"}
         /\ UNCHANGED <<counter_th, counter_bh, top, stop>>

(* my_generic_init.  When request_irq fails the load fails, and the text   *)
(* of the module goes away under the thread, which nobody stops.           *)
RequestIrq == /\ module = "spawned" /\ module' \in {"loaded", "failed"}
              /\ counter_th' = 0 /\ counter_bh' = 0
              /\ UNCHANGED <<nevents, cond, top, thr, stop>>

(* my_exit: kthread_stop sets the flag, wakes the thread and waits for it; *)
(* the line is freed after that.                                           *)
KthreadStop == /\ module = "loaded" /\ thr # "error" /\ module' = "stopping"
               /\ stop' = TRUE /\ thr' = (IF thr = "asleep" THEN "wait" ELSE thr)
               /\ UNCHANGED <<counter_th, counter_bh, nevents, cond, top>>

FreeIrq == /\ module = "stopping" /\ thr = "done" /\ top = "idle" /\ module' = "freed"
           /\ UNCHANGED <<counter_th, counter_bh, nevents, cond, top, thr, stop>>

Admin == Spawn \/ RequestIrq \/ KthreadStop \/ FreeIrq
-----------------------------------------------------------------------------
Requested == module \in {"loaded", "stopping"}

(* my_interrupt: post the event, count it, set cond, wake the thread.      *)
TopPost == /\ CatchUp /\ Requested /\ top = "idle" /\ counter_th < MaxIrq
           /\ nevents' = nevents + 1 /\ top' = "posted"
           /\ UNCHANGED <<counter_th, counter_bh, cond, thr, stop, module>>

TopCount == /\ IF CatchUp THEN top = "posted"
                          ELSE Requested /\ top = "idle" /\ counter_th < MaxIrq
            /\ counter_th' = counter_th + 1 /\ top' = "counted"
            /\ UNCHANGED <<counter_bh, nevents, cond, thr, stop, module>>

TopSetCond == /\ top = "counted" /\ cond' = 1 /\ top' = "set"
              /\ UNCHANGED <<counter_th, counter_bh, nevents, thr, stop, module>>

TopWake == /\ top = "set" /\ top' = "idle"
           /\ thr' = (IF thr = "asleep" THEN "wait" ELSE thr)
           /\ UNCHANGED <<counter_th, counter_bh, nevents, cond, stop, module>>

TopFinish == (CatchUp /\ TopCount) \/ TopSetCond \/ TopWake
TopHalf   == TopPost \/ TopCount \/ TopSetCond \/ TopWake
-----------------------------------------------------------------------------
(* A thread stopped before it first runs never enters thr_fun.             *)
ThrStart == /\ ThrGoto("created", IF stop THEN "done" ELSE "clear")
            /\ UNCHANGED <<counter_bh, nevents, cond>>

ThrClear == ThrGoto("clear", "wait") /\ cond' = 0 /\ UNCHANGED <<counter_bh, nevents>>

(* wait_event_interruptible puts the thread on wq before it tests, so the  *)
(* test and the sleep are one step; kernel threads get no signals.         *)
ThrWait == /\ ThrGoto("wait", IF stop \/ cond = 1 THEN "woken" ELSE "asleep")
           /\ UNCHANGED <<counter_bh, nevents, cond>>

(* After the wait: the improved driver returns if it is to stop, the basic *)
(* one counts a pass if cond is still set.                                 *)
ThrWoken == /\ ThrGoto("woken", IF ~CatchUp THEN "while" ELSE IF stop THEN "done" ELSE "check")
            /\ counter_bh' = counter_bh + (IF ~CatchUp /\ cond = 1 THEN 1 ELSE 0)
            /\ UNCHANGED <<nevents, cond>>

ThrCheck == /\ ThrGoto("check", IF nevents <= 0 THEN "while" ELSE "count")
            /\ UNCHANGED <<counter_bh, nevents, cond>>

ThrCount == /\ ThrGoto("count", "dec") /\ counter_bh' = counter_bh + 1
            /\ UNCHANGED <<nevents, cond>>

ThrDec == /\ ThrGoto("dec", IF nevents = 1 THEN "while" ELSE "count")
          /\ nevents' = nevents - 1 /\ UNCHANGED <<counter_bh, cond>>

ThrWhile == /\ ThrGoto("while", IF stop THEN "done" ELSE "clear")
            /\ UNCHANGED <<counter_bh, nevents, cond>>

Thread == ThrStart \/ ThrClear \/ ThrWait \/ ThrWoken \/ ThrCheck
          \/ ThrCount \/ ThrDec \/ ThrWhile

ThreadNext == UNCHANGED driver /\ (Admin \/ TopHalf \/ Thread)

(* A handler that has started returns and a runnable thread gets the CPU.  *)
(* The interrupts, the load and the unload are nobody's duty.              *)
ThreadFairness == /\ WF_threadVars(UNCHANGED driver /\ TopFinish)
                  /\ WF_threadVars(UNCHANGED driver /\ Thread)
ThreadSpec == ThreadInit /\ [][ThreadNext]_threadVars /\ ThreadFairness
-----------------------------------------------------------------------------
TypeOK == /\ driver \in Drivers /\ counter_th \in Nat /\ counter_bh \in Nat /\ nevents \in Nat
          /\ cond \in {0, 1} /\ top \in {"idle", "posted", "counted", "set"}
          /\ thr \in Alive \cup {"none", "error", "done"} /\ stop \in BOOLEAN
          /\ module \in {"unloaded", "spawned", "loaded", "stopping", "freed", "failed"}

Posted == IF top = "posted" THEN 1 ELSE 0   \* posted, not counted yet
InLoop == IF thr = "dec" THEN 1 ELSE 0      \* handled, not taken off yet

(* Each event is in nevents or has been handled, whatever the interrupt    *)
(* handler, the thread and the unload interleave.                          *)
Accounting == CatchUp => counter_th + Posted + InLoop = counter_bh + nevents

(* The drain loop is only ever in progress with an event left to take.     *)
LoopHasWork == thr \in Loop => nevents > 0

(* A thread that starts before the line is requested, and finds cond set   *)
(* by my_init, touches nothing.                                            *)
NothingBeforeRequest == module \in {"unloaded", "spawned", "failed"} =>
   counter_th = 0 /\ counter_bh = 0 /\ nevents = 0 /\ top = "idle"

(* The thread is never asleep on a set cond, unless the handler that set   *)
(* it is still about to wake it: no wakeup is lost between test and sleep. *)
NoMissedWake == thr = "asleep" /\ cond = 1 => top = "set"

(* A pass of the thread answers an interrupt of its own; what the basic    *)
(* thread has set cond for, it has not made a pass for yet.                *)
Owed == IF ~CatchUp /\ cond = 1 /\ thr \in {"wait", "asleep", "woken"} THEN 1 ELSE 0
PassesNotAhead == counter_bh + Owed <= counter_th + Posted

(* "Make sure you kill the thread when you unload the module"              *)
(* (lab2_one_thread.c:40): my_exit does not free the line, and with it     *)
(* return, while the thread lives; and it is not stuck waiting for it.     *)
FreedWithoutThread == module = "freed" => thr = "done"
StopTerminates     == stop ~> thr = "done"

(* An interrupt that has not yet set cond when the thread is asleep wakes  *)
(* it, and the improved thread then drains every pending event.            *)
SleeperDrains == (CatchUp /\ thr = "asleep" /\ top \in {"posted", "counted"})
                    ~> (nevents = 0 \/ stop)

(* "consume more than one event when it is called, cleaning up the pending *)
(* queue" (lab3_one_thread_improved.c:27): while the thread is not being   *)
(* stopped, pending events are drained.                                    *)
EventsDrain == (nevents > 0 /\ thr # "error")
                  ~> (nevents = 0 \/ stop \/ module = "failed")

(* The refinement of EventDelivery; only its safety, see EventsDrain.      *)
ED == INSTANCE EventDelivery WITH raised <- counter_th + Posted, handled <- counter_bh,
                                  open <- module # "freed"
ImplementsEventDelivery == ED!ESafety
=============================================================================
