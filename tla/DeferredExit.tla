---------------------------- MODULE DeferredExit ----------------------------
(***************************************************************************)
(* What a module leaves with the kernel to be called later - timers,       *)
(* tasklets and works - against its exit.  A driver is a record: what      *)
(* queues its items, what a callback does, which calls its exit makes.     *)
(* The kernel runs a queued item at any time and on another CPU; an item   *)
(* may be queued again while it runs.  The exit only starts when no        *)
(* process has the device open, so no write is under way.  After the exit  *)
(* the module's text and static data are gone.                             *)
(***************************************************************************)
EXTENDS Naturals, Sequences

CONSTANTS ExitDrivers,  \* the drivers a run considers, as records
          MaxItems      \* bound: items that exist at a time

Items == 1..MaxItems
MyData == 0             \* my_data.work, which is never queued

(* starts: what queues an item.  again: the callback arms itself again.    *)
(* memory: of the item: the module's, allocated by init, or for each item  *)
(*   that is queued and freed by its callback.                             *)
(* fresh: a write initialises the item anew before it queues it.           *)
(* tells: the callback counts itself out, or sets the condition that init  *)
(*   waits for.                                                            *)
(* exit: its calls, each with the item it is about.                        *)
Timer     == [starts |-> "write", items |-> {1}, again |-> FALSE, memory |-> "static",
              fresh |-> FALSE, tells |-> "nothing", waits |-> "no", exit |-> << >>]
AtLoad    == [Timer EXCEPT !.starts = "init"]
OnLine    == [Timer EXCEPT !.starts = "irq", !.exit = <<<<"free_irq", 1>>>>]
Sync(i)   == <<"sync", i>>      \* del_timer_sync, hrtimer_cancel, cancel_work_sync
Drain     == <<<<"drain", 1>>>> \* tasklet_kill, flush_workqueue, destroy_workqueue
Pair      == [AtLoad EXCEPT !.items = {1, 2}, !.again = TRUE, !.memory = "init"]

timer_s11            == [Timer EXCEPT !.fresh = TRUE, !.exit = <<Sync(1)>>]
timer_new_s11        == timer_s11
multitimer_s11       == [Timer EXCEPT !.items = Items, !.memory = "each", !.tells = "counter",
                                      !.exit = <<<<"poll", 1>>>>]
periodic_s11         == [AtLoad EXCEPT !.again = TRUE, !.exit = <<Sync(1)>>]
periodic_new_s11     == periodic_s11
periodic_timers_s11  == [Pair EXCEPT !.exit = <<Sync(1), Sync(2), <<"kfree", 1>>>>]
periodic_alt_s11     == [Pair EXCEPT !.exit = <<<<"del", 1>>, <<"del", 2>>, <<"kfree", 1>>>>]
periodic_alt_new_s11 == periodic_alt_s11
hrtimer_s11          == periodic_timers_s11
hrexamp_s11          == [periodic_timers_s11 EXCEPT !.items = {1}, !.exit = <<Sync(1), <<"kfree", 1>>>>]

std_timer_ch3        == [AtLoad EXCEPT !.exit = <<<<"del", 1>>>>]
hr_timer_ch3         == [AtLoad EXCEPT !.exit = <<Sync(1)>>]
tasklet_ch3          == [AtLoad EXCEPT !.exit = Drain]
dedicated_ch3        == [AtLoad EXCEPT !.memory = "each", !.exit = Drain]
shared_ch3           == [AtLoad EXCEPT !.memory = "each", !.waits = "for ever"]
waitqueue_ch3        == [AtLoad EXCEPT !.tells = "condition", !.waits = "condition"]
user_invoke_ch3      == AtLoad

tasklet_s20          == Timer
work_shared_s20      == Timer
work_private_s20     == [Timer EXCEPT !.exit = Drain]
work_newapi_s20      == work_private_s20
one_interrupt_s20    == OnLine
one_gpio_s20         == OnLine
each_on_line_s20     == [OnLine EXCEPT !.items = Items, !.memory = "each"]
work_dynamic_gpio_s20 == [each_on_line_s20 EXCEPT !.exit = <<Sync(MyData), <<"free_irq", 1>>>>]
tasklet_gpio_s20     == OnLine
platform_tasklet_s20 == OnLine
platform_work_s20    == OnLine

AllExitDrivers == {timer_s11, timer_new_s11, multitimer_s11, periodic_s11, periodic_new_s11,
  periodic_timers_s11, periodic_alt_s11, periodic_alt_new_s11, hrtimer_s11, hrexamp_s11,
  std_timer_ch3, hr_timer_ch3, tasklet_ch3, dedicated_ch3, shared_ch3, waitqueue_ch3, user_invoke_ch3,
  tasklet_s20, work_shared_s20, work_private_s20, work_newapi_s20, one_interrupt_s20, one_gpio_s20,
  each_on_line_s20, work_dynamic_gpio_s20, tasklet_gpio_s20, platform_tasklet_s20, platform_work_s20}

ASSUME ExitAssumption == ExitDrivers \subseteq AllExitDrivers /\ MaxItems \in Nat /\ MaxItems >= 2

VARIABLES xdrv,       \* the driver
          mod,        \* "init", "loaded", "exit" or "gone"
          exitTodo,   \* the calls that exit has still to make
          line,       \* the interrupt is requested
          queued,     \* items the kernel holds, to call them back later
          cb,         \* where the callback of each item is
          memory,     \* the items whose memory is there
          ntimers,    \* items queued and not yet counted out
          condition,  \* what init waits for
          wild        \* what a callback has done that it must not:
                      \* "memory" freed, "text" gone, "list" corrupted

exitVars == <<xdrv, mod, exitTodo, line, queued, cb, memory, ntimers, condition, wild>>

(* A module that starts its items in init has them queued when init waits  *)
(* or returns.                                                             *)
ExitInit == /\ xdrv \in ExitDrivers /\ mod = "init" /\ exitTodo = xdrv.exit
            /\ line = (xdrv.starts = "irq") /\ cb = [i \in Items |-> "out"]
            /\ queued = (IF xdrv.starts = "init" THEN xdrv.items ELSE {})
            /\ memory = (IF xdrv.memory = "each" THEN queued ELSE xdrv.items)
            /\ ntimers = 0 /\ condition = FALSE /\ wild = {}

(* Where the code's behaviour is undefined from here on the model stops.   *)
Sane == wild = {}
Goes(i, from, to) == cb[i] = from /\ cb' = [cb EXCEPT ![i] = to]
Bad(what, when) == wild' = (IF when THEN wild \cup {what} ELSE wild)
-----------------------------------------------------------------------------
(* Plausible bugs, which the properties below must catch.                  *)
SyncIsDel(i) == TRUE
NeverTells == UNCHANGED <<ntimers, condition>>
-----------------------------------------------------------------------------
(* wait_event_interruptible in init; a signal ends it as well.             *)
InitReturns == /\ Sane /\ mod = "init" /\ mod' = "loaded"
               /\ xdrv.waits = "no" \/ (xdrv.waits = "condition" /\ condition)
               /\ UNCHANGED <<xdrv, exitTodo, line, queued, cb, memory, ntimers, condition, wild>>

(* The queue head on which shared-workqueue.c waits is freed by its work.  *)
InitSignal == /\ Sane /\ mod = "init" /\ xdrv.waits # "no" /\ mod' = "loaded"
              /\ Bad("memory", 1 \notin memory)
              /\ UNCHANGED <<xdrv, exitTodo, line, queued, cb, memory, ntimers, condition>>

(* mycdrv_write or the interrupt handler: add_timer, tasklet_schedule,     *)
(* schedule_work.  Queueing what is queued changes nothing, but a timer    *)
(* must not be initialised while it is in the list.                        *)
QueueItem(i) ==
  /\ Sane /\ i \in xdrv.items
  /\ (xdrv.starts = "write" /\ mod = "loaded") \/ (xdrv.starts = "irq" /\ line)
  /\ xdrv.memory = "each" => i \notin memory
  /\ queued' = queued \cup {i} /\ memory' = memory \cup {i}
  /\ ntimers' = (IF xdrv.tells = "counter" THEN ntimers + 1 ELSE ntimers)
  /\ Bad("list", xdrv.fresh /\ i \in queued)
  /\ UNCHANGED <<xdrv, mod, exitTodo, line, cb, condition>>

(* The kernel calls back.                                                  *)
Expire(i) == /\ Sane /\ i \in queued /\ queued' = queued \ {i} /\ Goes(i, "out", "body")
             /\ Bad("text", mod = "gone")
             /\ UNCHANGED <<xdrv, mod, exitTodo, line, memory, ntimers, condition>>

Tell == /\ ntimers' = (IF xdrv.tells = "counter" THEN ntimers - 1 ELSE ntimers)
        /\ condition' = (condition \/ xdrv.tells = "condition")

(* It reads its data, arms itself again or frees them, and tells.          *)
Body(i) == /\ Sane /\ Goes(i, "body", "tail") /\ Tell
           /\ queued' = (IF xdrv.again THEN queued \cup {i} ELSE queued)
           /\ memory' = (IF xdrv.memory = "each" THEN memory \ {i} ELSE memory)
           /\ Bad("memory", i \notin memory)
           /\ UNCHANGED <<xdrv, mod, exitTodo, line>>

Leave(i) == /\ Sane /\ Goes(i, "tail", "out") /\ Bad("text", mod = "gone")
            /\ UNCHANGED <<xdrv, mod, exitTodo, line, queued, memory, ntimers, condition>>
-----------------------------------------------------------------------------
(* The calls of exit, external: del_timer takes the item out of the list;  *)
(* the synchronous calls do so when it does not run, and the draining ones *)
(* let it run.                                                             *)
Cancelled(i) == cb[i] = "out"
Exit(op, i) ==
  CASE op = "del"      -> queued' = queued \ {i} /\ UNCHANGED <<line, memory>>
    [] op = "sync"     -> /\ i # MyData => Cancelled(i)
                          /\ queued' = queued \ {i} /\ UNCHANGED <<line, memory>>
    [] op = "drain"    -> i \notin queued /\ cb[i] = "out" /\ UNCHANGED <<queued, line, memory>>
    [] op = "poll"     -> ntimers = 0 /\ UNCHANGED <<queued, line, memory>>
    [] op = "kfree"    -> memory' = {} /\ UNCHANGED <<queued, line>>
    [] op = "free_irq" -> line' = FALSE /\ UNCHANGED <<queued, memory>>

Unload == /\ Sane /\ mod = "loaded" /\ mod' = "exit"
          /\ UNCHANGED <<xdrv, exitTodo, line, queued, cb, memory, ntimers, condition, wild>>

ExitCall == /\ Sane /\ mod = "exit" /\ exitTodo # << >> /\ exitTodo' = Tail(exitTodo)
            /\ Exit(Head(exitTodo)[1], Head(exitTodo)[2])
            /\ UNCHANGED <<xdrv, mod, cb, ntimers, condition, wild>>

Gone == /\ Sane /\ mod = "exit" /\ exitTodo = << >> /\ mod' = "gone"
        /\ memory' = (IF xdrv.memory = "static" THEN {} ELSE memory)
        /\ UNCHANGED <<xdrv, exitTodo, line, queued, cb, ntimers, condition, wild>>

ExitSteps == ExitCall \/ Gone
Called(i) == Expire(i) \/ Body(i) \/ Leave(i)
ExitNext == \/ InitReturns \/ InitSignal \/ Unload \/ ExitSteps
            \/ \E i \in Items : QueueItem(i) \/ Called(i)

(* The kernel runs what is queued; init and exit go on.  The exit that     *)
(* spins for a timer which arms itself again meets it in the list, where   *)
(* it stays for its period: strong fairness.                               *)
ExitFairness == /\ WF_exitVars(InitReturns) /\ SF_exitVars(ExitSteps)
                /\ \A i \in Items : WF_exitVars(Called(i))
ExitSpec == ExitInit /\ [][ExitNext]_exitVars /\ ExitFairness
-----------------------------------------------------------------------------
(* An exit that stops the interrupt and then waits for every item it may   *)
(* have queued.                                                            *)
Waits(i) == \E n \in DOMAIN xdrv.exit : xdrv.exit[n] \in {<<"sync", i>>, <<"drain", i>>}
WaitsForAll == \A i \in xdrv.items : Waits(i)

(* No callback outlives its module or its memory when exit waits for each  *)
(* item, also for one that arms itself again or is queued while it runs,   *)
(* and whatever is allocated is freed; an exit that only polls a counter   *)
(* leaves no more than the last lines of a callback behind.                *)
NoneOutlives ==
  /\ WaitsForAll => /\ wild \subseteq {"list"}
                    /\ mod = "gone" => queued = {} /\ memory = {} /\ \A i \in Items : cb[i] = "out"
  /\ xdrv.tells = "counter" => /\ "memory" \notin wild
                               /\ mod = "gone" => queued = {} /\ memory = {} /\ \A i \in Items : cb[i] # "body"

(* An init that waits for its work returns, unless nothing ever sets what  *)
(* it waits for, and an exit returns, against a timer that arms itself     *)
(* again and with any number of timers still to expire.                    *)
UnloadReturns == /\ (mod = "init" /\ xdrv.waits # "for ever") ~> (mod # "init")
                 /\ mod = "exit" ~> (mod = "gone" \/ ~Sane)
=============================================================================
