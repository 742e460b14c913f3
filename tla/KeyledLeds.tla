------------------------------ MODULE KeyledLeds ------------------------------
(***************************************************************************)
(* The LED class driver 2nd_edition/keyled_stm32mp1_class.c after a        *)
(* successful probe: the sysfs attributes set_led, blink_on_led,           *)
(* blink_off_led and set_period, the flashing kernel thread, the two key   *)
(* interrupts and remove.  sysfs locks nothing between different files, so *)
(* several writers are inside the store functions at once; only the        *)
(* period has a lock.                                                      *)
(***************************************************************************)
EXTENDS Integers, FiniteSets

CONSTANTS Leds, Writers,
          Tasks,                        \* bound: flashing threads ever started
          PeriodMin, PeriodMax, Step,   \* 10, 10000 and 10 in the source
          Width                         \* bits of period, a u32
None == "none"
ASSUME KeyledAssumption ==
  /\ PeriodMin \in Nat \ {0} /\ PeriodMax \in Nat /\ Step \in Nat \ {0}
  /\ PeriodMin <= PeriodMax /\ PeriodMax + Step < 2^Width /\ None \notin Tasks
  /\ Leds # {}

VARIABLES lit,        \* whether each LED is lit (its pin is low)
          led_flag, task_flag, period,
          task,       \* the thread of the last kthread_run
          thr,        \* the threads: where each is, its LED, stop flag and value
          call,       \* the store function each writer is in, and where
          module,     \* "bound", "removed" or "oops"
          crowded,    \* two writers have been inside the files at once
          raced       \* two writers have acted on task_flag at once, or one
                      \* has been inside a file while remove was running

ledVars == <<lit, led_flag, task_flag, period, task, thr, call, module, crowded, raced>>

Op   == {"set on", "set off", "set bad", "blink on", "blink bad", "blink off", "remove"}
Idle == [op |-> "set bad", led |-> CHOOSE l \in Leds : TRUE, at |-> "idle", task |-> None, left |-> {}]
Dark == [l \in Leds |-> FALSE]

LedInit == /\ lit = Dark /\ led_flag = 0 /\ task_flag = 0 /\ period = PeriodMin
           /\ task = None /\ module = "bound" /\ crowded = FALSE /\ raced = FALSE /\ call = [w \in Writers |-> Idle]
           /\ thr = [t \in Tasks |-> [at |-> "new", led |-> Idle.led, stop |-> FALSE, value |-> 0]]

(* Writer w goes from one place of its store function to another.          *)
Goto(w, from, to) == /\ module = "bound" /\ call[w].at = from
                     /\ call' = [call EXCEPT ![w] = IF to = "idle" THEN Idle ELSE [@ EXCEPT !.at = to]]
OpOf(w)  == call[w].op
Inside(w) == call[w].at # "idle"

(* It begins the loop that switches all LEDs off.                          *)
AllOff(w, from) == /\ module = "bound" /\ call[w].at = from
                   /\ call' = [call EXCEPT ![w].at = "dark", ![w].left = Leds]
Light(w) == lit' = [lit EXCEPT ![call[w].led] = TRUE]
Shade(w) == lit' = [lit EXCEPT ![call[w].led] = FALSE]
-----------------------------------------------------------------------------
(* Plausible bugs, which the properties below must catch.                  *)
StopNoJoin(w) == /\ IF OpOf(w) = "blink off" THEN AllOff(w, "join") ELSE Goto(w, "join", "stopped")
                 /\ UNCHANGED <<lit, led_flag, task_flag, period, task, thr, module>>
StoppedKeepsFlag(w) == /\ Goto(w, "stopped", "act")
                       /\ UNCHANGED <<lit, led_flag, task_flag, period, task, thr, module>>
ActDirectly(w) == /\ OpOf(w) = "set on" /\ Goto(w, "act", "setflag") /\ Light(w)
                  /\ UNCHANGED <<led_flag, task_flag, period, task, thr, module>>
FlashForever(t) == /\ thr[t].at = "loop" /\ thr' = [thr EXCEPT ![t].at = "toggle"]
                   /\ UNCHANGED <<lit, led_flag, task_flag, period, task, call, module>>
-----------------------------------------------------------------------------
(* A writer enters a store function, or the driver core calls my_remove.   *)
(* "bad" is an argument the function refuses, after what it does first;    *)
(* blink_off_led_store does nothing before it refuses one.                 *)
Call(w) == /\ module = "bound" /\ call[w].at = "idle"
           /\ \E o \in Op, l \in Leds :
                /\ o = "remove" => \A v \in Writers : call[v].op # "remove"
                /\ call' = [call EXCEPT ![w] =
                  [Idle EXCEPT !.op = o, !.led = l, !.at = IF o \in {"blink on", "blink bad"} THEN "clear" ELSE "flag"]]
           /\ UNCHANGED <<lit, led_flag, task_flag, period, task, thr, module>>

(* blink_on_led_store: all LEDs off, if ever one has been lit.             *)
Clear(w) == /\ IF led_flag = 1 THEN AllOff(w, "clear")
               ELSE Goto(w, "clear", IF OpOf(w) = "blink on" THEN "spawn" ELSE "idle")
            /\ UNCHANGED <<lit, led_flag, task_flag, period, task, thr, module>>

(* The loop over the LEDs, and what the function does next.                *)
AfterDark(w) == CASE OpOf(w) = "blink on"  -> "spawn"
                  [] OpOf(w) = "blink off" -> "unflag"
                  [] OpOf(w) = "set on"    -> "light"
                  [] OpOf(w) = "remove"    -> "destroy"
                  [] OTHER                 -> "idle"
Darken(w) == /\ \/ /\ module = "bound" /\ call[w].at = "dark"
                   /\ \E l \in call[w].left : /\ lit' = [lit EXCEPT ![l] = FALSE]
                                              /\ call' = [call EXCEPT ![w].left = @ \ {l}]
                \/ call[w].left = {} /\ Goto(w, "dark", AfterDark(w)) /\ UNCHANGED lit
             /\ UNCHANGED <<led_flag, task_flag, period, task, thr, module>>

(* Then start the thread unless one is flashing.  kthread_run may fail;    *)
(* then task is an error pointer.                                          *)
Spawn(w) == /\ Goto(w, "spawn", IF task_flag = 0 THEN "run" ELSE "idle")
            /\ UNCHANGED <<lit, led_flag, task_flag, period, task, thr, module>>
Run(w) == /\ \/ Goto(w, "run", "idle") /\ task' = None /\ UNCHANGED thr
             \/ /\ Goto(w, "run", "flagon")
                /\ \E t \in Tasks : /\ thr[t].at = "new" /\ task' = t
                                    /\ thr' = [thr EXCEPT ![t].at = "fresh", ![t].led = call[w].led]
          /\ UNCHANGED <<lit, led_flag, task_flag, period, module>>

FlagOn(w) == /\ Goto(w, "flagon", "idle") /\ task_flag' = 1
             /\ UNCHANGED <<lit, led_flag, period, task, thr, module>>

(* The test of task_flag in set_led_store, blink_off_led_store, my_remove. *)
Flag(w) == /\ Goto(w, "flag", IF task_flag = 1 THEN "stop"
                              ELSE IF OpOf(w) = "blink off" THEN "idle" ELSE "act")
           /\ UNCHANGED <<lit, led_flag, task_flag, period, task, thr, module>>

(* kthread_stop sets the flag and waits; on a task that no longer exists   *)
(* the outcome is undefined.                                               *)
Stop(w) == /\ module = "bound" /\ call[w].at = "stop"
           /\ IF task \in Tasks /\ thr[task].at # "gone"
              THEN /\ call' = [call EXCEPT ![w].at = "join", ![w].task = task]
                   /\ thr' = [thr EXCEPT ![task].stop = TRUE] /\ UNCHANGED module
              ELSE module' = "oops" /\ UNCHANGED <<call, thr>>
           /\ UNCHANGED <<lit, led_flag, task_flag, period, task>>

(* blink_off_led_store switches all LEDs off before it resets task_flag;   *)
(* set_led_store and my_remove reset it now.                               *)
Join(w) == /\ IF OpOf(w) = "blink off" THEN AllOff(w, "join") ELSE Goto(w, "join", "stopped")
           /\ thr[call[w].task].at \in {"done", "gone"}
           /\ thr' = [thr EXCEPT ![call[w].task].at = "gone"]
           /\ UNCHANGED <<lit, led_flag, task_flag, period, task, module>>

Stopped(w) == /\ Goto(w, "stopped", "act") /\ task_flag' = 0
              /\ UNCHANGED <<lit, led_flag, period, task, thr, module>>

Unflag(w) == /\ Goto(w, "unflag", "idle") /\ task_flag' = 0
             /\ UNCHANGED <<lit, led_flag, period, task, thr, module>>

(* set_led_store and my_remove switch the others off, if ever one has been *)
(* lit.                                                                    *)
Act(w) == /\ \/ OpOf(w) \in {"set on", "remove"} /\ led_flag = 1 /\ AllOff(w, "act") /\ UNCHANGED lit
             \/ OpOf(w) = "set on" /\ led_flag = 0 /\ Light(w) /\ Goto(w, "act", "setflag")
             \/ OpOf(w) = "set off" /\ Shade(w) /\ Goto(w, "act", "idle")
             \/ OpOf(w) = "set bad" /\ UNCHANGED lit /\ Goto(w, "act", "idle")
             \/ OpOf(w) = "remove" /\ led_flag = 0 /\ UNCHANGED lit /\ Goto(w, "act", "destroy")
          /\ UNCHANGED <<led_flag, task_flag, period, task, thr, module>>

LightUp(w) == /\ Goto(w, "light", "idle") /\ Light(w)
              /\ UNCHANGED <<led_flag, task_flag, period, task, thr, module>>

SetFlag(w) == /\ Goto(w, "setflag", "idle") /\ led_flag' = 1
              /\ UNCHANGED <<lit, task_flag, period, task, thr, module>>

(* device_destroy removes the files, and waits for the calls inside them.  *)
Destroy(w) == /\ (\A o \in Writers \ {w} : ~Inside(o)) /\ Goto(w, "destroy", "idle")
              /\ module' = "removed"
              /\ UNCHANGED <<lit, led_flag, task_flag, period, task, thr>>

Store(w) == \/ Clear(w) \/ Darken(w) \/ Spawn(w) \/ Run(w) \/ FlagOn(w)
            \/ Flag(w) \/ Stop(w) \/ Join(w) \/ Stopped(w)
            \/ Unflag(w) \/ Act(w) \/ LightUp(w) \/ SetFlag(w) \/ Destroy(w)
-----------------------------------------------------------------------------
(* The kernel skips led_flash when the thread is stopped before it has     *)
(* ever run.                                                               *)
FlashStart(t) == /\ thr[t].at = "fresh"
                 /\ thr' = [thr EXCEPT ![t].at = IF thr[t].stop THEN "done" ELSE "loop"]
                 /\ UNCHANGED <<lit, led_flag, task_flag, period, task, call, module>>

(* led_flash: until told to stop, toggle the LED; the first value is 1,    *)
(* which is off.  At the end the LED is switched off.                      *)
FlashTest(t) == /\ thr[t].at = "loop"
                /\ thr' = [thr EXCEPT ![t].at = IF thr[t].stop THEN "off" ELSE "toggle"]
                /\ UNCHANGED <<lit, led_flag, task_flag, period, task, call, module>>
FlashToggle(t) == /\ thr[t].at = "toggle"
                  /\ thr' = [thr EXCEPT ![t].at = "loop", ![t].value = 1 - @]
                  /\ lit' = [lit EXCEPT ![thr[t].led] = (thr[t].value = 1)]
                  /\ UNCHANGED <<led_flag, task_flag, period, task, call, module>>
FlashOff(t) == /\ thr[t].at = "off" /\ thr' = [thr EXCEPT ![t].at = "done"]
               /\ lit' = [lit EXCEPT ![thr[t].led] = FALSE]
               /\ UNCHANGED <<led_flag, task_flag, period, task, call, module>>
Flash(t) == /\ module = "bound" /\ (FlashStart(t) \/ FlashTest(t) \/ FlashToggle(t) \/ FlashOff(t))
            /\ UNCHANGED <<crowded, raced>>
-----------------------------------------------------------------------------
InRange(p) == PeriodMin <= p /\ p <= PeriodMax

(* set_period_store, under period_lock.                                    *)
SetPeriod == /\ module = "bound" /\ \E p \in 0..PeriodMax + 1 : InRange(p) /\ period' = p
             /\ UNCHANGED <<lit, led_flag, task_flag, task, thr, call, module, crowded, raced>>

(* KEY_ISR1 and KEY_ISR2, under the same lock: u32 arithmetic.             *)
Bump(p) == period' = (IF InRange(p % 2^Width) THEN p % 2^Width ELSE PeriodMin)
Key1 == /\ module = "bound" /\ Bump(period + Step)
        /\ UNCHANGED <<lit, led_flag, task_flag, task, thr, call, module, crowded, raced>>
Key2 == /\ module = "bound" /\ Bump(period - Step)
        /\ UNCHANGED <<lit, led_flag, task_flag, task, thr, call, module, crowded, raced>>

(* A writer acts on task_flag from its test to the reset, or until the     *)
(* flag of the thread it has started is set.                               *)
Acting(w) == \/ call[w].at \in {"run", "flagon", "stop", "join", "stopped", "unflag"}
             \/ call[w].at = "dark" /\ OpOf(w) = "blink off"
Crowd == \E v \in Writers : \E w \in Writers \ {v} : Inside(v) /\ Inside(w)
Race  == \E v \in Writers : \E w \in Writers \ {v} :
           (Acting(v) /\ Acting(w)) \/ (OpOf(v) = "remove" /\ Inside(w))
Overlaps == crowded' = (crowded \/ Crowd') /\ raced' = (raced \/ Race')

LedNext == \/ \E w \in Writers : (Call(w) \/ Store(w)) /\ Overlaps
           \/ \E t \in Tasks : Flash(t)
           \/ SetPeriod \/ Key1 \/ Key2

(* A writer inside a store function and a flashing thread get the CPU.     *)
LedFairness == /\ \A w \in Writers : WF_ledVars(Store(w) /\ Overlaps)
               /\ \A t \in Tasks : WF_ledVars(Flash(t))
LedSpec == LedInit /\ [][LedNext]_ledVars /\ LedFairness
-----------------------------------------------------------------------------
Alive == {t \in Tasks : thr[t].at \in {"fresh", "loop", "toggle", "off"}}

(* As long as no two writers have been inside at once: no two LEDs are     *)
(* ever lit at the same time, whatever the flashing thread does meanwhile. *)
AtMostOneLit == ~crowded => Cardinality({l \in Leds : lit[l]}) <= 1

(* Writers may be inside together, as long as no two have acted on         *)
(* task_flag at once: then, whenever nobody acts on it, task_flag tells    *)
(* whether a thread is flashing, and it is the one in task; so kthread_stop *)
(* is never called on a thread that is gone.                               *)
TaskFlagExact == ~raced =>
  /\ (\A w \in Writers : ~Acting(w)) => Alive = (IF task_flag = 1 THEN {task} ELSE {})
  /\ module # "oops"

(* An LED that led_flag does not account for is that of a thread or of a   *)
(* writer about to set the flag, whatever overlaps; and unless a call has  *)
(* overlapped with remove, or two have acted on task_flag at once, the     *)
(* removed driver leaves no thread and no LED on.                          *)
RemovedIsQuiet ==
  /\ \A l \in Leds : lit[l] /\ led_flag = 0 =>
       \/ \E w \in Writers : call[w].at = "setflag" /\ call[w].led = l
       \/ \E t \in Alive : thr[t].led = l
  /\ module = "removed" /\ ~raced => Alive = {} /\ lit = Dark

(* A store function, or remove, that stops the thread comes back.          *)
StopReturns == \A w \in Writers : (call[w].at = "join") ~> (call[w].at # "join" \/ module = "oops")
=============================================================================
