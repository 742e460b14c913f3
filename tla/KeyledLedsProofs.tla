--------------------------- MODULE KeyledLedsProofs ---------------------------
(*************************************************************************)
(* Theorems about KeyledLeds, for any LEDs, writers and number of        *)
(* flashing threads.                                                     *)
(*************************************************************************)
EXTENDS KeyledLeds, FiniteSetTheorems, TLAPS

Place    == {"idle", "clear", "dark", "spawn", "run", "flagon", "flag", "stop", "join", "stopped", "unflag", "act",
             "light", "setflag", "destroy"}
Thread   == {"new", "fresh", "loop", "toggle", "off", "done", "gone"}
Flashing == {"fresh", "loop", "toggle"}
ThrSet   == [Tasks -> [at : Thread, led : Leds, stop : BOOLEAN, value : Int]]
CallRec  == [op : Op, led : Leds, at : Place, task : Tasks \cup {None}, left : SUBSET Leds]
CallSet  == [Writers -> CallRec]
(* Which function it is, where a place does not say it.                  *)
Fits(c)  == /\ c.at = "idle" => c.op = "set bad"
            /\ c.at = "clear" => c.op \in {"blink on", "blink bad"}
            /\ c.at = "destroy" => c.op = "remove"
KTypes == /\ lit \in [Leds -> BOOLEAN] /\ led_flag \in {0, 1} /\ task_flag \in {0, 1} /\ task \in Tasks \cup {None}
          /\ thr \in ThrSet /\ call \in CallSet /\ module \in {"bound", "removed", "oops"}
          /\ \A w \in Writers : Fits(call[w])
-----------------------------------------------------------------------------
(* Types and places.                                                       *)
LEMMA IdleTyped == Idle \in CallRec /\ Idle.at = "idle" /\ Fits(Idle)
BY KeyledAssumption DEF Idle, CallRec, Op, Place, Fits

(* What a step of a store function does to the call of its writer.       *)
LEMMA GotoMoves ==
  ASSUME NEW w \in Writers, call \in CallSet, NEW from, NEW to \in Place,
         Goto(w, from, to)
  PROVE  /\ call' \in CallSet /\ call[w].at = from /\ call'[w].at = to /\ module = "bound"
         /\ to # "idle" => /\ call'[w].op = call[w].op /\ call'[w].led = call[w].led
                           /\ call'[w].task = call[w].task /\ call'[w].left = call[w].left
         /\ to = "idle" => call'[w] = Idle
<1>1. call[w] \in CallRec
  BY DEF CallSet
<1>2. CASE to = "idle"
  <2>1. call' = [call EXCEPT ![w] = Idle]
    BY <1>2 DEF Goto
  <2> QED BY <2>1, <1>2, IdleTyped DEF Goto, CallSet
<1>3. CASE to # "idle"
  <2> DEFINE moved == [call[w] EXCEPT !.at = to]
  <2>1. call' = [call EXCEPT ![w] = moved]
    BY <1>3 DEF Goto, CallSet
  <2>2. /\ moved \in CallRec /\ moved.at = to /\ moved.op = call[w].op /\ moved.led = call[w].led
        /\ moved.task = call[w].task /\ moved.left = call[w].left
    BY <1>1 DEF CallRec
  <2> HIDE DEF moved
  <2>3. call' \in CallSet /\ call'[w] = moved
    BY <2>1, <2>2 DEF CallSet
  <2> QED BY <1>3, <2>2, <2>3 DEF Goto
<1> QED BY <1>2, <1>3

(* The loop over the LEDs begins with all of them.                       *)
LEMMA AllOffMoves ==
  ASSUME NEW w \in Writers, call \in CallSet, NEW from, AllOff(w, from)
  PROVE  /\ call' \in CallSet /\ call[w].at = from /\ call'[w].at = "dark" /\ module = "bound"
         /\ call'[w].op = call[w].op /\ call'[w].led = call[w].led /\ call'[w].left = Leds
<1> DEFINE begun == [[call[w] EXCEPT !.at = "dark"] EXCEPT !.left = Leds]
<1>1. call' = [call EXCEPT ![w] = begun]
  BY DEF AllOff, CallSet
<1>2. begun \in CallRec /\ begun.at = "dark" /\ begun.op = call[w].op /\ begun.led = call[w].led /\ begun.left = Leds
  BY DEF CallSet, CallRec, Place
<1> HIDE DEF begun
<1> QED BY <1>1, <1>2 DEF AllOff, CallSet

(* What a step of a flashing thread does to the threads.                 *)
LEMMA ThreadMoves ==
  ASSUME NEW t \in Tasks, thr \in ThrSet, NEW a \in Thread, thr' = [thr EXCEPT ![t].at = a]
  PROVE  /\ thr' \in ThrSet /\ thr'[t].at = a /\ thr'[t].led = thr[t].led /\ thr'[t].stop = thr[t].stop
         /\ \A s \in Tasks \ {t} : thr'[s] = thr[s]
BY DEF ThrSet

(* A toggle changes the value it will write next, too.                   *)
LEMMA ThreadToggles ==
  ASSUME NEW t \in Tasks, thr \in ThrSet, thr' = [thr EXCEPT ![t].at = "loop", ![t].value = 1 - @]
  PROVE  /\ thr' \in ThrSet /\ thr'[t].at = "loop" /\ thr'[t].led = thr[t].led /\ thr'[t].stop = thr[t].stop
         /\ \A s \in Tasks \ {t} : thr'[s] = thr[s]
<1> DEFINE R == [at : Thread, led : Leds, stop : BOOLEAN, value : Int]
<1> DEFINE new == [[thr[t] EXCEPT !.at = "loop"] EXCEPT !.value = 1 - @]
<1>1. thr[t] \in R
  BY DEF ThrSet
<1>2. 1 - thr[t].value \in Int
  BY <1>1
<1>3. \A v \in Int : [[thr[t] EXCEPT !.at = "loop"] EXCEPT !.value = v] \in R
  BY <1>1 DEF Thread
<1>4. [thr[t] EXCEPT !.at = "loop"].value = thr[t].value
  BY <1>1
<1>5. new \in R /\ new.at = "loop" /\ new.led = thr[t].led /\ new.stop = thr[t].stop
  BY <1>1, <1>2, <1>3, <1>4
<1>6. thr' = [thr EXCEPT ![t] = new]
  BY DEF ThrSet
<1> QED BY <1>5, <1>6 DEF ThrSet

(* With every LED off, none is lit.                                      *)
LEMMA DarkFacts == Dark \in [Leds -> BOOLEAN] /\ \A l \in Leds : ~Dark[l]
BY DEF Dark
-----------------------------------------------------------------------------
(* The steps of the store functions, each from its place to the next.    *)
Went(w, from, to) ==
  /\ module = "bound" /\ call' \in CallSet /\ call[w].at = from /\ call'[w].at = to
  /\ \A v \in Writers \ {w} : call'[v] = call[v]
  /\ IF to = "idle" THEN call'[w].op = "set bad" ELSE call'[w].op = call[w].op /\ call'[w].led = call[w].led
LEMMA GotoWent ==
  ASSUME NEW w \in Writers, call \in CallSet, NEW from, NEW to \in Place, Goto(w, from, to)
  PROVE  Went(w, from, to)
<1>1. \A v \in Writers \ {w} : call'[v] = call[v]
  BY DEF Goto, CallSet
<1>2. Idle.op = "set bad"
  BY IdleTyped DEF Fits
<1>3. /\ call' \in CallSet /\ call[w].at = from /\ call'[w].at = to /\ module = "bound"
      /\ to # "idle" => call'[w].op = call[w].op /\ call'[w].led = call[w].led
      /\ to = "idle" => call'[w] = Idle
  BY GotoMoves
<1> QED BY <1>1, <1>2, <1>3 DEF Went
LEMMA AllOffWent ==
  ASSUME NEW w \in Writers, call \in CallSet, NEW from, AllOff(w, from)
  PROVE  Went(w, from, "dark") /\ call'[w].left = Leds
<1>1. \A v \in Writers \ {w} : call'[v] = call[v]
  BY DEF AllOff, CallSet
<1> QED BY <1>1, AllOffMoves DEF Went

LEMMA Steps ==
  ASSUME NEW w \in Writers, KTypes
  PROVE
    /\ Clear(w) => /\ UNCHANGED <<lit, led_flag, task_flag, task, thr, module>>
                   /\ \/ led_flag = 1 /\ Went(w, "clear", "dark") /\ call'[w].left = Leds
                      \/ led_flag = 0 /\ (Went(w, "clear", "spawn") \/ Went(w, "clear", "idle"))
    /\ Spawn(w) => /\ UNCHANGED <<lit, led_flag, task_flag, task, thr, module>>
                   /\ Went(w, "spawn", IF task_flag = 0 THEN "run" ELSE "idle")
    /\ FlagOn(w) => /\ UNCHANGED <<lit, led_flag, task, thr, module>> /\ task_flag' = 1
                    /\ Went(w, "flagon", "idle")
    /\ Flag(w) => /\ UNCHANGED <<lit, led_flag, task_flag, task, thr, module>>
                  /\ IF task_flag = 1 THEN Went(w, "flag", "stop")
                     ELSE Went(w, "flag", "act") \/ Went(w, "flag", "idle")
    /\ Stopped(w) => /\ UNCHANGED <<lit, led_flag, task, thr, module>> /\ task_flag' = 0
                     /\ Went(w, "stopped", "act")
    /\ Unflag(w) => /\ UNCHANGED <<lit, led_flag, task, thr, module>> /\ task_flag' = 0
                    /\ Went(w, "unflag", "idle")
    /\ LightUp(w) => /\ UNCHANGED <<led_flag, task_flag, task, thr, module>> /\ Went(w, "light", "idle")
                     /\ lit' = [lit EXCEPT ![call[w].led] = TRUE]
    /\ SetFlag(w) => /\ UNCHANGED <<lit, task_flag, task, thr, module>> /\ led_flag' = 1
                     /\ Went(w, "setflag", "idle")
    /\ Destroy(w) => /\ UNCHANGED <<lit, led_flag, task_flag, task, thr>> /\ module' = "removed"
                     /\ Went(w, "destroy", "idle") /\ \A v \in Writers \ {w} : call[v].at = "idle"
<1>1. call \in CallSet /\ call[w] \in CallRec /\ led_flag \in {0, 1} /\ task_flag \in {0, 1}
  BY DEF KTypes, CallSet
<1>2. Place = {"idle", "clear", "dark", "spawn", "run", "flagon", "flag", "stop", "join", "stopped", "unflag", "act",
               "light", "setflag", "destroy"}
  BY DEF Place
<1>3. ASSUME Clear(w) PROVE \/ led_flag = 1 /\ Went(w, "clear", "dark") /\ call'[w].left = Leds
                            \/ led_flag = 0 /\ (Went(w, "clear", "spawn") \/ Went(w, "clear", "idle"))
  <2>1. CASE led_flag = 1
    BY <1>1, <1>3, <2>1, AllOffWent DEF Clear
  <2>2. CASE led_flag = 0
    <3>1. Goto(w, "clear", "spawn") \/ Goto(w, "clear", "idle")
      <4>1. led_flag # 1
        BY <2>2
      <4>2. Goto(w, "clear", IF OpOf(w) = "blink on" THEN "spawn" ELSE "idle")
        BY <1>3, <4>1 DEF Clear
      <4> QED BY <4>2
    <3> QED BY <1>1, <1>2, <2>2, <3>1, GotoWent
  <2> QED BY <1>1, <2>1, <2>2
<1>4. ASSUME Spawn(w) PROVE Went(w, "spawn", IF task_flag = 0 THEN "run" ELSE "idle")
  BY <1>1, <1>2, <1>4, GotoWent DEF Spawn
<1>5. ASSUME FlagOn(w) PROVE Went(w, "flagon", "idle")
  BY <1>1, <1>2, <1>5, GotoWent DEF FlagOn
<1>6. ASSUME Flag(w) PROVE IF task_flag = 1 THEN Went(w, "flag", "stop")
                                            ELSE Went(w, "flag", "act") \/ Went(w, "flag", "idle")
  <2>1. CASE task_flag = 1
    BY <1>1, <1>2, <1>6, <2>1, GotoWent DEF Flag
  <2>2. CASE task_flag # 1 /\ Goto(w, "flag", "act")
    BY <1>1, <1>2, <2>2, GotoWent
  <2>3. CASE task_flag # 1 /\ Goto(w, "flag", "idle")
    BY <1>1, <1>2, <2>3, GotoWent
  <2> QED BY <1>6, <2>1, <2>2, <2>3 DEF Flag
<1>7. ASSUME Stopped(w) PROVE Went(w, "stopped", "act")
  BY <1>1, <1>2, <1>7, GotoWent DEF Stopped
<1>8. ASSUME Unflag(w) PROVE Went(w, "unflag", "idle")
  BY <1>1, <1>2, <1>8, GotoWent DEF Unflag
<1>9. ASSUME LightUp(w) PROVE Went(w, "light", "idle") /\ lit' = [lit EXCEPT ![call[w].led] = TRUE]
  BY <1>1, <1>2, <1>9, GotoWent DEF LightUp, Light
<1>10. ASSUME SetFlag(w) PROVE Went(w, "setflag", "idle")
  BY <1>1, <1>2, <1>10, GotoWent DEF SetFlag
<1>11. ASSUME Destroy(w) PROVE Went(w, "destroy", "idle") /\ \A v \in Writers \ {w} : call[v].at = "idle"
  BY <1>1, <1>2, <1>11, GotoWent DEF Destroy, Inside
<1>12. Clear(w) \/ Spawn(w) \/ Flag(w) => UNCHANGED <<lit, led_flag, task_flag, task, thr, module>>
  BY DEF Clear, Spawn, Flag
<1>13. /\ FlagOn(w) => task_flag' = 1 /\ UNCHANGED <<lit, led_flag, task, thr, module>>
       /\ Stopped(w) \/ Unflag(w) => task_flag' = 0 /\ UNCHANGED <<lit, led_flag, task, thr, module>>
  BY DEF FlagOn, Stopped, Unflag
<1>14. /\ LightUp(w) => UNCHANGED <<led_flag, task_flag, task, thr, module>>
       /\ SetFlag(w) => led_flag' = 1 /\ UNCHANGED <<lit, task_flag, task, thr, module>>
       /\ Destroy(w) => module' = "removed" /\ UNCHANGED <<lit, led_flag, task_flag, task, thr>>
  BY DEF LightUp, SetFlag, Destroy
<1> QED BY <1>3, <1>4, <1>5, <1>6, <1>7, <1>8, <1>9, <1>10, <1>11, <1>12, <1>13, <1>14

(* kthread_run starts a thread that was not there, or fails.             *)
LEMMA RunStep ==
  ASSUME NEW w \in Writers, KTypes, Run(w)
  PROVE  /\ UNCHANGED <<lit, led_flag, task_flag, module>>
         /\ \/ Went(w, "run", "idle") /\ task' = None /\ thr' = thr
            \/ /\ Went(w, "run", "flagon") /\ task' \in Tasks /\ thr[task'].at = "new"
               /\ thr' \in ThrSet /\ thr'[task'].at = "fresh" /\ thr'[task'].stop = thr[task'].stop
               /\ \A s \in Tasks \ {task'} : thr'[s] = thr[s]
<1>1. call \in CallSet /\ thr \in ThrSet /\ call[w].led \in Leds /\ "idle" \in Place /\ "flagon" \in Place
  BY DEF KTypes, CallSet, CallRec, Place
<1>2. ASSUME NEW t \in Tasks, thr' = [thr EXCEPT ![t].at = "fresh", ![t].led = call[w].led]
      PROVE  /\ thr' \in ThrSet /\ thr'[t].at = "fresh" /\ thr'[t].stop = thr[t].stop
             /\ \A s \in Tasks \ {t} : thr'[s] = thr[s]
  <2> DEFINE new == [[thr[t] EXCEPT !.at = "fresh"] EXCEPT !.led = call[w].led]
  <2>1. /\ new \in [at : Thread, led : Leds, stop : BOOLEAN, value : Int]
        /\ new.at = "fresh" /\ new.stop = thr[t].stop
    BY <1>1 DEF ThrSet, Thread
  <2>2. thr' = [thr EXCEPT ![t] = new]
    BY <1>1, <1>2 DEF ThrSet
  <2> HIDE DEF new
  <2> QED BY <1>1, <2>1, <2>2 DEF ThrSet
<1>3. CASE Goto(w, "run", "idle") /\ task' = None /\ UNCHANGED thr
  BY <1>1, <1>3, GotoWent DEF Run
<1>4. CASE /\ Goto(w, "run", "flagon")
           /\ \E t \in Tasks : /\ thr[t].at = "new" /\ task' = t
                               /\ thr' = [thr EXCEPT ![t].at = "fresh", ![t].led = call[w].led]
  <2>1. Went(w, "run", "flagon")
    BY <1>1, <1>4, GotoWent
  <2>2. PICK t \in Tasks : /\ thr[t].at = "new" /\ task' = t
                           /\ thr' = [thr EXCEPT ![t].at = "fresh", ![t].led = call[w].led]
    BY <1>4
  <2> QED BY <1>2, <2>1, <2>2 DEF Run
<1> QED BY <1>3, <1>4 DEF Run

(* kthread_stop: on a thread that is there, it tells it and waits.       *)
LEMMA StopStep ==
  ASSUME NEW w \in Writers, KTypes, Stop(w)
  PROVE  /\ UNCHANGED <<lit, led_flag, task_flag, task>> /\ module = "bound" /\ call[w].at = "stop"
         /\ \/ /\ module' = "oops" /\ UNCHANGED <<call, thr>> /\ ~(task \in Tasks /\ thr[task].at # "gone")
            \/ /\ task \in Tasks /\ Went(w, "stop", "join") /\ call'[w].task = task /\ module' = module
               /\ thr' \in ThrSet /\ thr'[task].stop /\ thr'[task].at = thr[task].at /\ thr'[task].led = thr[task].led
               /\ \A s \in Tasks \ {task} : thr'[s] = thr[s]
<1>1. call[w] \in CallRec /\ call \in CallSet /\ thr \in ThrSet
  BY DEF KTypes, CallSet
<1>2. ASSUME task \in Tasks, call' = [call EXCEPT ![w].at = "join", ![w].task = task],
             thr' = [thr EXCEPT ![task].stop = TRUE], module = "bound", call[w].at = "stop"
      PROVE  /\ Went(w, "stop", "join") /\ call'[w].task = task
             /\ thr' \in ThrSet /\ thr'[task].stop /\ thr'[task].at = thr[task].at /\ thr'[task].led = thr[task].led
             /\ \A s \in Tasks \ {task} : thr'[s] = thr[s]
  <2> DEFINE joins == [[call[w] EXCEPT !.at = "join"] EXCEPT !.task = task]
             told  == [thr[task] EXCEPT !.stop = TRUE]
  <2>1. /\ joins \in CallRec /\ joins.at = "join" /\ joins.task = task /\ joins.op = call[w].op
        /\ joins.led = call[w].led
    BY <1>1, <1>2 DEF CallRec, Place
  <2>2. /\ told \in [at : Thread, led : Leds, stop : BOOLEAN, value : Int]
        /\ told.stop /\ told.at = thr[task].at /\ told.led = thr[task].led
    BY <1>1, <1>2 DEF ThrSet
  <2>3. call' = [call EXCEPT ![w] = joins] /\ thr' = [thr EXCEPT ![task] = told]
    BY <1>1, <1>2 DEF CallSet, ThrSet
  <2> HIDE DEF joins, told
  <2>4. call' \in CallSet /\ call'[w] = joins /\ \A v \in Writers \ {w} : call'[v] = call[v]
    BY <1>1, <2>1, <2>3 DEF CallSet
  <2>5. thr' \in ThrSet /\ thr'[task] = told /\ \A s \in Tasks \ {task} : thr'[s] = thr[s]
    BY <1>1, <1>2, <2>2, <2>3 DEF ThrSet
  <2> QED BY <1>2, <2>1, <2>2, <2>4, <2>5 DEF Went
<1> QED BY <1>2 DEF Stop

(* Who is let go by kthread_stop.                                        *)
LEMMA JoinStep ==
  ASSUME NEW w \in Writers, KTypes, Join(w)
  PROVE  /\ UNCHANGED <<lit, led_flag, task_flag, task, module>> /\ thr[call[w].task].at \in {"done", "gone"}
         /\ IF call[w].op = "blink off" THEN Went(w, "join", "dark") /\ call'[w].left = Leds
                                        ELSE Went(w, "join", "stopped")
         /\ thr' = [thr EXCEPT ![call[w].task].at = "gone"]
         /\ call[w].task \in Tasks => /\ thr' \in ThrSet /\ thr'[call[w].task].at = "gone"
                                      /\ thr'[call[w].task].stop = thr[call[w].task].stop
                                      /\ \A s \in Tasks \ {call[w].task} : thr'[s] = thr[s]
<1>1. call \in CallSet /\ thr \in ThrSet /\ "stopped" \in Place /\ "gone" \in Thread
  BY DEF KTypes, Place, Thread
<1>2. IF call[w].op = "blink off" THEN Went(w, "join", "dark") /\ call'[w].left = Leds
                                  ELSE Went(w, "join", "stopped")
  BY <1>1, GotoWent, AllOffWent DEF Join, OpOf
<1> QED BY <1>1, <1>2, ThreadMoves DEF Join

(* The loop that switches LEDs off.                                      *)
LEMMA DarkenStep ==
  ASSUME NEW w \in Writers, KTypes, Darken(w)
  PROVE  /\ UNCHANGED <<led_flag, task_flag, task, thr, module>>
         /\ \/ /\ Went(w, "dark", "dark")
               /\ \E l \in Leds : lit' = [lit EXCEPT ![l] = FALSE] /\ call'[w].left = call[w].left \ {l}
            \/ /\ call[w].left = {} /\ lit' = lit
               /\ \/ call[w].op = "blink on" /\ Went(w, "dark", "spawn")
                  \/ call[w].op = "blink off" /\ Went(w, "dark", "unflag")
                  \/ call[w].op = "set on" /\ Went(w, "dark", "light")
                  \/ call[w].op = "remove" /\ Went(w, "dark", "destroy")
                  \/ call[w].op \in {"blink bad", "set off", "set bad"} /\ Went(w, "dark", "idle")
<1>1. call \in CallSet /\ call[w] \in CallRec /\ call[w].op \in Op
  BY DEF KTypes, CallSet, CallRec
<1>2. ASSUME NEW l \in call[w].left, call[w].at = "dark", module = "bound",
             call' = [call EXCEPT ![w].left = call[w].left \ {l}]
      PROVE  Went(w, "dark", "dark") /\ call'[w].left = call[w].left \ {l} /\ l \in Leds
  <2> DEFINE less == [call[w] EXCEPT !.left = call[w].left \ {l}]
  <2>1. /\ less \in CallRec /\ less.at = "dark" /\ less.op = call[w].op /\ less.led = call[w].led
        /\ less.left = call[w].left \ {l} /\ l \in Leds
    BY <1>1, <1>2 DEF CallRec
  <2>2. call' = [call EXCEPT ![w] = less]
    BY <1>1, <1>2 DEF CallSet
  <2> HIDE DEF less
  <2>3. call' \in CallSet /\ call'[w] = less /\ \A v \in Writers \ {w} : call'[v] = call[v]
    BY <1>1, <2>1, <2>2 DEF CallSet
  <2> QED BY <1>2, <2>1, <2>3 DEF Went
<1>3. ASSUME call[w].left = {}, Goto(w, "dark", AfterDark(w))
      PROVE  \/ call[w].op = "blink on" /\ Went(w, "dark", "spawn")
             \/ call[w].op = "blink off" /\ Went(w, "dark", "unflag")
             \/ call[w].op = "set on" /\ Went(w, "dark", "light")
             \/ call[w].op = "remove" /\ Went(w, "dark", "destroy")
             \/ call[w].op \in {"blink bad", "set off", "set bad"} /\ Went(w, "dark", "idle")
  <2>1. AfterDark(w) \in Place
    BY <1>1 DEF AfterDark, OpOf, Place, Op
  <2>2. Went(w, "dark", AfterDark(w))
    BY <1>1, <1>3, <2>1, GotoWent
  <2> QED BY <1>1, <2>2 DEF AfterDark, OpOf, Op
<1>4. \/ /\ module = "bound" /\ call[w].at = "dark"
         /\ \E l \in call[w].left : /\ lit' = [lit EXCEPT ![l] = FALSE]
                                    /\ call' = [call EXCEPT ![w].left = call[w].left \ {l}]
      \/ call[w].left = {} /\ Goto(w, "dark", AfterDark(w)) /\ lit' = lit
  BY <1>1 DEF Darken, CallSet
<1> QED BY <1>2, <1>3, <1>4 DEF Darken

(* What set_led_store and my_remove do when no thread flashes.           *)
LEMMA ActStep ==
  ASSUME NEW w \in Writers, KTypes, Act(w)
  PROVE  /\ UNCHANGED <<led_flag, task_flag, task, thr, module>>
         /\ \/ /\ call[w].op \in {"set on", "remove"} /\ led_flag = 1 /\ lit' = lit
               /\ Went(w, "act", "dark") /\ call'[w].left = Leds
            \/ /\ call[w].op = "set on" /\ led_flag = 0 /\ lit' = [lit EXCEPT ![call[w].led] = TRUE]
               /\ Went(w, "act", "setflag")
            \/ lit' = [lit EXCEPT ![call[w].led] = FALSE] /\ Went(w, "act", "idle")
            \/ lit' = lit /\ Went(w, "act", "idle")
            \/ call[w].op = "remove" /\ led_flag = 0 /\ lit' = lit /\ Went(w, "act", "destroy")
<1>1. call \in CallSet /\ {"setflag", "idle", "destroy"} \subseteq Place
  BY DEF KTypes, Place
<1> QED BY <1>1, GotoWent, AllOffWent DEF Act, OpOf, Light, Shade

(* A writer that enters a file.                                          *)
LEMMA CallStep ==
  ASSUME NEW w \in Writers, KTypes, Call(w)
  PROVE  /\ UNCHANGED <<lit, led_flag, task_flag, task, thr, module>> /\ module = "bound"
         /\ call' \in CallSet /\ call[w].at = "idle" /\ call'[w].at \in {"clear", "flag"} /\ Fits(call'[w])
         /\ \A v \in Writers \ {w} : call'[v] = call[v]
<1>1. PICK o \in Op, l \in Leds : call' = [call EXCEPT ![w] =
        [Idle EXCEPT !.op = o, !.led = l, !.at = IF o \in {"blink on", "blink bad"} THEN "clear" ELSE "flag"]]
  BY DEF Call
<1> DEFINE in == [Idle EXCEPT !.op = o, !.led = l, !.at = IF o \in {"blink on", "blink bad"} THEN "clear" ELSE "flag"]
<1>2. PICK i \in CallRec : i = Idle
  BY IdleTyped
<1>3. in = [[[i EXCEPT !.op = o] EXCEPT !.led = l] EXCEPT
             !.at = IF o \in {"blink on", "blink bad"} THEN "clear" ELSE "flag"]
  BY <1>2
<1>4. in \in CallRec /\ in.op = o /\ in.at = (IF o \in {"blink on", "blink bad"} THEN "clear" ELSE "flag")
  <2>1. (IF o \in {"blink on", "blink bad"} THEN "clear" ELSE "flag") \in Place
    BY DEF Place
  <2> HIDE DEF in
  <2> QED BY <1>3, <2>1 DEF CallRec
<1>5. call' = [call EXCEPT ![w] = in] /\ call \in CallSet
  BY <1>1 DEF KTypes
<1> HIDE DEF in
<1>6. call' \in CallSet /\ call'[w] = in /\ \A v \in Writers \ {w} : call'[v] = call[v]
  BY <1>4, <1>5 DEF CallSet
<1> QED BY <1>4, <1>6 DEF Call, Fits

(* A step of a writer moves its own call only.                           *)
LEMMA OwnCall ==
  ASSUME NEW w \in Writers, call \in CallSet, Call(w) \/ Store(w)
  PROVE  \A v \in Writers \ {w} : call'[v] = call[v]
BY DEF CallSet, Call, Store, Goto, AllOff, Clear, Darken, Spawn, Run, FlagOn, Flag, Stop, Join, Stopped, Unflag, Act,
       LightUp, SetFlag, Destroy
-----------------------------------------------------------------------------
(* The inductive invariant.                                              *)

(* What the two history variables remember.                              *)
History == (Race => raced) /\ (Crowd => crowded) /\ (raced => crowded)

(* No thread flashes; or only the one in task, and nobody has told it to *)
(* stop.                                                                 *)
Rests(t) == thr[t].at \in {"new", "done", "gone"}
Still == \A t \in Tasks : Rests(t)
Only  == task \in Tasks /\ \A t \in Tasks \ {task} : Rests(t)
Flies == Only /\ thr[task].at \in Flashing /\ ~thr[task].stop
(* When nobody acts on it, task_flag tells which; and who acts on it,    *)
(* alone, knows at each place what its test has said and where the       *)
(* thread is.                                                            *)
Calm    == IF task_flag = 1 THEN Flies ELSE Still
Busy(w) ==
  /\ call[w].at = "run"    => task_flag = 0 /\ Still
  /\ call[w].at = "flagon" => task_flag = 0 /\ Flies
  /\ call[w].at = "stop"   => task_flag = 1 /\ Flies
  /\ call[w].at = "join"   => /\ task_flag = 1 /\ Only /\ thr[task].at \in Flashing \cup {"off", "done"}
                              /\ thr[task].stop /\ call[w].task = task
  /\ call[w].at \in {"stopped", "unflag", "dark"} => task_flag = 1 /\ Still
TaskInv == ~raced =>
  /\ module # "oops" /\ \A t \in Tasks : thr[t].at = "new" => ~thr[t].stop
  /\ (\A w \in Writers : ~Acting(w)) => Calm
  /\ \A w \in Writers : Acting(w) => Busy(w)

(* An LED lit while led_flag is clear: somebody will set the flag, or    *)
(* its thread switches it off.  It is clear at no place after a test.    *)
FlagInv ==
  /\ \A l \in Leds : lit[l] /\ led_flag = 0 =>
       \/ \E w \in Writers : call[w].at = "setflag" /\ call[w].led = l
       \/ \E t \in Tasks : thr[t].at \in {"loop", "toggle", "off"} /\ thr[t].led = l
  /\ \A w \in Writers : call[w].at = "light" \/ (call[w].at = "dark" /\ call[w].op = "set on") => led_flag = 1

(* remove, alone: the LEDs still lit are those its loop has left.        *)
RemoveInv == ~raced =>
  /\ \A w \in Writers : call[w].op = "remove" =>
       /\ call[w].at \in {"act", "dark", "destroy"} => task_flag = 0
       /\ call[w].at = "dark" => \A l \in Leds : lit[l] => l \in call[w].left
       /\ call[w].at = "destroy" => lit = Dark
  /\ module = "removed" => lit = Dark /\ task_flag = 0 /\ \A w \in Writers : call[w].at = "idle"

(* A thread that flashes owns the light: before its first step, and      *)
(* after its last, every LED is off; in between only its own may be lit. *)
LitOnly(x) == \A l \in Leds : lit[l] => l = x
OneLit  == /\ \E x \in Leds : LitOnly(x)
           /\ \A t \in Tasks : /\ thr[t].at \in {"loop", "toggle", "off"} => LitOnly(thr[t].led)
                               /\ thr[t].at = "fresh" => lit = Dark
Lamp(w) ==
  /\ call[w].at = "join" /\ thr[call[w].task].at = "done" => lit = Dark
  /\ call[w].at \in {"run", "stopped", "unflag", "light", "destroy"} => lit = Dark
  /\ call[w].at = "spawn" /\ task_flag = 0 => lit = Dark
  /\ call[w].at = "dark" /\ call[w].op = "blink off" => lit = Dark
  /\ call[w].at = "dark" /\ task_flag = 0 => \A l \in Leds : lit[l] => l \in call[w].left
  /\ call[w].at \in {"act", "light", "setflag", "destroy"} => task_flag = 0
  /\ call[w].at = "dark" /\ call[w].op \in {"set on", "remove"} => task_flag = 0
LightInv == ~crowded => OneLit /\ \A w \in Writers : Lamp(w)

KeyledInv == KTypes /\ History /\ TaskInv /\ FlagInv /\ RemoveInv /\ LightInv
-----------------------------------------------------------------------------
(* Types and history.                                                    *)
LEMMA PlaceFits ==
  ASSUME KTypes, NEW w \in Writers, NEW from, NEW to, Went(w, from, to),
         to # "clear", to = "destroy" => call[w].op = "remove"
  PROVE  call' \in CallSet /\ \A v \in Writers : Fits(call'[v])
<1>1. Fits(call'[w])
  BY DEF Went, Fits
<1>2. \A v \in Writers \ {w} : Fits(call'[v])
  BY DEF Went, KTypes
<1> QED BY <1>1, <1>2 DEF Went

LEMMA WriterTypes == ASSUME KTypes, NEW w \in Writers, Call(w) \/ Store(w) PROVE KTypes'
<1> DEFINE Fit == call' \in CallSet /\ \A v \in Writers : Fits(call'[v])
<1> USE DEF KTypes
<1>1. CASE Call(w)
  <2>1. Fit
    BY <1>1, CallStep
  <2> QED BY <1>1, <2>1, CallStep
<1>2. CASE Clear(w) \/ Spawn(w) \/ Flag(w)
  <2>1. Fit
    BY <1>2, Steps, PlaceFits
  <2> QED BY <1>2, <2>1, Steps
<1>3. CASE FlagOn(w) \/ Stopped(w) \/ Unflag(w)
  <2>1. Fit
    BY <1>3, Steps, PlaceFits
  <2> QED BY <1>3, <2>1, Steps
<1>4. CASE LightUp(w) \/ SetFlag(w)
  <2>1. Fit
    BY <1>4, Steps, PlaceFits
  <2> QED BY <1>4, <2>1, Steps
<1>5. CASE Destroy(w)
  <2>1. Fit
    BY <1>5, Steps, PlaceFits
  <2> QED BY <1>5, <2>1, Steps
<1>6. CASE Run(w)
  <2>1. Fit
    BY <1>6, RunStep, PlaceFits
  <2> QED BY <1>6, <2>1, RunStep
<1>7. CASE Stop(w)
  <2>1. Fit
    BY <1>7, StopStep, PlaceFits
  <2> QED BY <1>7, <2>1, StopStep
<1>8. CASE Join(w)
  <2>1. Fit
    BY <1>8, JoinStep, PlaceFits
  <2>2. thr' \in ThrSet
    BY <1>8, JoinStep DEF ThrSet
  <2> QED BY <1>8, <2>1, <2>2, JoinStep
<1>9. CASE Darken(w)
  <2>1. Fit
    BY <1>9, DarkenStep, PlaceFits
  <2> QED BY <1>9, <2>1, DarkenStep
<1>10. CASE Act(w)
  <2>1. Fit
    BY <1>10, ActStep, PlaceFits
  <2> QED BY <1>10, <2>1, ActStep
<1> QED BY <1>1, <1>2, <1>3, <1>4, <1>5, <1>6, <1>7, <1>8, <1>9, <1>10 DEF Store

(* A step of the flashing thread.                                        *)
LEMMA FlashStep ==
  ASSUME KTypes, NEW t \in Tasks, Flash(t)
  PROVE  /\ module = "bound" /\ UNCHANGED <<led_flag, task_flag, task, call, module, crowded, raced>>
         /\ thr' \in ThrSet /\ thr'[t].led = thr[t].led /\ thr'[t].stop = thr[t].stop /\ thr[t].led \in Leds
         /\ \A s \in Tasks \ {t} : thr'[s] = thr[s]
         /\ \/ thr[t].at = "fresh" /\ thr'[t].at = (IF thr[t].stop THEN "done" ELSE "loop") /\ lit' = lit
            \/ thr[t].at = "loop" /\ thr'[t].at = (IF thr[t].stop THEN "off" ELSE "toggle") /\ lit' = lit
            \/ /\ thr[t].at = "toggle" /\ thr'[t].at = "loop"
               /\ \E b \in BOOLEAN : lit' = [lit EXCEPT ![thr[t].led] = b]
            \/ thr[t].at = "off" /\ thr'[t].at = "done" /\ lit' = [lit EXCEPT ![thr[t].led] = FALSE]
<1>0. thr \in ThrSet /\ thr[t].led \in Leds
  BY DEF KTypes, ThrSet
<1>1. CASE FlashStart(t)
  <2>1. thr' = [thr EXCEPT ![t].at = IF thr[t].stop THEN "done" ELSE "loop"] /\ thr[t].at = "fresh"
    BY <1>1 DEF FlashStart
  <2>2. (IF thr[t].stop THEN "done" ELSE "loop") \in Thread
    BY DEF Thread
  <2> QED BY <1>0, <1>1, <2>1, <2>2, ThreadMoves DEF Flash, FlashStart
<1>2. CASE FlashTest(t)
  <2>1. thr' = [thr EXCEPT ![t].at = IF thr[t].stop THEN "off" ELSE "toggle"] /\ thr[t].at = "loop"
    BY <1>2 DEF FlashTest
  <2>2. (IF thr[t].stop THEN "off" ELSE "toggle") \in Thread
    BY DEF Thread
  <2> QED BY <1>0, <1>2, <2>1, <2>2, ThreadMoves DEF Flash, FlashTest
<1>3. CASE FlashToggle(t)
  BY <1>0, <1>3, ThreadToggles DEF Flash, FlashToggle
<1>4. CASE FlashOff(t)
  <2>1. thr' = [thr EXCEPT ![t].at = "done"] /\ thr[t].at = "off" /\ "done" \in Thread
    BY <1>4 DEF FlashOff, Thread
  <2> QED BY <1>0, <1>4, <2>1, ThreadMoves DEF Flash, FlashOff
<1> QED BY <1>1, <1>2, <1>3, <1>4 DEF Flash

LEMMA FlashTypes == ASSUME KTypes, NEW t \in Tasks, Flash(t) PROVE KTypes'
<1>1. lit' \in [Leds -> BOOLEAN]
  BY FlashStep DEF KTypes
<1> QED BY <1>1, FlashStep DEF KTypes

(* Two that race are two inside.                                         *)
LEMMA HistoryKeeps == ASSUME KTypes', History, Overlaps PROVE History'
<1>1. ASSUME NEW v \in Writers, call'[v].at = "idle" PROVE ~Acting(v)' /\ OpOf(v)' # "remove"
  BY <1>1 DEF KTypes, Fits, Acting, OpOf
<1>2. Race' => Crowd'
  BY <1>1 DEF Race, Crowd, Inside
<1> QED BY <1>2 DEF History, Overlaps
-----------------------------------------------------------------------------
(* task_flag and the thread.                                             *)
One(w) == IF Acting(w) THEN Busy(w) ELSE Calm
New    == \A t \in Tasks : thr[t].at = "new" => ~thr[t].stop

(* A writer that does not act on task_flag leaves what others know.      *)
LEMMA QuietTask ==
  ASSUME TaskInv, raced => raced', module # "oops" => module' # "oops", UNCHANGED <<thr, task, task_flag>>,
         NEW w \in Writers, ~Acting(w), ~Acting(w)', \A v \in Writers \ {w} : call'[v] = call[v]
  PROVE  TaskInv'
<1>1. Calm' = Calm
  BY DEF Calm, Flies, Still, Only, Rests
<1>2. \A v \in Writers \ {w} : Acting(v)' = Acting(v) /\ (Busy(v) => Busy(v)')
  BY DEF Acting, OpOf, Busy, Flies, Still, Only, Rests
<1> QED BY <1>1, <1>2 DEF TaskInv

(* One that does is alone in that.                                       *)
LEMMA LoneTask ==
  ASSUME TaskInv, History, Overlaps, ~raced', NEW w \in Writers, Acting(w) \/ Acting(w)',
         \A v \in Writers \ {w} : call'[v] = call[v]
  PROVE  /\ One(w) /\ New /\ module # "oops"
         /\ One(w)' /\ New' /\ module' # "oops" => TaskInv'
<1>1. ~raced /\ ~Race /\ ~Race'
  BY DEF Overlaps, History
<1>2. \A v \in Writers \ {w} : Acting(v)' = Acting(v)
  BY DEF Acting, OpOf
<1>3. \A v \in Writers \ {w} : ~Acting(v) /\ ~Acting(v)'
  <2>1. CASE Acting(w)
    BY <1>1, <1>2, <2>1 DEF Race
  <2>2. CASE Acting(w)'
    BY <1>1, <1>2, <2>2 DEF Race
  <2> QED BY <2>1, <2>2
<1>4. One(w) /\ New /\ module # "oops"
  BY <1>1, <1>3 DEF TaskInv, One, New
<1>5. ASSUME One(w)', New', module' # "oops" PROVE TaskInv'
  BY <1>3, <1>5 DEF TaskInv, One, New
<1> QED BY <1>4, <1>5

LEMMA WriterTask ==
  ASSUME KTypes, History, TaskInv, NEW w \in Writers, Call(w) \/ Store(w), Overlaps PROVE TaskInv'
<1> SUFFICES ASSUME ~raced' PROVE TaskInv'
  BY DEF TaskInv
<1>0. /\ call \in CallSet /\ task_flag \in {0, 1} /\ Fits(call[w]) /\ (raced => raced')
      /\ \A v \in Writers \ {w} : call'[v] = call[v]
  BY OwnCall DEF KTypes, Overlaps
<1>1. CASE Call(w)
  <2>1. ~Acting(w) /\ ~Acting(w)' /\ UNCHANGED <<thr, task, task_flag, module>>
    BY <1>1, CallStep DEF Acting
  <2> QED BY <1>0, <2>1, QuietTask
<1>2. CASE Clear(w) \/ LightUp(w) \/ SetFlag(w) \/ Destroy(w) \/ Act(w)
  <2>1. UNCHANGED <<thr, task, task_flag>> /\ (module # "oops" => module' # "oops")
    BY <1>2, Steps, ActStep
  <2>2. \E from \in {"clear", "light", "setflag", "destroy", "act"} :
          Went(w, from, "idle") \/ Went(w, from, "spawn") \/ Went(w, from, "setflag") \/ Went(w, from, "destroy")
          \/ (call[w].op # "blink off" /\ Went(w, from, "dark"))
    BY <1>0, <1>2, Steps, ActStep DEF Fits, Went
  <2>3. ~Acting(w) /\ ~Acting(w)'
    BY <2>2 DEF Acting, OpOf, Went
  <2> QED BY <1>0, <2>1, <2>3, QuietTask
<1>3. CASE Flag(w)
  <2>1. UNCHANGED <<thr, task, task_flag, module>>
    BY <1>3, Steps
  <2>2. CASE task_flag = 1
    <3>1. Went(w, "flag", "stop")
      BY <1>3, <2>2, Steps
    <3>2. ~Acting(w) /\ Acting(w)' /\ call'[w].at = "stop"
      BY <3>1 DEF Acting, OpOf, Went
    <3>3. Calm /\ New /\ module # "oops"
      BY <1>0, <3>2, LoneTask DEF One
    <3>4. Flies' /\ New' /\ module' # "oops" /\ task_flag' = 1
      BY <2>1, <2>2, <3>3 DEF Calm, Flies, Only, Rests, New
    <3>5. One(w)'
      BY <3>2, <3>4 DEF One, Busy
    <3> QED BY <1>0, <3>2, <3>4, <3>5, LoneTask
  <2>3. CASE task_flag # 1
    <3>1. Went(w, "flag", "act") \/ Went(w, "flag", "idle")
      BY <1>3, <2>3, Steps
    <3>2. ~Acting(w) /\ ~Acting(w)'
      BY <3>1 DEF Acting, OpOf, Went
    <3> QED BY <1>0, <2>1, <3>2, QuietTask
  <2> QED BY <2>2, <2>3
<1>4. CASE Spawn(w)
  <2>1. UNCHANGED <<thr, task, task_flag, module>>
    BY <1>4, Steps
  <2>2. CASE task_flag = 0
    <3>1. Went(w, "spawn", "run")
      BY <1>4, <2>2, Steps
    <3>2. ~Acting(w) /\ Acting(w)' /\ call'[w].at = "run"
      BY <3>1 DEF Acting, OpOf, Went
    <3>3. Calm /\ New /\ module # "oops"
      BY <1>0, <3>2, LoneTask DEF One
    <3>4. Still' /\ New' /\ module' # "oops" /\ task_flag' = 0
      BY <2>1, <2>2, <3>3 DEF Calm, Still, Rests, New
    <3>5. One(w)'
      BY <3>2, <3>4 DEF One, Busy
    <3> QED BY <1>0, <3>2, <3>4, <3>5, LoneTask
  <2>3. CASE task_flag # 0
    <3>1. Went(w, "spawn", "idle")
      BY <1>4, <2>3, Steps
    <3>2. ~Acting(w) /\ ~Acting(w)'
      BY <3>1 DEF Acting, OpOf, Went
    <3> QED BY <1>0, <2>1, <3>2, QuietTask
  <2> QED BY <2>2, <2>3
<1>5. CASE Run(w)
  <2>1. Acting(w) /\ call[w].at = "run"
    BY <1>5, RunStep DEF Acting, Went
  <2>2. task_flag = 0 /\ Still /\ New /\ module # "oops"
    BY <1>0, <2>1, LoneTask DEF One, Busy
  <2>3. task_flag' = 0 /\ module' # "oops"
    BY <1>5, <2>2, RunStep
  <2>4. CASE Went(w, "run", "idle") /\ thr' = thr
    <3>1. ~Acting(w)' /\ Still' /\ New'
      BY <2>2, <2>4 DEF Acting, Went, Still, Rests, New
    <3>2. One(w)'
      BY <2>3, <3>1 DEF One, Calm
    <3> QED BY <1>0, <2>1, <2>3, <3>1, <3>2, LoneTask
  <2>5. CASE /\ Went(w, "run", "flagon") /\ task' \in Tasks /\ thr[task'].at = "new"
             /\ thr'[task'].at = "fresh" /\ thr'[task'].stop = thr[task'].stop
             /\ \A s \in Tasks \ {task'} : thr'[s] = thr[s]
    <3>1. Flies' /\ New'
      BY <2>2, <2>5 DEF Flies, Only, Still, Rests, New, Flashing
    <3>2. call'[w].at = "flagon"
      BY <2>5 DEF Went
    <3>3. One(w)'
      BY <2>3, <3>1, <3>2 DEF One, Busy, Acting
    <3> QED BY <1>0, <2>1, <2>3, <3>1, <3>3, LoneTask
  <2> QED BY <1>5, <2>4, <2>5, RunStep
<1>6. CASE FlagOn(w)
  <2>1. Went(w, "flagon", "idle") /\ task_flag' = 1 /\ UNCHANGED <<thr, task, module>>
    BY <1>6, Steps
  <2>2. Acting(w) /\ ~Acting(w)' /\ call[w].at = "flagon"
    BY <2>1 DEF Acting, Went
  <2>3. Flies /\ New /\ module # "oops"
    BY <1>0, <2>2, LoneTask DEF One, Busy
  <2>4. Flies' /\ New' /\ module' # "oops"
    BY <2>1, <2>3 DEF Flies, Only, Rests, New
  <2>5. One(w)'
    BY <2>1, <2>2, <2>4 DEF One, Calm
  <2> QED BY <1>0, <2>2, <2>4, <2>5, LoneTask
<1>7. CASE Stop(w)
  <2>1. call[w].at = "stop" /\ Acting(w)
    BY <1>7, StopStep DEF Acting
  <2>2. task_flag = 1 /\ Flies /\ New /\ module # "oops"
    BY <1>0, <2>1, LoneTask DEF One, Busy
  <2>3. task \in Tasks /\ thr[task].at \notin {"new", "gone"}
    BY <2>2 DEF Flies, Only, Flashing
  <2>4. /\ task' = task /\ task_flag' = task_flag
        /\ Went(w, "stop", "join") /\ call'[w].task = task /\ module' = module
        /\ thr'[task].stop /\ thr'[task].at = thr[task].at /\ \A s \in Tasks \ {task} : thr'[s] = thr[s]
    BY <1>7, <2>3, StopStep
  <2>5. New' /\ module' # "oops"
    BY <2>2, <2>3, <2>4 DEF New
  <2>6. call'[w].at = "join" /\ Only' /\ thr'[task'].at \in Flashing /\ thr'[task'].stop
    BY <2>2, <2>4 DEF Flies, Only, Rests, Went
  <2>7. One(w)'
    BY <2>2, <2>4, <2>6 DEF One, Busy, Acting
  <2> QED BY <1>0, <2>1, <2>5, <2>7, LoneTask
<1>8. CASE Join(w)
  <2>1. call[w].at = "join" /\ Acting(w)
    BY <1>8 DEF Join, Goto, AllOff, Acting
  <2>2. task_flag = 1 /\ Only /\ call[w].task = task /\ New /\ module # "oops"
    BY <1>0, <2>1, LoneTask DEF One, Busy
  <2>3. /\ UNCHANGED <<task_flag, task, module>> /\ thr'[task].at = "gone"
        /\ \A s \in Tasks \ {task} : thr'[s] = thr[s]
    BY <1>8, <2>2, JoinStep DEF Only
  <2>4. Still' /\ New' /\ module' # "oops"
    BY <2>2, <2>3 DEF Only, Still, Rests, New
  <2>5. IF call[w].op = "blink off" THEN Went(w, "join", "dark") ELSE Went(w, "join", "stopped")
    BY <1>8, JoinStep
  <2>6. Acting(w)' /\ call'[w].at \in {"dark", "stopped"}
    BY <2>5 DEF Went, Acting, OpOf
  <2>7. One(w)'
    BY <2>2, <2>3, <2>4, <2>6 DEF One, Busy
  <2> QED BY <1>0, <2>1, <2>4, <2>7, LoneTask
<1>9. CASE Stopped(w) \/ Unflag(w)
  <2>1. /\ Went(w, "stopped", "act") \/ Went(w, "unflag", "idle")
        /\ task_flag' = 0 /\ UNCHANGED <<thr, task, module>>
    BY <1>9, Steps
  <2>2. Acting(w) /\ ~Acting(w)' /\ call[w].at \in {"stopped", "unflag"}
    BY <2>1 DEF Acting, Went
  <2>3. Still /\ New /\ module # "oops"
    BY <1>0, <2>2, LoneTask DEF One, Busy
  <2>4. Still' /\ New' /\ module' # "oops"
    BY <2>1, <2>3 DEF Still, Rests, New
  <2>5. One(w)'
    BY <2>1, <2>2, <2>4 DEF One, Calm
  <2> QED BY <1>0, <2>2, <2>4, <2>5, LoneTask
<1>10. CASE Darken(w)
  <2>1. UNCHANGED <<thr, task, task_flag, module>> /\ call[w].at = "dark"
    BY <1>10, DarkenStep DEF Went
  <2>2. CASE call[w].op = "blink off"
    <3>1. Went(w, "dark", "dark") \/ Went(w, "dark", "unflag")
      BY <1>10, <2>2, DarkenStep
    <3>2. Acting(w) /\ Acting(w)' /\ call'[w].at \in {"dark", "unflag"}
      BY <2>1, <2>2, <3>1 DEF Acting, OpOf, Went
    <3>3. task_flag = 1 /\ Still /\ New /\ module # "oops"
      BY <1>0, <2>1, <3>2, LoneTask DEF One, Busy
    <3>4. task_flag' = 1 /\ Still' /\ New' /\ module' # "oops"
      BY <2>1, <3>3 DEF Still, Rests, New
    <3>5. One(w)'
      BY <3>2, <3>4 DEF One, Busy
    <3> QED BY <1>0, <3>2, <3>4, <3>5, LoneTask
  <2>3. CASE call[w].op # "blink off"
    <3>1. Went(w, "dark", "dark") \/ Went(w, "dark", "spawn") \/ Went(w, "dark", "light")
          \/ Went(w, "dark", "destroy") \/ Went(w, "dark", "idle")
      BY <1>10, <2>3, DarkenStep
    <3>2. ~Acting(w) /\ ~Acting(w)'
      BY <2>3, <3>1 DEF Acting, OpOf, Went
    <3> QED BY <1>0, <2>1, <3>2, QuietTask
  <2> QED BY <2>2, <2>3
<1> QED BY <1>1, <1>2, <1>3, <1>4, <1>5, <1>6, <1>7, <1>8, <1>9, <1>10 DEF Store

LEMMA FlashTask == ASSUME KTypes, TaskInv, NEW t \in Tasks, Flash(t) PROVE TaskInv'
<1> SUFFICES ASSUME ~raced' PROVE TaskInv'
  BY DEF TaskInv
<1>1. UNCHANGED <<task_flag, task, call, module, raced>> /\ ~Rests(t)
  BY FlashStep DEF Rests
<1>2. /\ \A s \in Tasks \ {t} : thr'[s] = thr[s]
      /\ thr'[t].at # "new" /\ thr'[t].stop = thr[t].stop
      /\ thr[t].at \in Flashing /\ ~thr[t].stop => thr'[t].at \in Flashing
      /\ thr'[t].at \in Flashing \cup {"off", "done"}
  BY FlashStep DEF Flashing
<1>3. New'
  BY <1>1, <1>2 DEF TaskInv, New
<1>4. ~Still /\ (Only => t = task)
  BY <1>1 DEF Still, Only
<1>5. (Only => Only') /\ (Flies => Flies')
  BY <1>1, <1>2, <1>4 DEF Only, Flies, Rests
<1>6. Calm => Calm'
  BY <1>1, <1>4, <1>5 DEF Calm
<1>7. ASSUME NEW w \in Writers, Busy(w) PROVE Busy(w)'
  BY <1>1, <1>2, <1>4, <1>5, <1>7 DEF Busy
<1>8. \A w \in Writers : Acting(w)' = Acting(w)
  BY <1>1 DEF Acting, OpOf
<1> QED BY <1>1, <1>3, <1>6, <1>7, <1>8 DEF TaskInv, New
-----------------------------------------------------------------------------
(* led_flag and the LEDs.                                                *)
Burns(t) == thr[t].at \in {"loop", "toggle", "off"}

(* A step that lights no LED and leaves the threads that burn.           *)
LEMMA QuietFlag ==
  ASSUME FlagInv, led_flag' = led_flag, NEW w \in Writers, \A v \in Writers \ {w} : call'[v] = call[v],
         \A l \in Leds : lit'[l] => lit[l],
         \A t \in Tasks : Burns(t) => Burns(t)' /\ thr'[t].led = thr[t].led,
         call[w].at # "setflag",
         call'[w].at = "light" \/ (call'[w].at = "dark" /\ call'[w].op = "set on") => led_flag = 1
  PROVE  FlagInv'
<1>1. ASSUME NEW l \in Leds, lit'[l], led_flag' = 0
      PROVE  \/ \E v \in Writers : call'[v].at = "setflag" /\ call'[v].led = l
             \/ \E t \in Tasks : thr'[t].at \in {"loop", "toggle", "off"} /\ thr'[t].led = l
  <2>1. \/ \E v \in Writers : call[v].at = "setflag" /\ call[v].led = l
        \/ \E t \in Tasks : thr[t].at \in {"loop", "toggle", "off"} /\ thr[t].led = l
    BY <1>1 DEF FlagInv
  <2>2. CASE \E v \in Writers : call[v].at = "setflag" /\ call[v].led = l
    <3>1. PICK v \in Writers : call[v].at = "setflag" /\ call[v].led = l
      BY <2>2
    <3>2. call'[v] = call[v]
      BY <3>1
    <3> QED BY <3>1, <3>2
  <2>3. CASE \E t \in Tasks : thr[t].at \in {"loop", "toggle", "off"} /\ thr[t].led = l
    BY <2>3 DEF Burns
  <2> QED BY <2>1, <2>2, <2>3
<1>2. \A v \in Writers : call'[v].at = "light" \/ (call'[v].at = "dark" /\ call'[v].op = "set on") => led_flag' = 1
  BY DEF FlagInv
<1> QED BY <1>1, <1>2 DEF FlagInv

LEMMA FlagSet == ASSUME led_flag' = 1 PROVE FlagInv'
<1>1. led_flag' # 0
  OBVIOUS
<1> QED BY <1>1 DEF FlagInv

LEMMA WriterFlag == ASSUME KTypes, FlagInv, NEW w \in Writers, Call(w) \/ Store(w) PROVE FlagInv'
<1>0. /\ call \in CallSet /\ Fits(call[w]) /\ led_flag \in {0, 1} /\ lit \in [Leds -> BOOLEAN] /\ call[w].led \in Leds
      /\ thr \in ThrSet /\ \A v \in Writers \ {w} : call'[v] = call[v]
  BY OwnCall DEF KTypes, CallSet, CallRec
<1>1. CASE Call(w)
  <2>1. /\ UNCHANGED <<lit, led_flag, thr>> /\ call[w].at = "idle" /\ call'[w].at \in {"clear", "flag"}
    BY <1>1, CallStep
  <2> QED BY <1>0, <2>1, QuietFlag DEF Burns
<1>2. CASE Clear(w) \/ Spawn(w) \/ FlagOn(w) \/ Flag(w) \/ Stopped(w) \/ Unflag(w) \/ Destroy(w)
  <2>1. UNCHANGED <<lit, led_flag, thr>>
    BY <1>2, Steps
  <2>2. call[w].at # "setflag" /\ call'[w].at # "light" /\ (call'[w].at = "dark" => led_flag = 1)
    BY <1>2, Steps DEF Went
  <2> QED BY <1>0, <2>1, <2>2, QuietFlag DEF Burns
<1>3. CASE Run(w)
  <2>1. /\ UNCHANGED <<lit, led_flag>> /\ call[w].at = "run" /\ call'[w].at \in {"idle", "flagon"}
        /\ \A t \in Tasks : Burns(t) => thr'[t] = thr[t]
    BY <1>3, RunStep DEF Went, Burns
  <2> QED BY <1>0, <2>1, QuietFlag DEF Burns
<1>4. CASE Stop(w)
  <2>1. /\ UNCHANGED <<lit, led_flag>> /\ call[w].at = "stop" /\ call'[w].at \in {"stop", "join"}
        /\ \A t \in Tasks : thr'[t].at = thr[t].at /\ thr'[t].led = thr[t].led
    BY <1>4, StopStep DEF Went
  <2> QED BY <1>0, <2>1, QuietFlag DEF Burns
<1>5. CASE Join(w)
  <2>1. /\ UNCHANGED <<lit, led_flag>> /\ call[w].at = "join"
        /\ call'[w].at = "stopped" \/ (call'[w].at = "dark" /\ call'[w].op = "blink off")
        /\ thr[call[w].task].at \in {"done", "gone"} /\ thr' = [thr EXCEPT ![call[w].task].at = "gone"]
    <3>1. IF call[w].op = "blink off" THEN Went(w, "join", "dark") ELSE Went(w, "join", "stopped")
      BY <1>5, JoinStep
    <3>2. /\ call[w].at = "join"
          /\ call'[w].at = "stopped" \/ (call'[w].at = "dark" /\ call'[w].op = "blink off")
      BY <3>1 DEF Went
    <3> QED BY <1>5, <3>2, JoinStep
  <2>2. \A t \in Tasks : Burns(t) => thr'[t] = thr[t]
    BY <1>0, <2>1 DEF Burns, ThrSet
  <2> QED BY <1>0, <2>1, <2>2, QuietFlag DEF Burns
<1>6. CASE Darken(w)
  <2>1. UNCHANGED <<led_flag, thr>> /\ call[w].at = "dark"
    BY <1>6, DarkenStep DEF Went
  <2>2. \A l \in Leds : lit'[l] => lit[l]
    BY <1>0, <1>6, DarkenStep
  <2>3. call'[w].at = "light" \/ (call'[w].at = "dark" /\ call'[w].op = "set on") => led_flag = 1
    <3>1. call[w].op = "set on" => led_flag = 1
      BY <2>1 DEF FlagInv
    <3> QED BY <1>6, <3>1, DarkenStep DEF Went
  <2> QED BY <1>0, <2>1, <2>2, <2>3, QuietFlag DEF Burns
<1>7. CASE Act(w)
  <2>1. UNCHANGED <<led_flag, thr>> /\ call[w].at = "act"
    BY <1>7, ActStep DEF Went
  <2>2. CASE led_flag = 0 /\ lit' = [lit EXCEPT ![call[w].led] = TRUE] /\ Went(w, "act", "setflag")
    <3>1. ASSUME NEW l \in Leds, lit'[l]
          PROVE  \/ \E v \in Writers : call'[v].at = "setflag" /\ call'[v].led = l
                 \/ \E t \in Tasks : thr'[t].at \in {"loop", "toggle", "off"} /\ thr'[t].led = l
      <4>1. CASE l = call[w].led
        BY <2>2, <4>1 DEF Went
      <4>2. CASE l # call[w].led
        <5>1. lit[l]
          BY <1>0, <2>2, <3>1, <4>2
        <5>2. \/ \E v \in Writers : call[v].at = "setflag" /\ call[v].led = l
              \/ \E t \in Tasks : thr[t].at \in {"loop", "toggle", "off"} /\ thr[t].led = l
          BY <2>2, <5>1 DEF FlagInv
        <5>3. \A v \in Writers : call[v].at = "setflag" => call'[v] = call[v]
          BY <1>0, <2>1
        <5> QED BY <2>1, <5>2, <5>3
      <4> QED BY <4>1, <4>2
    <3>2. \A v \in Writers : call'[v].at = "light" \/ (call'[v].at = "dark" /\ call'[v].op = "set on") => led_flag' = 1
      <4>1. call'[w].at = "setflag"
        BY <2>2 DEF Went
      <4>2. \A v \in Writers : call[v].at = "light" \/ (call[v].at = "dark" /\ call[v].op = "set on") => led_flag = 1
        BY DEF FlagInv
      <4> QED BY <1>0, <2>1, <4>1, <4>2
    <3> QED BY <3>1, <3>2 DEF FlagInv
  <2>3. CASE \/ led_flag = 1 /\ lit' = lit /\ Went(w, "act", "dark")
             \/ lit' = [lit EXCEPT ![call[w].led] = FALSE] /\ Went(w, "act", "idle")
             \/ lit' = lit /\ (Went(w, "act", "idle") \/ Went(w, "act", "destroy"))
    <3>1. \A l \in Leds : lit'[l] => lit[l]
      BY <1>0, <2>3
    <3>2. call'[w].at # "light" /\ (call'[w].at = "dark" => led_flag = 1)
      BY <2>3 DEF Went
    <3> QED BY <1>0, <2>1, <3>1, <3>2, QuietFlag DEF Burns
  <2> QED BY <1>7, <2>2, <2>3, ActStep
<1>8. CASE LightUp(w)
  <2>1. call[w].at = "light" /\ led_flag' = led_flag
    BY <1>8, Steps DEF Went
  <2>2. led_flag' = 1
    BY <2>1 DEF FlagInv
  <2> QED BY <2>2, FlagSet
<1>9. CASE SetFlag(w)
  <2>1. led_flag' = 1
    BY <1>9, Steps
  <2> QED BY <2>1, FlagSet
<1> QED BY <1>1, <1>2, <1>3, <1>4, <1>5, <1>6, <1>7, <1>8, <1>9 DEF Store

LEMMA FlashFlag == ASSUME KTypes, FlagInv, NEW t \in Tasks, Flash(t) PROVE FlagInv'
<1>1. /\ lit \in [Leds -> BOOLEAN] /\ thr[t].led \in Leds /\ UNCHANGED <<call, led_flag>>
      /\ thr'[t].led = thr[t].led /\ \A s \in Tasks \ {t} : thr'[s] = thr[s]
  BY FlashStep DEF KTypes
<1>2. /\ \A l \in Leds \ {thr[t].led} : lit'[l] = lit[l]
      /\ \/ Burns(t)'
         \/ thr[t].at = "fresh" /\ lit' = lit
         \/ ~lit'[thr[t].led]
  BY <1>1, FlashStep DEF Burns
<1>3. ASSUME NEW l \in Leds, lit'[l], led_flag' = 0
      PROVE  \/ \E v \in Writers : call'[v].at = "setflag" /\ call'[v].led = l
             \/ \E s \in Tasks : Burns(s)' /\ thr'[s].led = l
  <2>1. CASE Burns(t)' /\ l = thr[t].led
    BY <1>1, <2>1
  <2>2. CASE lit[l] /\ (l # thr[t].led \/ ~Burns(t))
    <3>1. \/ \E v \in Writers : call[v].at = "setflag" /\ call[v].led = l
          \/ \E s \in Tasks : Burns(s) /\ thr[s].led = l
      BY <1>1, <1>3, <2>2 DEF FlagInv, Burns
    <3>2. \A s \in Tasks : Burns(s) /\ thr[s].led = l => Burns(s)' /\ thr'[s].led = l
      BY <1>1, <2>2 DEF Burns
    <3> QED BY <1>1, <3>1, <3>2
  <2> QED BY <1>1, <1>2, <1>3, <2>1, <2>2 DEF Burns
<1> QED BY <1>1, <1>3 DEF FlagInv, Burns
-----------------------------------------------------------------------------
(* remove.                                                               *)
Removes(w) ==
  /\ call[w].at \in {"act", "dark", "destroy"} => task_flag = 0
  /\ call[w].at = "dark" => \A l \in Leds : lit[l] => l \in call[w].left
  /\ call[w].at = "destroy" => lit = Dark

(* No LED is lit that led_flag does not account for.                     *)
LEMMA AllDark == ASSUME KTypes, \A l \in Leds : ~lit[l] PROVE lit = Dark
BY DarkFacts DEF KTypes
LEMMA AllDarkNext == ASSUME KTypes', \A l \in Leds : ~lit'[l] PROVE lit' = Dark
BY DarkFacts DEF KTypes
LEMMA NothingLit ==
  ASSUME KTypes, FlagInv, Still, led_flag = 0, \A w \in Writers : call[w].at # "setflag" PROVE lit = Dark
BY AllDark DEF FlagInv, Still, Rests

(* While one is in remove no other is inside; nobody acts on task_flag   *)
(* after its test.                                                       *)
LEMMA RemoveAlone ==
  ASSUME KTypes, History, TaskInv, ~raced, NEW w \in Writers, call[w].op = "remove"
  PROVE  /\ \A v \in Writers \ {w} : call[v].at = "idle"
         /\ call[w].at \in {"act", "dark", "destroy"} /\ task_flag = 0 => Still
<1>1. \A v \in Writers \ {w} : call[v].at = "idle"
  BY DEF History, Race, OpOf, Inside
<1>2. \A v \in Writers \ {w} : ~Acting(v)
  BY <1>1 DEF Acting
<1>3. call[w].at \in {"act", "dark", "destroy"} => ~Acting(w)
  BY DEF Acting, OpOf
<1> QED BY <1>2, <1>1, <1>3 DEF TaskInv, Calm

LEMMA WriterRemove ==
  ASSUME KTypes, KTypes', History, TaskInv, FlagInv, RemoveInv, NEW w \in Writers, Call(w) \/ Store(w), Overlaps
  PROVE  RemoveInv'
<1> SUFFICES ASSUME ~raced' PROVE RemoveInv'
  BY DEF RemoveInv
<1>0. /\ call \in CallSet /\ Fits(call[w]) /\ lit \in [Leds -> BOOLEAN] /\ task_flag \in {0, 1}
      /\ led_flag \in {0, 1} /\ \A v \in Writers \ {w} : call'[v] = call[v]
  BY OwnCall DEF KTypes
<1>1. ~raced /\ ~Race /\ ~Race'
  BY DEF Overlaps, History
<1>2. module = "bound" /\ (call[w].op = "remove" => Removes(w))
  <2>1. module = "bound"
    BY DEF Call, Store, Clear, Darken, Spawn, Run, FlagOn, Flag, Stop, Join, Stopped, Unflag, Act, LightUp, SetFlag,
           Destroy, Goto, AllOff
  <2> QED BY <1>1, <2>1 DEF RemoveInv, Removes
<1>3. call[w].at # "idle" \/ call'[w].at # "idle"
  <2>1. CASE Call(w)
    BY <2>1, CallStep
  <2>2. CASE Store(w)
    BY <2>2 DEF Store, Goto, AllOff, Clear, Darken, Spawn, Run, FlagOn, Flag, Stop, Join, Stopped, Unflag, Act, LightUp,
         SetFlag, Destroy
  <2> QED BY <2>1, <2>2
<1>4. \A v \in Writers \ {w} : call'[v].op # "remove"
  BY <1>0, <1>1, <1>3 DEF Race, OpOf, Inside
<1>5. ASSUME module' # "removed", call'[w].op = "remove" => Removes(w)' PROVE RemoveInv'
  BY <1>4, <1>5 DEF RemoveInv, Removes
<1>6. CASE Call(w)
  BY <1>2, <1>5, <1>6, CallStep DEF Removes
<1>7. CASE Clear(w) \/ Spawn(w) \/ FlagOn(w) \/ Unflag(w) \/ LightUp(w) \/ SetFlag(w)
  <2>1. /\ call'[w].op = "remove" => call'[w].at \notin {"act", "dark", "destroy"}
        /\ module' # "removed"
    BY <1>0, <1>2, <1>7, Steps DEF Went, Fits
  <2> QED BY <1>5, <2>1 DEF Removes
<1>8. CASE Flag(w) \/ Stopped(w)
  <2>1. /\ call'[w].at \notin {"dark", "destroy"} /\ (call'[w].at = "act" => task_flag' = 0)
        /\ module' # "removed"
    BY <1>0, <1>2, <1>8, Steps DEF Went
  <2> QED BY <1>5, <2>1 DEF Removes
<1>9. CASE Run(w)
  <2>1. call'[w].at \notin {"act", "dark", "destroy"} /\ module' # "removed"
    BY <1>2, <1>9, RunStep DEF Went
  <2> QED BY <1>5, <2>1 DEF Removes
<1>10. CASE Stop(w)
  <2>1. call'[w].at \notin {"act", "dark", "destroy"} /\ module' # "removed"
    BY <1>2, <1>10, StopStep DEF Went
  <2> QED BY <1>5, <2>1 DEF Removes
<1>11. CASE Join(w)
  <2>1. IF call[w].op = "blink off" THEN Went(w, "join", "dark") ELSE Went(w, "join", "stopped")
    BY <1>11, JoinStep
  <2>2. call'[w].op = "remove" => call'[w].at \notin {"act", "dark", "destroy"}
    BY <2>1 DEF Went
  <2>3. module' # "removed"
    BY <1>2, <1>11, JoinStep
  <2> QED BY <1>5, <2>2, <2>3 DEF Removes
<1>12. CASE Darken(w)
  <2>1. task_flag' = task_flag /\ module' # "removed" /\ call[w].at = "dark"
    BY <1>2, <1>12, DarkenStep DEF Went
  <2>2. ASSUME call'[w].op = "remove" PROVE Removes(w)'
    <3>1. call[w].op = "remove" /\ call'[w].at \in {"dark", "destroy"}
      BY <1>12, <2>2, DarkenStep DEF Went
    <3>2. task_flag = 0 /\ \A l \in Leds : lit[l] => l \in call[w].left
      BY <1>2, <2>1, <3>1 DEF Removes
    <3>3. CASE Went(w, "dark", "dark") /\ \E l \in Leds : lit' = [lit EXCEPT ![l] = FALSE]
                                                        /\ call'[w].left = call[w].left \ {l}
      <4>1. \A l \in Leds : lit'[l] => l \in call'[w].left
        BY <1>0, <3>2, <3>3
      <4>2. call'[w].at = "dark"
        BY <3>3 DEF Went
      <4> QED BY <2>1, <3>2, <4>1, <4>2 DEF Removes
    <3>4. CASE call[w].left = {} /\ lit' = lit
      <4>1. lit' = Dark
        BY <3>2, <3>4, AllDark
      <4>2. \A l \in Leds : ~lit'[l]
        BY <3>2, <3>4
      <4> QED BY <2>1, <3>2, <4>1, <4>2 DEF Removes
    <3> QED BY <1>12, <3>3, <3>4, DarkenStep
  <2> QED BY <1>5, <2>1, <2>2
<1>13. CASE Act(w)
  <2>1. task_flag' = task_flag /\ module' # "removed" /\ call[w].at = "act"
    BY <1>2, <1>13, ActStep DEF Went
  <2>2. ASSUME call'[w].op = "remove" PROVE Removes(w)'
    <3>1. call[w].op = "remove"
      BY <1>13, <2>2, ActStep DEF Went
    <3>2. task_flag = 0
      BY <1>2, <2>1, <3>1 DEF Removes
    <3>3. CASE Went(w, "act", "dark") /\ call'[w].left = Leds
      BY <2>1, <3>2, <3>3 DEF Removes, Went
    <3>4. CASE led_flag = 0 /\ lit' = lit /\ Went(w, "act", "destroy")
      <4>1. Still /\ \A v \in Writers : call[v].at # "setflag"
        BY <1>1, <2>1, <3>1, <3>2, RemoveAlone
      <4>2. lit = Dark
        BY <3>4, <4>1, NothingLit
      <4> QED BY <2>1, <3>2, <3>4, <4>2 DEF Removes, Went
    <3>5. CASE Went(w, "act", "setflag") \/ Went(w, "act", "idle")
      BY <3>5 DEF Removes, Went
    <3> QED BY <1>13, <3>3, <3>4, <3>5, ActStep
  <2> QED BY <1>5, <2>1, <2>2
<1>14. CASE Destroy(w)
  <2>1. /\ UNCHANGED <<lit, task_flag>> /\ call[w].at = "destroy" /\ call'[w].at = "idle" /\ call'[w].op = "set bad"
        /\ \A v \in Writers \ {w} : call[v].at = "idle"
    BY <1>14, Steps DEF Went
  <2>2. lit' = Dark /\ task_flag' = 0
    BY <1>0, <1>2, <2>1 DEF Removes, Fits
  <2>3. \A v \in Writers : call'[v].at = "idle" /\ call'[v].op # "remove"
    BY <1>0, <1>4, <2>1
  <2> QED BY <2>2, <2>3 DEF RemoveInv
<1> QED BY <1>6, <1>7, <1>8, <1>9, <1>10, <1>11, <1>12, <1>13, <1>14 DEF Store

LEMMA FlashRemove == ASSUME KTypes, History, TaskInv, RemoveInv, NEW t \in Tasks, Flash(t) PROVE RemoveInv'
<1> SUFFICES ASSUME ~raced' PROVE RemoveInv'
  BY DEF RemoveInv
<1>1. UNCHANGED <<call, task_flag, module, raced>> /\ module = "bound" /\ ~Still
  BY FlashStep DEF Still, Rests
<1>2. \A w \in Writers : call[w].op = "remove" /\ call[w].at \in {"act", "dark", "destroy"} => task_flag = 0
  BY <1>1 DEF RemoveInv
<1>3. \A w \in Writers : call[w].op = "remove" => call[w].at \notin {"act", "dark", "destroy"}
  BY <1>1, <1>2, RemoveAlone
<1> QED BY <1>1, <1>3 DEF RemoveInv
-----------------------------------------------------------------------------
(* One writer at a time, and the light.                                  *)

(* Switching LEDs off, with the threads where they are.                  *)
LEMMA OneLitLess ==
  ASSUME OneLit, KTypes', \A l \in Leds : lit'[l] => lit[l],
         \A t \in Tasks : /\ Burns(t)' => Burns(t) /\ thr'[t].led = thr[t].led
                          /\ thr'[t].at = "fresh" => thr[t].at = "fresh" \/ lit = Dark
  PROVE  OneLit'
<1>1. lit = Dark => lit' = Dark
  BY AllDarkNext, DarkFacts
<1>2. \E x \in Leds : LitOnly(x)'
  BY DEF OneLit, LitOnly
<1>3. ASSUME NEW t \in Tasks PROVE /\ Burns(t)' => LitOnly(thr[t].led)' /\ thr'[t].led = thr[t].led
                                   /\ thr'[t].at = "fresh" => lit' = Dark
  BY <1>1 DEF OneLit, LitOnly, Burns
<1>4. ASSUME NEW t \in Tasks, Burns(t)' PROVE LitOnly(thr[t].led)'
  BY <1>3, <1>4
<1>5. ASSUME NEW t \in Tasks, Burns(t)' PROVE \A l \in Leds : lit'[l] => l = thr'[t].led
  BY <1>3, <1>5 DEF LitOnly, OneLit, Burns
<1> QED BY <1>2, <1>3, <1>5 DEF OneLit, LitOnly, Burns

(* One LED goes on when all are off and no thread flashes.               *)
LEMMA OneLitMore ==
  ASSUME KTypes, Still, lit = Dark, thr' = thr, NEW x \in Leds, lit' = [lit EXCEPT ![x] = TRUE] PROVE OneLit'
<1>1. \A l \in Leds : lit'[l] => l = x
  BY DarkFacts
<1> QED BY <1>1 DEF OneLit, LitOnly, Still, Rests

(* A writer alone inside knows what task_flag says.                      *)
LEMMA LightAlone ==
  ASSUME KTypes, History, TaskInv, LightInv, Overlaps, ~crowded',
         NEW w \in Writers, call[w].at # "idle" \/ call'[w].at # "idle",
         \A v \in Writers \ {w} : call'[v] = call[v]
  PROVE  /\ \A v \in Writers \ {w} : call[v].at = "idle" /\ call'[v].at = "idle"
         /\ One(w) /\ OneLit /\ Lamp(w)
         /\ OneLit' /\ Lamp(w)' => LightInv'
<1>1. ~crowded /\ ~Crowd /\ ~Crowd' /\ ~raced
  BY DEF Overlaps, History
<1>2. \A v \in Writers \ {w} : call[v].at = "idle" /\ call'[v].at = "idle"
  BY <1>1 DEF Crowd, Inside
<1>3. \A v \in Writers \ {w} : ~Acting(v)
  BY <1>2 DEF Acting
<1>4. One(w)
  BY <1>1, <1>3 DEF TaskInv, One
<1>5. ASSUME Lamp(w)' PROVE \A v \in Writers : Lamp(v)'
  BY <1>2, <1>5 DEF Lamp
<1> QED BY <1>1, <1>2, <1>4, <1>5 DEF LightInv

LEMMA WriterLight ==
  ASSUME KTypes, KTypes', History, TaskInv, FlagInv, LightInv, NEW w \in Writers, Call(w) \/ Store(w), Overlaps
  PROVE  LightInv'
<1> SUFFICES ASSUME ~crowded' PROVE LightInv'
  BY DEF LightInv
<1>0. /\ call \in CallSet /\ Fits(call[w]) /\ lit \in [Leds -> BOOLEAN] /\ task_flag \in {0, 1} /\ call[w].led \in Leds
      /\ led_flag \in {0, 1} /\ \A v \in Writers \ {w} : call'[v] = call[v]
  BY OwnCall DEF KTypes, CallSet, CallRec
<1>1. call[w].at # "idle" \/ call'[w].at # "idle"
  <2>1. CASE Call(w)
    BY <2>1, CallStep
  <2>2. CASE Store(w)
    BY <2>2 DEF Store, Goto, AllOff, Clear, Darken, Spawn, Run, FlagOn, Flag, Stop, Join, Stopped, Unflag, Act, LightUp,
         SetFlag, Destroy
  <2> QED BY <2>1, <2>2
<1>2. /\ \A v \in Writers \ {w} : call[v].at = "idle" /\ call'[v].at = "idle"
      /\ One(w) /\ OneLit /\ Lamp(w)
      /\ OneLit' /\ Lamp(w)' => LightInv'
  BY <1>0, <1>1, LightAlone
<1>3. (\A l \in Leds : lit'[l] => lit[l]) /\ thr' = thr => OneLit'
  BY <1>2, OneLitLess DEF Burns
<1>4. task_flag = 0 /\ ~Acting(w) => Still
  BY <1>2 DEF One, Calm
<1>5. /\ call[w].at \in {"clear", "act", "light", "setflag", "destroy", "spawn", "flag"} => ~Acting(w)
      /\ call[w].at = "dark" /\ call[w].op # "blink off" => ~Acting(w)
  BY DEF Acting, OpOf
<1>6. CASE Call(w)
  <2>1. UNCHANGED <<lit, thr>> /\ call'[w].at \in {"clear", "flag"}
    BY <1>6, CallStep
  <2> QED BY <1>2, <1>3, <2>1 DEF Lamp
<1>7. CASE Clear(w)
  <2>1. UNCHANGED <<lit, thr, task_flag>> /\ call[w].at = "clear"
    BY <1>7, Steps DEF Went
  <2>2. CASE led_flag = 1 /\ Went(w, "clear", "dark") /\ call'[w].left = Leds
    <3>1. call'[w].at = "dark" /\ call'[w].op \in {"blink on", "blink bad"} /\ call'[w].left = Leds
      BY <1>0, <2>2 DEF Went, Fits
    <3> QED BY <1>2, <1>3, <2>1, <3>1 DEF Lamp
  <2>3. CASE led_flag = 0 /\ (Went(w, "clear", "spawn") \/ Went(w, "clear", "idle"))
    <3>1. task_flag = 0 => lit = Dark
      <4>1. \A v \in Writers : call[v].at # "setflag"
        BY <1>2, <2>1
      <4> QED BY <1>4, <1>5, <2>1, <2>3, <4>1, NothingLit
    <3>2. call'[w].at \in {"spawn", "idle"}
      BY <2>3 DEF Went
    <3> QED BY <1>2, <1>3, <2>1, <3>1, <3>2 DEF Lamp
  <2> QED BY <1>7, <2>2, <2>3, Steps
<1>8. CASE Darken(w)
  <2>1. UNCHANGED <<thr, task_flag>> /\ call[w].at = "dark"
    BY <1>8, DarkenStep DEF Went
  <2>2. /\ call[w].op = "blink off" => lit = Dark
        /\ task_flag = 0 => \A l \in Leds : lit[l] => l \in call[w].left
        /\ call[w].op \in {"set on", "remove"} => task_flag = 0
    BY <1>2, <2>1 DEF Lamp
  <2>3. \A l \in Leds : lit'[l] => lit[l]
    BY <1>0, <1>8, DarkenStep
  <2>4. lit = Dark => lit' = Dark
    BY <2>3, DarkFacts, AllDarkNext
  <2>5. CASE Went(w, "dark", "dark") /\ \E l \in Leds : lit' = [lit EXCEPT ![l] = FALSE]
                                                      /\ call'[w].left = call[w].left \ {l}
    <3>1. task_flag = 0 => \A l \in Leds : lit'[l] => l \in call'[w].left
      BY <1>0, <2>2, <2>5
    <3>2. call'[w].at = "dark" /\ call'[w].op = call[w].op
      BY <2>5 DEF Went
    <3> QED BY <1>2, <1>3, <2>1, <2>2, <2>3, <2>4, <3>1, <3>2 DEF Lamp
  <2>6. CASE /\ call[w].left = {} /\ lit' = lit
             /\ \/ call[w].op = "blink on" /\ Went(w, "dark", "spawn")
                \/ call[w].op = "blink off" /\ Went(w, "dark", "unflag")
                \/ call[w].op = "set on" /\ Went(w, "dark", "light")
                \/ call[w].op = "remove" /\ Went(w, "dark", "destroy")
                \/ Went(w, "dark", "idle")
    <3>1. task_flag = 0 => lit = Dark
      <4>1. task_flag = 0 => \A l \in Leds : ~lit[l]
        BY <2>2, <2>6
      <4> QED BY <4>1, AllDark
    <3>2. \/ call'[w].at \in {"spawn", "idle"}
          \/ call[w].op = "blink off" /\ call'[w].at = "unflag"
          \/ call[w].op \in {"set on", "remove"} /\ call'[w].at \in {"light", "destroy"}
      BY <2>6 DEF Went
    <3> QED BY <1>2, <1>3, <2>1, <2>2, <2>6, <3>1, <3>2 DEF Lamp
  <2> QED BY <1>8, <2>5, <2>6, DarkenStep
<1>9. CASE Spawn(w)
  <2>1. UNCHANGED <<lit, thr, task_flag>> /\ call[w].at = "spawn"
    BY <1>9, Steps DEF Went
  <2>2. call'[w].at = "idle" \/ (task_flag = 0 /\ call'[w].at = "run")
    BY <1>9, Steps DEF Went
  <2>3. task_flag = 0 => lit = Dark
    BY <1>2, <2>1 DEF Lamp
  <2> QED BY <1>2, <1>3, <2>1, <2>2, <2>3 DEF Lamp
<1>10. CASE Run(w)
  <2>1. lit' = lit /\ call[w].at = "run" /\ call'[w].at \in {"idle", "flagon"}
    BY <1>10, RunStep DEF Went
  <2>2. lit = Dark
    BY <1>2, <2>1 DEF Lamp
  <2>3. \A t \in Tasks : Burns(t)' => thr'[t] = thr[t]
    BY <1>10, RunStep DEF Burns
  <2>4. OneLit'
    BY <1>2, <2>1, <2>2, <2>3, OneLitLess DEF Burns
  <2> QED BY <1>2, <2>1, <2>4 DEF Lamp
<1>11. CASE FlagOn(w) \/ Unflag(w)
  <2>1. UNCHANGED <<lit, thr>> /\ call'[w].at = "idle"
    BY <1>11, Steps DEF Went
  <2> QED BY <1>2, <1>3, <2>1 DEF Lamp
<1>12. CASE Flag(w)
  <2>1. UNCHANGED <<lit, thr, task_flag>> /\ call'[w].at \in {"stop", "act", "idle"}
        /\ (call'[w].at = "act" => task_flag = 0)
    BY <1>0, <1>12, Steps DEF Went
  <2> QED BY <1>2, <1>3, <2>1 DEF Lamp
<1>13. CASE Stop(w)
  <2>1. call[w].at = "stop" /\ lit' = lit
    BY <1>13, StopStep
  <2>2. Flies
    BY <1>2, <2>1 DEF One, Acting, Busy
  <2>3. task \in Tasks /\ thr[task].at \notin {"new", "done", "gone"}
    BY <2>2 DEF Flies, Only, Flashing
  <2>4. /\ Went(w, "stop", "join") /\ call'[w].task = task
        /\ thr'[task].at = thr[task].at /\ thr'[task].led = thr[task].led
        /\ \A s \in Tasks \ {task} : thr'[s] = thr[s]
    BY <1>13, <2>3, StopStep
  <2>5. \A t \in Tasks : thr'[t].at = thr[t].at /\ thr'[t].led = thr[t].led
    BY <2>4
  <2>6. OneLit'
    BY <1>2, <2>1, <2>5, OneLitLess DEF Burns
  <2>7. call'[w].at = "join" /\ thr'[call'[w].task].at # "done"
    BY <2>3, <2>4 DEF Went
  <2> QED BY <1>2, <2>6, <2>7 DEF Lamp
<1>14. CASE Join(w)
  <2>1. call[w].at = "join" /\ UNCHANGED <<lit, task_flag>>
    BY <1>14 DEF Join, Goto, AllOff
  <2>2. Busy(w)
    BY <1>2, <2>1 DEF One, Acting
  <2>3. task_flag = 1 /\ task \in Tasks /\ call[w].task = task /\ thr[task].at \notin {"gone"}
    BY <2>1, <2>2 DEF Busy, Only, Flashing
  <2>4. thr[task].at = "done" /\ thr'[task].at = "gone" /\ \A s \in Tasks \ {task} : thr'[s] = thr[s]
    BY <1>14, <2>3, JoinStep
  <2>5. lit = Dark
    BY <1>2, <2>1, <2>3, <2>4 DEF Lamp
  <2>6. OneLit'
    BY <1>2, <2>1, <2>4, OneLitLess DEF Burns
  <2>7. IF call[w].op = "blink off" THEN Went(w, "join", "dark") ELSE Went(w, "join", "stopped")
    BY <1>14, JoinStep
  <2>8. call'[w].at = "stopped" \/ (call'[w].at = "dark" /\ call'[w].op = "blink off")
    BY <2>7 DEF Went
  <2>9. lit' = Dark /\ task_flag' # 0
    BY <2>1, <2>3, <2>5
  <2>10. Lamp(w)'
    BY <2>8, <2>9 DEF Lamp
  <2> QED BY <1>2, <2>6, <2>10
<1>15. CASE Stopped(w)
  <2>1. UNCHANGED <<lit, thr>> /\ task_flag' = 0 /\ call'[w].at = "act"
    BY <1>15, Steps DEF Went
  <2> QED BY <1>2, <1>3, <2>1 DEF Lamp
<1>16. CASE Act(w)
  <2>1. UNCHANGED <<thr, task_flag>> /\ call[w].at = "act"
    BY <1>16, ActStep DEF Went
  <2>2. task_flag = 0 /\ Still
    BY <1>2, <1>4, <1>5, <2>1 DEF Lamp
  <2>3. led_flag = 0 => lit = Dark
    <3>1. \A v \in Writers : call[v].at # "setflag"
      BY <1>2, <2>1
    <3> QED BY <2>2, <3>1, NothingLit
  <2>4. CASE lit' = lit /\ Went(w, "act", "dark") /\ call'[w].left = Leds /\ call[w].op \in {"set on", "remove"}
    <3>1. call'[w].at = "dark" /\ call'[w].op = call[w].op /\ call'[w].left = Leds
      BY <2>4 DEF Went
    <3> QED BY <1>2, <1>3, <2>1, <2>2, <2>4, <3>1 DEF Lamp
  <2>5. CASE led_flag = 0 /\ lit' = [lit EXCEPT ![call[w].led] = TRUE] /\ Went(w, "act", "setflag")
    <3>1. OneLit'
      BY <1>0, <2>1, <2>2, <2>3, <2>5, OneLitMore
    <3>2. call'[w].at = "setflag"
      BY <2>5 DEF Went
    <3> QED BY <1>2, <2>1, <2>2, <3>1, <3>2 DEF Lamp
  <2>6. CASE (lit' = lit \/ lit' = [lit EXCEPT ![call[w].led] = FALSE]) /\ Went(w, "act", "idle")
    <3>1. (\A l \in Leds : lit'[l] => lit[l]) /\ call'[w].at = "idle"
      BY <1>0, <2>6 DEF Went
    <3> QED BY <1>2, <1>3, <2>1, <3>1 DEF Lamp
  <2>7. CASE led_flag = 0 /\ lit' = lit /\ Went(w, "act", "destroy")
    <3>1. call'[w].at = "destroy"
      BY <2>7 DEF Went
    <3> QED BY <1>2, <1>3, <2>1, <2>2, <2>3, <2>7, <3>1 DEF Lamp
  <2> QED BY <1>16, <2>4, <2>5, <2>6, <2>7, ActStep
<1>17. CASE LightUp(w)
  <2>1. thr' = thr /\ call[w].at = "light" /\ call'[w].at = "idle" /\ lit' = [lit EXCEPT ![call[w].led] = TRUE]
    BY <1>17, Steps DEF Went
  <2>2. lit = Dark /\ Still
    BY <1>2, <1>4, <1>5, <2>1 DEF Lamp
  <2>3. OneLit'
    BY <1>0, <2>1, <2>2, OneLitMore
  <2> QED BY <1>2, <2>1, <2>3 DEF Lamp
<1>18. CASE SetFlag(w) \/ Destroy(w)
  <2>1. UNCHANGED <<lit, thr>> /\ call'[w].at = "idle"
    BY <1>18, Steps DEF Went
  <2> QED BY <1>2, <1>3, <2>1 DEF Lamp
<1> QED BY <1>6, <1>7, <1>8, <1>9, <1>10, <1>11, <1>12, <1>13, <1>14, <1>15, <1>16, <1>17, <1>18 DEF Store

(* A thread that moves is the one in task; a writer at a place where     *)
(* every LED is off has seen to it that there is none.                   *)
LEMMA FlashLight ==
  ASSUME KTypes, KTypes', History, TaskInv, LightInv, NEW t \in Tasks, Flash(t) PROVE LightInv'
<1> SUFFICES ASSUME ~crowded' PROVE LightInv'
  BY DEF LightInv
<1>1. /\ UNCHANGED <<call, task_flag, task, crowded>> /\ ~Rests(t)
      /\ thr'[t].led = thr[t].led /\ \A s \in Tasks \ {t} : thr'[s] = thr[s]
  BY FlashStep DEF Rests
<1>2. ~crowded /\ ~raced /\ ~Crowd /\ OneLit /\ \A w \in Writers : Lamp(w)
  BY <1>1 DEF LightInv, History
<1>3. /\ ~Still /\ (Only => task = t)
      /\ (\A w \in Writers : ~Acting(w)) => Calm
      /\ \A w \in Writers : Acting(w) => Busy(w)
  BY <1>1, <1>2 DEF TaskInv, Still, Only
<1>4. Only
  <2>1. CASE \A w \in Writers : ~Acting(w)
    BY <1>3, <2>1 DEF Calm, Flies
  <2>2. CASE \E w \in Writers : Acting(w)
    BY <1>3, <2>2 DEF Busy, Flies, Acting
  <2> QED BY <2>1, <2>2
<1>5. \A s \in Tasks \ {t} : Rests(s)
  BY <1>3, <1>4 DEF Only
<1>6. thr[t].at \in {"loop", "toggle", "off"} => LitOnly(thr[t].led)
  BY <1>2 DEF OneLit
<1>7. /\ \A l \in Leds : l # thr[t].led => lit'[l] = lit[l]
      /\ thr'[t].at # "fresh"
      /\ thr'[t].at = "done" => lit' = Dark
  <2>1. /\ \A l \in Leds : l # thr[t].led => lit'[l] = lit[l]
        /\ thr'[t].at # "fresh"
    BY FlashStep DEF KTypes
  <2>2. CASE thr[t].at = "fresh"
    BY <1>2, <2>1, <2>2, FlashStep DEF OneLit
  <2>3. CASE thr[t].at = "off"
    <3>1. lit' = [lit EXCEPT ![thr[t].led] = FALSE] /\ LitOnly(thr[t].led)
      BY <1>6, <2>3, FlashStep
    <3>2. \A l \in Leds : ~lit'[l]
      BY <3>1 DEF LitOnly, KTypes
    <3> QED BY <2>1, <3>2, AllDarkNext
  <2>4. CASE thr[t].at \in {"loop", "toggle"}
    BY <2>1, <2>4, FlashStep
  <2> QED BY <2>1, <2>2, <2>3, <2>4, FlashStep
<1>8. \A l \in Leds : lit'[l] => l = thr[t].led
  <2>1. CASE thr[t].at = "fresh"
    BY <1>2, <1>7, <2>1, DarkFacts DEF OneLit
  <2>2. CASE thr[t].at \in {"loop", "toggle", "off"}
    BY <1>6, <1>7, <2>2 DEF LitOnly
  <2> QED BY <2>1, <2>2, FlashStep
<1>9. OneLit'
  <2>1. thr[t].led \in Leds
    BY FlashStep
  <2>2. \A s \in Tasks \ {t} : thr'[s].at \in {"new", "done", "gone"}
    BY <1>1, <1>5 DEF Rests
  <2> QED BY <1>1, <1>7, <1>8, <2>1, <2>2 DEF OneLit, LitOnly
<1>10. ASSUME NEW w \in Writers PROVE Lamp(w)'
  <2>1. \A v \in Writers \ {w} : call[w].at # "idle" => ~Acting(v)
    BY <1>2 DEF Crowd, Inside, Acting
  <2>2. IF Acting(w) THEN Busy(w) ELSE call[w].at = "idle" \/ Calm
    BY <1>3, <2>1
  <2>3. ~(task_flag = 0 /\ Calm)
    BY <1>3 DEF Calm
  <2>4. /\ call[w].at \notin {"run", "stopped", "unflag", "light", "destroy"}
        /\ ~(call[w].at \in {"spawn", "dark"} /\ task_flag = 0)
    <3>1. CASE Acting(w)
      <4>1. Busy(w)
        BY <2>2, <3>1
      <4> QED BY <1>3, <3>1, <4>1 DEF Acting, Busy
    <3>2. CASE ~Acting(w)
      <4>1. call[w].at \in {"light", "destroy"} => task_flag = 0
        BY <1>2 DEF Lamp
      <4>2. call[w].at # "idle" => task_flag # 0
        BY <2>2, <2>3, <3>2
      <4> QED BY <3>2, <4>1, <4>2 DEF Acting
    <3> QED BY <3>1, <3>2
  <2>5. ~(call[w].at = "dark" /\ call[w].op = "blink off")
    BY <1>3, <2>2 DEF Acting, OpOf, Busy
  <2>6. call[w].at = "join" /\ thr'[call[w].task].at = "done" => lit' = Dark
    BY <1>3, <1>4, <1>7, <2>2 DEF Acting, Busy
  <2>7. /\ call[w].at \in {"act", "light", "setflag", "destroy"} => task_flag = 0
        /\ call[w].at = "dark" /\ call[w].op \in {"set on", "remove"} => task_flag = 0
    BY <1>2 DEF Lamp
  <2> QED BY <1>1, <2>4, <2>5, <2>6, <2>7 DEF Lamp
<1> QED BY <1>9, <1>10 DEF LightInv
-----------------------------------------------------------------------------
LEMMA NothingKeeps ==
  ASSUME KeyledInv, UNCHANGED <<lit, led_flag, task_flag, task, thr, call, module, crowded, raced>> PROVE KeyledInv'
<1>1. KTypes' /\ History'
  BY DEF KeyledInv, KTypes, Fits, History, Race, Crowd, Acting, Inside, OpOf
<1>2. TaskInv'
  BY DEF KeyledInv, TaskInv, Calm, Busy, Flies, Still, Only, Rests, Acting, OpOf
<1>3. FlagInv' /\ RemoveInv'
  BY DEF KeyledInv, FlagInv, RemoveInv
<1>4. LightInv'
  BY DEF KeyledInv, LightInv, OneLit, LitOnly, Lamp
<1> QED BY <1>1, <1>2, <1>3, <1>4 DEF KeyledInv

LEMMA KeyledInitially == LedInit => KeyledInv
<1> SUFFICES ASSUME LedInit PROVE KeyledInv
  OBVIOUS
<1>1. /\ \A w \in Writers : call[w] = Idle /\ call[w].at = "idle" /\ call[w].op = "set bad" /\ Fits(call[w])
      /\ call \in CallSet
  BY IdleTyped DEF LedInit, CallSet, Fits
<1>2. thr \in ThrSet /\ \A t \in Tasks : thr[t].at = "new" /\ ~thr[t].stop
  <2>1. Idle.led \in Leds
    BY IdleTyped DEF CallRec
  <2> QED BY <2>1 DEF LedInit, ThrSet, Thread
<1>3. KTypes
  BY <1>1, <1>2, DarkFacts DEF LedInit, KTypes
<1>4. History
  BY <1>1 DEF LedInit, History, Race, Crowd, Inside, Acting, OpOf
<1>5. TaskInv
  <2>1. module # "oops" /\ task_flag # 1
    BY DEF LedInit
  <2>2. Still
    BY <1>2 DEF Still, Rests
  <2>3. \A w \in Writers : ~Acting(w)
    BY <1>1 DEF Acting
  <2> QED BY <1>2, <2>1, <2>2, <2>3 DEF TaskInv, Calm
<1>6. FlagInv /\ RemoveInv
  BY <1>1, DarkFacts DEF LedInit, FlagInv, RemoveInv
<1>7. LightInv
  BY <1>1, <1>2, DarkFacts, KeyledAssumption DEF LedInit, LightInv, OneLit, LitOnly, Lamp
<1> QED BY <1>3, <1>4, <1>5, <1>6, <1>7 DEF KeyledInv

(* The inductive invariant.                                              *)
LEMMA KeyledInvariant == LedSpec => []KeyledInv
<1>1. KeyledInv /\ [LedNext]_ledVars => KeyledInv'
  <2> SUFFICES ASSUME KeyledInv, [LedNext]_ledVars PROVE KeyledInv'
    OBVIOUS
  <2> USE DEF KeyledInv
  <2>1. ASSUME NEW w \in Writers, Call(w) \/ Store(w), Overlaps PROVE KeyledInv'
    <3>1. KTypes'
      BY <2>1, WriterTypes
    <3> QED BY <2>1, <3>1, HistoryKeeps, WriterTask, WriterFlag, WriterRemove, WriterLight
  <2>2. ASSUME NEW t \in Tasks, Flash(t) PROVE KeyledInv'
    <3>1. KTypes'
      BY <2>2, FlashTypes
    <3>2. History'
      <4>1. UNCHANGED <<call, crowded, raced>>
        BY <2>2, FlashStep
      <4> QED BY <4>1 DEF History, Race, Crowd, Acting, Inside, OpOf
    <3> QED BY <2>2, <3>1, <3>2, FlashTask, FlashFlag, FlashRemove, FlashLight
  <2>3. CASE UNCHANGED <<lit, led_flag, task_flag, task, thr, call, module, crowded, raced>>
    BY <2>3, NothingKeeps
  <2> QED BY <2>1, <2>2, <2>3 DEF LedNext, SetPeriod, Key1, Key2, ledVars
<1> QED BY <1>1, KeyledInitially, PTL DEF LedSpec

-----------------------------------------------------------------------------
(* Until two writers have been inside at once no two LEDs are ever lit   *)
(* together, although set_led_store and led_flash write the pins from    *)
(* two processes without a lock.                                         *)
THEOREM OneLedAtATime == LedSpec => []AtMostOneLit
<1>1. KeyledInv => AtMostOneLit
  <2> SUFFICES ASSUME KeyledInv, ~crowded PROVE Cardinality({l \in Leds : lit[l]}) <= 1
    BY DEF AtMostOneLit
  <2>1. PICK x \in Leds : LitOnly(x)
    BY DEF KeyledInv, LightInv, OneLit
  <2>2. {l \in Leds : lit[l]} = {} \/ {l \in Leds : lit[l]} = {x}
    BY <2>1 DEF LitOnly
  <2>3. Cardinality({}) = 0 /\ Cardinality({x}) = 1
    BY FS_EmptySet, FS_Singleton
  <2>4. Cardinality({l \in Leds : lit[l]}) \in {0, 1}
    BY <2>2, <2>3
  <2> QED BY <2>4
<1> QED BY <1>1, KeyledInvariant, PTL

(* Any number of writers may be in the files: until two have acted on    *)
(* task_flag at once (or one has overlapped with my_remove), task_flag   *)
(* tells whether a thread flashes whenever nobody acts on it, and        *)
(* kthread_stop is never called on a thread that is gone                 *)
(* (blink_on_led_store, blink_off_led_store, set_led_store, my_remove).  *)
THEOREM FlagTellsTheThread == LedSpec => []TaskFlagExact
<1>1. KeyledInv => TaskFlagExact
  <2> SUFFICES ASSUME KeyledInv, ~raced
               PROVE  /\ (\A w \in Writers : ~Acting(w)) => Alive = (IF task_flag = 1 THEN {task} ELSE {})
                      /\ module # "oops"
    BY DEF TaskFlagExact
  <2>1. ASSUME \A w \in Writers : ~Acting(w) PROVE Alive = (IF task_flag = 1 THEN {task} ELSE {})
    <3>1. Calm
      BY <2>1 DEF KeyledInv, TaskInv
    <3>2. CASE task_flag = 1
      BY <3>1, <3>2 DEF Calm, Flies, Only, Rests, Alive, Flashing
    <3>3. CASE task_flag # 1
      BY <3>1, <3>3 DEF Calm, Still, Rests, Alive
    <3> QED BY <3>2, <3>3
  <2> QED BY <2>1 DEF KeyledInv, TaskInv
<1> QED BY <1>1, KeyledInvariant, PTL

(* Whatever overlaps, an LED that is lit while led_flag is clear is that *)
(* of a thread or of a writer that will set the flag, so that my_remove  *)
(* does not pass it over; and unless a call has overlapped with it, or   *)
(* two have acted on task_flag at once, my_remove leaves no thread       *)
(* behind and no LED lit.                                                *)
THEOREM NothingIsLeftOn == LedSpec => []RemovedIsQuiet
<1>1. KeyledInv => RemovedIsQuiet
  <2> SUFFICES ASSUME KeyledInv PROVE RemovedIsQuiet
    OBVIOUS
  <2>1. ASSUME NEW l \in Leds, lit[l], led_flag = 0
        PROVE  \/ \E w \in Writers : call[w].at = "setflag" /\ call[w].led = l
               \/ \E t \in Alive : thr[t].led = l
    BY <2>1 DEF KeyledInv, FlagInv, Alive
  <2>2. ASSUME module = "removed", ~raced PROVE Alive = {} /\ lit = Dark
    <3>1. lit = Dark /\ task_flag = 0 /\ \A w \in Writers : call[w].at = "idle"
      BY <2>2 DEF KeyledInv, RemoveInv
    <3>2. Calm
      BY <2>2, <3>1 DEF KeyledInv, TaskInv, Acting
    <3> QED BY <3>1, <3>2 DEF Calm, Still, Rests, Alive
  <2> QED BY <2>1, <2>2 DEF RemovedIsQuiet
<1> QED BY <1>1, KeyledInvariant, PTL
-----------------------------------------------------------------------------
(* Any number of writers, inside the files together: kthread_stop.       *)

(* How far a thread that has been told to stop is from the end of        *)
(* led_flash: the toggle it is in, the test, the last switching off.     *)
Rank(t) == CASE thr[t].at = "toggle" -> 3 [] thr[t].at = "loop" -> 2
             [] thr[t].at \in {"off", "fresh"} -> 1 [] thr[t].at \in {"new", "done", "gone"} -> 0

(* Who waits in kthread_stop waits for a thread that has been started    *)
(* and told to stop, and is let go when that thread is at its end.       *)
JoinTold == \A w \in Writers : call[w].at = "join" =>
  /\ call[w].task \in Tasks /\ thr[call[w].task].stop /\ thr[call[w].task].at # "new"
  /\ Rank(call[w].task) = 0 => thr[call[w].task].at \in {"done", "gone"}
(* No step takes that thread away from its end, and each of its own      *)
(* brings it nearer.                                                     *)
Nears(t)   == thr'[t].stop /\ Rank(t)' <= Rank(t) /\ (Flash(t) => Rank(t)' < Rank(t))
JoinNears  == \A w \in Writers, t \in Tasks : call[w].at = "join" /\ call[w].task = t => Nears(t)

Told(t)   == t \in Tasks /\ thr[t].stop /\ thr[t].at # "new"
Waits(w)  == Told(call[w].task)
JoinInv   == /\ KTypes /\ (task \in Tasks => thr[task].at # "new")
             /\ \A w \in Writers : call[w].at = "join" => Waits(w)

(* What a step does to the thread t: one that has been started stays so, *)
(* one that has been told to stop stays told, and comes nearer its end.  *)
Steady(t)    == thr[t].at # "new" => thr'[t].at # "new" /\ (thr[t].stop => Nears(t))
StaysStopped == \A t \in Tasks : Steady(t)

(* The rank of a thread, place by place.                                 *)
LEMMA Ranks ==
  ASSUME thr \in ThrSet, NEW t \in Tasks
  PROVE  /\ Rank(t) \in 0..3 /\ (Rank(t) = 0 => thr[t].at \in {"new", "done", "gone"})
         /\ thr[t].at = "toggle" => Rank(t) = 3
         /\ thr[t].at = "loop" => Rank(t) = 2
         /\ thr[t].at \in {"off", "fresh"} => Rank(t) = 1
         /\ thr[t].at \in {"new", "done", "gone"} => Rank(t) = 0
<1>1. thr[t].at \in Thread
  BY DEF ThrSet
<1> QED BY <1>1 DEF Rank, Thread

LEMMA RanksNext ==
  ASSUME thr' \in ThrSet, NEW t \in Tasks
  PROVE  /\ Rank(t)' \in 0..3
         /\ thr'[t].at = "toggle" => Rank(t)' = 3
         /\ thr'[t].at = "loop" => Rank(t)' = 2
         /\ thr'[t].at \in {"off", "fresh"} => Rank(t)' = 1
         /\ thr'[t].at \in {"new", "done", "gone"} => Rank(t)' = 0
<1>1. thr'[t].at \in Thread
  BY DEF ThrSet
<1> QED BY <1>1 DEF Rank, Thread

(* A thread moves with every step of its own.                            *)
LEMMA FlashMoves == ASSUME thr \in ThrSet, NEW t \in Tasks, Flash(t) PROVE thr'[t].at # thr[t].at
<1>1. CASE FlashStart(t)
  BY <1>1 DEF FlashStart, ThrSet
<1>2. CASE FlashTest(t)
  BY <1>2 DEF FlashTest, ThrSet
<1>3. CASE FlashToggle(t)
  BY <1>3, ThreadToggles DEF FlashToggle
<1>4. CASE FlashOff(t)
  BY <1>4 DEF FlashOff, ThrSet
<1> QED BY <1>1, <1>2, <1>3, <1>4 DEF Flash

(* A thread that a step leaves where it is.                              *)
LEMMA ThreadStays ==
  ASSUME thr \in ThrSet, NEW t \in Tasks, thr'[t].at = thr[t].at, thr'[t].stop = thr[t].stop \/ thr'[t].stop
  PROVE  Steady(t)
<1>1. ~Flash(t)
  BY FlashMoves
<1>2. Rank(t)' = Rank(t) /\ Rank(t) \in 0..3
  BY Ranks DEF Rank
<1> QED BY <1>1, <1>2 DEF Steady, Nears

(* A step of led_flash: its own thread goes on to the end if it has been *)
(* told to stop, the others stay.                                        *)
LEMMA FlashNears == ASSUME KTypes, NEW t \in Tasks, Flash(t) PROVE StaysStopped
<1>1. /\ thr \in ThrSet /\ thr' \in ThrSet /\ thr'[t].stop = thr[t].stop /\ \A s \in Tasks \ {t} : thr'[s] = thr[s]
      /\ \/ thr[t].at = "fresh" /\ thr'[t].at = (IF thr[t].stop THEN "done" ELSE "loop")
         \/ thr[t].at = "loop" /\ thr'[t].at = (IF thr[t].stop THEN "off" ELSE "toggle")
         \/ thr[t].at = "toggle" /\ thr'[t].at = "loop"
         \/ thr[t].at = "off" /\ thr'[t].at = "done"
  BY FlashStep DEF KTypes
<1>2. Steady(t)
  <2>1. thr'[t].at # "new" /\ (thr[t].stop => Rank(t)' < Rank(t))
    BY <1>1, Ranks, RanksNext
  <2>2. Rank(t) \in 0..3 /\ Rank(t)' \in 0..3
    BY <1>1, Ranks, RanksNext
  <2>3. thr[t].stop => Rank(t)' <= Rank(t)
    BY <2>1, <2>2
  <2> QED BY <1>1, <2>1, <2>3 DEF Steady, Nears
<1>3. \A s \in Tasks \ {t} : Steady(s)
  BY <1>1, ThreadStays
<1> QED BY <1>2, <1>3 DEF StaysStopped

(* A step with which no writer begins to wait keeps what is known of     *)
(* those that wait.                                                      *)
LEMMA WaitersKeep ==
  ASSUME JoinInv, KTypes', StaysStopped, task' \in Tasks => task' = task \/ thr'[task'].at # "new",
         \A v \in Writers : call'[v].at = "join" => call'[v] = call[v] \/ Waits(v)'
  PROVE  JoinInv'
<1>1. task' \in Tasks => thr'[task'].at # "new"
  BY DEF JoinInv, StaysStopped, Steady
<1>2. ASSUME NEW v \in Writers, call'[v].at = "join" PROVE Waits(v)'
  <2>1. CASE call'[v] = call[v]
    <3>1. Told(call[v].task)
      BY <1>2, <2>1 DEF JoinInv, Waits
    <3>2. thr'[call[v].task].stop /\ thr'[call[v].task].at # "new"
      BY <3>1 DEF Told, StaysStopped, Steady, Nears
    <3> QED BY <2>1, <3>1, <3>2 DEF Told, Waits
  <2> QED BY <1>2, <2>1
<1> QED BY <1>1, <1>2 DEF JoinInv

(* What a writer's step does: the invariant, and the threads that have   *)
(* been told to stop.                                                    *)
LEMMA WriterNears ==
  ASSUME JoinInv, NEW w \in Writers, Call(w) \/ Store(w) PROVE JoinInv' /\ StaysStopped
<1>1. KTypes /\ KTypes' /\ thr \in ThrSet /\ thr' \in ThrSet /\ call \in CallSet
  BY WriterTypes DEF JoinInv, KTypes
<1>2. \A v \in Writers \ {w} : call'[v] = call[v]
  BY <1>1, OwnCall
<1>3. CASE Stop(w)
  <2>1. CASE call' = call /\ thr' = thr /\ task' = task
    <3>1. StaysStopped
      BY <1>1, <2>1, ThreadStays DEF StaysStopped
    <3> QED BY <1>1, <2>1, <3>1, WaitersKeep
  <2>2. CASE /\ task \in Tasks /\ Went(w, "stop", "join") /\ call'[w].task = task /\ task' = task
             /\ thr'[task].stop /\ thr'[task].at = thr[task].at /\ \A s \in Tasks \ {task} : thr'[s] = thr[s]
    <3>1. PICK t \in Tasks : t = task
      BY <2>2
    <3>2. StaysStopped
      <4>1. Steady(t) /\ \A s \in Tasks \ {t} : Steady(s)
        BY <1>1, <2>2, <3>1, ThreadStays
      <4> QED BY <4>1 DEF StaysStopped
    <3>3. Waits(w)'
      BY <2>2 DEF JoinInv, Told, Waits
    <3> QED BY <1>1, <1>2, <2>2, <3>2, <3>3, WaitersKeep
  <2> QED BY <1>1, <1>3, <2>1, <2>2, StopStep
<1>4. CASE Run(w)
  <2>1. call'[w].at # "join"
    BY <1>1, <1>4, RunStep DEF Went
  <2>2. CASE task' = None /\ thr' = thr
    <3>1. StaysStopped
      BY <1>1, <2>2, ThreadStays DEF StaysStopped
    <3> QED BY <1>1, <1>2, <2>1, <2>2, <3>1, KeyledAssumption, WaitersKeep
  <2>3. CASE /\ task' \in Tasks /\ thr[task'].at = "new" /\ thr'[task'].at = "fresh"
             /\ \A s \in Tasks \ {task'} : thr'[s] = thr[s]
    <3>1. PICK t \in Tasks : t = task'
      BY <2>3
    <3>2. StaysStopped
      <4>1. Steady(t) /\ \A s \in Tasks \ {t} : Steady(s)
        BY <1>1, <2>3, <3>1, ThreadStays DEF Steady
      <4> QED BY <4>1 DEF StaysStopped
    <3> QED BY <1>1, <1>2, <2>1, <2>3, <3>2, WaitersKeep
  <2> QED BY <1>1, <1>4, <2>2, <2>3, RunStep
<1>5. CASE Join(w)
  <2>1. call[w].at = "join" /\ task' = task
    BY <1>5 DEF Join, Goto, AllOff
  <2>2. PICK t \in Tasks : t = call[w].task
    BY <2>1 DEF JoinInv, Told, Waits
  <2>3. /\ thr[t].at \in {"done", "gone"} /\ thr'[t].at = "gone" /\ thr'[t].stop = thr[t].stop
        /\ \A s \in Tasks \ {t} : thr'[s] = thr[s]
    BY <1>1, <1>5, <2>2, JoinStep
  <2>4. call'[w].at # "join"
    <3>1. IF call[w].op = "blink off" THEN Went(w, "join", "dark") ELSE Went(w, "join", "stopped")
      BY <1>1, <1>5, JoinStep
    <3> QED BY <3>1 DEF Went
  <2>5. Rank(t) = 0 /\ Rank(t)' = 0
    BY <1>1, <2>2, <2>3, Ranks, RanksNext
  <2>6. ~Flash(t)
    BY <2>3 DEF Flash, FlashStart, FlashTest, FlashToggle, FlashOff
  <2>7. Steady(t) /\ \A s \in Tasks \ {t} : Steady(s)
    BY <1>1, <2>2, <2>3, <2>5, <2>6, ThreadStays DEF Steady, Nears
  <2>8. StaysStopped
    BY <2>7 DEF StaysStopped
  <2> QED BY <1>1, <1>2, <2>1, <2>4, <2>8, WaitersKeep
<1>6. CASE Call(w) \/ (Store(w) /\ ~Stop(w) /\ ~Run(w) /\ ~Join(w))
  <2>1. thr' = thr /\ task' = task
    BY <1>6 DEF Call, Store, Clear, Darken, Spawn, FlagOn, Flag, Stopped, Unflag, Act, LightUp, SetFlag, Destroy
  <2>2. call'[w].at # "join"
    <3>1. CASE Call(w)
      BY <1>1, <3>1, CallStep
    <3>2. CASE Darken(w) \/ Act(w)
      BY <1>1, <3>2, DarkenStep, ActStep DEF Went
    <3>3. CASE Clear(w) \/ Spawn(w) \/ FlagOn(w) \/ Flag(w) \/ Stopped(w) \/ Unflag(w)
      BY <1>1, <3>3, Steps DEF Went
    <3>4. CASE LightUp(w) \/ SetFlag(w) \/ Destroy(w)
      BY <1>1, <3>4, Steps DEF Went
    <3> QED BY <1>6, <3>1, <3>2, <3>3, <3>4 DEF Store
  <2>3. StaysStopped
    BY <1>1, <2>1, ThreadStays DEF StaysStopped
  <2> QED BY <1>1, <1>2, <2>1, <2>2, <2>3, WaitersKeep
<1> QED BY <1>3, <1>4, <1>5, <1>6

(* What any step does.                                                   *)
LEMMA StepNears == ASSUME JoinInv, [LedNext]_ledVars PROVE JoinInv' /\ StaysStopped
<1>1. KTypes /\ thr \in ThrSet
  BY DEF JoinInv, KTypes
<1>2. ASSUME NEW w \in Writers, Call(w) \/ Store(w) PROVE JoinInv' /\ StaysStopped
  BY <1>2, WriterNears
<1>3. ASSUME NEW t \in Tasks, Flash(t) PROVE JoinInv' /\ StaysStopped
  <2>1. call' = call /\ task' = task /\ KTypes'
    BY <1>1, <1>3, FlashStep, FlashTypes
  <2> QED BY <1>1, <1>3, <2>1, FlashNears, WaitersKeep
<1>4. CASE UNCHANGED <<lit, led_flag, task_flag, task, thr, call, module>>
  <2>1. KTypes' /\ StaysStopped
    BY <1>1, <1>4, ThreadStays DEF StaysStopped, KTypes, Fits
  <2> QED BY <1>4, <2>1, WaitersKeep
<1> QED BY <1>2, <1>3, <1>4 DEF LedNext, SetPeriod, Key1, Key2, ledVars

(* For any number of writers in the files together, whatever they have   *)
(* done to task and task_flag: whoever waits in kthread_stop waits for a *)
(* thread that has been started and told to stop; no step of anybody     *)
(* takes that back or takes the thread away from the end of led_flash,   *)
(* each step of the thread brings it nearer, and at the end the wait is  *)
(* over.  This is what StopReturns needs besides fairness.               *)
THEOREM StopComesNearer == LedSpec => []JoinTold /\ [][JoinNears]_ledVars
<1>1. LedInit => JoinInv
  <2> SUFFICES ASSUME LedInit PROVE JoinInv
    OBVIOUS
  <2>1. KTypes /\ \A w \in Writers : call[w].at # "join"
    BY KeyledInitially, IdleTyped DEF KeyledInv, LedInit
  <2> QED BY <2>1, KeyledAssumption DEF LedInit, JoinInv
<1>2. JoinInv /\ [LedNext]_ledVars => JoinInv' /\ [JoinNears]_ledVars
  <2> SUFFICES ASSUME JoinInv, [LedNext]_ledVars PROVE JoinInv' /\ JoinNears
    OBVIOUS
  <2>1. JoinInv' /\ StaysStopped
    BY StepNears
  <2>2. JoinNears
    BY <2>1 DEF JoinInv, Told, Waits, JoinNears, StaysStopped, Steady
  <2> QED BY <2>1, <2>2
<1>3. JoinInv => JoinTold
  <2> SUFFICES ASSUME JoinInv, NEW w \in Writers, call[w].at = "join"
               PROVE  /\ Told(call[w].task)
                      /\ Rank(call[w].task) = 0 => thr[call[w].task].at \in {"done", "gone"}
    BY DEF JoinTold, Told
  <2>1. Told(call[w].task) /\ thr \in ThrSet
    BY DEF JoinInv, KTypes, Waits
  <2> QED BY <2>1, Ranks DEF Told
<1> QED BY <1>1, <1>2, <1>3, PTL DEF LedSpec
=============================================================================
