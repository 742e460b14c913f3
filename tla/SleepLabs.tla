------------------------------ MODULE SleepLabs ------------------------------
(***************************************************************************)
(* The s_19 character drivers whose read() sleeps on a wait queue until a  *)
(* write() sets data_ready and wakes it.  lab selects the driver; what     *)
(* differs between them is the order of the two steps of the write, whom   *)
(* wake_up_interruptible wakes, and what a reader does to data_ready once  *)
(* it is past the wait.  Calls of any number of readers, pollers and       *)
(* writers overlap: a misc device takes no lock around its entry points.   *)
(* Moving the bytes (mycdrv_generic_read and _write) is left out here.     *)
(***************************************************************************)
EXTENDS Naturals, Sequences, FiniteSets, SequencesExt

CONSTANTS Labs,       \* the drivers a run considers
          Readers, Pollers, Writers,
          Signals     \* whether signals are sent to sleeping readers

(* setFirst: data_ready is set before the wakeup and not after it.         *)
(* wakes: wake_up_interruptible wakes all that sleep in wait_event, one    *)
(*   exclusive waiter, and none that sleep in TASK_KILLABLE.               *)
(* after: a reader past the wait keeps data_ready, resets it, or counts    *)
(*   itself out of nsleepers, the last one resetting it.                   *)
wait_event == [setFirst |-> TRUE,  wakes |-> "all",  after |-> "keep"]
excl       == [setFirst |-> FALSE, wakes |-> "one",  after |-> "count"]
killable   == [setFirst |-> TRUE,  wakes |-> "none", after |-> "reset"]
poll       == [setFirst |-> FALSE, wakes |-> "all",  after |-> "reset"]

ASSUME SleepLabsAssumption ==
  /\ Labs \subseteq {"wait_event", "excl", "killable", "poll"} /\ Signals \in BOOLEAN
  /\ Readers \cap Pollers = {}

VARIABLES lab,       \* the driver that is loaded
          data_ready, nsleepers,
          wq,        \* the wait queue, in order of arrival
          pc,        \* where each reader and poller is
          wpc        \* where each writer is: "out", "copied" or "half"

sleepVars == <<lab, data_ready, nsleepers, wq, pc, wpc>>

Profile == CASE lab = "wait_event" -> wait_event [] lab = "excl" -> excl
             [] lab = "killable" -> killable     [] lab = "poll" -> poll

SleepInit == /\ lab \in Labs /\ data_ready = 0 /\ nsleepers = 0 /\ wq = << >>
             /\ pc = [p \in Readers \cup Pollers |-> "out"] /\ wpc = [w \in Writers |-> "out"]

Goto(p, from, to) == pc[p] = from /\ pc' = [pc EXCEPT ![p] = to]
Unqueue(p) == \E i \in DOMAIN wq : wq[i] = p /\ wq' = RemoveAt(wq, i)
-----------------------------------------------------------------------------
(* Plausible bugs, which the properties below must catch.                  *)
TestThenQueue(p) == /\ Goto(p, "wait", "asleep")
                    /\ wq' = Append(wq, p)
                    /\ UNCHANGED <<data_ready, nsleepers, wpc>>
SignalReturns(r) == /\ Signals /\ r \in Readers /\ Goto(r, "asleep", "out")
                    /\ Unqueue(r)
                    /\ UNCHANGED <<data_ready, nsleepers, wpc>>
-----------------------------------------------------------------------------
(* mycdrv_read up to the wait; lab1_excl.c counts the sleeper first.       *)
Read(r) == /\ r \in Readers /\ Goto(r, "out", "wait")
           /\ nsleepers' = nsleepers + (IF Profile.after = "count" THEN 1 ELSE 0)
           /\ UNCHANGED <<data_ready, wq, wpc>>

(* The poll system call: mycdrv_poll queues the poller and tests; it sleeps *)
(* when the mask is empty and calls mycdrv_poll again when it is woken.     *)
Poll(p) == /\ lab = "poll" /\ p \in Pollers /\ Goto(p, "out", "wait")
           /\ UNCHANGED <<data_ready, nsleepers, wq, wpc>>

(* A sleeper is on the queue before it tests the condition: one step.      *)
Test(p) == /\ Goto(p, "wait", IF data_ready = 1 THEN "woken" ELSE "asleep")
           /\ wq' = (IF data_ready = 1 THEN wq ELSE Append(wq, p))
           /\ UNCHANGED <<data_ready, nsleepers, wpc>>

(* A signal ends the wait (in lab2_killable.c a fatal one); its return     *)
(* value is ignored, so the reader goes on as if it had been woken.        *)
Signal(r) == /\ Signals /\ r \in Readers /\ Goto(r, "asleep", "woken")
             /\ Unqueue(r)
             /\ UNCHANGED <<data_ready, nsleepers, wpc>>

(* Past the wait: leave data_ready, reset it, or count out under the lock. *)
Keep(r) == /\ Profile.after = "keep" /\ Goto(r, "woken", "read")
           /\ UNCHANGED <<data_ready, nsleepers>>
Reset(r) == /\ Profile.after = "reset" /\ Goto(r, "woken", "read")
            /\ data_ready' = 0 /\ UNCHANGED nsleepers
CountOut(r) == /\ Profile.after = "count" /\ \A o \in Readers : pc[o] # "locked"
               /\ Goto(r, "woken", IF nsleepers = 1 THEN "locked" ELSE "read")
               /\ nsleepers' = nsleepers - 1 /\ UNCHANGED data_ready
LastOut(r) == Goto(r, "locked", "read") /\ data_ready' = 0 /\ UNCHANGED nsleepers

Proceed(r) == /\ r \in Readers /\ (Keep(r) \/ Reset(r) \/ CountOut(r) \/ LastOut(r))
              /\ UNCHANGED <<wq, wpc>>

(* mycdrv_generic_read copies the bytes and the call returns.              *)
Return(r) == /\ r \in Readers /\ Goto(r, "read", "out")
             /\ UNCHANGED <<data_ready, nsleepers, wq, wpc>>

(* The mask is POLLIN: the poll returns.                                   *)
PollReturn(p) == /\ p \in Pollers /\ Goto(p, "woken", "out")
                 /\ UNCHANGED <<data_ready, nsleepers, wq, wpc>>

ReaderStep(p) == Test(p) \/ Proceed(p) \/ Return(p) \/ PollReturn(p)
-----------------------------------------------------------------------------
(* mycdrv_write: the bytes are copied, then data_ready is set and readers  *)
(* are woken, or the other way round.                                      *)
Write(w) == /\ wpc[w] = "out" /\ wpc' = [wpc EXCEPT ![w] = "copied"]
            /\ UNCHANGED <<data_ready, nsleepers, wq, pc>>

(* How many a wakeup takes from the head of the queue.                     *)
Wakes == CASE Profile.wakes = "all"  -> Len(wq)
           [] Profile.wakes = "one"  -> IF wq = << >> THEN 0 ELSE 1
           [] Profile.wakes = "none" -> 0
Woken == ToSet(SubSeq(wq, 1, Wakes))

SetReady == /\ data_ready' = 1
            /\ UNCHANGED <<nsleepers, wq, pc>>
WakeUp   == /\ wq' = SubSeq(wq, Wakes + 1, Len(wq))
            /\ pc' = [p \in DOMAIN pc |-> IF p \in Woken THEN "wait" ELSE pc[p]]
            /\ UNCHANGED <<data_ready, nsleepers>>

WriteStep(w) ==
  \/ /\ wpc[w] = "copied" /\ wpc' = [wpc EXCEPT ![w] = "half"]
     /\ IF Profile.setFirst THEN SetReady ELSE WakeUp
  \/ /\ wpc[w] = "half" /\ wpc' = [wpc EXCEPT ![w] = "out"]
     /\ IF Profile.setFirst THEN WakeUp ELSE SetReady

SleepNext == /\ UNCHANGED lab
             /\ \/ \E p \in Readers \cup Pollers : Read(p) \/ Poll(p) \/ Signal(p) \/ ReaderStep(p)
                \/ \E w \in Writers : Write(w) \/ WriteStep(w)

(* A process that is awake inside a system call gets the CPU; nobody has   *)
(* to make a call or send a signal.                                        *)
SleepFairness == /\ \A p \in Readers \cup Pollers : WF_sleepVars(UNCHANGED lab /\ ReaderStep(p))
                 /\ \A w \in Writers : WF_sleepVars(UNCHANGED lab /\ WriteStep(w))
SleepSpec == SleepInit /\ [][SleepNext]_sleepVars /\ SleepFairness
-----------------------------------------------------------------------------
(* nsleepers of lab1_excl.c is exactly the readers between its increment   *)
(* and its decrement, however their calls, signals and wakeups interleave. *)
NsleepersExact == Profile.after = "count" =>
  nsleepers = Cardinality({r \in Readers : pc[r] \in {"wait", "asleep", "woken"}})

(* "go to sleep until woken by a write()" (lab1_wait_event.c:24): a reader *)
(* or poller does not stay asleep while data is ready.                     *)
SleeperServed == \A p \in Readers \cup Pollers :
  (pc[p] = "asleep" /\ data_ready = 1) ~> (pc[p] # "asleep" \/ data_ready = 0)

(* So it is in the wait_event driver, whose test and wakeup cannot miss    *)
(* each other; in the poll driver, one that a write left asleep on ready   *)
(* data is served by the next write.                                       *)
WaiterServed == \A p \in Readers \cup Pollers :
  /\ (lab = "wait_event" /\ pc[p] = "asleep" /\ data_ready = 1)
       ~> (pc[p] # "asleep" \/ data_ready = 0)
  /\ (lab = "poll" /\ pc[p] = "asleep" /\ data_ready = 1 /\ \E w \in Writers : wpc[w] = "copied")
       ~> (pc[p] # "asleep" \/ data_ready = 0)
=============================================================================
