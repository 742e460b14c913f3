----------------------------- MODULE MCSleepers -----------------------------
(***************************************************************************)
(* The drivers in which a thread or the processes in read() sleep, checked *)
(* in one run: part says which module's driver is loaded; the others stay  *)
(* as they are.                                                            *)
(***************************************************************************)
EXTENDS ThreadBH, SleepLabs, CountingLabs, KeyRing

VARIABLE part

sleepersVars == <<threadVars, sleepVars, permitVars, ringVars>>

(* What is not loaded has one initial state and not all of them.           *)
SleepersInit ==
  /\ part \in {"thread", "wait queue", "permits", "key ring"}
  /\ ThreadInit /\ SleepInit /\ PermitInit /\ RingInit
  /\ part # "thread" => driver = "basic"
  /\ part # "wait queue" => lab = "poll"
  /\ part # "permits" => plab = "complete"
  /\ part # "key ring" => edition = "first" /\ ~smp

SleepersNext ==
  /\ UNCHANGED part
  /\ \/ part = "thread" /\ ThreadNext /\ UNCHANGED <<sleepVars, permitVars, ringVars>>
     \/ part = "wait queue" /\ SleepNext /\ UNCHANGED <<threadVars, permitVars, ringVars>>
     \/ part = "permits" /\ PermitNext /\ UNCHANGED <<threadVars, sleepVars, ringVars>>
     \/ part = "key ring" /\ RingNext /\ UNCHANGED <<threadVars, sleepVars, permitVars>>

(* A driver that is not loaded has nobody in a call and no thread, and     *)
(* nothing to be fair to.                                                  *)
SleepersSpec == /\ SleepersInit /\ [][SleepersNext]_<<part, sleepersVars>>
                /\ ThreadFairness /\ SleepFairness /\ PermitFairness /\ RingFairness
=============================================================================
