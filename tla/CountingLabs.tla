----------------------------- MODULE CountingLabs -----------------------------
(***************************************************************************)
(* The s_19 character drivers whose read() waits for a permit that write() *)
(* gives: a completion (lab1_complete.c), a semaphore (lab1_semaphore.c)   *)
(* or the read side of a read/write semaphore (lab1_semaphore_rw.c).       *)
(* Completion and semaphores are the kernel's, external to this source:    *)
(*  - wait_for_completion takes `done' or queues; complete increments it   *)
(*    and wakes the first in the queue, which another reader may overtake; *)
(*  - up hands its permit to the first in the queue, or increments count;  *)
(*  - down_read does not wait while nobody holds the semaphore for writing *)
(*    and nobody ever does, but once it has been released more often than  *)
(*    taken its count may read as a writer's, and a reader may wait.       *)
(***************************************************************************)
EXTENDS Integers, Sequences, SequencesExt

CONSTANTS PermitLabs,  \* the drivers a run considers
          Takers,
          MaxWrites   \* bound: calls of write()
ASSUME CountingLabsAssumption ==
  PermitLabs \subseteq {"complete", "semaphore", "semaphore_rw"} /\ MaxWrites \in Nat

VARIABLES plab,     \* the driver that is loaded
          count,    \* permits: `done' or the count of the semaphore
          waiters,  \* the readers that wait, in order of arrival
          ppc,      \* "out", "waiting", "woken" or "read"
          passed,   \* reads that got past the wait
          writes    \* writes that gave their permit

permitVars == <<plab, count, waiters, ppc, passed, writes>>

(* Permits before the first write: DECLARE_COMPLETION has none, and        *)
(* DEFINE_SEMAPHORE one.                                                   *)
PermitsFirst == IF plab = "semaphore" THEN 1 ELSE 0

PermitInit == /\ plab \in PermitLabs /\ count = PermitsFirst /\ waiters = << >> /\ passed = 0 /\ writes = 0
              /\ ppc = [r \in Takers |-> "out"]
-----------------------------------------------------------------------------
(* Plausible bugs, which the properties below must catch.                  *)
CompleteNoWake == /\ plab = "complete" /\ count' = count + 1 /\ UNCHANGED <<waiters, ppc, passed>>
WakeTakesBlindly(r) == /\ ppc[r] = "woken" /\ ppc' = [ppc EXCEPT ![r] = "read"]
                       /\ passed' = passed + 1 /\ UNCHANGED <<count, waiters, writes>>
-----------------------------------------------------------------------------
Pass(r, permit) == /\ ppc' = [ppc EXCEPT ![r] = "read"] /\ passed' = passed + 1
                   /\ count' = count - permit /\ UNCHANGED waiters
Queue(r) == /\ ppc' = [ppc EXCEPT ![r] = "waiting"] /\ waiters' = Append(waiters, r)
            /\ UNCHANGED <<count, passed>>

(* mycdrv_read up to its wait. The bound also stops a reader that never    *)
(* waits.                                                                  *)
PermitRead(r) == /\ ppc[r] = "out" /\ passed <= MaxWrites
                 /\ \/ plab = "semaphore_rw" /\ Pass(r, 1)
                    \/ plab = "semaphore_rw" /\ count > 0 /\ Queue(r)
                    \/ plab # "semaphore_rw" /\ count > 0 /\ Pass(r, 1)
                    \/ plab # "semaphore_rw" /\ count <= 0 /\ Queue(r)
                 /\ UNCHANGED writes

(* A reader woken by complete takes a permit, or waits again if another    *)
(* reader has been faster.                                                 *)
PermitWake(r) == /\ ppc[r] = "woken" /\ (IF count > 0 THEN Pass(r, 1) ELSE Queue(r))
                 /\ UNCHANGED writes

(* down_interruptible returns -EINTR on a signal, and the read fails.      *)
PermitSignal(r) == /\ plab = "semaphore" /\ ppc[r] = "waiting" /\ ppc' = [ppc EXCEPT ![r] = "out"]
                   /\ \E i \in DOMAIN waiters : waiters[i] = r /\ waiters' = RemoveAt(waiters, i)
                   /\ UNCHANGED <<count, passed, writes>>

PermitReturn(r) == /\ ppc[r] = "read" /\ ppc' = [ppc EXCEPT ![r] = "out"]
                   /\ UNCHANGED <<count, waiters, passed, writes>>
-----------------------------------------------------------------------------
Complete == /\ plab = "complete" /\ count' = count + 1 /\ UNCHANGED passed
            /\ IF waiters = << >> THEN UNCHANGED <<waiters, ppc>>
               ELSE /\ waiters' = Tail(waiters)
                    /\ ppc' = [ppc EXCEPT ![Head(waiters)] = "woken"]

(* The first in the queue gets the permit that is released.                *)
HandOver == /\ waiters # << >> /\ waiters' = Tail(waiters) /\ UNCHANGED count
            /\ passed' = passed + 1 /\ ppc' = [ppc EXCEPT ![Head(waiters)] = "read"]
Release  == count' = count + 1 /\ UNCHANGED <<waiters, ppc, passed>>

Up == plab = "semaphore" /\ (IF waiters = << >> THEN Release ELSE HandOver)

(* up_read by a process that never took the semaphore.                     *)
UpRead == plab = "semaphore_rw" /\ (Release \/ HandOver)

PermitWrite == writes < MaxWrites /\ writes' = writes + 1 /\ (Complete \/ Up \/ UpRead)

PermitNext == /\ UNCHANGED plab
              /\ PermitWrite \/ \E r \in Takers : PermitRead(r) \/ PermitWake(r) \/ PermitSignal(r) \/ PermitReturn(r)

(* A reader that is awake in its call gets the CPU.                        *)
PermitFairness == \A r \in Takers : WF_permitVars(UNCHANGED plab /\ (PermitWake(r) \/ PermitReturn(r)))
PermitSpec == PermitInit /\ [][PermitNext]_permitVars /\ PermitFairness
-----------------------------------------------------------------------------
(* Permits are neither made nor lost: what the writes gave has been used   *)
(* by a read or is still there; so with the completion every read that     *)
(* gets past its wait has a write of its own, "go to sleep until woken by  *)
(* a write()" (lab1_complete.c:24).                                        *)
PermitsConserved == /\ passed + count = PermitsFirst + writes
                    /\ plab = "complete" => passed <= writes

(* A permit of a completion or a semaphore does not stay free under a      *)
(* waiting reader, though one that overtakes may make it wait again.       *)
PermitUsed == (plab # "semaphore_rw" /\ count > 0 /\ waiters # << >>)
                 ~> (count = 0 \/ waiters = << >>)
=============================================================================
