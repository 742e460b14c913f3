---------------------------- MODULE EventDelivery ----------------------------
(***************************************************************************)
(* What a "catch up" bottom half of the s_20 lab3 drivers promises: every  *)
(* interrupt counted by the top half is handled by exactly one pass of the *)
(* bottom half, never before it was raised, and none is forgotten as long  *)
(* as the module stays loaded.  The detailed modules TaskletBH, ThreadBH   *)
(* and DeferredBH are shown to implement this specification.                *)
(***************************************************************************)
EXTENDS Naturals

VARIABLES raised,   \* interrupts the top half has taken
          handled,  \* passes of the bottom half
          open      \* the module is loaded

evars == <<raised, handled, open>>

EInit == raised = 0 /\ handled = 0 /\ open = TRUE

Raise  == open = TRUE /\ raised' = raised + 1 /\ UNCHANGED <<handled, open>>
Handle == open = TRUE /\ handled < raised /\ handled' = handled + 1 /\ UNCHANGED <<raised, open>>
Close  == open = TRUE /\ open' = FALSE /\ UNCHANGED <<raised, handled>>

ENext == Raise \/ Handle \/ Close

ESafety   == EInit /\ [][ENext]_evars
EFairness == WF_evars(Handle)
ESpec     == ESafety /\ EFairness
=============================================================================
