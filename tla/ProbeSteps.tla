----------------------------- MODULE ProbeSteps -----------------------------
(***************************************************************************)
(* The vocabulary in which the tables of SecondEdition, FirstEdition,      *)
(* ThirdBook and ModuleLabs describe the probe (or init) and remove (or    *)
(* exit) functions of the drivers: what they acquire and release, in the   *)
(* order of the code.  A probe is a sequence of steps.  One that fails     *)
(* runs the releases of its `undo', and the probe fails; loops over the    *)
(* children of a device are written out for two of them.  DriverLifecycle  *)
(* gives the tables their meaning.                                         *)
(***************************************************************************)
EXTENDS Sequences

(* A step gets a resource, which remove or undo release; a managed (devm)  *)
(* one is released by the driver core.  A failure is noticed, unnoticed    *)
(* when the code goes on without a test (or with one that cannot see it),  *)
(* or cannot happen.                                                       *)
Get(r, undo)  == [get |-> r, managed |-> FALSE, fails |-> "noticed", undo |-> undo]
Blind(r)      == [get |-> r, managed |-> FALSE, fails |-> "unnoticed", undo |-> << >>]
Sure(r)       == [get |-> r, managed |-> FALSE, fails |-> "never", undo |-> << >>]
Devm(r, undo) == [get |-> r, managed |-> TRUE, fails |-> "noticed", undo |-> undo]
DevmBlind(r)  == [get |-> r, managed |-> TRUE, fails |-> "unnoticed", undo |-> << >>]
Set(r)        == [get |-> r, managed |-> TRUE, fails |-> "never", undo |-> << >>]

(* A call that may fail and acquires nothing.                              *)
Try(undo) == [get |-> "", managed |-> FALSE, fails |-> "noticed", undo |-> undo]

(* needs: pairs of a registration, through which calls or interrupts come  *)
(*   in, and a resource that these use.                                    *)
(* pins: an open file keeps the module loaded (fops.owner = THIS_MODULE).  *)
(* leaks: what some path leaves behind.                                    *)
(* exposed: the pairs of needs of which some path has the registration     *)
(*   without the resource.                                                 *)
(* twice: what some path releases by hand and again, or leaves to the      *)
(*   driver core as well.                                                  *)
Sound(probe, remove, needs) ==
  [probe |-> probe, remove |-> remove, needs |-> needs, pins |-> TRUE,
   leaks |-> {}, exposed |-> {}, twice |-> {}]
=============================================================================
