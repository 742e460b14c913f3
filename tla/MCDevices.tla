------------------------------ MODULE MCDevices ------------------------------
(***************************************************************************)
(* Drivers with callbacks and interrupts, checked in one run: part says    *)
(* which module's driver is loaded; the others stay as they are.           *)
(***************************************************************************)
EXTENDS DeferredExit, EventReads, DmaCopy, Accel, ThreadedIrqBH

VARIABLE part

devicesVars == <<exitVars, eventVars, dmaVars, tapVars, vars>>

(* What is not loaded has one initial state.                               *)
DevicesInit ==
  /\ part \in {"exit", "events", "dma", "taps", "threaded"}
  /\ ExitInit /\ EventInit /\ DmaInit /\ TapInit /\ Init
  /\ part # "exit" => xdrv = shared_ch3
  /\ part # "events" => edrv = uio_s20
  /\ part # "dma" => ddrv = m2m_1st
  /\ part # "taps" => adrv = adxl345_iio

DevicesNext ==
  /\ UNCHANGED part
  /\ \/ part = "exit" /\ ExitNext /\ UNCHANGED <<eventVars, dmaVars, tapVars, vars>>
     \/ part = "events" /\ EventNext /\ UNCHANGED <<exitVars, dmaVars, tapVars, vars>>
     \/ part = "dma" /\ DmaNext /\ UNCHANGED <<exitVars, eventVars, tapVars, vars>>
     \/ part = "taps" /\ TapNext /\ UNCHANGED <<exitVars, eventVars, dmaVars, vars>>
     \/ part = "threaded" /\ Next /\ UNCHANGED <<exitVars, eventVars, dmaVars, tapVars>>

(* The exit's fairness would ask the module that is not loaded to do       *)
(* something; that of the handler asks nothing of one without interrupts.  *)
DevicesSpec == DevicesInit /\ [][DevicesNext]_<<part, devicesVars>>
               /\ (part = "exit" => ExitFairness) /\ Fairness
=============================================================================
