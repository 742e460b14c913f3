----------------------------- MODULE MCDataPaths -----------------------------
(***************************************************************************)
(* The data paths of character devices, checked in one run: part says      *)
(* whether the device is a buffer in RAM, the I2C memory chip or the       *)
(* serial mouse; the others stay as they are.                              *)
(***************************************************************************)
EXTENDS RamFile, Eeprom, MouseLab

VARIABLE part

(* What is not loaded has one initial state.                               *)
DataInit == /\ part \in {"ram", "eeprom", "mouse"} /\ FileInit /\ EepInit /\ MouseInit
            /\ part # "ram" => fdrv = char_s02 /\ ramdisk = "ram"
            /\ wide => fdrv.bounds = "clip"
            /\ part # "mouse" => coming = <<1, 1>>

DataNext == /\ UNCHANGED part
            /\ \/ part = "ram" /\ FileNext /\ UNCHANGED <<eepVars, mouseVars>>
               \/ part = "eeprom" /\ EepNext /\ UNCHANGED <<fileVars, mouseVars>>
               \/ part = "mouse" /\ MouseNext /\ UNCHANGED <<fileVars, eepVars>>

DataSpec == DataInit /\ [][DataNext]_<<part, fileVars, eepVars, mouseVars>>
=============================================================================
