-------------------------- MODULE MCDriverLifecycle --------------------------
(***************************************************************************)
(* DriverLifecycle with all the tables, and the life of the LED class      *)
(* driver between its probe and its remove.  part says which is checked:   *)
(* the tables; the LED driver with one writer for all LEDs; or the same    *)
(* with several writers that light and blink one LED, one of which may be  *)
(* the driver core that removes the driver.                                *)
(***************************************************************************)
EXTENDS DriverLifecycle, SecondEdition, FirstEdition, ThirdBook, ModuleLabs, KeyledLeds

CONSTANTS Loner, Lamp,   \* the one writer and the one LED
          First          \* of two flashing threads, the one started first
ASSUME MCDriverLifecycleAssumption == Loner \in Writers /\ Lamp \in Leds /\ First \in Tasks

VARIABLE part

AllTables  == SecondEditionTables @@ FirstEditionTables @@ ThirdBookTables @@ ModuleLabsTables
AllDrivers == DOMAIN AllTables

LifeInit == /\ part \in {"tables", "one writer", "one LED"} /\ Init /\ LedInit
            /\ part # "tables" => driver = "interrupt_s08"

Allowed(w, new) == CASE part = "one writer" -> w = Loner
                     [] part = "one LED" -> /\ new.led = Lamp /\ new.op \notin {"set off", "set bad", "blink bad"}
                                            /\ new.op = "remove" => w = Loner

PartNext == /\ UNCHANGED vars /\ LedNext
            /\ \A w \in Writers : Inside(w)' => Allowed(w, call'[w])
            /\ part = "one LED" => UNCHANGED period
            /\ thr'[First].at = "new" => \A t \in Tasks : thr'[t].at = "new"

LifeNext == /\ UNCHANGED part
            /\ \/ part = "tables" /\ Next /\ UNCHANGED ledVars
               \/ part # "tables" /\ PartNext

LifeSpec == LifeInit /\ [][LifeNext]_<<part, vars, ledVars>> /\ LedFairness
=============================================================================
