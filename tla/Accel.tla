-------------------------------- MODULE Accel --------------------------------
(***************************************************************************)
(* The tap interrupt of the accelerometer ADXL345 (lab10/adxl345-spi.c and *)
(* the second edition's input and IIO drivers).  The chip, external, keeps *)
(* its line high while a tap is pending in INT_SOURCE and the axis of the  *)
(* last tap in ACT_TAP_STATUS; reading INT_SOURCE clears it.  The threaded *)
(* handler reads both over a bus that may fail.  A tap is its number, so   *)
(* that the axis reported tells which tap it was.  The samples that        *)
(* lab10's handler also reports are left out.                              *)
(***************************************************************************)
EXTENDS Naturals, Sequences

CONSTANTS TapDrivers,  \* the drivers a run considers, as records
          MaxTaps      \* bound: taps

(* checks: a failed read ends the handler.  The two input drivers take the *)
(* negative error number for the register's value.                         *)
adxl345_1st == [checks |-> FALSE]
adxl345_2nd == [checks |-> FALSE]
adxl345_iio == [checks |-> TRUE]

AllTapDrivers == {adxl345_1st, adxl345_2nd, adxl345_iio}

VARIABLES adrv,      \* the driver
          source,    \* SINGLE_TAP of INT_SOURCE, and so the line
          status,    \* ACT_TAP_STATUS: the last tap
          taps,      \* taps so far
          merged,    \* those that came while one was pending
          hpc,       \* the next step of the handler, or 0
          tap_stat, int_stat, \* its local variables
          errors,    \* history: a read of the bus has failed
          reports    \* history: the taps reported, in order

tapVars == <<adrv, source, status, taps, merged, hpc, tap_stat, int_stat, errors, reports>>

Ghost == 0           \* bits of an error number
TapInit == /\ adrv \in TapDrivers /\ source = FALSE /\ status = 0 /\ taps = 0 /\ merged = 0 /\ hpc = 0
           /\ tap_stat = 0 /\ int_stat = FALSE /\ errors = FALSE /\ reports = << >>
-----------------------------------------------------------------------------
(* Plausible bugs, which the properties below must catch.                  *)
SourceFirst == <<"INT_SOURCE", "ACT_TAP_STATUS">>
-----------------------------------------------------------------------------
Tap == /\ taps < MaxTaps /\ taps' = taps + 1 /\ status' = taps' /\ source' = TRUE
       /\ merged' = (IF source THEN merged + 1 ELSE merged)
       /\ UNCHANGED <<adrv, hpc, tap_stat, int_stat, errors, reports>>

(* The line is high and the handler not running: IRQF_TRIGGER_HIGH and     *)
(* IRQF_ONESHOT.                                                           *)
TapInterrupt == /\ source /\ hpc = 0 /\ hpc' = 1
                /\ UNCHANGED <<adrv, source, status, taps, merged, tap_stat, int_stat, errors, reports>>

(* The order in which the handler reads.                                   *)
Order == <<"ACT_TAP_STATUS", "INT_SOURCE">>
Reading(register) == hpc \in DOMAIN Order /\ Order[hpc] = register

ReadTapStatus == /\ Reading("ACT_TAP_STATUS") /\ hpc' = hpc + 1 /\ tap_stat' = status
                 /\ UNCHANGED <<adrv, source, status, taps, merged, int_stat, errors, reports>>

ReadIntSource == /\ Reading("INT_SOURCE") /\ hpc' = hpc + 1 /\ int_stat' = source /\ source' = FALSE
                 /\ UNCHANGED <<adrv, status, taps, merged, tap_stat, errors, reports>>

(* A read fails, and the chip does not notice.                             *)
ReadFails ==
  /\ hpc \in DOMAIN Order /\ hpc' = (IF adrv.checks THEN 0 ELSE hpc + 1) /\ errors' = TRUE
  /\ tap_stat' = (IF Reading("ACT_TAP_STATUS") THEN Ghost ELSE tap_stat)
  /\ int_stat' \in (IF Reading("INT_SOURCE") THEN BOOLEAN ELSE {int_stat})
  /\ UNCHANGED <<adrv, source, status, taps, merged, reports>>

(* do_tap, or an event to IIO, for the axes in tap_stat.                   *)
ReportTap == /\ hpc > Len(Order) /\ hpc' = 0
             /\ reports' = (IF int_stat THEN Append(reports, tap_stat) ELSE reports)
             /\ UNCHANGED <<adrv, source, status, taps, merged, tap_stat, int_stat, errors>>

(* Bound: a bus that fails does not make reports without end.              *)
TapNext == \/ Tap \/ (TapInterrupt /\ Len(reports) <= MaxTaps)
           \/ ReadTapStatus \/ ReadIntSource \/ ReadFails \/ ReportTap
TapSpec == TapInit /\ [][TapNext]_tapVars
-----------------------------------------------------------------------------
(* "ACT_TAP_STATUS should be read before clearing the interrupt"           *)
(* (adxl345_stm32mp1.c:285): no tap is reported twice or out of order, and *)
(* none that never happened; once the line is low again there is a report  *)
(* for every tap but those that came while one was pending.  The IIO       *)
(* driver keeps this when the bus fails, because the line stays high; the  *)
(* two others as long as it does not.                                      *)
TapOnce == (adrv.checks \/ ~errors) =>
  /\ \A i \in DOMAIN reports : reports[i] \in 1..taps /\ (i > 1 => reports[i - 1] < reports[i])
  /\ (hpc = 0 /\ ~source) => Len(reports) = taps - merged
=============================================================================
