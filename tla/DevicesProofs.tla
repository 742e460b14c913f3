--------------------------- MODULE DevicesProofs ----------------------------
(*************************************************************************)
(* Theorems about the device models: the tap interrupt, the threaded     *)
(* handler, interrupts read from user space, copies by DMA, and deferred *)
(* calls against the exit of their module, for any number of events,     *)
(* processes and turns.                                                  *)
(*************************************************************************)
EXTENDS Accel, ThreadedIrqBH, EventReads, DmaCopy, DeferredExit, Integers, FiniteSetTheorems, TLAPS

(*************************************************************************)
(* Accel: any number of taps, and any interleaving of taps, bus failures *)
(* and the steps of the handler.                                         *)
(*************************************************************************)
TapTypes == /\ adrv \in TapDrivers /\ source \in BOOLEAN /\ int_stat \in BOOLEAN
            /\ status \in Nat /\ taps \in Nat /\ merged \in Nat /\ tap_stat \in Nat
            /\ hpc \in 0..3 /\ reports \in Seq(Nat)

(* The handler is between its first read and its report only with the line *)
(* high or the tap it will report already cleared; and the tap in tap_stat *)
(* is later than all that have been reported, and earlier than one that    *)
(* raised the line again.                                                  *)
Ordered == \A i \in 1..Len(reports) :
  /\ reports[i] \in 1..taps /\ (i > 1 => reports[i - 1] < reports[i])
  /\ source => reports[i] < status
  /\ hpc \in {2, 3} => reports[i] < tap_stat

Progress == /\ status = taps
            /\ hpc \in {1, 2} => source
            /\ hpc \in {2, 3} => tap_stat \in 1..taps
            /\ hpc = 3 => int_stat /\ (source => tap_stat < status)

InFlight == (IF source THEN 1 ELSE 0) + (IF hpc = 3 THEN 1 ELSE 0)
Balanced == Len(reports) + merged + InFlight = taps

Faithful == adrv.checks \/ ~errors
TInv == TapTypes /\ (Faithful => Ordered /\ Progress /\ Balanced)

(* The handler reads ACT_TAP_STATUS first and INT_SOURCE second.           *)
LEMMA OrderOfReads ==
  ASSUME TapTypes
  PROVE  /\ Reading("ACT_TAP_STATUS") <=> hpc = 1
         /\ Reading("INT_SOURCE") <=> hpc = 2
         /\ hpc \in DOMAIN Order <=> hpc \in {1, 2}
         /\ hpc > Len(Order) <=> hpc = 3
<1>1. DOMAIN Order = 1..2 /\ Len(Order) = 2 /\ Order[1] = "ACT_TAP_STATUS" /\ Order[2] = "INT_SOURCE"
  BY DEF Order
<1>2. hpc \in {0, 1, 2, 3}
  BY DEF TapTypes
<1> HIDE DEF Order
<1>3. QED
  BY <1>1, <1>2 DEF Reading

(* A tap is later than every one before it.                                *)
LEMMA TapKeeps == ASSUME TInv, Tap PROVE TInv'
<1>1. TapTypes'
  BY DEF TInv, TapTypes, Tap
<1>2. Faithful' = Faithful
  BY DEF Faithful, Tap
<1>3. ASSUME Faithful PROVE Ordered' /\ Progress' /\ Balanced'
  <2>1. Ordered'
    BY <1>3 DEF TInv, TapTypes, Tap, Ordered, Progress
  <2>2. Progress'
    BY <1>3 DEF TInv, TapTypes, Tap, Progress
  <2>3. Balanced'
    <3>1. Len(reports) \in Nat /\ merged \in Nat /\ taps \in Nat /\ Balanced
      BY <1>3 DEF TInv, TapTypes
    <3>2. CASE source
      BY <3>1, <3>2 DEF Tap, Balanced, InFlight
    <3>3. CASE ~source
      BY <3>1, <3>3 DEF Tap, Balanced, InFlight
    <3>4. QED
      BY <3>2, <3>3
  <2>4. QED
    BY <2>1, <2>2, <2>3
<1>4. QED
  BY <1>1, <1>2, <1>3 DEF TInv

(* The steps of the handler that reach the chip.                           *)
LEMMA ReadKeeps == ASSUME TInv, TapInterrupt \/ ReadTapStatus \/ ReadIntSource PROVE TInv'
<1>1. Faithful' = Faithful
  BY DEF Faithful, TapInterrupt, ReadTapStatus, ReadIntSource
<1>2. CASE TapInterrupt
  <2>1. TapTypes'
    BY <1>2 DEF TInv, TapTypes, TapInterrupt
  <2>2. Faithful => Ordered' /\ Progress' /\ Balanced'
    BY <1>2 DEF TInv, TapTypes, TapInterrupt, Ordered, Progress, Balanced, InFlight
  <2>3. QED
    BY <1>1, <2>1, <2>2 DEF TInv
<1>3. CASE ReadTapStatus
  <2>1. hpc = 1 /\ hpc' = 2 /\ tap_stat' = status
        /\ UNCHANGED <<adrv, source, status, taps, merged, int_stat, errors, reports>>
    BY <1>3, OrderOfReads DEF TInv, ReadTapStatus
  <2>2. TapTypes'
    BY <2>1 DEF TInv, TapTypes
  <2>3. ASSUME Faithful PROVE Ordered' /\ Progress' /\ Balanced'
    <3>1. source /\ taps >= 1 /\ status = taps
      BY <2>1, <2>3 DEF TInv, TapTypes, Progress, Balanced, InFlight
    <3>2. QED
      BY <2>1, <2>3, <3>1 DEF TInv, TapTypes, Ordered, Progress, Balanced, InFlight
  <2>4. QED
    BY <1>1, <2>2, <2>3 DEF TInv
<1>4. CASE ReadIntSource
  <2>1. hpc = 2 /\ hpc' = 3 /\ int_stat' = source /\ source' = FALSE
        /\ UNCHANGED <<adrv, status, taps, merged, tap_stat, errors, reports>>
    BY <1>4, OrderOfReads DEF TInv, ReadIntSource
  <2>2. TapTypes'
    <3>1. int_stat' \in BOOLEAN /\ source' \in BOOLEAN
      BY <2>1, Zenon DEF TInv, TapTypes
    <3>2. QED
      BY <2>1, <3>1 DEF TInv, TapTypes
  <2>3. ASSUME Faithful PROVE Ordered' /\ Progress' /\ Balanced'
    BY <2>1, <2>3 DEF TInv, TapTypes, Ordered, Progress, Balanced, InFlight
  <2>4. QED
    BY <1>1, <2>2, <2>3 DEF TInv
<1>5. QED
  BY <1>2, <1>3, <1>4

(* A driver that checks leaves the line high, and so begins again.         *)
LEMMA FailureKeeps == ASSUME TInv, ReadFails PROVE TInv'
<1>1. /\ hpc \in {1, 2} /\ hpc' = (IF adrv.checks THEN 0 ELSE hpc + 1) /\ errors' = TRUE
      /\ UNCHANGED <<adrv, source, status, taps, merged, reports>>
  BY OrderOfReads DEF TInv, ReadFails
<1>2. TapTypes'
  BY <1>1 DEF TInv, TapTypes, ReadFails, Ghost
<1>3. ASSUME Faithful' PROVE Ordered' /\ Progress' /\ Balanced'
  <2>1. adrv.checks /\ Faithful /\ hpc' = 0
    BY <1>1, <1>3 DEF Faithful
  <2>2. QED
    BY <1>1, <2>1 DEF TInv, TapTypes, Ordered, Progress, Balanced, InFlight
<1>4. QED
  BY <1>2, <1>3 DEF TInv

(* The report joins the others as the latest of them.                      *)
LEMMA ReportKeeps == ASSUME TInv, ReportTap PROVE TInv'
<1>1. /\ hpc = 3 /\ hpc' = 0 /\ reports' = (IF int_stat THEN Append(reports, tap_stat) ELSE reports)
      /\ UNCHANGED <<adrv, source, status, taps, merged, tap_stat, int_stat, errors>>
  BY OrderOfReads DEF TInv, ReportTap
<1>2. TapTypes'
  BY <1>1 DEF TInv, TapTypes
<1>3. Faithful' = Faithful
  BY <1>1 DEF Faithful
<1>4. ASSUME Faithful PROVE Ordered' /\ Progress' /\ Balanced'
  <2>1. int_stat /\ reports' = Append(reports, tap_stat) /\ tap_stat \in 1..taps
        /\ (source => tap_stat < status)
    BY <1>1, <1>4 DEF TInv, Progress
  <2>2. Len(reports') = Len(reports) + 1 /\ reports'[Len(reports) + 1] = tap_stat
        /\ \A i \in 1..Len(reports) : reports'[i] = reports[i]
    BY <2>1 DEF TInv, TapTypes
  <2>3. Ordered'
    <3>1. SUFFICES ASSUME NEW i \in 1..Len(reports')
                   PROVE  /\ reports'[i] \in 1..taps /\ (i > 1 => reports'[i - 1] < reports'[i])
                          /\ source => reports'[i] < status
      BY <1>1 DEF Ordered
    <3>2. Len(reports) \in Nat
      BY DEF TInv, TapTypes
    <3>3. CASE i \in 1..Len(reports)
      <4>1. /\ reports[i] \in 1..taps /\ (i > 1 => reports[i - 1] < reports[i])
            /\ source => reports[i] < status
        BY <1>4, <3>3 DEF TInv, Ordered
      <4>2. reports'[i] = reports[i] /\ (i > 1 => reports'[i - 1] = reports[i - 1])
        BY <2>2, <3>2, <3>3
      <4>3. QED
        BY <4>1, <4>2
    <3>4. CASE i = Len(reports) + 1
      BY <1>1, <1>4, <2>1, <2>2, <3>2, <3>4 DEF TInv, Ordered
    <3>5. QED
      BY <2>2, <3>2, <3>3, <3>4
  <2>4. Progress' /\ Balanced'
    BY <1>1, <1>4, <2>2 DEF TInv, TapTypes, Progress, Balanced, InFlight
  <2>5. QED
    BY <2>3, <2>4
<1>5. QED
  BY <1>2, <1>3, <1>4 DEF TInv

(* For any number of taps, and however they come between the reads of the  *)
(* handler: none is reported twice, out of order or without having         *)
(* happened, and once the line is low all but the merged ones have been    *)
(* reported; with failures of the bus, too, in the driver that checks.     *)
THEOREM TapsOnce == TapSpec => []TapOnce
<1>1. TapInit => TInv
  <2>1. SUFFICES ASSUME TapInit PROVE TInv
    OBVIOUS
  <2>2. Len(reports) = 0 /\ hpc = 0 /\ source = FALSE /\ taps = 0 /\ merged = 0 /\ status = 0
    BY <2>1 DEF TapInit
  <2>3. TapTypes
    <3>1. source \in BOOLEAN /\ int_stat \in BOOLEAN
      BY <2>1, Zenon DEF TapInit
    <3>2. reports \in Seq(Nat) /\ adrv \in TapDrivers
      BY <2>1 DEF TapInit
    <3>3. status \in Nat /\ taps \in Nat /\ merged \in Nat /\ tap_stat \in Nat /\ hpc \in 0..3
      BY <2>1 DEF TapInit
    <3>4. QED
      BY <3>1, <3>2, <3>3 DEF TapTypes
  <2>4. Ordered /\ Progress /\ Balanced
    BY <2>2 DEF Ordered, Progress, Balanced, InFlight
  <2>5. QED
    BY <2>3, <2>4 DEF TInv
<1>2. TInv /\ [TapNext]_tapVars => TInv'
  <2>1. ASSUME TInv, UNCHANGED tapVars PROVE TInv'
    BY <2>1 DEF tapVars, TInv, TapTypes, Faithful, Ordered, Progress, Balanced, InFlight
  <2>2. ASSUME TInv, TapNext PROVE TInv'
    BY <2>2, TapKeeps, ReadKeeps, FailureKeeps, ReportKeeps DEF TapNext
  <2>3. QED
    BY <2>1, <2>2
<1>3. TInv => TapOnce
  <2>1. SUFFICES ASSUME TInv, Faithful PROVE
          /\ \A i \in DOMAIN reports : reports[i] \in 1..taps /\ (i > 1 => reports[i - 1] < reports[i])
          /\ (hpc = 0 /\ ~source) => Len(reports) = taps - merged
    BY DEF TapOnce, Faithful
  <2>2. DOMAIN reports = 1..Len(reports)
    BY <2>1 DEF TInv, TapTypes
  <2>3. Ordered /\ Balanced /\ Len(reports) \in Nat /\ merged \in Nat /\ taps \in Nat
    BY <2>1 DEF TInv, TapTypes
  <2>4. (hpc = 0 /\ ~source) => Len(reports) = taps - merged
    BY <2>3 DEF Balanced, InFlight
  <2>5. QED
    BY <2>2, <2>3, <2>4 DEF Ordered
<1>4. QED
  BY <1>1, <1>2, <1>3, PTL DEF TapSpec

-----------------------------------------------------------------------------
(*************************************************************************)
(* ThreadedIrqBH: any width of the counters, and any number of           *)
(* interrupts.                                                           *)
(*************************************************************************)
(* A whole number of periods more leaves the same remainder.             *)
LEMMA ModShift == ASSUME NEW M \in Nat \ {0}, NEW x \in Int, NEW k \in Int PROVE (x + (M * k)) % M = x % M
<1> DEFINE q == x \div M
           r == x % M
           p == (x + (M * k)) \div M
           s == (x + (M * k)) % M
<1>1. q \in Int /\ r \in 0..M - 1 /\ x = (M * q) + r
  OBVIOUS
<1>2. x + (M * k) \in Int
  OBVIOUS
<1>3. p \in Int /\ s \in 0..M - 1 /\ x + (M * k) = (M * p) + s
  BY <1>2
<1> HIDE DEF q, r, p, s
<1>4. s - r = M * ((q + k) - p) /\ (q + k) - p \in Int
  BY <1>1, <1>3
<1> DEFINE d == (q + k) - p
<1>5. s - r = M * d /\ d \in Int
  BY <1>4
<1> HIDE DEF d
<1>6. CASE d = 0
  BY <1>1, <1>3, <1>5, <1>6 DEF s, r
<1>7. CASE d >= 1
  <2>1. M * d >= M
    BY <1>7, <1>5
  <2>2. QED
    BY <2>1, <1>1, <1>3, <1>5
<1>8. CASE d <= -1
  <2>1. M * d <= -M
    BY <1>8, <1>5
  <2>2. QED
    BY <2>1, <1>1, <1>3, <1>5
<1>9. QED
  BY <1>5, <1>6, <1>7, <1>8

(* How many values an int has.                                           *)
Period == 2 * IntMax + 2

(* Wrapping adds a whole number of periods.                              *)
LEMMA WrapShifts == ASSUME NEW n \in Int
  PROVE  Wrap(n) \in Int /\ \E k \in Int : Wrap(n) = n + (Period * k)
<1> USE ThreadedIrqAssumption
<1> DEFINE x == n + IntMax + 1
           q == x \div Period
<1>1. Period \in Nat \ {0} /\ x \in Int
  BY DEF Period
<1>2. x % Period \in Int /\ q \in Int /\ x = (Period * q) + (x % Period)
  <2> HIDE DEF x
  <2> QED
    BY <1>1
<1>3. Wrap(n) = (x % Period) - IntMax - 1
  BY DEF Wrap, Period
<1>4. Wrap(n) = n - (Period * q)
  <2> DEFINE m == x % Period
             z == Period * q
  <2>1. x = z + m /\ m \in Int /\ z \in Int
    <3> HIDE DEF q
    <3> QED
      BY <1>1, <1>2
  <2>2. Wrap(n) = m - IntMax - 1
    BY <1>3
  <2> HIDE DEF m, z
  <2>3. Wrap(n) = n - z
    BY <2>1, <2>2
  <2>4. QED
    BY <2>3 DEF z
<1>5. -q \in Int /\ n - (Period * q) = n + (Period * (-q))
  <2> HIDE DEF q
  <2> QED
    BY <1>1, <1>2
<1>6. Wrap(n) \in Int
  BY <1>1, <1>2, <1>3
<1> HIDE DEF q, x
<1>7. QED
  BY <1>4, <1>5, <1>6

(* Counts a whole number of periods apart wrap to the same int.          *)
LEMMA WrapSame == ASSUME NEW n \in Int, NEW k \in Int PROVE Wrap(n + (Period * k)) = Wrap(n)
<1> USE ThreadedIrqAssumption
<1> DEFINE x == n + IntMax + 1
           z == Period * k
<1>1. Period \in Nat \ {0} /\ x \in Int /\ z \in Int
  BY DEF Period
<1>2. (x + z) % Period = x % Period
  <2> HIDE DEF x
  <2> QED
    BY <1>1, ModShift
<1> HIDE DEF z
<1>3. (n + z) + IntMax + 1 = x + z
  BY <1>1
<1>4. Wrap(n + z) = ((x + z) % Period) - IntMax - 1
  BY <1>3 DEF Wrap, Period
<1>5. Wrap(n) = (x % Period) - IntMax - 1
  BY DEF Wrap, Period
<1>6. QED
  BY <1>2, <1>4, <1>5 DEF z

(* Equal but for a whole number of periods.                              *)
Cong(a, b) == \E k \in Int : a = b + (Period * k)

(* A sum stays the same, but for periods, when one summand is wrapped.   *)
LEMMA CongWrap == ASSUME NEW a \in Int, NEW n \in Int, NEW b \in Int, Cong(a + n, b)
  PROVE  Cong(a + Wrap(n), b) /\ Wrap(n) \in Int
<1>1. PICK k \in Int : a + n = b + (Period * k)
  BY DEF Cong
<1>2. PICK j \in Int : Wrap(n) = n + (Period * j) /\ Wrap(n) \in Int
  BY WrapShifts
<1>3. Period \in Int
  BY ThreadedIrqAssumption DEF Period
<1>4. Period * (k + j) = (Period * k) + (Period * j) /\ k + j \in Int
  BY <1>3
<1> DEFINE y == Period * k
           z == Period * j
<1>5. y \in Int /\ z \in Int /\ a + n = b + y /\ Wrap(n) = n + z
  BY <1>1, <1>2, <1>3
<1> HIDE DEF y, z
<1>6. a + Wrap(n) = b + (y + z)
  <2> DEFINE w == Wrap(n)
  <2>1. w = n + z /\ w \in Int
    BY <1>2, <1>5
  <2> HIDE DEF w
  <2>2. a + w = b + (y + z)
    BY <2>1, <1>5
  <2>3. QED
    BY <2>2 DEF w
<1>7. a + Wrap(n) = b + (Period * (k + j))
  BY <1>4, <1>6 DEF y, z
<1>8. QED
  BY <1>2, <1>4, <1>7 DEF Cong

(* Both sides may be shifted.                                            *)
LEMMA CongShift == ASSUME NEW a \in Int, NEW b \in Int, NEW c \in Int, Cong(a, b) PROVE Cong(a + c, b + c)
<1>1. PICK k \in Int : a = b + (Period * k)
  BY DEF Cong
<1> DEFINE y == Period * k
<1>2. y \in Int /\ a = b + y
  BY <1>1, ThreadedIrqAssumption DEF Period
<1> HIDE DEF y
<1>3. a + c = (b + c) + y
  BY <1>2
<1>4. QED
  BY <1>3 DEF Cong, y

(* What the handler and the thread may hold.                             *)
Counters == counter_th \in Int /\ counter_bh \in Int /\ nevents \in Int
Counted == IF top = "counted" THEN 1 ELSE 0
(* The event that the thread has counted down and not yet counted.       *)
Passed  == IF thr = "dec" THEN 1 ELSE 0
(* The two counters differ by the events that wait, modulo the period:   *)
(* each of the handler's and the thread's steps keeps the balance, and   *)
(* wrapping changes it by whole periods only.                            *)
BInv == Counters /\ Cong(counter_bh + nevents + Counted, counter_th + Passed)

(* The handler counts before it wakes the thread.                        *)
LEMMA TopKeeps == ASSUME BInv, MyInit \/ MyExit \/ TopHalf PROVE BInv'
<1> DEFINE a == counter_bh + nevents + Counted
           b == counter_th + Passed
<1>1. Counters /\ Cong(a, b) /\ Counted \in Int /\ Passed \in Int /\ a \in Int /\ b \in Int
  BY DEF BInv, Counters, Counted, Passed
<1>2. CASE TopCount
  <2>1. Cong(a + 1, b + 1)
    <3> HIDE DEF a, b
    <3> QED
      BY <1>1, CongShift
  <2>2. Counters' /\ a' = a + 1 /\ b' = b + 1
    BY <1>1, <1>2 DEF TopCount, Counters, Counted, Passed
  <2>3. QED
    BY <2>1, <2>2 DEF BInv
<1>3. CASE TopPost
  <2>1. counter_bh + (nevents + 1) = a /\ nevents + 1 \in Int /\ counter_bh \in Int
    BY <1>1, <1>3 DEF TopPost, Counters, Counted
  <2>2. Cong(counter_bh + Wrap(nevents + 1), b) /\ Wrap(nevents + 1) \in Int
    <3> HIDE DEF a, b
    <3> QED
      BY <1>1, <2>1, CongWrap
  <2>3. Counters' /\ a' = counter_bh + Wrap(nevents + 1) /\ b' = b
    BY <1>1, <1>3, <2>2 DEF TopPost, Counters, Counted, Passed
  <2>4. QED
    BY <2>2, <2>3 DEF BInv
<1>4. CASE MyInit \/ MyExit \/ TopReturn
  BY <1>4 DEF BInv, Counters, Counted, Passed, MyInit, MyExit, TopReturn
<1>5. QED
  BY <1>2, <1>3, <1>4 DEF TopHalf

(* The thread takes each event away before it counts it.                 *)
LEMMA ThreadKeeps == ASSUME BInv, Thread PROVE BInv'
<1> DEFINE a == counter_bh + nevents + Counted
           b == counter_th + Passed
           c == nevents + Counted
<1>1. Counters /\ Cong(a, b) /\ Counted \in Int /\ Passed \in Int /\ a \in Int /\ b \in Int /\ c \in Int
  BY DEF BInv, Counters, Counted, Passed
<1>2. CASE ThreadRun
  BY <1>2 DEF BInv, Counters, Counted, Passed, ThreadRun
<1>3. CASE ThreadCount
  <2>1. c + (counter_bh + 1) = a + 1 /\ counter_bh + 1 \in Int
    BY <1>1 DEF Counters
  <2>2. Cong(a + 1, b + 1)
    <3> HIDE DEF a, b
    <3> QED
      BY <1>1, CongShift
  <2>3. Cong(c + Wrap(counter_bh + 1), b + 1) /\ Wrap(counter_bh + 1) \in Int
    <3> HIDE DEF a, b, c
    <3>1. b + 1 \in Int
      BY <1>1
    <3> QED
      BY <1>1, <2>1, <2>2, <3>1, CongWrap
  <2>4. Counters' /\ a' = c + Wrap(counter_bh + 1) /\ b' = b + 1
    BY <1>1, <1>3, <2>3 DEF ThreadCount, Counters, Counted, Passed
  <2>5. QED
    BY <2>3, <2>4 DEF BInv
<1>4. CASE ThreadDec
  <2> DEFINE d == counter_bh + Counted
  <2>1. d + (nevents - 1) = a + (-1) /\ nevents - 1 \in Int /\ d \in Int
    BY <1>1 DEF Counters
  <2>2. Cong(a + (-1), b + (-1))
    <3> HIDE DEF a, b
    <3> QED
      BY <1>1, CongShift
  <2>3. Cong(d + Wrap(nevents - 1), b + (-1)) /\ Wrap(nevents - 1) \in Int
    <3> HIDE DEF a, b, d
    <3>1. b + (-1) \in Int
      BY <1>1
    <3> QED
      BY <1>1, <2>1, <2>2, <3>1, CongWrap
  <2>4. Counters' /\ a' = d + Wrap(nevents - 1) /\ b' = b + (-1)
    <3>1. thr = "dec" /\ thr' # "dec" /\ top' = top
          /\ nevents' = Wrap(nevents - 1) /\ UNCHANGED <<counter_th, counter_bh>>
      BY <1>4 DEF ThreadDec
    <3>2. QED
      BY <3>1, <1>1, <2>3 DEF Counters, Counted, Passed
  <2>5. QED
    BY <2>3, <2>4 DEF BInv
<1>5. QED
  BY <1>2, <1>3, <1>4 DEF Thread

(* What the handler counted and the thread did not is what still waits,  *)
(* modulo the width of the counters, at every moment and however long    *)
(* the counters have been wrapping around (myirq_top, myirq_thread).     *)
THEOREM EventsBalance == Spec => []AccountingModulo
<1>1. Init => BInv
  <2> SUFFICES ASSUME Init PROVE BInv
    OBVIOUS
  <2>1. Period * 0 = 0
    BY ThreadedIrqAssumption DEF Period
  <2>2. Cong(0, 0)
    BY <2>1 DEF Cong
  <2>3. counter_bh + nevents + Counted = 0 /\ counter_th + Passed = 0
    BY DEF Init, Counted, Passed
  <2>4. QED
    BY <2>2, <2>3 DEF BInv, Counters, Init
<1>2. BInv /\ [Next]_vars => BInv'
  <2>1. ASSUME BInv, UNCHANGED vars PROVE BInv'
    BY <2>1 DEF vars, BInv, Counters, Counted, Passed
  <2>2. QED
    BY <2>1, TopKeeps, ThreadKeeps DEF Next
<1>3. BInv => AccountingModulo
  <2> SUFFICES ASSUME BInv PROVE AccountingModulo
    OBVIOUS
  <2>1. PICK k \in Int : counter_bh + nevents + Counted = (counter_th + Passed) + (Period * k)
    BY DEF BInv, Cong
  <2>2. counter_th + Passed \in Int
    BY DEF BInv, Counters, Passed
  <2>3. Wrap(counter_bh + nevents + Counted) = Wrap(counter_th + Passed)
    BY <2>1, <2>2, WrapSame
  <2>4. QED
    BY <2>3 DEF AccountingModulo, Counted, Passed
<1>4. QED
  BY <1>1, <1>2, <1>3, PTL DEF Spec

(* An event that waits has a thread that will run: the handler's wake-up *)
(* comes after its increment, and the thread leaves only when it has     *)
(* seen the counter at zero.                                             *)
THEOREM NoEventStranded == Spec => []NoStrandedEvent
<1>1. Init => NoStrandedEvent
  BY DEF Init, NoStrandedEvent
<1>2. NoStrandedEvent /\ [Next]_vars => NoStrandedEvent'
  BY DEF NoStrandedEvent, Next, vars, MyInit, MyExit, TopHalf, TopCount, TopPost, TopReturn,
         Thread, ThreadRun, ThreadCount, ThreadDec
<1>3. QED
  BY <1>1, <1>2, PTL DEF Spec

-----------------------------------------------------------------------------
(*************************************************************************)
(* EventReads: any number of processes, and interrupts that come faster  *)
(* than they are read.                                                   *)
(*************************************************************************)
(* s adds up f over the sets of processes: nothing over no process, and  *)
(* over one more its value more.                                         *)
Adds(s, f) == /\ s \in [SUBSET Fetchers -> Int] /\ s[{}] = 0
              /\ \A Q \in SUBSET Fetchers : \A q \in Q : s[Q] = f[q] + s[Q \ {q}]

(* Total, which takes the processes in some order, is what any such s    *)
(* gives: in a smallest set where the two differ, the process that Total *)
(* takes first could be left out.                                        *)
LEMMA TotalIs == ASSUME NEW f, NEW s, Adds(s, f) PROVE Total(f) = s[Fetchers]
<1> DEFINE Is(g) == g = [Q \in SUBSET Fetchers |-> IF Q = {} THEN 0
                           ELSE LET q == CHOOSE x \in Q : TRUE IN f[q] + g[Q \ {q}]]
           S == CHOOSE g : Is(g)
<1>1. Is(s)
  <2>1. \A Q \in SUBSET Fetchers : s[Q] = (IF Q = {} THEN 0
          ELSE LET q == CHOOSE x \in Q : TRUE IN f[q] + s[Q \ {q}])
    <3> SUFFICES ASSUME NEW Q \in SUBSET Fetchers, Q # {}
                 PROVE  s[Q] = f[CHOOSE x \in Q : TRUE] + s[Q \ {CHOOSE x \in Q : TRUE}]
      BY DEF Adds
    <3>1. (CHOOSE x \in Q : TRUE) \in Q
      OBVIOUS
    <3> QED BY <3>1 DEF Adds
  <2> QED BY <2>1 DEF Adds
<1>2. Is(S)
  BY <1>1
<1>3. Total(f) = S[Fetchers]
  BY DEF Total
<1>4. \A Q \in SUBSET Fetchers : S[Q] = (IF Q = {} THEN 0
          ELSE LET q == CHOOSE x \in Q : TRUE IN f[q] + S[Q \ {q}])
  <2> HIDE DEF S
  <2> QED BY <1>2
<1> HIDE DEF S, Is
<1> DEFINE T == {Q \in SUBSET Fetchers : S[Q] # s[Q]}
<1>5. T = {}
  <2> SUFFICES ASSUME T # {} PROVE FALSE
    OBVIOUS
  <2>1. IsWellFoundedOn(StrictSubsetOrdering(Fetchers), FiniteSubsetsOf(Fetchers))
    BY FS_StrictSubsetOrderingWellFounded
  <2>2. T \subseteq FiniteSubsetsOf(Fetchers)
    BY EventAssumption, FS_FiniteSubsetsOfFinite
  <2>3. PICK Q \in T : \A R \in T : <<R, Q>> \notin StrictSubsetOrdering(Fetchers)
    <3> HIDE DEF T
    <3> QED BY <2>1, <2>2, WFMin
  <2>4. Q \in SUBSET Fetchers /\ S[Q] # s[Q]
    OBVIOUS
  <2>5. Q # {}
    BY <2>4, <1>4 DEF Adds
  <2> DEFINE q == CHOOSE x \in Q : TRUE
  <2>6. q \in Q /\ S[Q] = f[q] + S[Q \ {q}]
    BY <2>4, <2>5, <1>4
  <2> HIDE DEF q
  <2>7. s[Q] = f[q] + s[Q \ {q}]
    BY <2>4, <2>6 DEF Adds
  <2>8. Q \ {q} \in T
    BY <2>4, <2>6, <2>7
  <2>9. <<Q \ {q}, Q>> \in StrictSubsetOrdering(Fetchers)
    BY <2>4, <2>6 DEF StrictSubsetOrdering
  <2> QED BY <2>3, <2>8, <2>9
<1> QED BY <1>3, <1>5

(* When one process's value changes, the total changes by as much.       *)
LEMMA AddsChange ==
  ASSUME NEW f \in [Fetchers -> Int], NEW s, Adds(s, f), NEW p \in Fetchers, NEW d \in Int,
         NEW g \in [Fetchers -> Int], g[p] = f[p] + d, \A q \in Fetchers \ {p} : g[q] = f[q]
  PROVE  \E t : Adds(t, g) /\ t[Fetchers] = s[Fetchers] + d
<1> DEFINE t == [Q \in SUBSET Fetchers |-> IF p \in Q THEN s[Q] + d ELSE s[Q]]
<1>1. t \in [SUBSET Fetchers -> Int] /\ t[{}] = 0
  BY DEF Adds
<1>2. ASSUME NEW Q \in SUBSET Fetchers, NEW q \in Q PROVE t[Q] = g[q] + t[Q \ {q}]
  <2>1. s[Q] = f[q] + s[Q \ {q}] /\ s[Q] \in Int /\ s[Q \ {q}] \in Int /\ f[q] \in Int
    BY DEF Adds
  <2>2. t[Q] = (IF p \in Q THEN s[Q] + d ELSE s[Q])
        /\ t[Q \ {q}] = (IF p \in Q \ {q} THEN s[Q \ {q}] + d ELSE s[Q \ {q}])
    OBVIOUS
  <2> HIDE DEF t
  <2>3. CASE p = q
    <3>1. g[q] = f[q] + d
      BY <2>3
    <3> QED BY <2>1, <2>2, <2>3, <3>1
  <2>4. CASE p # q
    <3>1. g[q] = f[q]
      BY <2>4
    <3> QED BY <2>1, <2>2, <2>4, <3>1
  <2> QED BY <2>3, <2>4
<1> QED BY <1>1, <1>2 DEF Adds
(* Where a read may be, and how many interrupts each carries to its      *)
(* process while it copies.                                              *)
ReadAt  == {"out", "test", "asleep", "fetch", "take", "copy", "clear"}
Copies  == [p \in Fetchers |-> IF epc[p] = "copy" THEN nev[p] ELSE 0]
(* Nobody is between the wait and the clearing of the count.             *)
NonePast == \A p \in Fetchers : ~Past(p)
EventTypes == /\ edrv \in AllEventDrivers /\ ready \in BOOLEAN /\ pending \in Int /\ ework \in BOOLEAN
              /\ epc \in [Fetchers -> ReadAt] /\ nev \in [Fetchers -> Int] /\ together \in BOOLEAN
              /\ raised \in Int /\ reported \in Int /\ lost \in Int /\ forgotten \in Int /\ fetches \in Int
              /\ ~ready => \A p \in Fetchers : epc[p] = "out"
              /\ ework => edrv.work
              /\ \A p \in Fetchers : epc[p] \in {"take", "copy"} => ~edrv.flag
              /\ \A p \in Fetchers : epc[p] = "clear" => edrv.flag
(* Reads one at a time: ... *)
Alone == ~together => \A p, q \in Fetchers : Past(p) /\ Past(q) => p = q
(* Where a driver counts, every interrupt has been reported, lost or     *)
(* forgotten, or is still to be: in the count, or on its way to a        *)
(* process. Without two reads past the wait, what a read will take away  *)
(* is still there.                                                       *)
Account == ~edrv.flag =>
  /\ \E s : Adds(s, Copies) /\ raised = pending + reported + lost + forgotten + s[Fetchers]
  /\ ~together =>
       /\ pending >= 0
       /\ \A p \in Fetchers : /\ epc[p] = "fetch" => pending > 0
                              /\ epc[p] = "take" => 0 < nev[p] /\ nev[p] <= pending
                              /\ epc[p] = "copy" => 0 < nev[p]
(* Where a driver has a flag, each read past the wait answers for an     *)
(* interrupt of its own.                                                 *)
Own == edrv.flag =>
  /\ pending \in {0, 1}
  /\ ~together => fetches + (IF ework THEN 1 ELSE 0) + (IF NonePast THEN pending ELSE 0) <= raised
(* A driver with a mutex has one read at a time.                         *)
Mutex == edrv.mutex => ~together /\ \A p \in Fetchers : epc[p] # "out" => lock = p
(* The inductive invariant.                                              *)
EInv == EventTypes /\ Alone /\ Account /\ Own /\ Mutex

(* open lets the interrupts come.                                        *)
LEMMA ReadyKeeps == ASSUME EInv, EventReady PROVE EInv'
<1>1. EventTypes' /\ Alone' /\ Mutex'
  BY DEF EInv, EventReady, EventTypes, Alone, Mutex, Past
<1>2. Account'
  <2>1. Copies' = Copies
    BY DEF EventReady, Copies
  <2> QED BY <2>1 DEF EInv, EventReady, EventTypes, Account
<1>3. Own'
  BY DEF EInv, EventReady, EventTypes, Own, NonePast, Past
<1> QED BY <1>1, <1>2, <1>3 DEF EInv

(* A wake-up moves sleepers to the test, and disturbs no count.          *)
LEMMA Wakes == ASSUME EventTypes, WakeSleepers, UNCHANGED nev
  PROVE /\ epc' \in [Fetchers -> ReadAt] /\ Copies' = Copies /\ NonePast' = NonePast
        /\ \A p \in Fetchers : /\ Past(p)' = Past(p) /\ (epc'[p] = "out") = (epc[p] = "out")
                               /\ epc'[p] # "test" => epc'[p] = epc[p]
<1>1. epc' \in [Fetchers -> ReadAt] 
  BY DEF EventTypes, WakeSleepers, ReadAt
<1>2. \A p \in Fetchers : epc'[p] = (IF epc[p] = "asleep" THEN "test" ELSE epc[p])
  BY DEF WakeSleepers
<1>3. \A p \in Fetchers : /\ Past(p)' = Past(p) /\ (epc'[p] = "out") = (epc[p] = "out")
                          /\ epc'[p] # "test" => epc'[p] = epc[p]
  BY <1>2 DEF Past
<1>4. Copies' = Copies
  BY <1>2 DEF Copies
<1> QED BY <1>1, <1>3, <1>4 DEF NonePast

(* An interrupt is counted before the sleepers are woken.                *)
LEMMA InterruptKeeps == ASSUME EInv, EventInterrupt PROVE EInv'
<1>1. CASE edrv.work
  <2>1. edrv.flag
    BY <1>1 DEF EInv, EventTypes, AllEventDrivers, uio_s20, trigger_1st, trigger_2nd
  <2>2. EventTypes' /\ Alone' /\ Mutex' /\ Account'
    BY <1>1, <2>1 DEF EInv, EventInterrupt, EventTypes, Alone, Mutex, Past, Account
  <2>3. Own'
    BY <1>1 DEF EInv, EventInterrupt, EventTypes, Own, NonePast, Past
  <2> QED BY <2>2, <2>3 DEF EInv
<1>2. CASE ~edrv.work
  <2>1. /\ pending' = (IF edrv.flag THEN 1 ELSE pending + 1) /\ WakeSleepers /\ raised' = raised + 1
        /\ UNCHANGED <<edrv, ready, ework, lock, nev, reported, lost, forgotten, fetches, together>>
    BY <1>2 DEF EventInterrupt, Signalled
  <2>2. EventTypes'
    BY <2>1, Wakes DEF EInv, EventTypes
  <2>3. Alone' /\ Mutex'
    BY <2>1, Wakes DEF EInv, Alone, Mutex
  <2>4. Account'
    <3>1. SUFFICES ASSUME ~edrv.flag PROVE Account'
      BY <2>1 DEF Account
    <3>2. PICK s : Adds(s, Copies) /\ raised = pending + reported + lost + forgotten + s[Fetchers]
      BY <3>1 DEF EInv, Account
    <3>3. pending' = pending + 1 /\ Copies' = Copies /\ s[Fetchers] \in Int
      BY <2>1, <3>1, <3>2, Wakes DEF EInv, Adds
    <3>4. Adds(s, Copies)' /\ raised' = pending' + reported' + lost' + forgotten' + s[Fetchers]
      BY <2>1, <3>2, <3>3 DEF Adds, EInv, EventTypes
    <3> QED BY <2>1, <3>1, <3>3, <3>4, Wakes DEF EInv, EventTypes, Account
  <2>5. Own'
    BY <2>1, <1>2, Wakes DEF EInv, EventTypes, Own
  <2> QED BY <2>2, <2>3, <2>4, <2>5 DEF EInv
<1> QED BY <1>1, <1>2

(* The trigger's work reports the conversion that it was queued for.     *)
LEMMA TriggerKeeps == ASSUME EInv, ADC_trigger_int PROVE EInv'
<1>1. edrv.flag /\ edrv.work
  BY DEF EInv, EventTypes, AllEventDrivers, uio_s20, trigger_1st, trigger_2nd, ADC_trigger_int
<1>2. /\ pending' = 1 /\ WakeSleepers /\ ework /\ ework' = FALSE
      /\ UNCHANGED <<edrv, ready, lock, nev, raised, reported, lost, forgotten, fetches, together>>
  BY <1>1 DEF ADC_trigger_int, Signalled, Histories, EInv, EventTypes
<1>3. EventTypes'
  <2>1. ework' \in BOOLEAN /\ ~ework'
    BY <1>2, Zenon
  <2>2. EventTypes /\ WakeSleepers /\ UNCHANGED nev
    BY <1>2 DEF EInv
  <2>3. pending' \in Int
    BY <1>2
  <2> QED BY <1>2, <2>1, <2>2, <2>3, Wakes DEF EventTypes
<1>4. Alone' /\ Mutex' /\ Account'
  BY <1>1, <1>2, Wakes DEF EInv, Alone, Mutex, Account
<1>5. Own'
  BY <1>2, Wakes DEF EInv, EventTypes, Own
<1> QED BY <1>3, <1>4, <1>5 DEF EInv

(* A step that neither begins nor ends a copy carries nothing.           *)
LEMMA StepsKeep ==
  ASSUME EventTypes, UNCHANGED nev, NEW p \in Fetchers, NEW from \in ReadAt \ {"copy"},
         NEW to \in ReadAt \ {"copy"}, Steps(p, from, to)
  PROVE  /\ epc' \in [Fetchers -> ReadAt] /\ Copies' = Copies /\ epc[p] = from /\ epc'[p] = to
         /\ \A q \in Fetchers \ {p} : epc'[q] = epc[q]
BY DEF EventTypes, Steps, Copies

(* A read that begins, and one that a signal ends.                       *)
LEMMA QuietKeeps ==
  ASSUME EInv, NEW p \in Fetchers, EventRead(p) \/ EventSignal(p)
  PROVE  EInv'
<1>1. \E from, to \in {"out", "test", "asleep"} :
        Steps(p, from, to) /\ (from # "out" \/ (ready /\ (edrv.mutex => LockFree /\ lock' = p)))
        /\ (from = "out" \/ lock' = lock)
  BY DEF EventRead, EventSignal
<1>2. PICK from, to \in {"out", "test", "asleep"} :
        Steps(p, from, to) /\ (from # "out" \/ (ready /\ (edrv.mutex => LockFree /\ lock' = p)))
        /\ (from = "out" \/ lock' = lock)
  BY <1>1
<1>3. UNCHANGED <<edrv, ready, pending, ework, nev, raised, reported, lost, forgotten, fetches, together>>
  BY DEF EventRead, EventSignal, Histories
<1>4. /\ epc' \in [Fetchers -> ReadAt] /\ Copies' = Copies /\ epc[p] = from /\ epc'[p] = to
      /\ \A q \in Fetchers \ {p} : epc'[q] = epc[q]
  BY <1>2, <1>3, StepsKeep DEF EInv, ReadAt
<1>5. \A q \in Fetchers : Past(q)' = Past(q)
  BY <1>4 DEF Past
<1>6. EventTypes'
  BY <1>2, <1>3, <1>4 DEF EInv, EventTypes
<1>7. Mutex'
  BY <1>2, <1>3, <1>4, EventAssumption DEF EInv, Mutex, LockFree
<1>8. Alone' /\ Own'
  BY <1>3, <1>5 DEF EInv, Alone, Own, NonePast
<1>9. Account'
  BY <1>3, <1>4 DEF EInv, Account
<1> QED BY <1>6, <1>7, <1>8, <1>9 DEF EInv

(* The test lets a read past the wait only when something waits.         *)
LEMMA TestKeeps == ASSUME EInv, NEW p \in Fetchers, EventTest(p) PROVE EInv'
<1>1. CASE pending > 0
  <2>1. /\ Steps(p, "test", "fetch") /\ fetches' = fetches + 1
        /\ together' = (together \/ \E q \in Fetchers \ {p} : Past(q))
        /\ UNCHANGED <<edrv, ready, pending, ework, lock, nev, raised, reported, lost, forgotten>>
    BY <1>1 DEF EventTest, Histories
  <2>2. /\ epc' \in [Fetchers -> ReadAt] /\ Copies' = Copies /\ epc[p] = "test" /\ epc'[p] = "fetch"
        /\ \A q \in Fetchers \ {p} : epc'[q] = epc[q]
    BY <2>1, StepsKeep DEF EInv, ReadAt
  <2>3. Past(p)' /\ ~Past(p) /\ \A q \in Fetchers \ {p} : Past(q)' = Past(q)
    BY <2>2 DEF Past
  <2>4. EventTypes'
    BY <2>1, <2>2 DEF EInv, EventTypes
  <2>5. Alone'
    BY <2>1, <2>3 DEF EInv, Alone
  <2>6. Mutex'
    <3>1. SUFFICES ASSUME edrv.mutex PROVE ~together' /\ \A q \in Fetchers : epc'[q] # "out" => lock' = q
      BY <2>1 DEF Mutex
    <3>2. ~together /\ lock = p /\ \A q \in Fetchers : epc[q] # "out" => lock = q
      BY <2>2, <3>1 DEF EInv, Mutex
    <3>3. \A q \in Fetchers \ {p} : ~Past(q)
      BY <3>2 DEF Past
    <3> QED BY <2>1, <2>2, <3>2, <3>3
  <2>7. Account'
    BY <1>1, <2>1, <2>2 DEF EInv, Account
  <2>8. Own'
    <3>1. SUFFICES ASSUME edrv.flag, ~together'
                   PROVE  fetches' + (IF ework' THEN 1 ELSE 0) + (IF NonePast' THEN pending' ELSE 0) <= raised'
      BY <2>1 DEF EInv, Own
    <3>2. ~together /\ NonePast /\ ~NonePast' /\ pending = 1
      <4>1. ~together /\ (\A q \in Fetchers \ {p} : ~Past(q))
        BY <2>1, <3>1
      <4>2. NonePast /\ ~NonePast'
        BY <4>1, <2>3 DEF NonePast
      <4>3. pending = 1
        BY <1>1, <3>1 DEF EInv, Own
      <4> QED BY <4>1, <4>2, <4>3
    <3>3. fetches + (IF ework THEN 1 ELSE 0) + 1 <= raised
      BY <3>1, <3>2 DEF EInv, Own
    <3> QED BY <2>1, <3>2, <3>3 DEF EInv, EventTypes
  <2> QED BY <2>4, <2>5, <2>6, <2>7, <2>8 DEF EInv
<1>2. CASE ~(pending > 0)
  <2>1. /\ Steps(p, "test", "asleep")
        /\ UNCHANGED <<edrv, ready, pending, ework, lock, nev, raised, reported, lost, forgotten, fetches>>
    BY <1>2 DEF EventTest
  <2>0. together' = together
    BY <1>2 DEF EventTest, EInv, EventTypes
  <2>2. /\ epc' \in [Fetchers -> ReadAt] /\ Copies' = Copies /\ epc[p] = "test" /\ epc'[p] = "asleep"
        /\ \A q \in Fetchers \ {p} : epc'[q] = epc[q]
    BY <2>1, StepsKeep DEF EInv, ReadAt
  <2>3. \A q \in Fetchers : Past(q)' = Past(q)
    BY <2>2 DEF Past
  <2>4. EventTypes'
    BY <2>0, <2>1, <2>2 DEF EInv, EventTypes
  <2>5. Alone' /\ Own' /\ Mutex'
    BY <2>0, <2>1, <2>2, <2>3 DEF EInv, Alone, Own, NonePast, Mutex
  <2>6. Account'
    BY <2>0, <2>1, <2>2 DEF EInv, Account
  <2> QED BY <2>4, <2>5, <2>6 DEF EInv
<1> QED BY <1>1, <1>2

(* The read notes the count.                                             *)
LEMMA FetchKeeps == ASSUME EInv, NEW p \in Fetchers, Fetch1(p) PROVE EInv'
<1>1. /\ epc[p] = "fetch" /\ epc' = [epc EXCEPT ![p] = IF edrv.flag THEN "clear" ELSE "take"]
      /\ nev' = [nev EXCEPT ![p] = pending]
      /\ UNCHANGED <<edrv, ready, pending, ework, lock, raised, reported, lost, forgotten, fetches, together>>
  BY DEF Fetch1, Steps, Histories
<1>2. /\ epc' \in [Fetchers -> ReadAt] /\ epc'[p] = (IF edrv.flag THEN "clear" ELSE "take")
      /\ \A q \in Fetchers \ {p} : epc'[q] = epc[q]
  BY <1>1 DEF EInv, EventTypes, ReadAt
<1>3. /\ nev' \in [Fetchers -> Int] /\ nev'[p] = pending /\ \A q \in Fetchers \ {p} : nev'[q] = nev[q]
  BY <1>1 DEF EInv, EventTypes
<1>4. \A q \in Fetchers : Past(q)' = Past(q)
  BY <1>1, <1>2 DEF Past
<1>5. Copies' = Copies
  BY <1>1, <1>2, <1>3 DEF Copies
<1>6. EventTypes'
  BY <1>1, <1>2, <1>3 DEF EInv, EventTypes
<1>7. Alone' /\ Own' /\ Mutex'
  BY <1>1, <1>2, <1>4 DEF EInv, Alone, Own, NonePast, Mutex
<1>8. Account'
  BY <1>1, <1>2, <1>3, <1>5 DEF EInv, EventTypes, Account
<1> QED BY <1>6, <1>7, <1>8 DEF EInv

(* A step that begins or ends a copy changes what is being carried by    *)
(* the read's own note.                                                  *)
LEMMA CopiesMove ==
  ASSUME EventTypes, UNCHANGED nev, NEW p \in Fetchers, NEW from \in ReadAt, NEW to \in ReadAt, Steps(p, from, to),
         NEW d \in Int, d = (IF to = "copy" THEN nev[p] ELSE 0) - (IF from = "copy" THEN nev[p] ELSE 0)
  PROVE  /\ epc' \in [Fetchers -> ReadAt] /\ epc[p] = from /\ epc'[p] = to
         /\ \A q \in Fetchers \ {p} : epc'[q] = epc[q]
         /\ Copies \in [Fetchers -> Int] /\ Copies' \in [Fetchers -> Int] /\ Copies'[p] = Copies[p] + d
         /\ \A q \in Fetchers \ {p} : Copies'[q] = Copies[q]
<1>1. /\ epc' \in [Fetchers -> ReadAt] /\ epc[p] = from /\ epc'[p] = to
      /\ \A q \in Fetchers \ {p} : epc'[q] = epc[q]
  BY DEF EventTypes, Steps
<1>2. Copies \in [Fetchers -> Int]
  BY DEF EventTypes, Copies
<1>3. Copies[p] = (IF from = "copy" THEN nev[p] ELSE 0) /\ nev[p] \in Int
  BY <1>1 DEF Copies, EventTypes
<1>4. Copies' \in [Fetchers -> Int] /\ Copies'[p] = (IF to = "copy" THEN nev[p] ELSE 0)
  BY <1>1 DEF Copies, EventTypes
<1>5. \A q \in Fetchers \ {p} : Copies'[q] = Copies[q]
  BY <1>1 DEF Copies
<1>6. Copies[p] + d = Copies'[p]
  BY <1>3, <1>4
<1> QED BY <1>1, <1>2, <1>4, <1>5, <1>6

(* What the read noted is taken off the count.                           *)
LEMMA TakeKeeps == ASSUME EInv, NEW p \in Fetchers, EventTake(p) PROVE EInv'
<1>1. /\ Steps(p, "take", "copy") /\ pending' = pending - nev[p]
      /\ UNCHANGED <<edrv, ready, ework, lock, nev, raised, reported, lost, forgotten, fetches, together>>
  BY DEF EventTake, Take
<1>2. nev[p] \in Int /\ nev[p] = (IF "copy" = "copy" THEN nev[p] ELSE 0) - (IF "take" = "copy" THEN nev[p] ELSE 0)
  BY DEF EInv, EventTypes
<1>3. /\ epc' \in [Fetchers -> ReadAt] /\ epc[p] = "take" /\ epc'[p] = "copy"
      /\ \A q \in Fetchers \ {p} : epc'[q] = epc[q]
      /\ Copies \in [Fetchers -> Int] /\ Copies' \in [Fetchers -> Int] /\ Copies'[p] = Copies[p] + nev[p]
      /\ \A q \in Fetchers \ {p} : Copies'[q] = Copies[q]
  BY <1>1, <1>2, CopiesMove DEF EInv, ReadAt
<1>4. ~edrv.flag
  BY <1>3 DEF EInv, EventTypes
<1>5. ~Past(p)' /\ Past(p) /\ \A q \in Fetchers \ {p} : Past(q)' = Past(q)
  BY <1>3 DEF Past
<1>6. EventTypes'
  BY <1>1, <1>2, <1>3, <1>4 DEF EInv, EventTypes
<1>7. Alone' /\ Own' /\ Mutex'
  BY <1>1, <1>3, <1>4, <1>5 DEF EInv, Alone, Own, Mutex
<1>8. Account'
  <2>1. PICK s : Adds(s, Copies) /\ raised = pending + reported + lost + forgotten + s[Fetchers]
    BY <1>4 DEF EInv, Account
  <2>2. PICK t : Adds(t, Copies') /\ t[Fetchers] = s[Fetchers] + nev[p]
    <3>1. PICK f, g : f = Copies /\ g = Copies'
      OBVIOUS
    <3>2. \E t : Adds(t, g) /\ t[Fetchers] = s[Fetchers] + nev[p]
      BY <1>2, <1>3, <2>1, <3>1, AddsChange
    <3> QED BY <3>1, <3>2
  <2>3. Adds(t, Copies)'
    BY <2>2 DEF Adds
  <2>4. s[Fetchers] \in Int
    BY <2>1 DEF Adds
  <2>5. raised' = pending' + reported' + lost' + forgotten' + t[Fetchers]
    BY <1>1, <1>2, <2>1, <2>2, <2>4 DEF EInv, EventTypes
  <2>6. ~together =>
       /\ pending' >= 0
       /\ \A q \in Fetchers : /\ epc'[q] = "fetch" => pending' > 0
                              /\ epc'[q] = "take" => 0 < nev[q] /\ nev[q] <= pending'
                              /\ epc'[q] = "copy" => 0 < nev[q]
    <3> SUFFICES ASSUME ~together PROVE
       /\ pending' >= 0
       /\ \A q \in Fetchers : /\ epc'[q] = "fetch" => pending' > 0
                              /\ epc'[q] = "take" => 0 < nev[q] /\ nev[q] <= pending'
                              /\ epc'[q] = "copy" => 0 < nev[q]
      OBVIOUS
    <3>1. 0 < nev[p] /\ nev[p] <= pending /\ pending \in Int
      BY <1>3, <1>4 DEF EInv, Account, EventTypes
    <3>2. \A q \in Fetchers \ {p} : epc'[q] \notin {"fetch", "take"} /\ (epc[q] = "copy" => 0 < nev[q])
      BY <1>3, <1>4, <1>5 DEF EInv, Alone, Past, Account
    <3> QED BY <1>1, <1>2, <1>3, <3>1, <3>2
  <2> QED BY <1>1, <2>3, <2>5, <2>6 DEF Account
<1> QED BY <1>6, <1>7, <1>8 DEF EInv

(* The copy reaches the process, or fails and is lost.                   *)
LEMMA CopyKeeps == ASSUME EInv, NEW p \in Fetchers, EventCopy(p) PROVE EInv'
<1>1. /\ Steps(p, "copy", "out") /\ reported' + lost' = reported + lost + nev[p]
      /\ reported' \in Int /\ lost' \in Int
      /\ UNCHANGED <<edrv, ready, pending, ework, lock, nev, raised, forgotten, fetches, together>>
  BY DEF EventCopy, EInv, EventTypes
<1>2. nev[p] \in Int /\ 0 - nev[p] = (IF "out" = "copy" THEN nev[p] ELSE 0) - (IF "copy" = "copy" THEN nev[p] ELSE 0)
  BY DEF EInv, EventTypes
<1>3. /\ epc' \in [Fetchers -> ReadAt] /\ epc[p] = "copy" /\ epc'[p] = "out"
      /\ \A q \in Fetchers \ {p} : epc'[q] = epc[q]
      /\ Copies \in [Fetchers -> Int] /\ Copies' \in [Fetchers -> Int] /\ Copies'[p] = Copies[p] + (0 - nev[p])
      /\ \A q \in Fetchers \ {p} : Copies'[q] = Copies[q]
  BY <1>1, <1>2, CopiesMove DEF EInv, ReadAt
<1>4. ~edrv.flag
  BY <1>3 DEF EInv, EventTypes
<1>5. \A q \in Fetchers : Past(q)' = Past(q)
  BY <1>3 DEF Past
<1>6. EventTypes'
  BY <1>1, <1>2, <1>3, <1>4 DEF EInv, EventTypes
<1>7. Alone' /\ Own' /\ Mutex'
  BY <1>1, <1>3, <1>4, <1>5 DEF EInv, Alone, Own, Mutex
<1>8. Account'
  <2>1. PICK s : Adds(s, Copies) /\ raised = pending + reported + lost + forgotten + s[Fetchers]
    BY <1>4 DEF EInv, Account
  <2>2. PICK t : Adds(t, Copies') /\ t[Fetchers] = s[Fetchers] + (0 - nev[p])
    <3>1. 0 - nev[p] \in Int
      BY <1>2
    <3>2. PICK f, g : f = Copies /\ g = Copies'
      OBVIOUS
    <3>3. \E t : Adds(t, g) /\ t[Fetchers] = s[Fetchers] + (0 - nev[p])
      BY <1>3, <2>1, <3>1, <3>2, AddsChange
    <3> QED BY <3>2, <3>3
  <2>3. Adds(t, Copies)'
    BY <2>2 DEF Adds
  <2>4. s[Fetchers] \in Int
    BY <2>1 DEF Adds
  <2>5. raised' = pending' + reported' + lost' + forgotten' + t[Fetchers]
    BY <1>1, <1>2, <2>1, <2>2, <2>4 DEF EInv, EventTypes
  <2>6. ~together =>
       /\ pending' >= 0
       /\ \A q \in Fetchers : /\ epc'[q] = "fetch" => pending' > 0
                              /\ epc'[q] = "take" => 0 < nev[q] /\ nev[q] <= pending'
                              /\ epc'[q] = "copy" => 0 < nev[q]
    BY <1>1, <1>3, <1>4 DEF EInv, Account
  <2> QED BY <1>1, <2>3, <2>5, <2>6 DEF Account
<1> QED BY <1>6, <1>7, <1>8 DEF EInv

(* The flag is cleared, whoever has set it since.                        *)
LEMMA EventClearKeeps == ASSUME EInv, NEW p \in Fetchers, EventClear(p) PROVE EInv'
<1>1. /\ Steps(p, "clear", "out") /\ pending' = 0 /\ lock' = (IF edrv.mutex THEN "free" ELSE lock)
      /\ UNCHANGED <<edrv, ready, ework, nev, raised, reported, lost, forgotten, fetches, together>>
  BY DEF EventClear, Histories
<1>2. /\ epc' \in [Fetchers -> ReadAt] /\ Copies' = Copies /\ epc[p] = "clear" /\ epc'[p] = "out"
      /\ \A q \in Fetchers \ {p} : epc'[q] = epc[q]
  BY <1>1, StepsKeep DEF EInv, ReadAt
<1>3. edrv.flag
  BY <1>2 DEF EInv, EventTypes
<1>4. Past(p) /\ ~Past(p)' /\ \A q \in Fetchers \ {p} : Past(q)' = Past(q)
  BY <1>2 DEF Past
<1>5. EventTypes'
  BY <1>1, <1>2 DEF EInv, EventTypes
<1>6. Alone' /\ Account'
  BY <1>1, <1>3, <1>4 DEF EInv, Alone, Account
<1>7. Mutex'
  BY <1>1, <1>2 DEF EInv, Mutex
<1>8. Own'
  BY <1>1, <1>4 DEF EInv, EventTypes, Own, NonePast
<1> QED BY <1>5, <1>6, <1>7, <1>8 DEF EInv

(* Nothing is counted before the device is open.                         *)
LEMMA EventsInitially == EventInit => EInv
<1> SUFFICES ASSUME EventInit PROVE EInv
  OBVIOUS
<1>1. EventTypes
  <2>1. epc \in [Fetchers -> ReadAt] /\ nev \in [Fetchers -> Int]
    BY DEF EventInit, ReadAt
  <2>2. edrv \in AllEventDrivers
    BY EventAssumption DEF EventInit
  <2>3. \A p \in Fetchers : epc[p] = "out"
    BY DEF EventInit
  <2>4. ready \in BOOLEAN /\ ework \in BOOLEAN /\ together \in BOOLEAN /\ ~ework
    BY Zenon DEF EventInit
  <2>5. pending \in Int /\ raised \in Int /\ reported \in Int /\ lost \in Int /\ forgotten \in Int /\ fetches \in Int
    BY DEF EventInit
  <2> QED BY <2>1, <2>2, <2>3, <2>4, <2>5 DEF EventTypes
<1>3. Alone /\ Own /\ Mutex
  BY DEF EventInit, Alone, Own, Mutex, Past
<1>2. Account
  <2> DEFINE s == [Q \in SUBSET Fetchers |-> 0]
  <2>1. Adds(s, Copies) /\ s[Fetchers] = 0
    BY DEF Adds, Copies, EventInit
  <2> HIDE DEF s
  <2> QED BY <2>1 DEF Account, EventInit
<1> QED BY <1>1, <1>2, <1>3 DEF EInv

(* Every step keeps the invariant.                                      *)
LEMMA EStep == ASSUME EInv, [EventNext]_eventVars PROVE EInv'
<1>1. CASE UNCHANGED eventVars
  <2>1. Copies' = Copies
    BY <1>1 DEF Copies, eventVars
  <2>2. Account'
    BY <2>1, <1>1 DEF EInv, Account, eventVars
  <2> QED BY <2>2, <1>1 DEF EInv, EventTypes, Alone, Own, Mutex, Past, NonePast, eventVars
<1> QED BY <1>1, ReadyKeeps, InterruptKeeps, TriggerKeeps, QuietKeeps, TestKeeps, FetchKeeps,
           TakeKeeps, CopyKeeps, EventClearKeeps DEF EventNext

(* Every interrupt that was counted is reported, lost with a copy that   *)
(* failed, forgotten when a count was overwritten, or still to be read;  *)
(* and unless two reads are past the wait together no count is negative, *)
(* and each read of a converter has an interrupt of its own (lab7_uio.c, *)
(* the converters with a trigger).                                       *)
THEOREM InterruptsAccountedFor == EventSpec => []EventsAccounted
<1>1. EInv /\ [EventNext]_eventVars => EInv'
  BY EStep
<1>2. EInv => EventsAccounted
  <2> SUFFICES ASSUME EInv PROVE EventsAccounted
    OBVIOUS
  <2>1. ASSUME ~edrv.flag PROVE raised = pending + reported + lost + forgotten + Total(Copies)
    BY <2>1, TotalIs DEF EInv, Account
  <2>2. ~edrv.flag /\ ~together => pending >= 0 /\ \A p \in Fetchers : epc[p] \in {"take", "copy"} => nev[p] > 0
    BY DEF EInv, Account, EventTypes
  <2>3. edrv.flag /\ ~together => fetches <= raised
    BY DEF EInv, Own, EventTypes
  <2>4. edrv.mutex => ~together /\ \A p \in Fetchers : epc[p] # "out" => lock = p
    BY DEF EInv, Mutex
  <2> QED BY <2>1, <2>2, <2>3, <2>4 DEF EventsAccounted, Copies
<1> QED BY <1>1, <1>2, EventsInitially, PTL DEF EventSpec

(* Unless two reads of a counting driver subtract the same count, nobody *)
(* sleeps beside an event: the handler and the work wake after they have *)
(* counted or set the flag, and a read only takes away.                  *)
SleepsOnNone == edrv.flag \/ ~together => \A p \in Fetchers : epc[p] = "asleep" => pending <= 0

LEMMA SleepsOnNoneStep == ASSUME EInv, SleepsOnNone, [EventNext]_eventVars PROVE SleepsOnNone'
<1> USE DEF SleepsOnNone
<1>1. CASE UNCHANGED eventVars \/ EventReady
  BY <1>1 DEF eventVars, EventReady
<1>2. CASE EventInterrupt \/ ADC_trigger_int
  <2>1. epc \in [Fetchers -> ReadAt] /\ UNCHANGED <<edrv, together>>
    BY <1>2 DEF EInv, EventTypes, EventInterrupt, ADC_trigger_int, Histories
  <2>2. UNCHANGED <<pending, epc>> \/ WakeSleepers
    BY <1>2 DEF EventInterrupt, ADC_trigger_int, Signalled
  <2> QED BY <2>1, <2>2 DEF WakeSleepers
<1>3. ASSUME NEW p \in Fetchers, EventRead(p) \/ EventSignal(p) \/ Fetch1(p) PROVE SleepsOnNone'
  <2>1. epc \in [Fetchers -> ReadAt] /\ UNCHANGED <<edrv, together, pending>>
    BY <1>3 DEF EInv, EventTypes, EventRead, EventSignal, Fetch1, Histories
  <2>2. \A q \in Fetchers : epc'[q] = "asleep" => epc[q] = "asleep"
    BY <1>3, <2>1 DEF EventRead, EventSignal, Fetch1, Steps
  <2> QED BY <2>1, <2>2
<1>4. ASSUME NEW p \in Fetchers, EventTest(p) PROVE SleepsOnNone'
  <2>1. epc \in [Fetchers -> ReadAt] /\ UNCHANGED <<edrv, pending>> /\ (together => together')
    BY <1>4 DEF EInv, EventTypes, EventTest
  <2>2. pending \in Int /\ \A q \in Fetchers : epc'[q] = "asleep" => epc[q] = "asleep" \/ ~(pending > 0)
    BY <1>4, <2>1 DEF EventTest, Steps, EInv, EventTypes
  <2> QED BY <2>1, <2>2
<1>5. ASSUME NEW p \in Fetchers, EventTake(p) PROVE SleepsOnNone'
  <2>1. epc \in [Fetchers -> ReadAt] /\ UNCHANGED <<edrv, together>> /\ pending' = pending - nev[p] /\ epc[p] = "take"
    BY <1>5 DEF EInv, EventTypes, EventTake, Take, Steps
  <2>2. \A q \in Fetchers : epc'[q] = "asleep" => epc[q] = "asleep"
    BY <1>5, <2>1 DEF EventTake, Steps
  <2>3. ~edrv.flag /\ pending \in Int /\ nev[p] \in Int
    BY <2>1 DEF EInv, EventTypes
  <2>4. ~together => 0 < nev[p]
    BY <2>1, <2>3 DEF EInv, Account
  <2> QED BY <2>1, <2>2, <2>3, <2>4
<1>6. ASSUME NEW p \in Fetchers, EventCopy(p) \/ EventClear(p) PROVE SleepsOnNone'
  <2>1. epc \in [Fetchers -> ReadAt] /\ UNCHANGED <<edrv, together>> /\ (pending' = pending \/ pending' = 0)
    BY <1>6 DEF EInv, EventTypes, EventCopy, EventClear, Histories
  <2>2. \A q \in Fetchers : epc'[q] = "asleep" => epc[q] = "asleep"
    BY <1>6, <2>1 DEF EventCopy, EventClear, Steps
  <2> QED BY <2>1, <2>2
<1> QED BY <1>1, <1>2, <1>3, <1>4, <1>5, <1>6 DEF EventNext

(* For any number of processes, signals and interrupts: no process sleeps *)
(* beside an event, as long as no two reads of lab7_uio.c subtract the    *)
(* same count.                                                            *)
THEOREM EventWakesReader == EventSpec => []SleepsOnNone
<1>1. EventInit => SleepsOnNone
  BY DEF EventInit, SleepsOnNone
<1>2. EInv /\ SleepsOnNone /\ [EventNext]_eventVars => EInv' /\ SleepsOnNone'
  BY EStep, SleepsOnNoneStep
<1> QED BY <1>1, <1>2, EventsInitially, PTL DEF EventSpec

(* What the converters promise is what EventDelivery says of the bottom  *)
(* halves, without its liveness.                                         *)
EventED == INSTANCE EventDelivery WITH raised <- raised, handled <- fetches, open <- TRUE

(* A converter's reads, one past the wait at a time.                     *)
OneByOne == edrv.mutex \/ (edrv.flag /\ ~together)

(* A sum bounds what is added to.                                        *)
LEMMA LessWithout ==
  ASSUME NEW f \in Int, NEW m \in Int, NEW a \in Nat, NEW b \in Nat, f + a + b <= m
  PROVE  f <= m
OBVIOUS

(* A step of the handler, the work and the reads.                        *)
LEMMA EventMaps == ASSUME EInv, EInv', OneByOne', [EventNext]_eventVars PROVE [EventED!ENext]_(EventED!evars)
<1>1. CASE UNCHANGED eventVars \/ EventReady \/ ADC_trigger_int
  BY <1>1 DEF eventVars, EventReady, ADC_trigger_int, Histories, EventED!evars
<1>2. CASE EventInterrupt
  BY <1>2 DEF EventInterrupt, EventED!ENext, EventED!Raise
<1>3. ASSUME NEW p \in Fetchers, EventTest(p) PROVE [EventED!ENext]_(EventED!evars)
  <2>1. CASE pending > 0
    <3>1. fetches' = fetches + 1 /\ raised' = raised /\ edrv' = edrv
      BY <1>3, <2>1 DEF EventTest
    <3>2. edrv'.flag /\ ~together'
      BY DEF OneByOne, EInv, EventTypes, Mutex, AllEventDrivers, uio_s20, trigger_1st, trigger_2nd
    <3>3. fetches' <= raised'
      <4>1. PICK f, m \in Int : f = fetches' /\ m = raised'
        BY DEF EInv, EventTypes
      <4>2. PICK w, n \in Nat : f + w + n <= m
        BY <3>2, <4>1 DEF EInv, Own
      <4>3. f <= m
        BY <4>2, LessWithout
      <4> QED BY <4>1, <4>3
    <3> QED BY <3>1, <3>3 DEF EventED!ENext, EventED!Handle, EInv, EventTypes
  <2>2. CASE ~(pending > 0)
    BY <1>3, <2>2 DEF EventTest, EventED!evars
  <2> QED BY <2>1, <2>2
<1>4. ASSUME NEW p \in Fetchers, EventRead(p) \/ EventSignal(p) \/ Fetch1(p) \/ EventTake(p) \/ EventCopy(p)
                                 \/ EventClear(p)
      PROVE  [EventED!ENext]_(EventED!evars)
  BY <1>4 DEF EventRead, EventSignal, Fetch1, EventTake, EventCopy, EventClear, Histories, EventED!evars
<1> QED BY <1>1, <1>2, <1>3, <1>4 DEF EventNext

(* For any number of processes, signals and interrupts: as long as no two *)
(* reads are past the wait together, which the mutex of the second        *)
(* edition's converter ensures, each read that gets past the wait has an  *)
(* interrupt of its own, taken before it.                                 *)
THEOREM ConversionsDelivered == EventSpec /\ []OneByOne => EventED!ESafety
<1>1. EventInit => EventED!EInit
  BY DEF EventInit, EventED!EInit
<1>2. EInv /\ [EventNext]_eventVars => EInv'
  BY EStep
<1>3. EInv /\ EInv' /\ OneByOne' /\ [EventNext]_eventVars => [EventED!ENext]_(EventED!evars)
  BY EventMaps
<1> QED BY <1>1, <1>2, <1>3, EventsInitially, PTL DEF EventSpec, EventED!ESafety

-----------------------------------------------------------------------------
(*************************************************************************)
(* DmaCopy: any number of processes and of writes.                       *)
(*************************************************************************)
(* What the six drivers have in common.                                  *)
LEMMA DmaDriver == ASSUME ddrv \in AllDmaDrivers
  PROVE  /\ ddrv.fills \in BOOLEAN /\ ddrv.checks \in BOOLEAN /\ ddrv.rounds \in {1, 2}
         /\ ddrv.buffers \in {"module", "call", "release"}
         /\ ddrv.init = "open" => ddrv.buffers = "release"
         /\ ddrv.buffers = "call" => ~ddrv.fills
         /\ ddrv.compares = "before" => ddrv.fills
<1>1. CASE ddrv = m2m_1st
  BY <1>1 DEF m2m_1st
<1>2. CASE ddrv = m2m_2nd
  BY <1>2 DEF m2m_1st, m2m_2nd
<1>3. CASE ddrv = sg_1st
  BY <1>3 DEF m2m_1st, sg_1st
<1>4. CASE ddrv = mmap_1st
  BY <1>4 DEF m2m_1st, mmap_1st
<1>5. CASE ddrv = mmap_2nd
  BY <1>5 DEF m2m_1st, mmap_1st, mmap_2nd
<1>6. CASE ddrv = single_ch12
  BY <1>6 DEF m2m_1st, single_ch12
<1>7. QED
  BY <1>1, <1>2, <1>3, <1>4, <1>5, <1>6 DEF AllDmaDrivers

(* Where a call may be.                                                  *)
At == {"out", "fill", "ready", "test", "waiting", "past", "lost"}
DmaTypes ==
  /\ ddrv \in AllDmaDrivers /\ dopen \subseteq Copiers /\ buffers \in BOOLEAN /\ done \in Nat
  /\ chan \in Seq([last : BOOLEAN]) /\ callback \in [at : {"none", "complete", "compare"}, last : BOOLEAN]
  /\ dcall \in [Copiers -> [at : At, id : Nat, round : Nat]] /\ crossed \in BOOLEAN
  /\ copies \in Nat /\ wrong \subseteq {"verdict", "freed"}

(* The callback that runs will still signal the completion.              *)
WillComplete == callback.at = "complete" \/ (callback.at = "compare" /\ ddrv.compares = "before")
(* The signals that a waiting call may count on: transfers that are on   *)
(* their way, callbacks that have not signalled, and the completion      *)
(* itself.                                                               *)
Coming == Len(chan) + (IF WillComplete THEN 1 ELSE 0) + done

(* Unless calls have crossed there is one at a time, of an open file.    *)
OneCall == /\ \A p, q \in Copiers : Copying(p) /\ Copying(q) => p = q
           /\ \A p \in Copiers : Copying(p) => p \in dopen
           /\ \A p \in Copiers : dcall[p].at # "lost"
(* A call that waits, or is about to, has exactly one signal coming; no  *)
(* signal is left over for the next one.                                 *)
Awaited == IF \E p \in Copiers : dcall[p].at \in {"test", "waiting"} THEN Coming = 1 ELSE Coming = 0
(* The buffers hold what the call in progress has put there.             *)
Texts == ddrv.fills => \A p \in Copiers :
           /\ dcall[p].at \in {"ready", "test", "waiting", "past"} => wbuf = dcall[p].id
           /\ dcall[p].at = "past" => rbuf = dcall[p].id
           /\ dcall[p].at \in {"test", "waiting"} /\ chan = << >> => rbuf = dcall[p].id
(* The buffers are there for as long as a file that uses them is open.   *)
Memory == /\ ddrv.buffers = "module" => buffers
          /\ ddrv.buffers = "release" => /\ dopen # {} => buffers
                                         /\ \A p, q \in dopen : p = q
          /\ ddrv.buffers # "call" => "freed" \notin wrong
          /\ ddrv.compares = "before" => "verdict" \notin wrong
(* The inductive invariant.                                              *)
DmaInv == DmaTypes /\ (~crossed => OneCall /\ Awaited /\ Texts /\ Memory)

(* The lengths and counts are natural numbers.                           *)
LEMMA Counts == ASSUME DmaTypes
  PROVE Len(chan) \in Nat /\ Coming \in Nat /\ done \in Nat /\ (chan = << >> <=> Len(chan) = 0)
<1>1. Len(chan) \in Nat /\ (chan = << >> <=> Len(chan) = 0) /\ done \in Nat
  BY DEF DmaTypes
<1>2. QED
  BY <1>1 DEF Coming

(* Where no call waits, none is abandoned.                               *)
LEMMA Quiet == ASSUME DmaTypes, \A p \in Copiers : dcall[p].at # "waiting" PROVE Abandon(dcall) = dcall
BY DEF DmaTypes, Abandon

(* A step of one call leaves the others where they are.                  *)
LEMMA Moved ==
  ASSUME DmaTypes, NEW p \in Copiers, NEW to \in At, dcall' = [dcall EXCEPT ![p].at = to]
  PROVE  /\ dcall' \in [Copiers -> [at : At, id : Nat, round : Nat]]
         /\ dcall'[p].at = to /\ dcall'[p].id = dcall[p].id /\ dcall'[p].round = dcall[p].round
         /\ \A q \in Copiers \ {p} : dcall'[q] = dcall[q]
BY DEF DmaTypes

(* As long as there is one call, the others are out.                     *)
LEMMA OneMoves ==
  ASSUME DmaTypes, OneCall, NEW p \in Copiers, Copying(p), dopen' = dopen,
         dcall'[p].at # "lost", \A q \in Copiers \ {p} : dcall'[q] = dcall[q]
  PROVE  OneCall' /\ \A q \in Copiers \ {p} : dcall[q].at = "out" /\ dcall'[q].at = "out"
BY DEF OneCall, Copying

(* Opening a file sets up what the driver sets up then.                  *)
LEMMA OpenKeeps == ASSUME DmaInv, NEW p \in Copiers, DmaOpen(p) PROVE DmaInv'
<1>1. ddrv' = ddrv /\ (crossed => crossed') /\ DmaTypes /\ UNCHANGED <<wbuf, rbuf, chan, callback, wrong>>
  BY DEF DmaOpen, DmaInv
<1>2. dcall' \in [Copiers -> [at : At, id : Nat, round : Nat]]
  BY <1>1 DEF DmaTypes, DmaOpen, Abandon, At
<1>3. DmaTypes'
  BY <1>1, <1>2 DEF DmaTypes, DmaOpen
<1>4. ASSUME ~crossed' PROVE OneCall' /\ Awaited' /\ Texts' /\ Memory'
  <2>1. /\ OneCall /\ Awaited /\ Texts /\ Memory /\ (ddrv.buffers # "module" => dopen = {})
        /\ dopen' = dopen \cup {p} /\ buffers'
    BY <1>1, <1>4 DEF DmaInv, DmaOpen
  <2>2. dcall' = dcall /\ done' = done
    <3>1. CASE ddrv.init = "open"
      <4>1. \A q \in Copiers : dcall[q].at = "out"
        BY <2>1, <3>1, <1>1, DmaDriver DEF DmaTypes, OneCall, Copying
      <4>2. done = 0
        BY <4>1, <2>1, <1>1, Counts DEF Awaited, Coming
      <4>3. dcall' = dcall
        BY <4>1, <3>1, <1>1, Quiet DEF DmaOpen
      <4>4. QED
        BY <4>2, <4>3, <3>1 DEF DmaOpen
    <3>2. CASE ddrv.init # "open"
      BY <3>2 DEF DmaOpen
    <3>3. QED
      BY <3>1, <3>2
  <2>3. Awaited' /\ Texts'
    BY <1>1, <2>1, <2>2 DEF Awaited, Coming, WillComplete, Texts
  <2>4. OneCall'
    BY <2>1, <2>2 DEF OneCall, Copying
  <2>5. Memory'
    BY <1>1, <2>1 DEF Memory
  <2>6. QED
    BY <2>3, <2>4, <2>5
<1>5. QED
  BY <1>3, <1>4 DEF DmaInv

(* The last file that is closed takes its buffers along.                 *)
LEMMA ReleaseKeeps == ASSUME DmaInv, NEW p \in Copiers, DmaRelease(p) PROVE DmaInv'
<1>1. /\ DmaTypes /\ p \in dopen /\ dcall[p].at = "out" /\ dopen' = dopen \ {p}
      /\ UNCHANGED <<ddrv, wbuf, rbuf, done, chan, callback, dcall, copies, crossed>>
      /\ IF ddrv.buffers = "release" THEN wrong' = (IF buffers THEN wrong ELSE wrong \cup {"freed"}) /\ buffers' = FALSE
         ELSE UNCHANGED <<wrong, buffers>>
  BY DEF DmaInv, DmaRelease, Touch, Copying
<1>2. DmaTypes'
  BY <1>1 DEF DmaTypes
<1>3. ASSUME ~crossed' PROVE OneCall' /\ Awaited' /\ Texts' /\ Memory'
  <2>1. OneCall /\ Awaited /\ Texts /\ Memory
    BY <1>1, <1>3 DEF DmaInv
  <2>2. OneCall'
    BY <1>1, <2>1 DEF OneCall, Copying
  <2>3. Awaited' /\ Texts'
    BY <1>1, <2>1 DEF Awaited, Coming, WillComplete, Texts
  <2>4. Memory'
    BY <1>1, <2>1 DEF Memory
  <2>5. QED
    BY <2>2, <2>3, <2>4
<1>4. QED
  BY <1>2, <1>3 DEF DmaInv

(* What does not touch calls, channel or callback keeps the signals.     *)
LEMMA StoresKeep == ASSUME DmaInv, NEW p \in Copiers, UserStores(p) PROVE DmaInv'
<1>1. DmaTypes /\ ~ddrv.fills
      /\ UNCHANGED <<ddrv, dopen, buffers, rbuf, done, chan, callback, dcall, copies, crossed, wrong>>
  BY DEF DmaInv, UserStores
<1>2. QED
  BY <1>1 DEF DmaInv, DmaTypes, OneCall, Copying, Awaited, Coming, WillComplete, Texts, Memory

(* A write begins.                                                       *)
LEMMA CallKeeps == ASSUME DmaInv, NEW p \in Copiers, DmaCall(p) PROVE DmaInv'
<1> DEFINE calls == [dcall EXCEPT ![p] = [at |-> "fill", id |-> copies + 1, round |-> 1]]
<1>1. /\ DmaTypes /\ p \in dopen /\ copies' = copies + 1 /\ (crossed => crossed') /\ dcall[p].at = "out"
      /\ dcall' = (IF ddrv.init = "first" THEN Abandon(calls) ELSE calls)
      /\ done' = (IF ddrv.init = "first" THEN 0 ELSE done)
      /\ UNCHANGED <<ddrv, dopen, buffers, wbuf, rbuf, chan, callback, wrong>>
      /\ crossed' \in BOOLEAN
      /\ ~crossed' => \A q \in Copiers \ {p} : dcall[q].at = "out"
  <2>1. DmaTypes
    BY DEF DmaInv
  <2>2. copies' = copies + 1 /\ dcall' = (IF ddrv.init = "first" THEN Abandon(calls) ELSE calls)
    BY DEF DmaCall
  <2>3. crossed' = (crossed \/ \E q \in Copiers \ {p} : dcall[q].at # "out")
    BY DEF DmaCall, Copying
  <2>4. crossed' \in BOOLEAN /\ (crossed => crossed') /\ (~crossed' => \A q \in Copiers \ {p} : dcall[q].at = "out")
    BY <2>3, <2>1 DEF DmaTypes
  <2>5. QED
    BY <2>1, <2>2, <2>4 DEF DmaCall, Copying
<1>2. calls \in [Copiers -> [at : At, id : Nat, round : Nat]]
  BY <1>1 DEF DmaTypes, At
<1>3. Abandon(calls) \in [Copiers -> [at : At, id : Nat, round : Nat]]
  <2> HIDE DEF calls
  <2> QED
    BY <1>2 DEF Abandon, At
<1>4. DmaTypes'
  BY <1>1, <1>2, <1>3 DEF DmaTypes
<1>5. ASSUME ~crossed' PROVE OneCall' /\ Awaited' /\ Texts' /\ Memory'
  <2>1. OneCall /\ Awaited /\ Texts /\ Memory /\ \A q \in Copiers : dcall[q].at = "out"
    BY <1>1, <1>5 DEF DmaInv
  <2>2. Coming = 0 /\ done = 0 /\ done' = 0
    BY <1>1, <2>1, Counts DEF Awaited, Coming
  <2>3. calls[p].at = "fill" /\ \A q \in Copiers \ {p} : calls[q].at = "out"
    BY <1>1, <2>1 DEF DmaTypes
  <2>4. Abandon(calls) = calls
    <3>1. \A q \in Copiers : calls[q].at # "waiting"
      BY <2>3
    <3> HIDE DEF calls
    <3>2. Abandon(calls) = [q \in Copiers |-> calls[q]]
      BY <3>1 DEF Abandon
    <3>3. QED
      BY <3>2, <1>2
  <2>5. dcall'[p].at = "fill" /\ \A q \in Copiers \ {p} : dcall'[q].at = "out"
    BY <1>1, <2>3, <2>4
  <2>6. OneCall'
    BY <1>1, <2>5 DEF OneCall, Copying
  <2>7. Coming' = 0
    BY <1>1, <2>2 DEF Coming, WillComplete
  <2>8. Awaited' /\ Texts'
    BY <2>5, <2>7 DEF Awaited, Texts
  <2>9. Memory'
    BY <1>1, <2>1 DEF Memory
  <2>10. QED
    BY <2>6, <2>8, <2>9
<1>6. QED
  BY <1>4, <1>5 DEF DmaInv

(* The call puts its text into the source buffer.                        *)
LEMMA FillKeeps == ASSUME DmaInv, NEW p \in Copiers, Fill(p) PROVE DmaInv'
<1> DEFINE filled == [dcall EXCEPT ![p].at = "ready"]
<1>1. /\ DmaTypes /\ dcall[p].at = "fill" /\ wbuf' = (IF ddrv.fills THEN dcall[p].id ELSE wbuf)
      /\ dcall' = (IF ddrv.init = "mapped" THEN Abandon(filled) ELSE filled)
      /\ done' = (IF ddrv.init = "mapped" THEN 0 ELSE done)
      /\ wrong' = (IF buffers THEN wrong ELSE wrong \cup {"freed"})
      /\ UNCHANGED <<ddrv, dopen, buffers, rbuf, chan, callback, copies, crossed>>
  BY DEF DmaInv, Fill, Touch
<1>2. /\ filled \in [Copiers -> [at : At, id : Nat, round : Nat]] /\ filled[p].at = "ready" /\ filled[p].id = dcall[p].id
      /\ \A q \in Copiers \ {p} : filled[q] = dcall[q]
  BY <1>1 DEF DmaTypes, At
<1>3. Abandon(filled) \in [Copiers -> [at : At, id : Nat, round : Nat]]
  <2> HIDE DEF filled
  <2> QED
    BY <1>2 DEF Abandon, At
<1>4. DmaTypes'
  BY <1>1, <1>2, <1>3 DEF DmaTypes
<1>5. ASSUME ~crossed' PROVE OneCall' /\ Awaited' /\ Texts' /\ Memory'
  <2>1. OneCall /\ Awaited /\ Texts /\ Memory /\ Copying(p) /\ p \in dopen
    BY <1>1, <1>5 DEF DmaInv, OneCall, Copying
  <2>2. \A q \in Copiers \ {p} : dcall[q].at = "out"
    BY <2>1 DEF OneCall, Copying
  <2>3. Coming = 0 /\ done = 0 /\ done' = 0
    BY <1>1, <2>1, <2>2, Counts DEF Awaited, Coming
  <2>4. Abandon(filled) = filled
    <3>1. \A q \in Copiers : filled[q].at # "waiting"
      BY <2>2, <1>2
    <3> HIDE DEF filled
    <3>2. Abandon(filled) = [q \in Copiers |-> filled[q]]
      BY <3>1 DEF Abandon
    <3>3. QED
      BY <3>2, <1>2
  <2>5. dcall'[p].at = "ready" /\ dcall'[p].id = dcall[p].id /\ \A q \in Copiers \ {p} : dcall'[q] = dcall[q]
    BY <1>1, <1>2, <2>4
  <2>6. OneCall'
    BY <1>1, <2>1, <2>5, OneMoves
  <2>7. Coming' = 0
    BY <1>1, <2>3 DEF Coming, WillComplete
  <2>8. Awaited' /\ Texts'
    BY <1>1, <2>2, <2>5, <2>7 DEF Awaited, Texts
  <2>9. Memory'
    BY <1>1, <2>1, DmaDriver DEF Memory, DmaTypes
  <2>10. QED
    BY <2>6, <2>8, <2>9
<1>6. QED
  BY <1>4, <1>5 DEF DmaInv

(* A call that fails before it has submitted a transfer returns.         *)
LEMMA FailsKeeps == ASSUME DmaInv, NEW p \in Copiers, FillFails(p) \/ SubmitFails(p) PROVE DmaInv'
<1>1. /\ DmaTypes /\ dcall[p].at \in {"fill", "ready"} /\ dcall' = [dcall EXCEPT ![p].at = "out"]
      /\ UNCHANGED <<ddrv, dopen, buffers, wbuf, rbuf, done, chan, callback, copies, crossed, wrong>>
  BY DEF DmaInv, FillFails, SubmitFails, Moves
<1>2. /\ dcall' \in [Copiers -> [at : At, id : Nat, round : Nat]] /\ dcall'[p].at = "out"
      /\ \A q \in Copiers \ {p} : dcall'[q] = dcall[q]
  BY <1>1, Moved DEF At
<1>3. DmaTypes'
  BY <1>1, <1>2 DEF DmaTypes
<1>4. ASSUME ~crossed' PROVE OneCall' /\ Awaited' /\ Texts' /\ Memory'
  <2>1. OneCall /\ Awaited /\ Texts /\ Memory /\ Copying(p)
    BY <1>1, <1>4 DEF DmaInv, Copying
  <2>2. OneCall' /\ \A q \in Copiers \ {p} : dcall[q].at = "out" /\ dcall'[q].at = "out"
    BY <1>1, <1>2, <2>1, OneMoves
  <2>3. Awaited' /\ Texts'
    BY <1>1, <1>2, <2>1, <2>2 DEF Awaited, Coming, WillComplete, Texts
  <2>4. QED
    BY <1>1, <2>1, <2>2, <2>3 DEF Memory
<1>5. QED
  BY <1>3, <1>4 DEF DmaInv

(* The transfer that is submitted is the one signal to come.             *)
LEMMA SubmitKeeps == ASSUME DmaInv, NEW p \in Copiers, Submit(p) PROVE DmaInv'
<1>1. /\ DmaTypes /\ dcall[p].at = "ready" /\ dcall' = [dcall EXCEPT ![p].at = "test"]
      /\ chan' = Append(chan, [last |-> dcall[p].round = ddrv.rounds])
      /\ UNCHANGED <<ddrv, dopen, buffers, wbuf, rbuf, done, callback, copies, crossed, wrong>>
  BY DEF DmaInv, Submit, Moves
<1>2. /\ dcall' \in [Copiers -> [at : At, id : Nat, round : Nat]] /\ dcall'[p].at = "test" /\ dcall'[p].id = dcall[p].id
      /\ \A q \in Copiers \ {p} : dcall'[q] = dcall[q]
  BY <1>1, Moved DEF At
<1>3. chan' \in Seq([last : BOOLEAN]) /\ Len(chan') = Len(chan) + 1
  <2>1. [last |-> dcall[p].round = ddrv.rounds] \in [last : BOOLEAN] /\ chan \in Seq([last : BOOLEAN])
    BY <1>1 DEF DmaTypes
  <2>2. QED
    BY <1>1, <2>1
<1>4. DmaTypes'
  BY <1>1, <1>2, <1>3 DEF DmaTypes
<1>5. ASSUME ~crossed' PROVE OneCall' /\ Awaited' /\ Texts' /\ Memory'
  <2>1. OneCall /\ Awaited /\ Texts /\ Memory /\ Copying(p)
    BY <1>1, <1>5 DEF DmaInv, Copying
  <2>2. OneCall' /\ \A q \in Copiers \ {p} : dcall[q].at = "out" /\ dcall'[q].at = "out"
    BY <1>1, <1>2, <2>1, OneMoves
  <2>3. Coming = 0 /\ Coming' = 1
    <3>1. Coming = 0
      BY <1>1, <2>1, <2>2 DEF Awaited
    <3>2. Len(chan) \in Nat /\ done \in Nat
      BY <1>1, Counts
    <3>3. QED
      BY <1>1, <1>3, <3>1, <3>2 DEF Coming, WillComplete
  <2>4. chan' # << >>
    BY <1>3, <1>4, <1>1, Counts
  <2>5. Awaited' /\ Texts'
    BY <1>1, <1>2, <2>1, <2>2, <2>3, <2>4 DEF Awaited, Texts
  <2>6. QED
    BY <1>1, <2>1, <2>2, <2>5 DEF Memory
<1>6. QED
  BY <1>4, <1>5 DEF DmaInv

(* The wait takes the signal that is there, or sleeps.                   *)
LEMMA AwaitKeeps == ASSUME DmaInv, NEW p \in Copiers, AwaitDone(p) PROVE DmaInv'
<1>1. PICK to \in {"waiting", "past"} :
        /\ DmaTypes /\ dcall[p].at \in {"test", "waiting"} /\ dcall' = [dcall EXCEPT ![p].at = to]
        /\ to = "waiting" => done' = done
        /\ to = "past" => done > 0 /\ done' = done - 1
        /\ UNCHANGED <<ddrv, dopen, buffers, wbuf, rbuf, chan, callback, copies, crossed, wrong>>
  BY DEF DmaInv, AwaitDone, Moves
<1>2. /\ dcall' \in [Copiers -> [at : At, id : Nat, round : Nat]] /\ dcall'[p].at = to /\ dcall'[p].id = dcall[p].id
      /\ \A q \in Copiers \ {p} : dcall'[q] = dcall[q]
  BY <1>1, Moved DEF At
<1>3. done' \in Nat
  BY <1>1 DEF DmaTypes
<1>4. DmaTypes'
  BY <1>1, <1>2, <1>3 DEF DmaTypes
<1>5. ASSUME ~crossed' PROVE OneCall' /\ Awaited' /\ Texts' /\ Memory'
  <2>1. OneCall /\ Awaited /\ Texts /\ Memory /\ Copying(p)
    BY <1>1, <1>5 DEF DmaInv, Copying
  <2>2. OneCall' /\ \A q \in Copiers \ {p} : dcall[q].at = "out" /\ dcall'[q].at = "out"
    BY <1>1, <1>2, <2>1, OneMoves
  <2>3. Coming = 1 /\ Len(chan) \in Nat /\ done \in Nat /\ (chan = << >> <=> Len(chan) = 0)
    BY <1>1, <2>1, Counts DEF Awaited
  <2>4. CASE to = "waiting"
    BY <1>1, <1>2, <2>1, <2>2, <2>3, <2>4 DEF Awaited, Texts, Memory, Coming, WillComplete
  <2>5. CASE to = "past"
    <3>1. Coming' = 0 /\ chan = << >>
      BY <1>1, <2>3, <2>5 DEF Coming, WillComplete
    <3>2. QED
      BY <1>1, <1>2, <2>1, <2>2, <2>5, <3>1 DEF Awaited, Texts, Memory
  <2>6. QED
    BY <2>4, <2>5
<1>6. QED
  BY <1>4, <1>5 DEF DmaInv

(* The scattered copy goes through the channel once more.                *)
LEMMA AgainKeeps == ASSUME DmaInv, NEW p \in Copiers, Again(p) PROVE DmaInv'
<1>1. /\ DmaTypes /\ dcall[p].at = "past" /\ done' = 0
      /\ dcall' = [dcall EXCEPT ![p] = [at |-> "ready", id |-> @.id, round |-> @.round + 1]]
      /\ UNCHANGED <<ddrv, dopen, buffers, wbuf, rbuf, chan, callback, copies, crossed, wrong>>
  BY DEF DmaInv, Again
<1>2. /\ dcall' \in [Copiers -> [at : At, id : Nat, round : Nat]] /\ dcall'[p].at = "ready" /\ dcall'[p].id = dcall[p].id
      /\ \A q \in Copiers \ {p} : dcall'[q] = dcall[q]
  <2>1. dcall[p] \in [at : At, id : Nat, round : Nat]
    BY <1>1 DEF DmaTypes
  <2>2. dcall[p].id \in Nat /\ dcall[p].round + 1 \in Nat
    BY <2>1
  <2>3. QED
    BY <1>1, <2>2 DEF DmaTypes, At
<1>3. DmaTypes'
  BY <1>1, <1>2 DEF DmaTypes
<1>4. ASSUME ~crossed' PROVE OneCall' /\ Awaited' /\ Texts' /\ Memory'
  <2>1. OneCall /\ Awaited /\ Texts /\ Memory /\ Copying(p)
    BY <1>1, <1>4 DEF DmaInv, Copying
  <2>2. OneCall' /\ \A q \in Copiers \ {p} : dcall[q].at = "out" /\ dcall'[q].at = "out"
    BY <1>1, <1>2, <2>1, OneMoves
  <2>3. Coming = 0
    BY <1>1, <2>1, <2>2 DEF Awaited
  <2>4. Coming' = 0
    BY <1>1, <2>3, Counts DEF Coming, WillComplete
  <2>5. Awaited' /\ Texts'
    BY <1>1, <1>2, <2>1, <2>2, <2>4 DEF Awaited, Texts
  <2>6. QED
    BY <1>1, <2>1, <2>2, <2>5 DEF Memory
<1>5. QED
  BY <1>3, <1>4 DEF DmaInv

(* The call returns when its transfer is done.                           *)
LEMMA ReturnKeeps == ASSUME DmaInv, NEW p \in Copiers, DmaReturn(p) PROVE DmaInv'
<1>1. /\ DmaTypes /\ dcall[p].at = "past" /\ dcall' = [dcall EXCEPT ![p] = NoCopy]
      /\ wrong' = (IF buffers THEN wrong ELSE wrong \cup {"freed"})
      /\ buffers' = (buffers /\ ~(ddrv.buffers = "call" /\ rbuf = wbuf))
      /\ UNCHANGED <<ddrv, dopen, wbuf, rbuf, done, chan, callback, copies, crossed>>
  BY DEF DmaInv, DmaReturn, Touch
<1>2. /\ dcall' \in [Copiers -> [at : At, id : Nat, round : Nat]] /\ dcall'[p].at = "out"
      /\ \A q \in Copiers \ {p} : dcall'[q] = dcall[q]
  BY <1>1 DEF DmaTypes, At, NoCopy
<1>3. buffers' \in BOOLEAN /\ (ddrv.buffers # "call" => buffers' = buffers)
  BY <1>1, Zenon DEF DmaTypes
<1>4. DmaTypes'
  BY <1>1, <1>2, <1>3 DEF DmaTypes
<1>5. ASSUME ~crossed' PROVE OneCall' /\ Awaited' /\ Texts' /\ Memory'
  <2>1. OneCall /\ Awaited /\ Texts /\ Memory /\ Copying(p) /\ p \in dopen
    BY <1>1, <1>5 DEF DmaInv, Copying, OneCall
  <2>2. OneCall' /\ \A q \in Copiers \ {p} : dcall[q].at = "out" /\ dcall'[q].at = "out"
    BY <1>1, <1>2, <2>1, OneMoves
  <2>3. Awaited' /\ Texts'
    BY <1>1, <1>2, <2>1, <2>2 DEF Awaited, Coming, WillComplete, Texts
  <2>4. Memory'
    BY <1>1, <1>3, <2>1, DmaDriver DEF Memory, DmaTypes
  <2>5. QED
    BY <2>2, <2>3, <2>4
<1>6. QED
  BY <1>4, <1>5 DEF DmaInv

(* The engine copies the buffer and calls back.                          *)
LEMMA TransferKeeps == ASSUME DmaInv, Transfer PROVE DmaInv'
<1>1. /\ DmaTypes /\ chan # << >> /\ callback = NoCallback /\ chan' = Tail(chan) /\ rbuf' = wbuf
      /\ wrong' = (IF buffers THEN wrong ELSE wrong \cup {"freed"})
      /\ callback' = [at |-> IF ddrv.compares = "before" THEN "compare" ELSE "complete", last |-> Head(chan).last]
      /\ UNCHANGED <<ddrv, dopen, buffers, wbuf, done, dcall, copies, crossed>>
  BY DEF DmaInv, Transfer, Touch
<1>2. chan' \in Seq([last : BOOLEAN]) /\ Len(chan') = Len(chan) - 1 /\ Head(chan) \in [last : BOOLEAN]
  <2> DEFINE S == [last : BOOLEAN]
  <2>1. chan \in Seq(S) /\ chan # << >>
    BY <1>1 DEF DmaTypes
  <2> HIDE DEF S
  <2>2. Tail(chan) \in Seq(S) /\ Len(Tail(chan)) = Len(chan) - 1 /\ Head(chan) \in S
    BY <2>1
  <2>3. QED
    BY <1>1, <2>2 DEF S
<1>3. DmaTypes'
  BY <1>1, <1>2 DEF DmaTypes
<1>4. ASSUME ~crossed' PROVE OneCall' /\ Awaited' /\ Texts' /\ Memory'
  <2>1. OneCall /\ Awaited /\ Texts /\ Memory
    BY <1>1, <1>4 DEF DmaInv
  <2>2. Len(chan) \in Nat /\ Len(chan) > 0 /\ done \in Nat /\ Coming = Len(chan) + done
    BY <1>1, Counts DEF Coming, WillComplete, NoCallback
  <2>3. PICK p \in Copiers : dcall[p].at \in {"test", "waiting"}
    <3>1. Coming # 0
      BY <2>2
    <3>2. QED
      BY <2>1, <3>1 DEF Awaited
  <2>4. Coming = 1 /\ Len(chan) = 1 /\ done = 0
    <3>1. Coming = 1
      BY <2>1, <2>3 DEF Awaited
    <3>2. \A n, m \in Nat : n > 0 /\ n + m = 1 => n = 1 /\ m = 0
      OBVIOUS
    <3>3. Len(chan) + done = 1
      BY <2>2, <3>1
    <3>4. QED
      BY <2>2, <3>1, <3>2, <3>3
  <2>5. WillComplete' /\ Coming' = 1
    <3>1. WillComplete'
      BY <1>1 DEF WillComplete
    <3>2. QED
      BY <3>1, <1>1, <1>2, <2>4 DEF Coming
  <2>6. \A q \in Copiers : dcall[q].at \in {"test", "waiting", "past", "ready"} => q = p
    BY <2>1, <2>3 DEF OneCall, Copying
  <2>7. OneCall' /\ Awaited'
    BY <1>1, <2>1, <2>3, <2>5 DEF OneCall, Copying, Awaited
  <2>8. Texts'
    BY <1>1, <2>1, <2>3, <2>6 DEF Texts
  <2>9. p \in dopen
    BY <2>1, <2>3 DEF OneCall, Copying
  <2>10. Memory'
    BY <1>1, <2>1, <2>9, DmaDriver DEF Memory, DmaTypes
  <2>11. QED
    BY <2>7, <2>8, <2>10
<1>5. QED
  BY <1>3, <1>4 DEF DmaInv

(* The callback compares and signals, in the order of its driver.        *)
LEMMA CallbackKeeps == ASSUME DmaInv, CompleteDma \/ CompareDma PROVE DmaInv'
<1>1. CASE CompleteDma
  <2>1. /\ DmaTypes /\ callback.at = "complete" /\ done' = done + 1
        /\ callback' = (IF ddrv.compares = "after" THEN [callback EXCEPT !.at = "compare"] ELSE NoCallback)
        /\ UNCHANGED <<ddrv, dopen, buffers, wbuf, rbuf, chan, dcall, copies, crossed, wrong>>
    BY <1>1 DEF DmaInv, CompleteDma
  <2>2. callback' \in [at : {"none", "complete", "compare"}, last : BOOLEAN] /\ WillComplete /\ ~WillComplete'
    BY <2>1 DEF DmaTypes, NoCallback, WillComplete
  <2>3. DmaTypes'
    BY <2>1, <2>2 DEF DmaTypes
  <2>4. Coming' = Coming
    BY <2>1, <2>2, Counts DEF Coming
  <2>5. QED
    BY <2>1, <2>3, <2>4 DEF DmaInv, OneCall, Copying, Awaited, Texts, Memory
<1>2. CASE CompareDma
  <2>1. /\ DmaTypes /\ callback.at = "compare" /\ wrong' = (IF Differs THEN wrong \cup {"verdict"} ELSE wrong)
        /\ callback' = (IF ddrv.compares = "before" /\ ~Differs THEN [callback EXCEPT !.at = "complete"] ELSE NoCallback)
        /\ UNCHANGED <<ddrv, dopen, buffers, wbuf, rbuf, done, chan, dcall, copies, crossed>>
    BY <1>2 DEF DmaInv, CompareDma
  <2>2. callback' \in [at : {"none", "complete", "compare"}, last : BOOLEAN]
    BY <2>1 DEF DmaTypes, NoCallback
  <2>3. DmaTypes'
    BY <2>1, <2>2 DEF DmaTypes
  <2>4. ASSUME ~crossed' PROVE OneCall' /\ Awaited' /\ Texts' /\ Memory'
    <3>1. OneCall /\ Awaited /\ Texts /\ Memory
      BY <2>1, <2>4 DEF DmaInv
    <3>2. ddrv.compares = "before" => ~Differs
      <4> SUFFICES ASSUME ddrv.compares = "before" PROVE rbuf = wbuf
        BY DEF Differs
      <4>1. WillComplete /\ Len(chan) \in Nat /\ done \in Nat /\ (chan = << >> <=> Len(chan) = 0)
        BY <2>1, Counts DEF WillComplete
      <4>2. Coming >= 1
        BY <4>1 DEF Coming
      <4>3. PICK p \in Copiers : dcall[p].at \in {"test", "waiting"} /\ Coming = 1
        BY <3>1, <4>2 DEF Awaited
      <4>4. chan = << >>
        BY <4>1, <4>3 DEF Coming
      <4>5. QED
        BY <2>1, <3>1, <4>3, <4>4, DmaDriver DEF Texts, DmaTypes
    <3>3. (WillComplete <=> WillComplete') /\ Coming' = Coming
      <4>1. WillComplete <=> WillComplete'
        BY <2>1, <3>2 DEF WillComplete, NoCallback, DmaTypes
      <4>2. QED
        BY <2>1, <4>1 DEF Coming
    <3>4. Memory'
      BY <2>1, <3>1, <3>2 DEF Memory
    <3>5. QED
      BY <2>1, <3>1, <3>3, <3>4 DEF OneCall, Copying, Awaited, Texts
  <2>5. QED
    BY <2>3, <2>4 DEF DmaInv
<1>3. QED
  BY <1>1, <1>2

(* Unless two calls have crossed, a call is past its wait only when its  *)
(* transfer is made and the destination holds its own text, one that     *)
(* waits has something coming that will complete it, and it leaves no    *)
(* completion to the next; no lasting buffer is used after it is freed,  *)
(* and a comparison that comes before the completion is right            *)
(* (sdma_write, the ioctl, dma_m2m_callback).                            *)
THEOREM DmaCopiesExactly == DmaSpec => []DmaExact
<1>1. DmaInit => DmaInv
  <2> SUFFICES ASSUME DmaInit PROVE DmaInv
    OBVIOUS
  <2>1. DmaTypes
    <3>1. chan \in Seq([last : BOOLEAN]) /\ callback \in [at : {"none", "complete", "compare"}, last : BOOLEAN]
      BY DEF DmaInit, NoCallback
    <3>2. NoCopy \in [at : At, id : Nat, round : Nat]
      BY DEF NoCopy, At
    <3>3. dcall \in [Copiers -> [at : At, id : Nat, round : Nat]]
      BY <3>2 DEF DmaInit
    <3>4. ddrv \in AllDmaDrivers /\ buffers \in BOOLEAN
      BY DmaAssumption, Zenon DEF DmaInit
    <3>5. QED
      BY <3>1, <3>3, <3>4 DEF DmaInit, DmaTypes
  <2>2. \A p \in Copiers : dcall[p].at = "out"
    BY DEF DmaInit, NoCopy
  <2>3. Coming = 0
    BY DEF DmaInit, Coming, WillComplete, NoCallback
  <2>4. OneCall /\ Awaited /\ Texts
    BY <2>2, <2>3 DEF OneCall, Copying, Awaited, Texts
  <2>5. Memory
    BY DEF DmaInit, Memory
  <2>6. QED
    BY <2>1, <2>4, <2>5 DEF DmaInv
<1>2. DmaInv /\ [DmaNext]_dmaVars => DmaInv'
  <2>1. ASSUME DmaInv, UNCHANGED dmaVars PROVE DmaInv'
    BY <2>1 DEF dmaVars, DmaInv, DmaTypes, OneCall, Copying, Awaited, Coming, WillComplete, Texts, Memory
  <2>2. ASSUME DmaInv, DmaNext PROVE DmaInv'
    BY <2>2, OpenKeeps, ReleaseKeeps, StoresKeep, CallKeeps, FillKeeps, FailsKeeps, SubmitKeeps,
       AwaitKeeps,
       AgainKeeps, ReturnKeeps, TransferKeeps, CallbackKeeps DEF DmaNext
  <2>3. QED
    BY <2>1, <2>2
<1>3. DmaInv => DmaExact
  <2> SUFFICES ASSUME DmaInv, ~crossed PROVE DmaExact
    BY DEF DmaExact
  <2>1. DmaTypes /\ OneCall /\ Awaited /\ Texts /\ Memory
    BY DEF DmaInv
  <2>2. Len(chan) \in Nat /\ done \in Nat /\ (chan = << >> <=> Len(chan) = 0)
    BY <2>1, Counts
  <2>3. ASSUME NEW p \in Copiers
        PROVE  /\ dcall[p].at = "past" => chan = << >> /\ (ddrv.fills => rbuf = dcall[p].id)
               /\ dcall[p].at = "waiting" => done > 0 \/ chan # << >> \/ callback # NoCallback
               /\ dcall[p].at # "lost"
    <3>1. CASE dcall[p].at = "past"
      <4>1. Coming = 0
        BY <2>1, <3>1 DEF Awaited, OneCall, Copying
      <4>2. QED
        BY <2>1, <2>2, <3>1, <4>1 DEF Coming, Texts
    <3>2. CASE dcall[p].at = "waiting"
      <4>1. Coming = 1
        BY <2>1, <3>2 DEF Awaited
      <4>2. QED
        BY <2>2, <3>2, <4>1 DEF Coming, WillComplete, NoCallback
    <3>3. QED
      BY <2>1, <3>1, <3>2 DEF OneCall
  <2>4. (\A p \in Copiers : ~Copying(p)) => done = 0 /\ chan = << >>
    BY <2>1, <2>2 DEF Awaited, Coming, Copying
  <2>5. QED
    BY <2>1, <2>3, <2>4 DEF DmaExact, Memory
<1>4. QED
  BY <1>1, <1>2, <1>3, PTL DEF DmaSpec

-----------------------------------------------------------------------------
(*************************************************************************)
(* DeferredExit: any set of the drivers, and any number of items.        *)
(*************************************************************************)
(* What an exit does, and what may follow what.                          *)
ExitOps == {"del", "sync", "drain", "poll", "kfree", "free_irq"}
StepsOK(d, s) ==
  /\ s \in Seq(ExitOps \X Nat)
  /\ \A n \in 1..Len(s) :
       /\ d.again => s[n][1] # "drain"
       /\ d.tells = "counter" => s[n][1] = "poll"
       /\ s[n][1] = "poll" => d.tells = "counter"
       /\ s[n][1] \in {"drain", "poll"} => d.starts # "irq"
       /\ d.memory = "each" => s[n][1] \notin {"del", "kfree"} /\ (s[n][1] = "sync" => s[n][2] = 0)
       /\ d.starts = "irq" /\ n = Len(s) => s[n][1] = "free_irq"
       /\ (s[n][1] = "kfree") <=> (d.memory = "init" /\ n = Len(s))
(* What the drivers have in common.                                      *)
DriverOK(d) ==
  /\ d.starts \in {"write", "init", "irq"} /\ d.memory \in {"static", "init", "each"}
  /\ 1 \in d.items /\ d.items \subseteq Items
  /\ d.again \in BOOLEAN
  /\ StepsOK(d, d.exit)
  /\ d.memory = "init" => d.exit # << >> /\ d.starts = "init"
  /\ d.starts = "irq" => d.exit # << >>
  /\ d.memory = "each" => ~d.again
  /\ d.starts = "irq" => \A n \in 1..Len(d.exit) : d.exit[n][2] = 0 \/ d.exit[n][1] = "free_irq"
  /\ d.waits # "no" => d.exit = << >>
  /\ d.waits = "condition" => d.tells = "condition" /\ d.starts = "init" /\ d.items = {1}
  /\ d.tells = "counter" => d.starts = "write" /\ d.memory = "each" /\ d.exit = <<<<"poll", 1>>>>

(* Every driver is so.                                                   *)
LEMMA DriversOK == \A d \in AllExitDrivers : DriverOK(d)
<1> USE ExitAssumption
<1> USE DEF DriverOK, StepsOK, Items, ExitOps, Timer, Sync, Drain, AtLoad, OnLine, Pair, MyData
<1>1. DriverOK(timer_s11)
  BY DEF timer_s11
<1>2. DriverOK(timer_new_s11)
  BY DEF timer_new_s11, timer_s11
<1>3. DriverOK(multitimer_s11)
  BY DEF multitimer_s11
<1>4. DriverOK(periodic_s11)
  BY DEF periodic_s11
<1>5. DriverOK(periodic_new_s11)
  BY DEF periodic_new_s11, periodic_s11
<1>6. DriverOK(periodic_timers_s11)
  BY DEF periodic_timers_s11
<1>7. DriverOK(periodic_alt_s11)
  BY DEF periodic_alt_s11
<1>8. DriverOK(periodic_alt_new_s11)
  BY DEF periodic_alt_new_s11, periodic_alt_s11
<1>9. DriverOK(hrtimer_s11)
  BY DEF hrtimer_s11, periodic_timers_s11
<1>10. DriverOK(hrexamp_s11)
  BY DEF hrexamp_s11, periodic_timers_s11
<1>11. DriverOK(std_timer_ch3)
  BY DEF std_timer_ch3
<1>12. DriverOK(hr_timer_ch3)
  BY DEF hr_timer_ch3
<1>13. DriverOK(tasklet_ch3)
  BY DEF tasklet_ch3
<1>14. DriverOK(dedicated_ch3)
  BY DEF dedicated_ch3
<1>15. DriverOK(shared_ch3)
  BY DEF shared_ch3
<1>16. DriverOK(waitqueue_ch3)
  BY DEF waitqueue_ch3
<1>17. DriverOK(user_invoke_ch3)
  BY DEF user_invoke_ch3
<1>18. DriverOK(tasklet_s20)
  BY DEF tasklet_s20
<1>19. DriverOK(work_shared_s20)
  BY DEF work_shared_s20
<1>20. DriverOK(work_private_s20)
  BY DEF work_private_s20
<1>21. DriverOK(work_newapi_s20)
  BY DEF work_newapi_s20, work_private_s20
<1>22. DriverOK(one_interrupt_s20)
  BY DEF one_interrupt_s20
<1>23. DriverOK(one_gpio_s20)
  BY DEF one_gpio_s20
<1>24. DriverOK(each_on_line_s20)
  BY DEF each_on_line_s20
<1>25. DriverOK(work_dynamic_gpio_s20)
  BY DEF work_dynamic_gpio_s20, each_on_line_s20
<1>26. DriverOK(tasklet_gpio_s20)
  BY DEF tasklet_gpio_s20
<1>27. DriverOK(platform_tasklet_s20)
  BY DEF platform_tasklet_s20
<1>28. DriverOK(platform_work_s20)
  BY DEF platform_work_s20
<1> HIDE DEF DriverOK
<1> QED BY <1>1, <1>2, <1>3, <1>4, <1>5, <1>6, <1>7, <1>8, <1>9, <1>10, <1>11, <1>12, <1>13, <1>14,
   <1>15, <1>16, <1>17, <1>18, <1>19, <1>20, <1>21, <1>22, <1>23, <1>24, <1>25, <1>26, <1>27,
   <1>28 DEF AllExitDrivers
(* A deferred call that is queued or running, and a wait for it that the *)
(* exit has yet to make.                                                 *)
Alive(i)  == i \in queued \/ cb[i] # "out"
Awaits(i) == \E n \in 1..Len(exitTodo) : exitTodo[n] \in {<<"sync", i>>, <<"drain", i>>}

ExitTypes == /\ xdrv \in AllExitDrivers /\ mod \in {"init", "loaded", "exit", "gone"}
             /\ cb \in [Items -> {"out", "body", "tail"}] /\ queued \subseteq xdrv.items
             /\ \A i \in Items : cb[i] # "out" => i \in xdrv.items
             /\ ntimers \in Int /\ wild \subseteq {"memory", "text", "list"}
(* What is left of the exit.                                             *)
ExitLeft == /\ StepsOK(xdrv, exitTodo)
            /\ mod \in {"init", "loaded"} => exitTodo = xdrv.exit
            /\ mod = "gone" => exitTodo = << >>
            /\ line => xdrv.starts = "irq" /\ exitTodo # << >>
(* The memory of a deferred call is there as its kind says.              *)
MemoryInv == /\ xdrv.memory = "static" => memory = (IF mod = "gone" THEN {} ELSE xdrv.items)
             /\ xdrv.memory = "init" => memory = (IF exitTodo = << >> THEN {} ELSE xdrv.items)
             /\ xdrv.memory = "each" => /\ memory = {i \in Items : i \in queued \/ cb[i] = "body"}
                                        /\ \A i \in queued : cb[i] # "body"
(* Where the exit waits for every deferred call, a wait is before it for *)
(* each one that is alive.                                               *)
WaitInv == WaitsForAll => \A i \in xdrv.items : Alive(i) => Awaits(i)
(* The counter of the module counts the memory that its deferred calls   *)
(* hold.                                                                 *)
CountInv == xdrv.tells = "counter" => /\ IsFiniteSet(memory) /\ ntimers = Cardinality(memory)
                                      /\ exitTodo = << >> => memory = {}
WildInv == /\ WaitsForAll => wild \subseteq {"list"}
           /\ xdrv.tells = "counter" => "memory" \notin wild
(* The inductive invariant.                                              *)
XInv == ExitTypes /\ ExitLeft /\ MemoryInv /\ WaitInv /\ CountInv /\ WildInv

(* A deferred call that is alive has a wait before it, so the module is  *)
(* not yet gone.                                                         *)
LEMMA WaitedIsBounded == ASSUME XInv, WaitsForAll, NEW i \in xdrv.items, Alive(i)
  PROVE exitTodo # << >> /\ mod # "gone" /\ xdrv.starts # "irq" /\ xdrv.waits = "no"
<1>1. exitTodo # << >> /\ mod # "gone"
  BY DEF XInv, WaitInv, Awaits, ExitLeft
<1>2. DriverOK(xdrv)
  BY DriversOK DEF XInv, ExitTypes
<1>3. PICK n \in DOMAIN xdrv.exit : xdrv.exit[n] \in {<<"sync", i>>, <<"drain", i>>}
  BY DEF WaitsForAll, Waits
<1>4. xdrv.exit \in Seq(ExitOps \X Nat) /\ i \in Nat /\ i # 0
  BY <1>2 DEF DriverOK, StepsOK, Items
<1>5. xdrv.exit[n][2] = i /\ xdrv.exit[n][1] \in {"sync", "drain"} /\ n \in 1..Len(xdrv.exit)
  BY <1>3, <1>4
<1>6. xdrv.starts # "irq"
  BY <1>2, <1>4, <1>5 DEF DriverOK
<1>7. xdrv.waits = "no"
  BY <1>2, <1>4, <1>5 DEF DriverOK
<1> QED BY <1>1, <1>6, <1>7

(* Nothing is queued before init.                                        *)
LEMMA ExitInitially == ExitInit => XInv
<1> SUFFICES ASSUME ExitInit PROVE XInv
  OBVIOUS
<1>1. DriverOK(xdrv) /\ xdrv \in AllExitDrivers
  BY DriversOK, ExitAssumption DEF ExitInit
<1>2. ExitTypes
  BY <1>1 DEF ExitTypes, ExitInit, DriverOK
<1>3. ExitLeft
  BY <1>1 DEF ExitLeft, ExitInit, DriverOK
<1>4. MemoryInv
  BY <1>1 DEF MemoryInv, ExitInit, DriverOK
<1>5. WaitInv
  <2>1. exitTodo = xdrv.exit /\ xdrv.exit \in Seq(ExitOps \X Nat)
    BY <1>1 DEF ExitInit, DriverOK, StepsOK
  <2>2. DOMAIN xdrv.exit = 1..Len(exitTodo)
    BY <2>1
  <2> QED BY <2>1, <2>2 DEF WaitInv, WaitsForAll, Waits, Awaits
<1>6. CountInv
  BY <1>1, FS_EmptySet DEF CountInv, ExitInit, DriverOK
<1>7. WildInv
  BY DEF WildInv, ExitInit
<1> QED BY <1>2, <1>3, <1>4, <1>5, <1>6, <1>7 DEF XInv

(* init returns, and the module is unloaded.                             *)
LEMMA InitKeeps == ASSUME XInv, InitReturns \/ InitSignal \/ Unload PROVE XInv'
<1>1. /\ UNCHANGED <<xdrv, exitTodo, line, queued, cb, memory, ntimers, condition>>
      /\ mod \in {"init", "loaded"} /\ mod' \in {"loaded", "exit"}
      /\ wild = {} /\ (wild' = {} \/ (xdrv.waits # "no" /\ wild' = {"memory"}))
  BY DEF InitReturns, InitSignal, Unload, Sane, Bad
<1>2. ExitTypes' /\ ExitLeft'
  BY <1>1 DEF XInv, ExitTypes, ExitLeft
<1>3. MemoryInv' /\ CountInv'
  BY <1>1 DEF XInv, MemoryInv, CountInv
<1>4. WaitInv'
  BY <1>1 DEF XInv, WaitInv, WaitsForAll, Waits, Alive, Awaits
<1>5. WildInv'
  <2>1. DriverOK(xdrv)
    BY DriversOK DEF XInv, ExitTypes
  <2>2. xdrv.waits # "no" => xdrv.tells # "counter" /\ xdrv.exit = << >> /\ 1 \in xdrv.items
    BY <2>1 DEF DriverOK
  <2>3. xdrv.waits # "no" => ~WaitsForAll
    BY <2>2 DEF WaitsForAll, Waits
  <2>4. WaitsForAll' = WaitsForAll
    BY <1>1 DEF WaitsForAll, Waits
  <2> QED BY <1>1, <2>2, <2>3, <2>4 DEF WildInv
<1> QED BY <1>2, <1>3, <1>4, <1>5 DEF XInv

(* The text goes when the exit has nothing left to do.                   *)
LEMMA GoneKeeps == ASSUME XInv, Gone PROVE XInv'
<1>1. /\ UNCHANGED <<xdrv, exitTodo, line, queued, cb, ntimers, condition, wild>>
      /\ exitTodo = << >> /\ mod' = "gone" /\ mod = "exit"
      /\ memory' = (IF xdrv.memory = "static" THEN {} ELSE memory)
  BY DEF Gone
<1>0. DriverOK(xdrv)
  BY DriversOK DEF XInv, ExitTypes
<1>2. ExitTypes' /\ ExitLeft'
  BY <1>1 DEF XInv, ExitTypes, ExitLeft
<1>3. MemoryInv' /\ CountInv'
  BY <1>0, <1>1 DEF XInv, MemoryInv, CountInv, DriverOK
<1>4. WaitInv' /\ WildInv'
  BY <1>1 DEF XInv, WaitInv, WaitsForAll, Waits, Alive, Awaits, WildInv
<1> QED BY <1>2, <1>3, <1>4 DEF XInv

(* A deferred call is queued, with its memory.                           *)
LEMMA QueueKeeps == ASSUME XInv, NEW i \in Items, QueueItem(i) PROVE XInv'
<1>1. /\ i \in xdrv.items /\ (xdrv.memory = "each" => i \notin memory)
      /\ queued' = queued \cup {i} /\ memory' = memory \cup {i}
      /\ ntimers' = (IF xdrv.tells = "counter" THEN ntimers + 1 ELSE ntimers)
      /\ wild = {} /\ wild' \subseteq {"list"}
      /\ UNCHANGED <<xdrv, mod, exitTodo, line, cb, condition>>
      /\ mod = "loaded" \/ xdrv.starts = "irq"
  BY DEF QueueItem, Sane, Bad
<1>2. DriverOK(xdrv)
  BY DriversOK DEF XInv, ExitTypes
<1>3. ExitTypes' /\ ExitLeft'
  BY <1>1 DEF XInv, ExitTypes, ExitLeft
<1>4. mod # "gone" /\ xdrv.memory # "init"
  BY <1>1, <1>2 DEF QueueItem, DriverOK, XInv, ExitLeft
<1>5. WaitInv'
  <2>1. SUFFICES ASSUME WaitsForAll, NEW j \in xdrv.items, Alive(j)' PROVE Awaits(j)
    BY <1>1 DEF WaitInv, WaitsForAll, Waits, Awaits
  <2>2. CASE Alive(j)
    BY <2>1, <2>2 DEF XInv, WaitInv
  <2>3. CASE ~Alive(j)
    <3>1. j = i /\ WaitsForAll /\ Waits(i)
      BY <1>1, <2>1, <2>3 DEF Alive, WaitsForAll
    <3>2. mod = "loaded"
      <4>1. PICK n \in DOMAIN xdrv.exit : xdrv.exit[n] \in {<<"sync", i>>, <<"drain", i>>}
        BY <3>1 DEF Waits
      <4>2. xdrv.exit \in Seq(ExitOps \X Nat) /\ i \in Nat /\ i # 0
        BY <1>2 DEF DriverOK, StepsOK, Items
      <4>3. xdrv.exit[n][2] = i /\ xdrv.exit[n][1] \in {"sync", "drain"} /\ n \in 1..Len(xdrv.exit)
        BY <4>1, <4>2
      <4>4. xdrv.starts # "irq"
        BY <1>2, <4>2, <4>3 DEF DriverOK
      <4> QED BY <1>1, <4>4
    <3>3. exitTodo = xdrv.exit /\ xdrv.exit \in Seq(ExitOps \X Nat)
      BY <3>2, <1>2 DEF XInv, ExitLeft, DriverOK, StepsOK
    <3> QED BY <3>1, <3>3 DEF Waits, Awaits
  <2> QED BY <2>2, <2>3
<1>6. MemoryInv'
  <2>1. xdrv.items \subseteq Items
    BY <1>2 DEF DriverOK
  <2>2. CASE xdrv.memory = "static"
    BY <1>1, <1>4, <2>2 DEF XInv, MemoryInv
  <2>3. CASE xdrv.memory = "each"
    BY <1>1, <2>1, <2>3 DEF XInv, MemoryInv
  <2> QED BY <1>1, <1>2, <1>4, <2>2, <2>3 DEF DriverOK, MemoryInv
<1>7. CountInv'
  <2>1. SUFFICES ASSUME xdrv.tells = "counter"
                 PROVE  IsFiniteSet(memory') /\ ntimers' = Cardinality(memory') /\ exitTodo # << >>
    BY <1>1 DEF CountInv
  <2>2. xdrv.memory = "each" /\ xdrv.starts = "write" /\ xdrv.exit = <<<<"poll", 1>>>>
    BY <1>2, <2>1 DEF DriverOK
  <2>3. exitTodo = xdrv.exit
    BY <1>1, <2>2 DEF XInv, ExitLeft
  <2>4. IsFiniteSet(memory) /\ ntimers = Cardinality(memory) /\ i \notin memory
    BY <1>1, <2>1, <2>2 DEF XInv, CountInv
  <2>5. IsFiniteSet(memory') /\ Cardinality(memory') = Cardinality(memory) + 1
    BY <1>1, <2>4, FS_AddElement
  <2> QED BY <1>1, <2>1, <2>2, <2>3, <2>4, <2>5
<1>8. WildInv'
  BY <1>1 DEF WildInv
<1> QED BY <1>3, <1>5, <1>6, <1>7, <1>8 DEF XInv

(* A queued call begins to run.                                          *)
LEMMA ExpireKeeps == ASSUME XInv, NEW i \in Items, Expire(i) PROVE XInv'
<1>1. /\ i \in queued /\ queued' = queued \ {i} /\ cb[i] = "out" /\ cb' = [cb EXCEPT ![i] = "body"]
      /\ wild = {} /\ wild' \subseteq {"text"} /\ (mod # "gone" => wild' = {})
      /\ UNCHANGED <<xdrv, mod, exitTodo, line, memory, ntimers, condition>>
  BY DEF Expire, Goes, Sane, Bad
<1>2. cb'[i] = "body" /\ cb' \in [Items -> {"out", "body", "tail"}] /\ \A j \in Items \ {i} : cb'[j] = cb[j]
  BY <1>1 DEF XInv, ExitTypes
<1>3. ExitTypes' /\ ExitLeft'
  BY <1>1, <1>2 DEF XInv, ExitTypes, ExitLeft
<1>4. DriverOK(xdrv)
  BY DriversOK DEF XInv, ExitTypes
<1>5. WaitInv'
  <2>1. \A j \in xdrv.items : Alive(j)' => Alive(j)
    BY <1>1, <1>2, <1>4 DEF Alive, DriverOK
  <2> QED BY <1>1, <2>1 DEF XInv, WaitInv, WaitsForAll, Waits, Awaits
<1>6. MemoryInv'
  <2>1. CASE xdrv.memory = "each"
    BY <1>1, <1>2, <2>1 DEF XInv, MemoryInv
  <2>2. CASE xdrv.memory # "each"
    BY <1>1, <2>2 DEF XInv, MemoryInv
  <2> QED BY <2>1, <2>2
<1>7. CountInv'
  BY <1>1 DEF XInv, CountInv
<1>8. WildInv'
  <2>1. WaitsForAll => mod # "gone"
    BY <1>1, WaitedIsBounded DEF Alive, XInv, ExitTypes
  <2>2. WaitsForAll' = WaitsForAll
    BY <1>1 DEF WaitsForAll, Waits
  <2> QED BY <1>1, <2>1, <2>2 DEF WildInv
<1> QED BY <1>3, <1>5, <1>6, <1>7, <1>8 DEF XInv

(* A callback returns through the module's text.                         *)
LEMMA LeaveKeeps == ASSUME XInv, NEW i \in Items, Leave(i) PROVE XInv'
<1>1. /\ cb[i] = "tail" /\ cb' = [cb EXCEPT ![i] = "out"]
      /\ wild = {} /\ wild' \subseteq {"text"} /\ (mod # "gone" => wild' = {})
      /\ UNCHANGED <<xdrv, mod, exitTodo, line, queued, memory, ntimers, condition>>
  BY DEF Leave, Goes, Sane, Bad
<1>2. cb'[i] = "out" /\ cb' \in [Items -> {"out", "body", "tail"}] /\ \A j \in Items \ {i} : cb'[j] = cb[j]
  BY <1>1 DEF XInv, ExitTypes
<1>3. ExitTypes' /\ ExitLeft'
  BY <1>1, <1>2 DEF XInv, ExitTypes, ExitLeft
<1>4. DriverOK(xdrv) /\ i \in xdrv.items
  BY <1>1, DriversOK DEF XInv, ExitTypes
<1>5. WaitInv'
  <2>1. \A j \in xdrv.items : Alive(j)' => Alive(j)
    BY <1>1, <1>2, <1>4 DEF Alive, DriverOK
  <2> QED BY <1>1, <2>1 DEF XInv, WaitInv, WaitsForAll, Waits, Awaits
<1>6. MemoryInv'
  <2>1. CASE xdrv.memory = "each"
    BY <1>1, <1>2, <2>1 DEF XInv, MemoryInv
  <2>2. CASE xdrv.memory # "each"
    BY <1>1, <2>2 DEF XInv, MemoryInv
  <2> QED BY <2>1, <2>2
<1>7. CountInv'
  BY <1>1 DEF XInv, CountInv
<1>8. WildInv'
  <2>1. WaitsForAll => mod # "gone"
    BY <1>1, <1>4, WaitedIsBounded DEF Alive
  <2>2. WaitsForAll' = WaitsForAll
    BY <1>1 DEF WaitsForAll, Waits
  <2> QED BY <1>1, <2>1, <2>2 DEF WildInv
<1> QED BY <1>3, <1>5, <1>6, <1>7, <1>8 DEF XInv

(* The body of a callback, which may queue itself again, or free its     *)
(* memory and tell the exit.                                             *)
LEMMA BodyKeeps == ASSUME XInv, NEW i \in Items, Body(i) PROVE XInv'
<1>1. /\ cb[i] = "body" /\ cb' = [cb EXCEPT ![i] = "tail"]
      /\ queued' = (IF xdrv.again THEN queued \cup {i} ELSE queued)
      /\ memory' = (IF xdrv.memory = "each" THEN memory \ {i} ELSE memory)
      /\ ntimers' = (IF xdrv.tells = "counter" THEN ntimers - 1 ELSE ntimers)
      /\ wild = {} /\ wild' \subseteq {"memory"} /\ (i \in memory => wild' = {})
      /\ UNCHANGED <<xdrv, mod, exitTodo, line>>
  BY DEF Body, Goes, Sane, Bad, Tell
<1>2. cb'[i] = "tail" /\ cb' \in [Items -> {"out", "body", "tail"}] /\ \A j \in Items \ {i} : cb'[j] = cb[j]
  BY <1>1 DEF XInv, ExitTypes
<1>4. DriverOK(xdrv) /\ i \in xdrv.items
  BY <1>1, DriversOK DEF XInv, ExitTypes
<1>3. ExitTypes' /\ ExitLeft'
  BY <1>1, <1>2, <1>4 DEF XInv, ExitTypes, ExitLeft
<1>5. WaitInv'
  <2>1. \A j \in xdrv.items : Alive(j)' => Alive(j)
    BY <1>1, <1>2, <1>4 DEF Alive, DriverOK
  <2> QED BY <1>1, <2>1 DEF XInv, WaitInv, WaitsForAll, Waits, Awaits
<1>6. MemoryInv'
  <2>1. CASE xdrv.memory = "each"
    BY <1>1, <1>2, <1>4, <2>1 DEF XInv, MemoryInv, DriverOK
  <2>2. CASE xdrv.memory # "each"
    BY <1>1, <2>2 DEF XInv, MemoryInv
  <2> QED BY <2>1, <2>2
<1>7. CountInv'
  <2>1. SUFFICES ASSUME xdrv.tells = "counter"
                 PROVE  IsFiniteSet(memory') /\ ntimers' = Cardinality(memory') /\ (exitTodo = << >> => memory' = {})
    BY <1>1 DEF CountInv
  <2>2. xdrv.memory = "each"
    BY <1>4, <2>1 DEF DriverOK
  <2>3. i \in memory /\ IsFiniteSet(memory) /\ ntimers = Cardinality(memory)
    BY <1>1, <2>1, <2>2 DEF XInv, MemoryInv, CountInv
  <2>4. IsFiniteSet(memory \ {i}) /\ Cardinality(memory \ {i}) = Cardinality(memory) - 1
    BY <2>3, FS_RemoveElement
  <2> QED BY <1>1, <2>1, <2>2, <2>3, <2>4 DEF XInv, CountInv
<1>8. WildInv'
  <2>1. WaitsForAll => mod # "gone" /\ exitTodo # << >>
    BY <1>1, <1>4, WaitedIsBounded DEF Alive
  <2>2. WaitsForAll' = WaitsForAll
    BY <1>1 DEF WaitsForAll, Waits
  <2>3. WaitsForAll \/ xdrv.tells = "counter" => i \in memory
    BY <1>1, <1>4, <2>1 DEF XInv, MemoryInv, DriverOK
  <2> QED BY <1>1, <2>2, <2>3 DEF WildInv
<1> QED BY <1>3, <1>5, <1>6, <1>7, <1>8 DEF XInv

(* What holds of an exit holds of the rest of it.                        *)
LEMMA ShiftOK ==
  ASSUME NEW d, NEW s, StepsOK(d, s), NEW t \in Seq(ExitOps \X Nat), Len(t) = Len(s) - 1,
         \A n \in 1..Len(t) : t[n] = s[n + 1]
  PROVE  StepsOK(d, t)
<1>1. Len(s) \in Nat
  BY DEF StepsOK
<1>2. ASSUME NEW n \in 1..Len(t)
      PROVE  /\ d.again => t[n][1] # "drain"
             /\ d.tells = "counter" => t[n][1] = "poll"
             /\ t[n][1] = "poll" => d.tells = "counter"
             /\ t[n][1] \in {"drain", "poll"} => d.starts # "irq"
             /\ d.memory = "each" => t[n][1] \notin {"del", "kfree"} /\ (t[n][1] = "sync" => t[n][2] = 0)
             /\ d.starts = "irq" /\ n = Len(t) => t[n][1] = "free_irq"
             /\ (t[n][1] = "kfree") <=> (d.memory = "init" /\ n = Len(t))
  <2>1. n + 1 \in 1..Len(s) /\ t[n] = s[n + 1] /\ (n = Len(t) <=> n + 1 = Len(s))
    BY <1>1
  <2> QED BY <2>1 DEF StepsOK
<1> QED BY <1>2 DEF StepsOK

(* The rest of an exit.                                                  *)
LEMMA TailOK == ASSUME NEW d, NEW s, StepsOK(d, s), s # << >>
  PROVE /\ StepsOK(d, Tail(s)) /\ Head(s) \in ExitOps \X Nat /\ Head(s) = s[1] /\ Len(s) >= 1
        /\ Len(Tail(s)) = Len(s) - 1
        /\ \A n \in 1..Len(s) : n # 1 => n - 1 \in 1..Len(Tail(s)) /\ s[n] = Tail(s)[n - 1]
<1>1. s \in Seq(ExitOps \X Nat)
  BY DEF StepsOK
<1>2. /\ Tail(s) \in Seq(ExitOps \X Nat) /\ Head(s) \in ExitOps \X Nat /\ Head(s) = s[1]
      /\ Len(Tail(s)) = Len(s) - 1 /\ Len(s) \in Nat /\ Len(s) >= 1
      /\ \A n \in 1..Len(s) - 1 : Tail(s)[n] = s[n + 1]
  BY <1>1
<1>3. \A n \in 1..Len(s) : n # 1 => n - 1 \in 1..Len(Tail(s)) /\ s[n] = Tail(s)[n - 1]
  BY <1>2
<1>4. StepsOK(d, Tail(s))
  <2>1. \A n \in 1..Len(Tail(s)) : Tail(s)[n] = s[n + 1]
    BY <1>2
  <2> QED BY <1>2, <2>1, ShiftOK
<1> QED BY <1>2, <1>3, <1>4

(* A step of the exit ends the call that it waits for, and it alone.     *)
LEMMA ExitCallKeeps == ASSUME XInv, ExitCall PROVE XInv'
<1> DEFINE op == Head(exitTodo)[1]
           i  == Head(exitTodo)[2]
<1>1. /\ mod = "exit" /\ exitTodo # << >> /\ exitTodo' = Tail(exitTodo) /\ Exit(op, i) /\ wild = {}
      /\ UNCHANGED <<xdrv, mod, cb, ntimers, condition, wild>>
  BY DEF ExitCall, Sane
<1>2. DriverOK(xdrv) /\ StepsOK(xdrv, exitTodo)
  BY DriversOK DEF XInv, ExitTypes, ExitLeft
<1>3. /\ StepsOK(xdrv, exitTodo') /\ Head(exitTodo) = exitTodo[1] /\ op \in ExitOps /\ i \in Nat
      /\ Head(exitTodo) = <<op, i>> /\ Len(exitTodo) >= 1
      /\ Len(exitTodo') = Len(exitTodo) - 1
      /\ \A n \in 1..Len(exitTodo) : n # 1 => n - 1 \in 1..Len(exitTodo') /\ exitTodo[n] = exitTodo'[n - 1]
  BY <1>1, <1>2, TailOK
<1>4. exitTodo' = << >> <=> Len(exitTodo) = 1
  <2>1. exitTodo' \in Seq(ExitOps \X Nat) /\ exitTodo \in Seq(ExitOps \X Nat)
    BY <1>2, <1>3 DEF StepsOK
  <2> QED BY <1>3, <2>1
<1>5. /\ xdrv.again => op # "drain"
      /\ xdrv.memory = "each" => op \notin {"del", "kfree"} /\ (op = "sync" => i = 0)
      /\ xdrv.starts = "irq" /\ Len(exitTodo) = 1 => op = "free_irq"
      /\ xdrv.tells = "counter" => op = "poll"
      /\ (op = "kfree") <=> (xdrv.memory = "init" /\ Len(exitTodo) = 1)
  <2>1. 1 \in 1..Len(exitTodo) /\ exitTodo[1][1] = op /\ exitTodo[1][2] = i /\ Len(exitTodo) \in Nat
    BY <1>2, <1>3 DEF StepsOK
  <2> HIDE DEF op, i
  <2> QED BY <1>2, <2>1 DEF StepsOK
<1> HIDE DEF op, i
<1>6. /\ queued' \subseteq queued
      /\ op \in {"del", "sync"} => queued' = queued \ {i}
      /\ op \notin {"del", "sync"} => queued' = queued
      /\ memory' = (IF op = "kfree" THEN {} ELSE memory)
      /\ line' = (IF op = "free_irq" THEN FALSE ELSE line)
      /\ op = "poll" => ntimers = 0
      /\ op = "sync" /\ i # 0 => cb[i] = "out" /\ i \notin queued'
      /\ op = "drain" => cb[i] = "out" /\ i \notin queued'
  BY <1>1, <1>3 DEF Exit, ExitOps, Cancelled, MyData
<1>7. ExitTypes'
  BY <1>1, <1>6 DEF XInv, ExitTypes
<1>8. ExitLeft'
  BY <1>1, <1>3, <1>4, <1>5, <1>6 DEF XInv, ExitLeft
<1>9. WaitInv'
  <2>1. SUFFICES ASSUME WaitsForAll, NEW j \in xdrv.items, Alive(j)' PROVE Awaits(j)'
    BY <1>1 DEF WaitInv, WaitsForAll, Waits
  <2>2. Alive(j)
    BY <1>1, <1>6, <2>1 DEF Alive
  <2>3. PICK n \in 1..Len(exitTodo) : exitTodo[n] \in {<<"sync", j>>, <<"drain", j>>}
    BY <2>1, <2>2 DEF XInv, WaitInv, Awaits
  <2>4. j # 0
    BY <1>2 DEF DriverOK, Items
  <2>5. n # 1
    BY <1>1, <1>3, <1>6, <2>1, <2>3, <2>4 DEF Alive
  <2> QED BY <1>3, <2>3, <2>5 DEF Awaits
<1>10. MemoryInv'
  <2>1. CASE xdrv.memory = "static"
    BY <1>1, <1>5, <1>6, <2>1 DEF XInv, MemoryInv
  <2>2. CASE xdrv.memory = "init"
    BY <1>1, <1>4, <1>5, <1>6, <2>2 DEF XInv, MemoryInv
  <2>3. CASE xdrv.memory = "each"
    <3>1. queued' \cap Items = queued \cap Items /\ memory' = memory
      BY <1>5, <1>6, <2>3 DEF Items
    <3> QED BY <1>1, <1>2, <1>6, <3>1, <2>3 DEF XInv, MemoryInv, ExitTypes, DriverOK
  <2> QED BY <1>2, <1>1, <2>1, <2>2, <2>3 DEF DriverOK
<1>11. CountInv'
  <2>1. SUFFICES ASSUME xdrv.tells = "counter"
                 PROVE  IsFiniteSet(memory') /\ ntimers' = Cardinality(memory') /\ (exitTodo' = << >> => memory' = {})
    BY <1>1 DEF CountInv
  <2>2. memory' = memory
    BY <1>2, <1>5, <1>6, <2>1 DEF DriverOK
  <2>3. IsFiniteSet(memory) /\ ntimers = Cardinality(memory)
    BY <2>1 DEF XInv, CountInv
  <2>4. op = "poll"
    BY <1>5, <2>1
  <2>5. memory = {}
    BY <1>6, <2>3, <2>4, FS_EmptySet
  <2> QED BY <1>1, <2>2, <2>3, <2>5
<1>12. WildInv'
  BY <1>1 DEF WildInv
<1> QED BY <1>7, <1>8, <1>9, <1>10, <1>11, <1>12 DEF XInv

(* Every step keeps the invariant.                                       *)
LEMMA XStep == ASSUME XInv, [ExitNext]_exitVars PROVE XInv'
<1>1. CASE UNCHANGED exitVars
  BY <1>1 DEF exitVars, XInv, ExitTypes, ExitLeft, MemoryInv, WaitInv, CountInv, WildInv, WaitsForAll,
     Waits, Alive, Awaits
<1> QED BY <1>1, InitKeeps, GoneKeeps, ExitCallKeeps, QueueKeeps, ExpireKeeps, BodyKeeps, LeaveKeeps
        DEF ExitNext, ExitSteps, Called

(* Where an exit waits for each deferred call, none of them and none of  *)
(* their memory is left when the module is gone, and none ran without    *)
(* its memory or text, whatever armed itself again in between; where     *)
(* exit polls the counter of the pending calls, a callback outlives the  *)
(* module by its last lines only, and never its memory (the labs' exit   *)
(* functions).                                                           *)
THEOREM NothingOutlivesItsModule == ExitSpec => []NoneOutlives
<1>1. XInv /\ [ExitNext]_exitVars => XInv'
  BY XStep
<1>2. XInv => NoneOutlives
  <2> SUFFICES ASSUME XInv PROVE NoneOutlives
    OBVIOUS
  <2>0. DriverOK(xdrv)
    BY DriversOK DEF XInv, ExitTypes
  <2>1. ASSUME WaitsForAll, mod = "gone" PROVE queued = {} /\ memory = {} /\ \A i \in Items : cb[i] = "out"
    <3>1. \A i \in xdrv.items : ~Alive(i)
      BY <2>1, WaitedIsBounded
    <3>2. queued = {} /\ \A i \in Items : cb[i] = "out"
      BY <3>1 DEF XInv, ExitTypes, Alive
    <3> QED BY <3>2, <2>0, <2>1 DEF XInv, MemoryInv, DriverOK, ExitLeft
  <2>2. ASSUME xdrv.tells = "counter", mod = "gone" PROVE queued = {} /\ memory = {} /\ \A i \in Items : cb[i] # "body"
    <3>1. memory = {} /\ xdrv.memory = "each"
      BY <2>0, <2>2 DEF XInv, CountInv, ExitLeft, DriverOK
    <3> QED BY <3>1, <2>0 DEF XInv, MemoryInv, ExitTypes, DriverOK
  <2>3. (WaitsForAll => wild \subseteq {"list"}) /\ (xdrv.tells = "counter" => "memory" \notin wild)
    BY DEF XInv, WildInv
  <2> QED BY <2>1, <2>2, <2>3 DEF NoneOutlives
<1> QED BY <1>1, <1>2, ExitInitially, PTL DEF ExitSpec

(* The work that sets what init waits for is queued or about to set it.   *)
ConditionComes == mod = "init" /\ xdrv.waits = "condition" => condition \/ 1 \in queued \/ cb[1] = "body"

(* So is an item that is still counted where exit polls the counter.      *)
WaitedForComes ==
  /\ ConditionComes
  /\ mod = "exit" /\ exitTodo # << >> /\ Head(exitTodo)[1] = "poll" /\ ntimers # 0 =>
       \E i \in Items : i \in queued \/ cb[i] = "body"

(* How many steps of its callback an item is away from being done with.   *)
Left(i) == (IF i \in queued THEN 3 ELSE 0) + (IF cb[i] = "body" THEN 2 ELSE IF cb[i] = "tail" THEN 1 ELSE 0)

(* While exit drains an item or polls the counter, no step puts off what  *)
(* it waits for, and each of a callback brings it nearer.                 *)
UnloadNearer ==
  mod = "exit" /\ exitTodo # << >> /\ Head(exitTodo)[1] \in {"drain", "poll"} =>
    /\ ntimers' <= ntimers
    /\ \A i \in Items : Left(i)' <= Left(i) /\ (Called(i) => Left(i)' < Left(i))

(* Only the work's callback takes it off the queue, and it tells.         *)
LEMMA ConditionStep == ASSUME XInv, ConditionComes, [ExitNext]_exitVars PROVE ConditionComes'
<1>1. CASE UNCHANGED exitVars
  BY <1>1 DEF exitVars, ConditionComes
<1>2. CASE InitReturns \/ InitSignal \/ Unload \/ ExitSteps
  BY <1>2 DEF InitReturns, InitSignal, Unload, ExitSteps, ExitCall, Gone, ConditionComes
<1>3. ASSUME NEW i \in Items, QueueItem(i) PROVE ConditionComes'
  BY <1>3 DEF QueueItem, ConditionComes
<1>4. ASSUME NEW i \in Items, Called(i) PROVE ConditionComes'
  <2>1. SUFFICES ASSUME mod = "init", xdrv.waits = "condition"
                 PROVE  condition' \/ 1 \in queued' \/ cb'[1] = "body"
    BY <1>4 DEF ConditionComes, Called, Expire, Body, Leave
  <2>2. xdrv.tells = "condition" /\ xdrv.items = {1} /\ 1 \in Items
    BY <2>1, DriversOK, ExitAssumption DEF XInv, ExitTypes, Items, DriverOK
  <2>3. cb \in [Items -> {"out", "body", "tail"}] /\ queued \subseteq {1} /\ (cb[i] # "out" => i = 1)
    BY <2>2 DEF XInv, ExitTypes
  <2>4. CASE Expire(i)
    BY <2>2, <2>3, <2>4 DEF Expire, Goes
  <2>5. CASE Body(i)
    BY <2>2, <2>5 DEF Body, Tell
  <2>6. CASE Leave(i)
    BY <2>1, <2>2, <2>3, <2>6 DEF Leave, Goes, ConditionComes
  <2> QED BY <1>4, <2>4, <2>5, <2>6 DEF Called
<1> QED BY <1>1, <1>2, <1>3, <1>4 DEF ExitNext

(* The counter is that of the items which are queued or before the end of *)
(* their callback.                                                        *)
LEMMA PollComes == XInv /\ ConditionComes => WaitedForComes
<1> SUFFICES ASSUME XInv, mod = "exit", exitTodo # << >>, Head(exitTodo)[1] = "poll", ntimers # 0
             PROVE  \E i \in Items : i \in queued \/ cb[i] = "body"
  BY DEF WaitedForComes
<1>1. DriverOK(xdrv) /\ StepsOK(xdrv, exitTodo)
  BY DriversOK DEF XInv, ExitTypes, ExitLeft
<1>2. exitTodo \in Seq(ExitOps \X Nat)
  BY <1>1 DEF StepsOK
<1>3. 1 \in 1..Len(exitTodo) /\ exitTodo[1][1] = "poll"
  BY <1>2
<1>4. xdrv.tells = "counter" /\ xdrv.memory = "each"
  BY <1>1, <1>3 DEF StepsOK, DriverOK
<1>5. memory # {}
  BY <1>4, FS_EmptySet DEF XInv, CountInv
<1> QED BY <1>1, <1>4, <1>5 DEF XInv, MemoryInv, DriverOK, ExitTypes

(* Nothing is queued while exit drains or polls.                          *)
LEMMA NearerStep == ASSUME XInv, XInv', [ExitNext]_exitVars PROVE [UnloadNearer]_exitVars
<1>1. SUFFICES ASSUME ExitNext, mod = "exit", exitTodo # << >>, Head(exitTodo)[1] \in {"drain", "poll"}
               PROVE  /\ ntimers' <= ntimers
                      /\ \A i \in Items : Left(i)' <= Left(i) /\ (Called(i) => Left(i)' < Left(i))
  BY DEF UnloadNearer
<1>2. DriverOK(xdrv) /\ StepsOK(xdrv, exitTodo)
  BY DriversOK DEF XInv, ExitTypes, ExitLeft
<1>3. exitTodo \in Seq(ExitOps \X Nat)
  BY <1>2 DEF StepsOK
<1>4. 1 \in 1..Len(exitTodo) /\ exitTodo[1][1] \in {"drain", "poll"}
  BY <1>1, <1>3
<1>5. xdrv.starts # "irq" /\ ~xdrv.again
  BY <1>2, <1>4 DEF StepsOK, DriverOK
<1>6. cb \in [Items -> {"out", "body", "tail"}] /\ ntimers \in Int
  BY DEF XInv, ExitTypes
<1>7. ASSUME NEW i \in Items PROVE ~QueueItem(i)
  BY <1>1, <1>5 DEF QueueItem
<1>8. CASE InitReturns \/ InitSignal \/ Unload
  BY <1>1, <1>8 DEF InitReturns, InitSignal, Unload
<1>9. CASE ExitSteps
  <2>1. queued' = queued /\ cb' = cb /\ ntimers' = ntimers
    BY <1>1, <1>9 DEF ExitSteps, ExitCall, Gone, Exit
  <2>2. \A i \in Items : ~Called(i) /\ Left(i)' = Left(i) /\ Left(i) \in Nat
    BY <1>6, <2>1 DEF Called, Expire, Body, Leave, Goes, Left
  <2> QED BY <1>6, <2>1, <2>2
<1>10. ASSUME NEW i \in Items, Called(i)
       PROVE  /\ ntimers' <= ntimers
              /\ \A j \in Items : Left(j)' <= Left(j) /\ (Called(j) => Left(j)' < Left(j))
  <2>1. ntimers' <= ntimers
    BY <1>6, <1>10 DEF Called, Expire, Body, Leave, Tell
  <2>2. \A j \in Items \ {i} : cb'[j] = cb[j] /\ (j \in queued' <=> j \in queued)
    BY <1>5, <1>6, <1>10 DEF Called, Expire, Body, Leave, Goes
  <2>3. \A j \in Items \ {i} : ~Called(j) /\ Left(j)' = Left(j) /\ Left(j) \in Nat
    BY <1>6, <2>2 DEF Called, Expire, Body, Leave, Goes, Left
  <2>4. Left(i) \in Nat /\ Left(i)' < Left(i)
    BY <1>5, <1>6, <1>10 DEF Called, Expire, Body, Leave, Goes, Left
  <2>5. Left(i)' \in Nat
    BY DEF Left
  <2> QED BY <2>1, <2>3, <2>4, <2>5
<1> QED BY <1>1, <1>7, <1>8, <1>9, <1>10 DEF ExitNext

(* For any driver of the table and any number of items: an init that      *)
(* waits for its work's condition has that work under way, an exit that   *)
(* polls the counter has a timer under way, and while exit drains or      *)
(* polls nothing is queued again and every step of a callback brings the  *)
(* end nearer.  This is the part of UnloadReturns that is safety.         *)
THEOREM UnloadComesNearer == ExitSpec => []WaitedForComes /\ [][UnloadNearer]_exitVars
<1>1. ExitInit => ConditionComes
  <2> SUFFICES ASSUME ExitInit, xdrv.waits = "condition" PROVE 1 \in queued
    BY DEF ConditionComes
  <2> QED BY DriversOK, ExitAssumption DEF ExitInit, DriverOK
<1>2. XInv /\ ConditionComes /\ [ExitNext]_exitVars => (XInv /\ ConditionComes)'
  BY XStep, ConditionStep
<1>3. XInv /\ XInv' /\ [ExitNext]_exitVars => [UnloadNearer]_exitVars
  BY NearerStep
<1> QED BY <1>1, <1>2, <1>3, PollComes, ExitInitially, PTL DEF ExitSpec
=============================================================================
