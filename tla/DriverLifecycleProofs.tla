------------------------ MODULE DriverLifecycleProofs ------------------------
(***************************************************************************)
(* For every table: if its ways out release what has been acquired         *)
(* (Paired), then nothing is left behind and nothing is released twice; if *)
(* they release it in an order (Ordered), then all that calls, interrupts  *)
(* and timers use is there: whichever step fails, whatever comes in.       *)
(***************************************************************************)
EXTENDS DriverLifecycle, SequenceTheorems, TLAPS

Running == phase \in {"probing", "bound"}
Gone    == phase = "unbound"
ByHand  == Before(Table, step, FALSE)
ByCore  == Before(Table, step, TRUE)

(* The calls that are under way came in through what is held, and those    *)
(* that the release of it waits for still do.                              *)
CallsHeld == calls \subseteq Entries /\ calls \subseteq held \cup Unwaited /\ (Running => calls \subseteq held)

(* Until the way out is taken, what is held is what the steps before have  *)
(* acquired, and devres lists what the driver core has of it.              *)
RunningExact == Running =>
  /\ held \subseteq ByHand \cup ToSet(devres)
  /\ ByHand \cup ToSet(devres) \subseteq held \cup missed
  /\ ToSet(devres) \subseteq ByCore

(* On the way out, what is held is what is still to be released, but for   *)
(* the leaks; what is still to be released is held, but for what is        *)
(* released twice.                                                         *)
LeavingExact == Leaving =>
  /\ held \subseteq Table.leaks \cup ToSet(todo) \cup ToSet(devres)
  /\ ToSet(todo) \cup ToSet(devres) \subseteq held \cup missed \cup Table.twice
  /\ ToSet(todo) \cap ToSet(devres) \subseteq Table.twice
  /\ Once(todo, Table.twice)

Types == /\ driver \in Drivers
         /\ phase \in {"probing", "failing", "bound", "removing", "unbound"}
         /\ step \in 1..Len(Table.probe) + 1 /\ (phase = "bound" => step = Len(Table.probe) + 1)
         /\ todo \in Seq(STRING) /\ devres \in Seq(STRING)

IInv == /\ Types /\ CallsHeld /\ RunningExact /\ LeavingExact
        /\ Once(devres, Table.twice) /\ (Gone => held \subseteq Table.leaks)
-----------------------------------------------------------------------------
(* What ToSet and Once become when a sequence loses its first element, or  *)
(* its last, or gets one more.                                             *)
LEMMA TailElements ==
  ASSUME NEW S, NEW s \in Seq(S), s # << >>, NEW twice, Once(s, twice)
  PROVE  /\ Head(s) \in ToSet(s) /\ Tail(s) \in Seq(S)
         /\ ToSet(s) = {Head(s)} \cup ToSet(Tail(s))
         /\ Once(Tail(s), twice) /\ (Head(s) \in ToSet(Tail(s)) => Head(s) \in twice)
<1>1. /\ DOMAIN s = 1..Len(s) /\ Len(s) \in Nat /\ Len(s) > 0 /\ Head(s) = s[1]
      /\ Tail(s) \in Seq(S) /\ Len(Tail(s)) = Len(s) - 1
      /\ DOMAIN Tail(s) = 1..Len(s) - 1 /\ \A i \in 1..Len(s) - 1 : Tail(s)[i] = s[i + 1]
  OBVIOUS
<1>2. \A i \in 2..Len(s) : i - 1 \in DOMAIN Tail(s) /\ s[i] = Tail(s)[i - 1]
  BY <1>1
<1>3. ToSet(s) = {Head(s)} \cup ToSet(Tail(s))
  <2>1. ASSUME NEW x \in ToSet(s) PROVE x \in {Head(s)} \cup ToSet(Tail(s))
    <3>1. PICK i \in 1..Len(s) : x = s[i]
      BY <1>1, <2>1 DEF ToSet
    <3>2. CASE i = 1
      BY <1>1, <3>1, <3>2
    <3>3. CASE i # 1
      <4>1. i - 1 \in DOMAIN Tail(s) /\ x = Tail(s)[i - 1]
        BY <1>2, <1>1, <3>1, <3>3
      <4>2. QED BY <4>1 DEF ToSet
    <3>4. QED BY <3>2, <3>3
  <2>2. ToSet(Tail(s)) \subseteq ToSet(s)
    BY <1>1 DEF ToSet
  <2>3. Head(s) \in ToSet(s)
    BY <1>1 DEF ToSet
  <2>4. QED BY <2>1, <2>2, <2>3
<1>4. Once(Tail(s), twice)
  BY <1>1 DEF Once
<1>5. Head(s) \in ToSet(Tail(s)) => Head(s) \in twice
  BY <1>1 DEF Once, ToSet
<1>6. QED BY <1>1, <1>3, <1>4, <1>5

LEMMA OneLonger ==
  ASSUME NEW short, NEW long, NEW n \in Nat, NEW twice, DOMAIN short = 1..n, DOMAIN long = 1..n + 1,
         \A i \in 1..n : long[i] = short[i]
  PROVE  /\ ToSet(long) = {long[n + 1]} \cup ToSet(short)
         /\ Once(long, twice) <=> Once(short, twice) /\ (long[n + 1] \in ToSet(short) => long[n + 1] \in twice)
<1>1. 1..n + 1 = (1..n) \cup {n + 1} /\ n + 1 \notin 1..n
  OBVIOUS
<1>2. ToSet(long) = {long[n + 1]} \cup ToSet(short)
  BY <1>1, Zenon DEF ToSet
<1>3. ASSUME Once(long, twice)
      PROVE  Once(short, twice) /\ (long[n + 1] \in ToSet(short) => long[n + 1] \in twice)
  BY <1>1, <1>3, Zenon DEF Once, ToSet
<1>4. ASSUME Once(short, twice), long[n + 1] \in ToSet(short) => long[n + 1] \in twice,
             NEW i \in 1..n + 1, NEW j \in 1..n + 1, i # j, long[i] = long[j]
      PROVE  long[i] \in twice
  <2>1. CASE i \in 1..n /\ j \in 1..n
    BY <1>4, <2>1, Zenon DEF Once
  <2>2. CASE i = n + 1 /\ j \in 1..n
    BY <1>4, <2>2, Zenon DEF ToSet
  <2>3. CASE j = n + 1 /\ i \in 1..n
    BY <1>4, <2>3, Zenon DEF ToSet
  <2>4. QED BY <1>1, <1>4, <2>1, <2>2, <2>3
<1>5. QED BY <1>2, <1>3, <1>4 DEF Once

LEMMA FrontElements ==
  ASSUME NEW S, NEW s \in Seq(S), s # << >>, NEW twice, Once(s, twice)
  PROVE  /\ Last(s) \in ToSet(s) /\ Front(s) \in Seq(S)
         /\ ToSet(s) = {Last(s)} \cup ToSet(Front(s))
         /\ Once(Front(s), twice) /\ (Last(s) \in ToSet(Front(s)) => Last(s) \in twice)
<1> DEFINE n == Len(s) - 1
<1>1. /\ n \in Nat /\ DOMAIN s = 1..n + 1 /\ Last(s) = s[n + 1]
      /\ Front(s) \in Seq(S) /\ DOMAIN Front(s) = 1..n
      /\ \A i \in 1..n : s[i] = Front(s)[i]
  BY DEF Last, Front
<1> HIDE DEF n
<1>2. QED BY <1>1, OneLonger

LEMMA AppendElements ==
  ASSUME NEW S, NEW s \in Seq(S), NEW x \in S, NEW twice, Once(s, twice), x \in ToSet(s) => x \in twice
  PROVE  Append(s, x) \in Seq(S) /\ ToSet(Append(s, x)) = ToSet(s) \cup {x} /\ Once(Append(s, x), twice)
<1>1. /\ Append(s, x) \in Seq(S) /\ Len(Append(s, x)) = Len(s) + 1
      /\ \A i \in 1..Len(s) : Append(s, x)[i] = s[i]
      /\ Append(s, x)[Len(s) + 1] = x
  <2>1. Append(s, x) \in Seq(S)
    OBVIOUS
  <2>2. Len(Append(s, x)) = Len(s) + 1
    OBVIOUS
  <2>3. \A i \in 1..Len(s) : Append(s, x)[i] = s[i]
    OBVIOUS
  <2>4. Append(s, x)[Len(s) + 1] = x
    OBVIOUS
  <2>5. QED BY <2>1, <2>2, <2>3, <2>4, Zenon
<1>2. Len(s) \in Nat /\ DOMAIN s = 1..Len(s)
  BY LenProperties, Zenon
<1>3. DOMAIN Append(s, x) = 1..Len(s) + 1
  BY <1>1, LenProperties
<1>4. ASSUME NEW y, y = Append(s, x)[Len(s) + 1]
      PROVE  /\ ToSet(Append(s, x)) = {y} \cup ToSet(s)
             /\ Once(Append(s, x), twice) <=> Once(s, twice) /\ (y \in ToSet(s) => y \in twice)
  BY <1>1, <1>2, <1>3, <1>4, OneLonger
<1>5. QED BY <1>1, <1>4, Zenon

(* What the table of a driver is made of.                                  *)
LEMMA TableTyped ==
  ASSUME driver \in Drivers
  PROVE  /\ Table \in Schema /\ Len(Table.probe) \in Nat /\ DOMAIN Table.probe = 1..Len(Table.probe)
         /\ \A i \in 1..Len(Table.probe) : Table.probe[i] \in Steps
<1>1. Table \in Schema
  BY DriverLifecycleAssumption DEF Table
<1>2. Table.probe \in Seq(Steps)
  BY <1>1 DEF Schema
<1>3. QED BY <1>1, <1>2

(* One more step behind, and one more resource acquired.                   *)
LEMMA OneStepMore ==
  ASSUME Types, Probing, NEW m \in BOOLEAN
  PROVE  Before(Table, step + 1, m)
           = Before(Table, step, m) \cup (IF Current.managed = m THEN {Current.get} \ {""} ELSE {})
<1>1. 1..(step + 1) - 1 = (1..step - 1) \cup {step}
  BY DEF Types, Probing
<1>2. {k \in 1..(step + 1) - 1 : Table.probe[k].managed = m}
        = {k \in 1..step - 1 : Table.probe[k].managed = m} \cup (IF Current.managed = m THEN {step} ELSE {})
  BY <1>1 DEF Current
<1>3. QED
  BY <1>2 DEF Before, Current

(* A way out, when it is taken, releases what has been acquired.           *)
LEMMA WayOutExact ==
  ASSUME Types, Running, RunningExact, TablePaired, step \in WaysOut(Table)
  PROVE  LET out == WayOut(Table, step)
         IN  /\ out \in Seq(STRING) /\ Once(out, Table.twice)
             /\ held \subseteq Table.leaks \cup ToSet(out) \cup ToSet(devres)
             /\ ToSet(out) \cup ToSet(devres) \subseteq held \cup missed \cup Table.twice
             /\ ToSet(out) \cap ToSet(devres) \subseteq Table.twice
<1> DEFINE out == WayOut(Table, step)
           last == Len(Table.probe) + 1
<1>1. /\ Table \in Schema /\ Len(Table.probe) \in Nat /\ DOMAIN Table.probe = 1..Len(Table.probe)
      /\ \A i \in 1..Len(Table.probe) : Table.probe[i] \in Steps
  BY TableTyped DEF Types
<1>2. out \in Seq(STRING)
  <2>1. Table.remove \in Seq(STRING)
    BY <1>1 DEF Schema
  <2>2. \A i \in 1..Len(Table.probe) : Table.probe[i].undo \in Seq(STRING)
    BY <1>1 DEF Steps
  <2>3. QED BY <1>1, <2>1, <2>2 DEF WayOut
<1>3. Exact(Table, step)
  BY DEF TablePaired, Paired
<1>4. /\ ByHand \subseteq ToSet(out) \cup Table.leaks /\ ToSet(out) \subseteq ByHand \cup Table.twice
      /\ Once(out, Table.twice)
  BY <1>3, Zenon DEF Exact, ByHand
<1>5. ByHand \subseteq Before(Table, last, FALSE) /\ ByCore \subseteq Before(Table, last, TRUE)
  <2>1. 1..step - 1 \subseteq 1..last - 1
    BY <1>1 DEF Types
  <2>2. QED BY <2>1, Zenon DEF ByHand, ByCore, Before
<1>6. Before(Table, last, TRUE) \cap Before(Table, last, FALSE) \subseteq Table.twice
  BY Zenon DEF TablePaired, Paired, ManagedOnce
<1>7. /\ held \subseteq ByHand \cup ToSet(devres) /\ ByHand \cup ToSet(devres) \subseteq held \cup missed
      /\ ToSet(devres) \subseteq ByCore
  BY DEF RunningExact
<1> HIDE DEF out, last
<1>8. ToSet(out) \cap ToSet(devres) \subseteq Table.twice
  BY <1>4, <1>5, <1>6, <1>7, Zenon
<1>9. ToSet(out) \cup ToSet(devres) \subseteq held \cup missed \cup Table.twice
  BY <1>4, <1>7, Zenon
<1>10. held \subseteq Table.leaks \cup ToSet(out) \cup ToSet(devres)
  BY <1>4, <1>7, Zenon
<1>11. QED
  BY <1>2, <1>4, <1>8, <1>9, <1>10, Zenon DEF out
-----------------------------------------------------------------------------
LEMMA InitIInv == Init /\ TablePaired => IInv
<1> SUFFICES ASSUME Init PROVE IInv
  OBVIOUS
<1>1. Len(Table.probe) \in Nat
  BY TableTyped DEF Init
<1>2. Types
  BY <1>1 DEF Init, Types
<1>3. ToSet(devres) = {} /\ Once(devres, Table.twice)
  BY DEF Init, ToSet, Once
<1>4. ByHand = {} /\ ByCore = {}
  BY DEF Init, ByHand, ByCore, Before
<1>5. QED
  BY <1>2, <1>3, <1>4 DEF Init, IInv, CallsHeld, RunningExact, LeavingExact, Leaving, Gone, Running

(* The table, and what is read off it, stay the same.                      *)
LEMMA TableStays ==
  ASSUME driver' = driver
  PROVE  Table' = Table /\ Entries' = Entries
<1>1. Table' = Table
  BY DEF Table
<1>2. QED BY <1>1 DEF Entries

LEMMA AcquireKeeps == IInv /\ TablePaired /\ Acquire /\ driver' = driver => IInv'
<1> SUFFICES ASSUME IInv, TablePaired, Acquire, driver' = driver PROVE IInv'
  OBVIOUS
<1>1. Table' = Table /\ Entries' = Entries
  BY TableStays
<1>2. /\ Len(Table.probe) \in Nat /\ DOMAIN Table.probe = 1..Len(Table.probe)
      /\ Current \in Steps /\ step \in 1..Len(Table.probe)
  <2>1. Len(Table.probe) \in Nat /\ DOMAIN Table.probe = 1..Len(Table.probe)
    BY TableTyped DEF IInv, Types
  <2>2. step \in 1..Len(Table.probe)
    <3>1. Probing /\ Types
      BY DEF Acquire, IInv
    <3>2. QED BY <2>1, <3>1 DEF Types, Probing
  <2>3. Current \in Steps
    BY <2>2, TableTyped, Zenon DEF IInv, Types, Current
  <2>4. QED BY <2>1, <2>2, <2>3
<1>3. /\ phase = "probing" /\ phase' = "probing" /\ step' = step + 1
      /\ held' = held \cup ({Current.get} \ {""}) /\ missed' = missed /\ todo' = todo /\ calls' = calls
  BY DEF Acquire, Probing
<1>4. /\ ByHand' = ByHand \cup (IF Current.managed = FALSE THEN {Current.get} \ {""} ELSE {})
      /\ ByCore' = ByCore \cup (IF Current.managed = TRUE THEN {Current.get} \ {""} ELSE {})
  BY <1>1, <1>3, OneStepMore DEF Acquire, IInv, ByHand, ByCore
<1>5. /\ held \subseteq ByHand \cup ToSet(devres) /\ ByHand \cup ToSet(devres) \subseteq held \cup missed
      /\ ToSet(devres) \subseteq ByCore /\ calls \subseteq held /\ calls \subseteq Entries
  BY <1>3 DEF IInv, RunningExact, CallsHeld, Running
<1>6. /\ devres' \in Seq(STRING) /\ Once(devres', Table.twice)
      /\ ToSet(devres') = ToSet(devres) \cup (IF Current.managed THEN {Current.get} ELSE {})
      /\ Current.managed => Current.get # ""
  <2>1. CASE ~Current.managed
    BY <1>1, <2>1 DEF Acquire, IInv, Types
  <2>2. CASE Current.managed
    <3>1. step \in Managed(Table) /\ Current = Table.probe[step]
      BY <1>2, <2>2 DEF Managed, Current
    <3>2. Current.get # ""
      BY <3>1, Zenon DEF TablePaired, Paired, ManagedOnce
    <3>3. ASSUME Current.get \in ByCore PROVE Current.get \in Table.twice
      <4>1. PICK k \in 1..step - 1 : Table.probe[k].managed = TRUE /\ Table.probe[k].get = Current.get
        BY <3>3 DEF ByCore, Before
      <4>2. k \in Managed(Table) /\ k # step
        BY <1>2, <4>1 DEF Managed
      <4>3. QED
        BY <3>1, <4>1, <4>2, Zenon DEF TablePaired, Paired, ManagedOnce
    <3>4. Current.get \in STRING /\ devres' = Append(devres, Current.get)
      BY <1>2, <2>2 DEF Acquire, Steps
    <3>5. devres \in Seq(STRING) /\ Once(devres, Table.twice)
      BY DEF IInv, Types
    <3>6. Current.get \in ToSet(devres) => Current.get \in Table.twice
      BY <1>5, <3>3, Zenon
    <3>7. /\ Append(devres, Current.get) \in Seq(STRING) /\ Once(Append(devres, Current.get), Table.twice)
          /\ ToSet(Append(devres, Current.get)) = ToSet(devres) \cup {Current.get}
      BY <3>4, <3>5, <3>6, AppendElements
    <3>8. QED BY <2>2, <3>2, <3>4, <3>7
  <2>3. QED BY <2>1, <2>2
<1>7. Types'
  <2>1. step + 1 \in 1..Len(Table.probe) + 1
    BY <1>2
  <2>2. devres' \in Seq(STRING) /\ todo \in Seq(STRING) /\ driver \in Drivers
    BY <1>6 DEF IInv, Types
  <2>3. QED BY <1>1, <1>3, <2>1, <2>2 DEF Types
<1>8. CallsHeld'
  BY <1>1, <1>3, <1>5 DEF CallsHeld, Running
<1>9. RunningExact'
  <2>1. Current.managed \in BOOLEAN
    BY <1>2 DEF Steps
  <2>2. CASE Current.managed = TRUE
    BY <1>3, <1>4, <1>5, <1>6, <2>2 DEF RunningExact
  <2>3. CASE Current.managed = FALSE
    BY <1>3, <1>4, <1>5, <1>6, <2>3 DEF RunningExact
  <2>4. QED BY <2>1, <2>2, <2>3
<1>10. LeavingExact' /\ (Gone => held \subseteq Table.leaks)'
  BY <1>3 DEF LeavingExact, Leaving, Gone
<1>11. QED BY <1>1, <1>6, <1>7, <1>8, <1>9, <1>10 DEF IInv

LEMMA MissKeeps == IInv /\ TablePaired /\ Miss /\ driver' = driver => IInv'
<1> SUFFICES ASSUME IInv, TablePaired, Miss, driver' = driver PROVE IInv'
  OBVIOUS
<1>1. Table' = Table /\ Entries' = Entries
  BY TableStays
<1>2. /\ Len(Table.probe) \in Nat /\ Current \in Steps /\ step \in 1..Len(Table.probe)
  BY TableTyped DEF IInv, Types, Miss, Probing, Current
<1>3. /\ phase = "probing" /\ phase' = "probing" /\ step' = step + 1 /\ missed' = missed \cup {Current.get}
      /\ held' = held /\ devres' = devres /\ todo' = todo /\ calls' = calls
  BY DEF Miss, Probing
<1>4. /\ ByHand' = ByHand \cup (IF Current.managed = FALSE THEN {Current.get} \ {""} ELSE {})
      /\ ByCore' = ByCore \cup (IF Current.managed = TRUE THEN {Current.get} \ {""} ELSE {})
  BY <1>1, <1>3, OneStepMore DEF Miss, IInv, ByHand, ByCore
<1>5. Types' /\ CallsHeld'
  BY <1>1, <1>2, <1>3 DEF IInv, Types, CallsHeld, Running
<1>6. RunningExact'
  BY <1>3, <1>4 DEF IInv, RunningExact, Running
<1>7. LeavingExact' /\ (Gone => held \subseteq Table.leaks)'
  BY <1>3 DEF LeavingExact, Leaving, Gone
<1>8. QED BY <1>1, <1>3, <1>5, <1>6, <1>7 DEF IInv

LEMMA WayOutTaken ==
  ASSUME IInv, TablePaired, driver' = driver, Running, step \in WaysOut(Table),
         phase' \in {"failing", "removing"}, todo' = WayOut(Table, step),
         UNCHANGED <<step, held, missed, devres, calls>>
  PROVE  IInv'
<1>1. Table' = Table /\ Entries' = Entries
  BY TableStays
<1>2. /\ todo' \in Seq(STRING) /\ Once(todo', Table.twice)
      /\ held \subseteq Table.leaks \cup ToSet(todo') \cup ToSet(devres)
      /\ ToSet(todo') \cup ToSet(devres) \subseteq held \cup missed \cup Table.twice
      /\ ToSet(todo') \cap ToSet(devres) \subseteq Table.twice
  BY WayOutExact DEF IInv
<1>3. Types' /\ CallsHeld'
  BY <1>1, <1>2 DEF IInv, Types, CallsHeld, Running
<1>4. RunningExact' /\ (Gone => held \subseteq Table.leaks)'
  BY DEF RunningExact, Running, Gone
<1>5. LeavingExact'
  BY <1>1, <1>2 DEF LeavingExact
<1>6. QED BY <1>1, <1>3, <1>4, <1>5 DEF IInv

LEMMA FailKeeps == IInv /\ TablePaired /\ Fail /\ driver' = driver => IInv'
<1> SUFFICES ASSUME IInv, TablePaired, Fail, driver' = driver PROVE IInv'
  OBVIOUS
<1>1. DOMAIN Table.probe = 1..Len(Table.probe) /\ Len(Table.probe) \in Nat /\ step \in DOMAIN Table.probe
  BY TableTyped DEF IInv, Types, Fail, Probing
<1>2. step \in WaysOut(Table) /\ todo' = WayOut(Table, step)
  BY <1>1 DEF Fail, Current, WaysOut, WayOut
<1>3. QED
  BY <1>2, WayOutTaken DEF Fail, Probing, Running

LEMMA MyRemoveKeeps == IInv /\ TablePaired /\ MyRemove /\ driver' = driver => IInv'
<1> SUFFICES ASSUME IInv, TablePaired, MyRemove, driver' = driver PROVE IInv'
  OBVIOUS
<1>1. DOMAIN Table.probe = 1..Len(Table.probe) /\ Len(Table.probe) \in Nat /\ step = Len(Table.probe) + 1
  BY TableTyped DEF IInv, Types, MyRemove
<1>2. step \in WaysOut(Table) /\ todo' = WayOut(Table, step)
  BY <1>1 DEF MyRemove, WaysOut, WayOut
<1>3. QED
  BY <1>2, WayOutTaken DEF MyRemove, Running

LEMMA ReleaseKeeps == IInv /\ TablePaired /\ Release /\ driver' = driver => IInv'
<1> SUFFICES ASSUME IInv, TablePaired, Release, driver' = driver PROVE IInv'
  OBVIOUS
<1> DEFINE r == Head(todo)
<1>1. Table' = Table /\ Entries' = Entries
  BY TableStays
<1>2. /\ Leaving /\ todo # << >> /\ ~Waits(r) /\ held' = held \ {r} /\ todo' = Tail(todo)
      /\ phase' = phase /\ step' = step /\ missed' = missed /\ devres' = devres /\ calls' = calls
  BY DEF Release
<1>3. todo \in Seq(STRING) /\ Once(todo, Table.twice)
  BY <1>2 DEF IInv, Types, LeavingExact
<1>4. /\ todo' \in Seq(STRING) /\ Once(todo', Table.twice)
      /\ ToSet(todo) = {r} \cup ToSet(todo') /\ (r \in ToSet(todo') => r \in Table.twice)
  BY <1>2, <1>3, TailElements
<1>5. /\ held \subseteq Table.leaks \cup ToSet(todo) \cup ToSet(devres)
      /\ ToSet(todo) \cup ToSet(devres) \subseteq held \cup missed \cup Table.twice
      /\ ToSet(todo) \cap ToSet(devres) \subseteq Table.twice
  BY <1>2 DEF IInv, LeavingExact
<1> HIDE DEF r
<1>6. Types'
  BY <1>1, <1>2, <1>4 DEF IInv, Types
<1>7. CallsHeld'
  <2>1. r \notin calls \/ r \in Unwaited
    BY <1>2 DEF Waits
  <2>2. ~Running'
    BY <1>2 DEF Leaving, Running
  <2>3. QED BY <1>1, <1>2, <2>1, <2>2 DEF IInv, CallsHeld, Unwaited, Files
<1>8. LeavingExact'
  <2>1. held' \subseteq Table.leaks \cup ToSet(todo') \cup ToSet(devres)
    BY <1>2, <1>4, <1>5, Zenon
  <2>2. ToSet(todo') \cup ToSet(devres) \subseteq held' \cup missed \cup Table.twice
    BY <1>2, <1>4, <1>5, Zenon
  <2>3. ToSet(todo') \cap ToSet(devres) \subseteq Table.twice
    BY <1>4, <1>5, Zenon
  <2>4. QED BY <1>1, <1>2, <1>4, <2>1, <2>2, <2>3 DEF LeavingExact
<1>9. RunningExact' /\ (Gone => held \subseteq Table.leaks)'
  BY <1>2 DEF Leaving, RunningExact, Running, Gone
<1>10. QED BY <1>1, <1>2, <1>6, <1>7, <1>8, <1>9 DEF IInv

LEMMA DevresReleaseKeeps == IInv /\ TablePaired /\ DevresRelease /\ driver' = driver => IInv'
<1> SUFFICES ASSUME IInv, TablePaired, DevresRelease, driver' = driver PROVE IInv'
  OBVIOUS
<1> DEFINE r == Last(devres)
<1>1. Table' = Table /\ Entries' = Entries
  BY TableStays
<1>2. /\ Leaving /\ todo = << >> /\ devres # << >> /\ ~Waits(r) /\ held' = held \ {r} /\ devres' = Front(devres)
      /\ phase' = phase /\ step' = step /\ missed' = missed /\ todo' = todo /\ calls' = calls
  BY DEF DevresRelease
<1>3. devres \in Seq(STRING) /\ Once(devres, Table.twice)
  BY DEF IInv, Types
<1>4. /\ devres' \in Seq(STRING) /\ Once(devres', Table.twice)
      /\ ToSet(devres) = {r} \cup ToSet(devres') /\ (r \in ToSet(devres') => r \in Table.twice)
  BY <1>2, <1>3, FrontElements
<1>5. /\ held \subseteq Table.leaks \cup ToSet(todo) \cup ToSet(devres)
      /\ ToSet(todo) \cup ToSet(devres) \subseteq held \cup missed \cup Table.twice
      /\ Once(todo, Table.twice)
  BY <1>2 DEF IInv, LeavingExact
<1>6. ToSet(todo) = {}
  BY <1>2 DEF ToSet
<1> HIDE DEF r
<1>7. Types'
  BY <1>1, <1>2, <1>4 DEF IInv, Types
<1>8. CallsHeld'
  <2>1. r \notin calls \/ r \in Unwaited
    BY <1>2 DEF Waits
  <2>2. ~Running'
    BY <1>2 DEF Leaving, Running
  <2>3. QED BY <1>1, <1>2, <2>1, <2>2 DEF IInv, CallsHeld, Unwaited, Files
<1>9. LeavingExact'
  <2>1. held' \subseteq Table.leaks \cup ToSet(todo) \cup ToSet(devres')
    BY <1>2, <1>4, <1>5, Zenon
  <2>2. ToSet(todo) \cup ToSet(devres') \subseteq held' \cup missed \cup Table.twice
    BY <1>2, <1>4, <1>5, <1>6, Zenon
  <2>3. QED BY <1>1, <1>2, <1>4, <1>5, <1>6, <2>1, <2>2 DEF LeavingExact
<1>10. RunningExact' /\ (Gone => held \subseteq Table.leaks)'
  BY <1>2 DEF Leaving, RunningExact, Running, Gone
<1>11. QED BY <1>1, <1>4, <1>7, <1>8, <1>9, <1>10 DEF IInv

LEMMA UnbindKeeps == IInv /\ TablePaired /\ Unbind /\ driver' = driver => IInv'
<1> SUFFICES ASSUME IInv, TablePaired, Unbind, driver' = driver PROVE IInv'
  OBVIOUS
<1>1. Table' = Table /\ Entries' = Entries
  BY TableStays
<1>2. ToSet(todo) = {} /\ ToSet(devres) = {}
  BY DEF Unbind, ToSet
<1>3. held' \subseteq Table.leaks
  BY <1>2 DEF Unbind, IInv, LeavingExact
<1>4. Types' /\ CallsHeld' /\ RunningExact' /\ LeavingExact'
  BY <1>1 DEF Unbind, IInv, Types, CallsHeld, RunningExact, LeavingExact, Running, Leaving
<1>5. QED BY <1>1, <1>3, <1>4 DEF Unbind, IInv, Once

LEMMA BindKeeps == IInv /\ TablePaired /\ Bind /\ driver' = driver => IInv'
<1> SUFFICES ASSUME IInv, TablePaired, Bind, driver' = driver PROVE IInv'
  OBVIOUS
<1>1. Table' = Table /\ Entries' = Entries
  BY TableStays
<1>2. step = Len(Table.probe) + 1
  BY TableTyped DEF Bind, IInv, Types
<1>3. Types'
  BY <1>1, <1>2 DEF Bind, IInv, Types
<1>4. ByHand' = ByHand /\ ByCore' = ByCore
  BY <1>1 DEF Bind, ByHand, ByCore
<1>5. CallsHeld' /\ RunningExact'
  BY <1>1, <1>4 DEF Bind, IInv, CallsHeld, RunningExact, Running
<1>6. LeavingExact' /\ (Gone => held \subseteq Table.leaks)'
  BY DEF Bind, LeavingExact, Leaving, Gone
<1>7. QED BY <1>1, <1>3, <1>5, <1>6 DEF Bind, IInv, Once

LEMMA EnterKeeps == ASSUME NEW e \in Entries PROVE IInv /\ TablePaired /\ Enter(e) /\ driver' = driver => IInv'
<1> SUFFICES ASSUME IInv, TablePaired, Enter(e), driver' = driver PROVE IInv'
  OBVIOUS
<1>1. Table' = Table /\ Entries' = Entries
  BY TableStays
<1>2. CallsHeld'
  BY <1>1 DEF Enter, Open, IInv, CallsHeld, Running
<1>3. ByHand' = ByHand /\ ByCore' = ByCore
  BY <1>1 DEF Enter, ByHand, ByCore
<1>4. Types' /\ RunningExact' /\ LeavingExact' /\ (Gone => held \subseteq Table.leaks)'
  BY <1>1, <1>3 DEF Enter, IInv, Types, RunningExact, LeavingExact, Running, Leaving, Gone
<1>5. QED BY <1>1, <1>2, <1>4 DEF Enter, IInv, Once

(* A timer that adds itself again under its removal is one of the leaks.   *)
LEMMA ReturnKeeps == ASSUME NEW e \in Entries PROVE IInv /\ TablePaired /\ Return(e) /\ driver' = driver => IInv'
<1> SUFFICES ASSUME IInv, TablePaired, Return(e), driver' = driver PROVE IInv'
  OBVIOUS
<1>1. Table' = Table /\ Entries' = Entries
  BY TableStays
<1>2. /\ e \in calls /\ calls' = calls \ {e} /\ held' = held \cup ({e} \cap Periodic)
      /\ phase' = phase /\ step' = step /\ missed' = missed /\ devres' = devres /\ todo' = todo
  BY DEF Return
<1>3. e \in Periodic \cap Unwaited => e \in Table.leaks
  BY DEF TablePaired, Paired, Entries
<1>4. held' \subseteq held \cup Table.leaks /\ held \subseteq held' /\ (Running => held' = held)
  BY <1>2, <1>3 DEF IInv, CallsHeld
<1>5. ByHand' = ByHand /\ ByCore' = ByCore
  BY <1>1, <1>2 DEF ByHand, ByCore
<1>6. Types' /\ CallsHeld'
  BY <1>1, <1>2, <1>4 DEF IInv, Types, CallsHeld, Running, Unwaited, Files
<1>7. RunningExact'
  BY <1>2, <1>4, <1>5 DEF IInv, RunningExact, Running
<1>8. LeavingExact' /\ (Gone => held \subseteq Table.leaks)'
  BY <1>1, <1>2, <1>4 DEF IInv, LeavingExact, Leaving, Gone
<1>9. QED BY <1>1, <1>2, <1>6, <1>7, <1>8 DEF IInv, Once

LEMMA StepIInv == IInv /\ TablePaired /\ [Next]_vars => IInv'
<1> SUFFICES ASSUME IInv, TablePaired, [Next]_vars PROVE IInv'
  OBVIOUS
<1>1. CASE Next
  <2>1. driver' = driver
    BY <1>1 DEF Next
  <2>2. CASE Acquire    BY <2>1, <2>2, AcquireKeeps
  <2>3. CASE Miss       BY <2>1, <2>3, MissKeeps
  <2>4. CASE Fail       BY <2>1, <2>4, FailKeeps
  <2>5. CASE Bind       BY <2>1, <2>5, BindKeeps
  <2>6. CASE MyRemove   BY <2>1, <2>6, MyRemoveKeeps
  <2>7. CASE Release    BY <2>1, <2>7, ReleaseKeeps
  <2>8. CASE DevresRelease  BY <2>1, <2>8, DevresReleaseKeeps
  <2>9. CASE Unbind     BY <2>1, <2>9, UnbindKeeps
  <2>10. ASSUME NEW e \in Entries, Enter(e) \/ Return(e) PROVE IInv'
    BY <2>1, <2>10, EnterKeeps, ReturnKeeps
  <2>11. QED
    BY <1>1, <2>2, <2>3, <2>4, <2>5, <2>6, <2>7, <2>8, <2>9, <2>10 DEF Next
<1>2. CASE UNCHANGED vars
  <2>1. Table' = Table /\ Entries' = Entries
    BY <1>2, TableStays DEF vars
  <2>2. ByHand' = ByHand /\ ByCore' = ByCore
    BY <1>2, <2>1 DEF vars, ByHand, ByCore
  <2>3. QED
    BY <1>2, <2>1, <2>2 DEF vars, IInv, Types, CallsHeld, RunningExact, LeavingExact, Running, Leaving, Gone, Once
<1>3. QED BY <1>1, <1>2

(* The table stays the same, and so does what it is worth.                 *)
LEMMA StaysPaired == [Next]_vars => TablePaired' = TablePaired
<1>1. [Next]_vars => driver' = driver
  BY DEF Next, vars
<1>2. QED BY <1>1, TableStays DEF TablePaired

LEMMA Invariant == Spec => [](TablePaired => IInv)
<1>1. Init => (TablePaired => IInv)
  BY InitIInv
<1>2. (TablePaired => IInv) /\ [Next]_vars => (TablePaired => IInv)'
  BY StepIInv, StaysPaired
<1>3. QED BY <1>1, <1>2, PTL DEF Spec
-----------------------------------------------------------------------------
(* Error paths and remove of a driver whose table is paired leave nothing  *)
(* that was acquired behind, but for the leaks the table names: for every  *)
(* table, whichever steps fail, whatever comes in.                         *)
THEOREM PairedLeavesNothing == Spec => [](TablePaired => NothingLeft)
<1>1. IInv => NothingLeft
  BY DEF IInv, NothingLeft, Gone
<1>2. QED BY <1>1, Invariant, PTL

(* Nor do they, or the driver core after them, release what is not held,   *)
(* but for what the table says is released twice.                          *)
THEOREM PairedReleasesOnce == Spec => [](TablePaired => ReleasedOnce)
<1>1. ASSUME IInv, Leaving PROVE todo # << >> => Head(todo) \in held \cup missed \cup Table.twice
  <2>1. todo # << >> => Head(todo) \in ToSet(todo)
    BY <1>1, TailElements DEF IInv, Types, LeavingExact
  <2>2. QED BY <1>1, <2>1 DEF IInv, LeavingExact
<1>2. ASSUME IInv, Leaving PROVE devres # << >> => Last(devres) \in held \cup missed \cup Table.twice
  <2>1. devres # << >> => Last(devres) \in ToSet(devres)
    BY <1>2, FrontElements DEF IInv, Types
  <2>2. QED BY <1>2, <2>1 DEF IInv, LeavingExact
<1>3. IInv => ReleasedOnce
  BY <1>1, <1>2 DEF ReleasedOnce
<1>4. QED BY <1>3, Invariant, PTL
-----------------------------------------------------------------------------
(* Entry points whose table is ordered.                                    *)
Bound      == Table.needs \ Table.exposed
LastWayOut == phase = "removing" /\ Table.pins
(* A file that the remove has shut; nothing leaves it behind.              *)
Shut(e)    == LastWayOut /\ e \in Files \ Table.leaks
Live(e)    == (e \in held \/ e \in calls) /\ ~Shut(e)

(* Between e and the end of what is to be released there is no r before    *)
(* the first e.                                                            *)
Ahead(e, r) ==
  /\ \A b \in DOMAIN todo : todo[b] = r => \E a \in 1..b - 1 : todo[a] = e
  /\ \A p \in DOMAIN devres : devres[p] = r =>
       e \in ToSet(todo) \/ \E q \in DOMAIN devres : p < q /\ devres[q] = e

(* What the driver core will release of what e uses is older than e.       *)
CoreOrdered == Running => \A n \in Bound :
  n[1] \in held /\ (\A j \in DOMAIN Table.probe : Table.probe[j].get = n[1] => Table.probe[j].managed) =>
    \A p \in DOMAIN devres : devres[p] = n[2] => \E q \in DOMAIN devres : p < q /\ devres[q] = n[1]

StaysOrGoesLater(n) ==
  /\ n[2] \in held \cup missed
  /\ n[2] \notin ToSet(todo) \cup ToSet(devres) \/ (n[1] \notin Unwaited /\ Ahead(n[1], n[2]))

ReadyInv == /\ Running => ByCore \subseteq held \cup missed
            /\ CoreOrdered
            /\ LastWayOut => calls \cap Files = {}
            /\ Leaving => \A n \in Bound : Live(n[1]) => StaysOrGoesLater(n)
            /\ Gone => \A n \in Bound : Live(n[1]) => n[2] \in held \cup missed

LEMMA PairsTyped == ASSUME Types, NEW n \in Bound PROVE n \in Table.needs /\ n[1] \in Entries
BY DEF Bound, Entries

(* What has been acquired stays acquired for later steps.                  *)
LEMMA GotGrows ==
  ASSUME NEW t, NEW i \in Int, NEW j \in Int, j <= i
  PROVE  Got(t, j) \subseteq Got(t, i)
<1>1. 1..j - 1 \subseteq 1..i - 1
  OBVIOUS
<1>2. QED BY <1>1, Zenon DEF Got, Before

(* While the driver runs, what is held has been acquired by a step, and    *)
(* what it uses by a step before that one.                                 *)
LEMMA HeldHasStep ==
  ASSUME IInv, Running, NEW e \in held
  PROVE  e \in Got(Table, step) /\ \E j \in DOMAIN Table.probe : j < step /\ Table.probe[j].get = e
<1>1. held \subseteq ByHand \cup ToSet(devres) /\ ToSet(devres) \subseteq ByCore
  BY DEF IInv, RunningExact
<1>2. e \in Got(Table, step)
  BY <1>1 DEF ByHand, ByCore, Got
<1>3. DOMAIN Table.probe = 1..Len(Table.probe) /\ Len(Table.probe) \in Nat
      /\ step \in 1..Len(Table.probe) + 1
  BY TableTyped DEF IInv, Types
<1>4. PICK j \in 1..step - 1 : Table.probe[j].get = e
  BY <1>2 DEF Got, Before
<1>5. j \in DOMAIN Table.probe /\ j < step
  BY <1>3, <1>4
<1>6. QED BY <1>2, <1>4, <1>5

LEMMA RunningReady ==
  ASSUME IInv, ReadyInv, TableOrdered, Running, NEW n \in Bound, n[1] \in held
  PROVE  n[2] \in held \cup missed
<1>1. PICK j \in DOMAIN Table.probe : j < step /\ Table.probe[j].get = n[1]
  BY HeldHasStep
<1>2. n[2] \in Got(Table, j)
  BY <1>1, Zenon DEF TableOrdered, Ordered, AllBefore, Bound
<1>3. j \in Int /\ step \in Int /\ j <= step
  <2>1. DOMAIN Table.probe = 1..Len(Table.probe) /\ step \in 1..Len(Table.probe) + 1 /\ Len(Table.probe) \in Nat
    BY TableTyped DEF IInv, Types
  <2>2. QED BY <1>1, <2>1
<1>4. n[2] \in Got(Table, step)
  BY <1>2, <1>3, GotGrows
<1>5. ByHand \subseteq held \cup missed /\ ByCore \subseteq held \cup missed
  BY DEF IInv, RunningExact, ReadyInv
<1>6. QED BY <1>4, <1>5 DEF Got, ByHand, ByCore

LEMMA InitReady == Init => ReadyInv
<1> SUFFICES ASSUME Init PROVE ReadyInv
  OBVIOUS
<1>1. Len(Table.probe) \in Nat
  BY TableTyped DEF Init
<1>2. ByCore = {}
  BY DEF Init, ByCore, Before
<1>3. QED
  BY <1>2 DEF Init, ReadyInv, CoreOrdered, LastWayOut, Leaving, Gone

LEMMA AcquireReady == IInv /\ ReadyInv /\ TableOrdered /\ Acquire /\ driver' = driver => ReadyInv'
<1> SUFFICES ASSUME IInv, ReadyInv, TableOrdered, Acquire, driver' = driver PROVE ReadyInv'
  OBVIOUS
<1>1. Table' = Table /\ Bound' = Bound
  BY TableStays DEF Bound
<1>2. /\ phase = "probing" /\ phase' = "probing" /\ step' = step + 1
      /\ held' = held \cup ({Current.get} \ {""}) /\ missed' = missed
      /\ devres' = (IF Current.managed THEN Append(devres, Current.get) ELSE devres)
  BY DEF Acquire, Probing
<1>3. ByCore' = ByCore \cup (IF Current.managed = TRUE THEN {Current.get} \ {""} ELSE {})
  BY <1>1, <1>2, OneStepMore DEF Acquire, IInv, ByCore
<1>4. ByCore' \subseteq held' \cup missed'
  BY <1>2, <1>3 DEF ReadyInv, Running
<1>5. /\ DOMAIN Table.probe = 1..Len(Table.probe) /\ Len(Table.probe) \in Nat /\ step \in DOMAIN Table.probe
      /\ Current = Table.probe[step] /\ Current.managed \in BOOLEAN /\ Current.get \in STRING
  <2>1. Probing /\ Types
    BY DEF Acquire, IInv
  <2>2. DOMAIN Table.probe = 1..Len(Table.probe) /\ Len(Table.probe) \in Nat
    BY <2>1, TableTyped DEF Types
  <2>3. step \in DOMAIN Table.probe
    BY <2>1, <2>2 DEF Types, Probing
  <2>4. Current \in Steps
    BY <2>1, <2>2, <2>3, TableTyped, Zenon DEF Types, Current
  <2>5. QED BY <2>2, <2>3, <2>4 DEF Steps, Current
<1>6. devres \in Seq(STRING) /\ Len(devres) \in Nat /\ DOMAIN devres = 1..Len(devres)
  BY DEF IInv, Types
<1>7. ASSUME NEW n \in Bound, n[1] \in held',
             \A j \in DOMAIN Table.probe : Table.probe[j].get = n[1] => Table.probe[j].managed,
             NEW p \in DOMAIN devres', devres'[p] = n[2]
      PROVE  \E q \in DOMAIN devres' : p < q /\ devres'[q] = n[1]
  <2>1. \A j, k \in DOMAIN Table.probe : Table.probe[j].get = n[1] /\ Table.probe[k].get = n[2] => k < j
    BY <1>7, Zenon DEF TableOrdered, Ordered, AllBefore, Bound
  <2>2. n[1] \in held => \A i \in DOMAIN devres : devres[i] = n[2] => \E q \in DOMAIN devres : i < q /\ devres[q] = n[1]
    BY <1>2, <1>7 DEF ReadyInv, CoreOrdered, Running
  <2>3. CASE ~Current.managed
    <3>1. devres' = devres /\ Current.get # n[1]
      BY <1>2, <1>5, <1>7, <2>3
    <3>2. n[1] \in held
      BY <1>2, <1>7, <3>1
    <3>3. QED BY <1>7, <2>2, <3>1, <3>2
  <2>4. CASE Current.managed
    <3>1. /\ DOMAIN devres' = 1..Len(devres) + 1 /\ devres'[Len(devres) + 1] = Current.get
          /\ \A i \in 1..Len(devres) : devres'[i] = devres[i]
      <4>1. devres' = Append(devres, Current.get)
        BY <1>2, <2>4
      <4>2. QED BY <1>5, <1>6, <4>1
    <3>2. CASE Current.get = n[1]
      <4>1. Current.get # n[2]
        BY <1>5, <2>1, <3>2
      <4>2. p \in 1..Len(devres)
        BY <1>6, <1>7, <3>1, <4>1
      <4>3. Len(devres) + 1 \in DOMAIN devres' /\ p < Len(devres) + 1
        BY <1>6, <3>1, <4>2
      <4>4. QED BY <3>1, <3>2, <4>3
    <3>3. CASE Current.get # n[1]
      <4>1. n[1] \in held
        BY <1>2, <1>7, <3>3
      <4>2. PICK j \in DOMAIN Table.probe : j < step /\ Table.probe[j].get = n[1]
        BY <1>2, <4>1, HeldHasStep DEF Running
      <4>3. Current.get # n[2]
        BY <1>5, <2>1, <4>2
      <4>4. p \in 1..Len(devres) /\ devres[p] = n[2]
        BY <1>6, <1>7, <3>1, <4>3
      <4>5. PICK q \in DOMAIN devres : p < q /\ devres[q] = n[1]
        BY <1>6, <2>2, <4>1, <4>4
      <4>6. q \in DOMAIN devres' /\ devres'[q] = n[1]
        BY <1>6, <3>1, <4>5
      <4>7. QED BY <4>5, <4>6
    <3>4. QED BY <3>2, <3>3
  <2>5. QED BY <2>3, <2>4
<1>8. CoreOrdered'
  BY <1>1, <1>7 DEF CoreOrdered
<1>9. QED BY <1>2, <1>4, <1>8 DEF ReadyInv, LastWayOut, Leaving, Gone

LEMMA MissReady == IInv /\ ReadyInv /\ Miss /\ driver' = driver => ReadyInv'
<1> SUFFICES ASSUME IInv, ReadyInv, Miss, driver' = driver PROVE ReadyInv'
  OBVIOUS
<1>1. Table' = Table /\ Bound' = Bound
  BY TableStays DEF Bound
<1>2. /\ phase = "probing" /\ phase' = "probing" /\ step' = step + 1 /\ missed' = missed \cup {Current.get}
      /\ held' = held /\ devres' = devres
  BY DEF Miss, Probing
<1>3. ByCore' = ByCore \cup (IF Current.managed = TRUE THEN {Current.get} \ {""} ELSE {})
  BY <1>1, <1>2, OneStepMore DEF Miss, IInv, ByCore
<1>4. ByCore' \subseteq held' \cup missed'
  BY <1>2, <1>3 DEF ReadyInv, Running
<1>5. CoreOrdered'
  BY <1>1, <1>2 DEF ReadyInv, CoreOrdered, Running
<1>6. QED BY <1>2, <1>4, <1>5 DEF ReadyInv, LastWayOut, Leaving, Gone

LEMMA BindReady == IInv /\ ReadyInv /\ Bind /\ driver' = driver => ReadyInv'
<1> SUFFICES ASSUME IInv, ReadyInv, Bind, driver' = driver PROVE ReadyInv'
  OBVIOUS
<1>1. Table' = Table /\ Bound' = Bound
  BY TableStays DEF Bound
<1>2. phase = "probing" /\ phase' = "bound" /\ UNCHANGED <<step, held, missed, devres>>
  BY DEF Bind
<1>3. ByCore' = ByCore
  BY <1>1, <1>2 DEF ByCore
<1>4. CoreOrdered' /\ (Running => ByCore \subseteq held \cup missed)'
  BY <1>1, <1>2, <1>3 DEF ReadyInv, CoreOrdered, Running
<1>5. QED BY <1>2, <1>4 DEF ReadyInv, LastWayOut, Leaving, Gone

(* A way out that is ordered, when it is taken.                            *)
LEMMA WayOutReady ==
  ASSUME IInv, ReadyInv, TableOrdered, driver' = driver, Running, step \in WaysOut(Table),
         phase' \in {"failing", "removing"}, todo' = WayOut(Table, step),
         step = Len(Table.probe) + 1 => phase' = "removing",
         phase' = "removing" => ~Pinned,
         UNCHANGED <<step, held, missed, devres, calls>>
  PROVE  ReadyInv'
<1>1. Table' = Table /\ Bound' = Bound
  BY TableStays DEF Bound
<1>2. ASSUME NEW n \in Bound, Live(n[1])' PROVE StaysOrGoesLater(n)'
  <2>1. n[1] \in held
    BY <1>2 DEF Live, IInv, CallsHeld
  <2>2. n[2] \in held \cup missed
    BY <2>1, RunningReady
  <2>3. n[1] \in Got(Table, step)
    BY <2>1, HeldHasStep
  <2>4. ~ShutOut(Table, step, n[1])
    BY <1>1, <1>2 DEF Live, Shut, LastWayOut, ShutOut
  <2>5. n[2] \notin ToSet(todo') \cup ByCore \/ Outlasts(Table, step, n[1], n[2])
    BY <2>3, <2>4, Zenon DEF TableOrdered, Ordered, Bound, ByCore
  <2>6. ToSet(devres) \subseteq ByCore
    BY DEF IInv, RunningExact
  <2>7. CASE n[2] \notin ToSet(todo') \cup ByCore
    BY <2>2, <2>6, <2>7 DEF StaysOrGoesLater
  <2>8. CASE Outlasts(Table, step, n[1], n[2])
    <3>1. \A b \in DOMAIN todo' : todo'[b] = n[2] => \E a \in 1..b - 1 : todo'[a] = n[1]
      BY <2>8, Zenon DEF Outlasts
    <3>2. ASSUME NEW p \in DOMAIN devres, devres[p] = n[2], n[1] \notin ToSet(todo')
          PROVE  \E q \in DOMAIN devres : p < q /\ devres[q] = n[1]
      <4>1. n[2] \in ByCore
        BY <2>6, <3>2 DEF ToSet
      <4>2. \A j \in DOMAIN Table.probe : Table.probe[j].get = n[1] => Table.probe[j].managed
        BY <2>8, <3>2, <4>1, Zenon DEF Outlasts, ByCore
      <4>3. QED BY <2>1, <3>2, <4>2 DEF ReadyInv, CoreOrdered
    <3>3. Ahead(n[1], n[2])'
      BY <3>1, <3>2 DEF Ahead
    <3>4. QED BY <2>2, <2>8, <3>3 DEF StaysOrGoesLater, Outlasts
  <2>9. QED BY <2>5, <2>7, <2>8
<1>3. (LastWayOut => calls \cap Files = {})'
  BY <1>1 DEF LastWayOut, Pinned
<1>4. ~Running' /\ ~Gone'
  BY DEF Running, Gone
<1>5. QED BY <1>1, <1>2, <1>3, <1>4 DEF ReadyInv, CoreOrdered

LEMMA FailReady == IInv /\ ReadyInv /\ TableOrdered /\ Fail /\ driver' = driver => ReadyInv'
<1> SUFFICES ASSUME IInv, ReadyInv, TableOrdered, Fail, driver' = driver PROVE ReadyInv'
  OBVIOUS
<1>1. DOMAIN Table.probe = 1..Len(Table.probe) /\ Len(Table.probe) \in Nat
      /\ step \in DOMAIN Table.probe /\ step # Len(Table.probe) + 1
  <2>1. DOMAIN Table.probe = 1..Len(Table.probe) /\ Len(Table.probe) \in Nat
    BY TableTyped DEF IInv, Types
  <2>2. QED BY <2>1 DEF IInv, Types, Fail, Probing
<1>2. step \in WaysOut(Table) /\ todo' = WayOut(Table, step)
  BY <1>1 DEF Fail, Current, WaysOut, WayOut
<1>3. QED
  BY <1>1, <1>2, WayOutReady DEF Fail, Probing, Running

LEMMA MyRemoveReady == IInv /\ ReadyInv /\ TableOrdered /\ MyRemove /\ driver' = driver => ReadyInv'
<1> SUFFICES ASSUME IInv, ReadyInv, TableOrdered, MyRemove, driver' = driver PROVE ReadyInv'
  OBVIOUS
<1>1. DOMAIN Table.probe = 1..Len(Table.probe) /\ Len(Table.probe) \in Nat /\ step = Len(Table.probe) + 1
  BY TableTyped DEF IInv, Types, MyRemove
<1>2. step \in WaysOut(Table) /\ todo' = WayOut(Table, step)
  BY <1>1 DEF MyRemove, WaysOut, WayOut
<1>3. QED
  BY <1>2, WayOutReady DEF MyRemove, Running

(* A resource x that is released first, or by the driver core when nothing *)
(* is left by hand: what stays, and what is still to be released after it. *)
LEMMA ReleaseReady == IInv /\ ReadyInv /\ Release /\ driver' = driver => ReadyInv'
<1> SUFFICES ASSUME IInv, ReadyInv, Release, driver' = driver PROVE ReadyInv'
  OBVIOUS
<1> DEFINE x == Head(todo)
<1>1. Table' = Table /\ Bound' = Bound
  BY TableStays DEF Bound
<1>2. /\ Leaving /\ todo # << >> /\ ~Waits(x) /\ held' = held \ {x} /\ todo' = Tail(todo)
      /\ phase' = phase /\ missed' = missed /\ devres' = devres /\ calls' = calls
  BY DEF Release
<1>3. todo \in Seq(STRING) /\ Once(todo, Table.twice)
  BY <1>2 DEF IInv, Types, LeavingExact
<1>4. x \in ToSet(todo) /\ ToSet(todo) = {x} \cup ToSet(todo')
  BY <1>2, <1>3, TailElements
<1>5. /\ Len(todo) \in Nat /\ DOMAIN todo = 1..Len(todo) /\ 1 \in DOMAIN todo /\ todo[1] = x
      /\ DOMAIN todo' = 1..Len(todo) - 1 /\ \A i \in 1..Len(todo) - 1 : todo'[i] = todo[i + 1]
  BY <1>2, <1>3
<1> HIDE DEF x
<1>6. ASSUME NEW n \in Bound, Live(n[1])' PROVE StaysOrGoesLater(n)'
  <2>1. Live(n[1]) /\ (n[1] # x \/ n[1] \in calls)
    BY <1>1, <1>2, <1>6 DEF Live, Shut, LastWayOut
  <2>2. n[2] \in held \cup missed
    BY <1>2, <2>1 DEF ReadyInv, StaysOrGoesLater
  <2>3. CASE n[2] \notin ToSet(todo) \cup ToSet(devres)
    BY <1>2, <1>4, <2>2, <2>3 DEF StaysOrGoesLater
  <2>4. CASE n[1] \notin Unwaited /\ Ahead(n[1], n[2])
    <3>1. n[1] # x
      BY <1>2, <2>1, <2>4 DEF Waits
    <3>2. n[2] # x
      BY <1>5, <2>4 DEF Ahead
    <3>3. ASSUME NEW b \in DOMAIN todo', todo'[b] = n[2]
          PROVE  \E a \in 1..b - 1 : todo'[a] = n[1]
      <4>1. b + 1 \in DOMAIN todo /\ todo[b + 1] = n[2]
        BY <1>5, <3>3
      <4>2. PICK a \in 1..(b + 1) - 1 : todo[a] = n[1]
        BY <2>4, <4>1 DEF Ahead
      <4>3. a # 1
        BY <1>5, <3>1, <4>2
      <4>4. a - 1 \in 1..b - 1 /\ a - 1 \in 1..Len(todo) - 1 /\ (a - 1) + 1 = a
        BY <1>5, <3>3, <4>2, <4>3
      <4>5. todo'[a - 1] = n[1]
        BY <1>5, <4>2, <4>4
      <4>6. QED BY <4>4, <4>5
    <3>4. n[1] \in ToSet(todo) => n[1] \in ToSet(todo')
      BY <1>4, <3>1
    <3>5. Ahead(n[1], n[2])'
      BY <1>2, <2>4, <3>3, <3>4 DEF Ahead
    <3>6. QED BY <1>2, <2>2, <2>4, <3>2, <3>5 DEF StaysOrGoesLater
  <2>5. QED BY <1>2, <2>1, <2>3, <2>4 DEF ReadyInv, StaysOrGoesLater
<1>7. (LastWayOut => calls \cap Files = {})'
  BY <1>1, <1>2 DEF LastWayOut, ReadyInv
<1>8. ~Running' /\ ~Gone'
  BY <1>2 DEF Leaving, Running, Gone
<1>9. QED BY <1>1, <1>6, <1>7, <1>8 DEF ReadyInv, CoreOrdered

LEMMA DevresReleaseReady == IInv /\ ReadyInv /\ DevresRelease /\ driver' = driver => ReadyInv'
<1> SUFFICES ASSUME IInv, ReadyInv, DevresRelease, driver' = driver PROVE ReadyInv'
  OBVIOUS
<1> DEFINE x == Last(devres)
<1>1. Table' = Table /\ Bound' = Bound
  BY TableStays DEF Bound
<1>2. /\ Leaving /\ todo = << >> /\ devres # << >> /\ ~Waits(x) /\ held' = held \ {x} /\ devres' = Front(devres)
      /\ phase' = phase /\ missed' = missed /\ todo' = todo /\ calls' = calls
  BY DEF DevresRelease
<1>3. devres \in Seq(STRING) /\ Once(devres, Table.twice)
  BY DEF IInv, Types
<1>4. x \in ToSet(devres) /\ ToSet(devres) = {x} \cup ToSet(devres')
  BY <1>2, <1>3, FrontElements
<1>5. /\ Len(devres) \in Nat /\ DOMAIN devres = 1..Len(devres) /\ Len(devres) \in DOMAIN devres
      /\ devres[Len(devres)] = x
      /\ DOMAIN devres' = 1..Len(devres) - 1 /\ \A i \in 1..Len(devres) - 1 : devres'[i] = devres[i]
  BY <1>2, <1>3 DEF Last, Front
<1>6. ToSet(todo) = {} /\ DOMAIN todo = {}
  BY <1>2 DEF ToSet
<1> HIDE DEF x
<1>7. ASSUME NEW n \in Bound, Live(n[1])' PROVE StaysOrGoesLater(n)'
  <2>1. Live(n[1]) /\ (n[1] # x \/ n[1] \in calls)
    BY <1>1, <1>2, <1>7 DEF Live, Shut, LastWayOut
  <2>2. n[2] \in held \cup missed
    BY <1>2, <2>1 DEF ReadyInv, StaysOrGoesLater
  <2>3. CASE n[2] \notin ToSet(todo) \cup ToSet(devres)
    BY <1>2, <1>4, <2>2, <2>3 DEF StaysOrGoesLater
  <2>4. CASE n[1] \notin Unwaited /\ Ahead(n[1], n[2])
    <3>1. n[1] # x
      BY <1>2, <2>1, <2>4 DEF Waits
    <3>2. \A p \in DOMAIN devres : devres[p] = n[2] => \E q \in DOMAIN devres : p < q /\ devres[q] = n[1]
      BY <1>6, <2>4 DEF Ahead
    <3>3. n[2] # x
      BY <1>5, <3>2
    <3>4. ASSUME NEW p \in DOMAIN devres', devres'[p] = n[2]
          PROVE  \E q \in DOMAIN devres' : p < q /\ devres'[q] = n[1]
      <4>1. p \in DOMAIN devres /\ devres[p] = n[2]
        BY <1>5, <3>4
      <4>2. PICK q \in DOMAIN devres : p < q /\ devres[q] = n[1]
        BY <3>2, <4>1
      <4>3. q \in 1..Len(devres) - 1
        BY <1>5, <3>1, <4>2
      <4>4. QED BY <1>5, <4>2, <4>3
    <3>5. Ahead(n[1], n[2])'
      BY <1>2, <1>6, <3>4 DEF Ahead
    <3>6. QED BY <1>2, <2>2, <2>4, <3>3, <3>5 DEF StaysOrGoesLater
  <2>5. QED BY <1>2, <2>1, <2>3, <2>4 DEF ReadyInv, StaysOrGoesLater
<1>8. (LastWayOut => calls \cap Files = {})'
  BY <1>1, <1>2 DEF LastWayOut, ReadyInv
<1>9. ~Running' /\ ~Gone'
  BY <1>2 DEF Leaving, Running, Gone
<1>10. QED BY <1>1, <1>7, <1>8, <1>9 DEF ReadyInv, CoreOrdered

(* A file that was shut is not there any more, and nobody is in it.        *)
LEMMA UnbindReady == IInv /\ IInv' /\ ReadyInv /\ Unbind /\ driver' = driver => ReadyInv'
<1> SUFFICES ASSUME IInv, IInv', ReadyInv, Unbind, driver' = driver PROVE ReadyInv'
  OBVIOUS
<1>1. Table' = Table /\ Bound' = Bound
  BY TableStays DEF Bound
<1>2. /\ Leaving /\ phase' = "unbound" /\ held' = held /\ missed' = missed /\ calls' = calls
  BY DEF Unbind
<1>3. held \subseteq Table.leaks
  BY <1>1, <1>2 DEF IInv, Gone
<1>4. ASSUME NEW n \in Bound, Live(n[1])' PROVE n[2] \in held \cup missed
  <2>1. ~Shut(n[1])
    BY <1>2, <1>3, <1>4 DEF Shut, Live, ReadyInv
  <2>2. Live(n[1])
    BY <1>2, <1>4, <2>1 DEF Live
  <2>3. QED BY <1>2, <2>2 DEF ReadyInv, StaysOrGoesLater
<1>5. ~Running' /\ ~LastWayOut' /\ ~Leaving'
  BY <1>2 DEF Running, LastWayOut, Leaving
<1>6. QED BY <1>1, <1>2, <1>4, <1>5 DEF ReadyInv, CoreOrdered

LEMMA EnterReady == ASSUME NEW e \in Entries PROVE ReadyInv /\ Enter(e) /\ driver' = driver => ReadyInv'
<1> SUFFICES ASSUME ReadyInv, Enter(e), driver' = driver PROVE ReadyInv'
  OBVIOUS
<1>1. Table' = Table /\ Bound' = Bound
  BY TableStays DEF Bound
<1>2. /\ Open(e) /\ calls' = calls \cup {e}
      /\ phase' = phase /\ step' = step /\ held' = held /\ missed' = missed /\ devres' = devres /\ todo' = todo
  BY DEF Enter
<1>3. ByCore' = ByCore
  BY <1>1, <1>2 DEF ByCore
<1>4. \A x : Live(x)' <=> Live(x)
  BY <1>1, <1>2 DEF Live, Shut, LastWayOut, Open
<1>5. \A n \in Bound : StaysOrGoesLater(n)' <=> StaysOrGoesLater(n)
  BY <1>2 DEF StaysOrGoesLater, Ahead
<1>6. (LastWayOut => calls \cap Files = {})'
  BY <1>1, <1>2 DEF LastWayOut, ReadyInv, Open
<1>7. CoreOrdered' <=> CoreOrdered
  BY <1>1, <1>2 DEF CoreOrdered, Running
<1>8. QED BY <1>1, <1>2, <1>3, <1>4, <1>5, <1>6, <1>7 DEF ReadyInv, Running, Leaving, Gone

(* A timer that adds itself again was there until now.                     *)
LEMMA ReturnReady == ASSUME NEW e \in Entries PROVE IInv /\ ReadyInv /\ Return(e) /\ driver' = driver => ReadyInv'
<1> SUFFICES ASSUME IInv, ReadyInv, Return(e), driver' = driver PROVE ReadyInv'
  OBVIOUS
<1>1. Table' = Table /\ Bound' = Bound
  BY TableStays DEF Bound
<1>2. /\ e \in calls /\ calls' = calls \ {e} /\ held' = held \cup ({e} \cap Periodic)
      /\ phase' = phase /\ step' = step /\ missed' = missed /\ devres' = devres /\ todo' = todo
  BY DEF Return
<1>3. ByCore' = ByCore
  BY <1>1, <1>2 DEF ByCore
<1>4. \A x : Live(x)' => Live(x)
  BY <1>1, <1>2 DEF Live, Shut, LastWayOut
<1>5. \A n \in Bound : StaysOrGoesLater(n) => StaysOrGoesLater(n)'
  BY <1>2 DEF StaysOrGoesLater, Ahead
<1>6. (LastWayOut => calls \cap Files = {})'
  BY <1>1, <1>2 DEF LastWayOut, ReadyInv
<1>7. Running => held' = held
  BY <1>2 DEF IInv, CallsHeld
<1>8. CoreOrdered'
  BY <1>1, <1>2, <1>7 DEF ReadyInv, CoreOrdered, Running
<1>9. held \cup missed \subseteq held' \cup missed'
  BY <1>2
<1>10. (Running => ByCore \subseteq held \cup missed)'
  BY <1>2, <1>3, <1>9 DEF ReadyInv, Running
<1>11. (Leaving => \A n \in Bound : Live(n[1]) => StaysOrGoesLater(n))'
  BY <1>1, <1>2, <1>4, <1>5 DEF ReadyInv, Leaving
<1>12. (Gone => \A n \in Bound : Live(n[1]) => n[2] \in held \cup missed)'
  BY <1>1, <1>2, <1>4, <1>9 DEF ReadyInv, Gone
<1>13. QED BY <1>6, <1>8, <1>10, <1>11, <1>12 DEF ReadyInv

LEMMA StepReady == IInv /\ ReadyInv /\ TablePaired /\ TableOrdered /\ [Next]_vars => ReadyInv'
<1> SUFFICES ASSUME IInv, ReadyInv, TablePaired, TableOrdered, [Next]_vars PROVE ReadyInv'
  OBVIOUS
<1>1. CASE Next
  <2>1. driver' = driver /\ IInv'
    BY <1>1, StepIInv DEF Next
  <2>2. CASE Acquire    BY <2>1, <2>2, AcquireReady
  <2>3. CASE Miss       BY <2>1, <2>3, MissReady
  <2>4. CASE Fail       BY <2>1, <2>4, FailReady
  <2>5. CASE Bind       BY <2>1, <2>5, BindReady
  <2>6. CASE MyRemove   BY <2>1, <2>6, MyRemoveReady
  <2>7. CASE Release    BY <2>1, <2>7, ReleaseReady
  <2>8. CASE DevresRelease  BY <2>1, <2>8, DevresReleaseReady
  <2>9. CASE Unbind     BY <2>1, <2>9, UnbindReady
  <2>10. ASSUME NEW e \in Entries, Enter(e) \/ Return(e) PROVE ReadyInv'
    BY <2>1, <2>10, EnterReady, ReturnReady
  <2>11. QED
    BY <1>1, <2>2, <2>3, <2>4, <2>5, <2>6, <2>7, <2>8, <2>9, <2>10 DEF Next
<1>2. CASE UNCHANGED vars
  <2>1. Table' = Table /\ Bound' = Bound
    BY <1>2, TableStays DEF vars, Bound
  <2>2. ByCore' = ByCore
    BY <1>2, <2>1 DEF vars, ByCore
  <2>3. \A x : Live(x)' <=> Live(x)
    BY <1>2, <2>1 DEF vars, Live, Shut, LastWayOut
  <2>4. \A n \in Bound : StaysOrGoesLater(n)' <=> StaysOrGoesLater(n)
    BY <1>2 DEF vars, StaysOrGoesLater, Ahead
  <2>5. CoreOrdered' <=> CoreOrdered
    BY <1>2, <2>1 DEF vars, CoreOrdered, Running
  <2>6. QED
    BY <1>2, <2>1, <2>2, <2>3, <2>4, <2>5 DEF vars, ReadyInv, Running, Leaving, Gone, LastWayOut
<1>3. QED BY <1>1, <1>2

(* While calls, interrupts and timers can come in, or are under way, what  *)
(* they use is there: for every table that is paired and ordered, whatever *)
(* fails, and whatever comes in during the probe, its error paths, the     *)
(* remove and the releases of the driver core.                             *)
THEOREM OrderedIsReady == Spec => [](TableSound => EntriesReady)
<1>1. Init => (TablePaired /\ TableOrdered => ReadyInv)
  BY InitReady
<1>2. [Next]_vars => TableOrdered' = TableOrdered
  <2>1. [Next]_vars => driver' = driver
    BY DEF Next, vars
  <2>2. QED BY <2>1, TableStays DEF TableOrdered
<1>3. (TablePaired => IInv) /\ (TablePaired /\ TableOrdered => ReadyInv) /\ [Next]_vars
        => (TablePaired /\ TableOrdered => ReadyInv)'
  BY <1>2, StepReady, StaysPaired
<1>4. ASSUME IInv, ReadyInv, TableOrdered PROVE EntriesReady
  <2>1. ASSUME NEW n \in Bound, Open(n[1]) \/ n[1] \in calls PROVE n[2] \in held \cup missed
    <3>1. CASE Running
      <4>1. n[1] \in held
        BY <2>1, <3>1, <1>4 DEF Open, IInv, CallsHeld
      <4>2. QED BY <1>4, <3>1, <4>1, RunningReady
    <3>2. CASE ~Running
      <4>1. Live(n[1])
        BY <1>4, <2>1 DEF Live, Shut, LastWayOut, Open, ReadyInv
      <4>2. Leaving \/ Gone
        BY <1>4, <3>2 DEF IInv, Types, Running, Leaving, Gone
      <4>3. QED BY <1>4, <4>1, <4>2 DEF ReadyInv, StaysOrGoesLater
    <3>3. QED BY <3>1, <3>2
  <2>2. QED BY <2>1 DEF EntriesReady, Bound
<1>5. TableSound /\ (TablePaired => IInv) /\ (TablePaired /\ TableOrdered => ReadyInv) => EntriesReady
  BY <1>4 DEF TableSound
<1>6. QED BY <1>1, <1>3, <1>5, Invariant, PTL DEF Spec
=============================================================================
