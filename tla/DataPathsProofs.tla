-------------------------- MODULE DataPathsProofs ---------------------------
(*************************************************************************)
(* Theorems about the data paths of the character devices: buffers in    *)
(* RAM, the I2C memory chip, and the serial mouse, for any processes,    *)
(* sizes and drivers.                                                    *)
(*************************************************************************)
EXTENDS RamFile, Eeprom, MouseLab, FiniteSetTheorems, TLAPS

(*************************************************************************)
(* RamFile: a buffer of any size, and drivers of the three kinds of      *)
(* bounds and of buffers.                                                *)
(*************************************************************************)
(* What the proofs rest on, beside the two invariants: the length of a     *)
(* call is clipped with the position it started at, and the bytes that it  *)
(* has moved join what was covered up to there.                            *)
Calls == [from : Nat, own : BOOLEAN, todo : Nat, done : Nat, at : {"out", "moving", "fault"}]

FileTypes == /\ fdrv \in FileDrivers /\ wide \in BOOLEAN
             /\ uses \in [Procs -> Procs \cup {NoFile}] /\ f_pos \in [Procs -> Nat]
             /\ io \in [Procs -> Calls] /\ private_data \in [Procs -> Procs \cup {NoFile}]
             /\ bases \in [Procs -> SUBSET Nat] /\ covered \in [Procs -> SUBSET Nat]

CallsInFiles == \A p \in Procs : InCall(p) => uses[p] # NoFile /\ io[p].done <= io[p].todo
ClosedAtZero == \A f \in Procs : f \notin OpenFiles => f_pos[f] = 0

(* From some base of file f every byte below pos has been moved.           *)
Reached(f, pos) == \E b \in bases[f] : b <= pos /\ b .. pos - 1 \subseteq covered[f]

Fits == fdrv.bounds # "none" =>
  /\ \A f \in Procs : f_pos[f] <= RamSize
  /\ \A p \in Procs : InCall(p) =>
       \/ io[p].from + io[p].todo <= RamSize
       \/ io[p].own /\ (io[p].todo = 0 \/ (fdrv.bounds = "clip" /\ io[p].from > RamSize))

Follows == \A p \in Procs : InCall(p) /\ fdrv.moves /\ ~io[p].own =>
  Reached(uses[p], io[p].from) /\ io[p].from .. EndOf(p) - 1 \subseteq covered[uses[p]]

Owned == (fdrv.buffer = "cache" => ~crowded) =>
  /\ ~twice
  /\ fdrv.buffer = "ram" => live = {ramdisk} \ {NoFile}
  /\ fdrv.buffer = "private" => /\ live = {f \in OpenFiles : private_data[f] = f}
                                /\ \A f \in Procs : private_data[f] \in {f, NoFile}
  /\ fdrv.buffer = "cache" => live = OpenFiles /\ OpenFiles \subseteq {ramdisk}

IInv == FileTypes /\ CallsInFiles /\ ClosedAtZero /\ NoByteSkipped /\ Fits /\ Follows /\ Owned

(* The remainder is unique, and every number has one.                      *)
LEMMA Remainder == ASSUME NEW M \in Nat \ {0}, NEW x \in Int, NEW q \in Int, NEW r \in 0..M - 1, x = (M * q) + r
                   PROVE x % M = r
OBVIOUS
LEMMA RemainderIn == ASSUME NEW M \in Nat \ {0}, NEW x \in Int PROVE x % M \in 0..M - 1
OBVIOUS

(* A size_t is as wide as an int or wider.                                 *)
LEMMA Widths == Ints \in Nat /\ Ints = (2 * IntMax) + 2 /\ SizeValues \in Nat /\ SizeValues >= Ints
<1> USE RamFileAssumption
<1>1. Ints \in Nat /\ Ints = (2 * IntMax) + 2 /\ Ints >= 2
  BY DEF Ints
<1>2. Ints * Ints \in Nat /\ Ints * Ints >= Ints
  <2> DEFINE n == Ints
  <2>1. n \in Nat /\ n >= 2
    BY <1>1
  <2> HIDE DEF n
  <2>2. n * n \in Nat /\ n * n >= n
    BY <2>1
  <2>3. QED
    BY <2>2 DEF n
<1>3. QED
  BY <1>1, <1>2 DEF SizeValues

(* What an int holds of a number: the number, if it is not too great.      *)
LEMMA IntHolds == ASSUME NEW n \in Int
                  PROVE  ToInt(n) \in -(IntMax + 1) .. IntMax /\ (n \in 0..IntMax => ToInt(n) = n)
<1> USE RamFileAssumption
<1>1. n + IntMax + 1 \in Int /\ Ints \in Nat \ {0} /\ Ints = (2 * IntMax) + 2
  BY Widths
<1>2. (n + IntMax + 1) % Ints \in 0..Ints - 1
  BY <1>1, RemainderIn
<1>3. ASSUME n \in 0..IntMax PROVE (n + IntMax + 1) % Ints = n + IntMax + 1
  <2>1. n + IntMax + 1 \in 0..Ints - 1 /\ n + IntMax + 1 = (Ints * 0) + (n + IntMax + 1)
    BY <1>1, <1>3
  <2>2. QED
    BY <1>1, <2>1, Remainder
<1>4. QED
  BY <1>1, <1>2, <1>3 DEF ToInt

(* The comparison as a size_t takes a negative maxbytes for more than any  *)
(* length.                                                                 *)
LEMMA ClippedLength ==
  ASSUME NEW m \in -(IntMax + 1) .. IntMax, NEW len \in 0..MaxLen
  PROVE  ClipTo(m, len) \in Nat /\ (m >= 0 => ClipTo(m, len) <= m)
<1> USE RamFileAssumption
<1>1. SizeValues \in Nat \ {0} /\ SizeValues >= (2 * IntMax) + 2
  BY Widths
<1>2. CASE m >= 0
  <2>1. m \in 0..SizeValues - 1 /\ m = (SizeValues * 0) + m
    BY <1>1, <1>2
  <2>2. m % SizeValues = m
    BY <1>1, <2>1, Remainder
  <2>3. QED
    BY <1>2, <2>2 DEF ClipTo
<1>3. CASE m < 0
  <2>1. SizeValues + m \in 0..SizeValues - 1 /\ m = (SizeValues * (-1)) + (SizeValues + m)
    <3> DEFINE M == SizeValues
    <3>1. M \in Nat \ {0} /\ M >= (2 * IntMax) + 2
      BY <1>1
    <3> HIDE DEF M
    <3>2. M + m \in 0..M - 1 /\ m = (M * (-1)) + (M + m)
      BY <1>3, <3>1
    <3>3. QED
      BY <3>2 DEF M
  <2>2. m % SizeValues = SizeValues + m
    BY <1>1, <2>1, Remainder
  <2>3. SizeValues + m > len
    BY <1>1, <1>3
  <2>4. QED
    BY <1>3, <2>2, <2>3 DEF ClipTo
<1>4. QED
  BY <1>2, <1>3

(* Nobody has a file open when the module has been loaded. *)
LEMMA InitIInv == FileInit => IInv
<1> SUFFICES ASSUME FileInit PROVE IInv
  OBVIOUS
<1> USE RamFileAssumption
<1>1. OpenFiles = {} /\ \A p \in Procs : ~InCall(p)
  BY DEF FileInit, OpenFiles, InCall, NoCall
<1>2. FileTypes
  BY DEF FileInit, FileTypes, Calls, NoCall
<1>3. CallsInFiles /\ ClosedAtZero /\ NoByteSkipped /\ Fits /\ Follows
  BY <1>1 DEF FileInit, CallsInFiles, ClosedAtZero, NoByteSkipped, Fits, Follows
<1>4. Owned
  BY <1>1 DEF FileInit, Owned, NoFile
<1>5. QED
  BY <1>2, <1>3, <1>4 DEF IInv

(* A file that is opened starts at zero, with a buffer of its own if the   *)
(* driver has such.                                                        *)
LEMMA OpenKeeps == ASSUME IInv, NEW p \in Procs, FileOpen(p) PROVE IInv'
<1> USE RamFileAssumption
<1> USE DEF IInv, FileOpen
<1>1. OpenFiles' = OpenFiles \cup {p} /\ p \notin OpenFiles
  BY DEF OpenFiles, FileTypes, NoFile
<1>2. ~InCall(p) /\ (\A q \in Procs : InCall(q) => uses'[q] = uses[q] /\ q # p)
  BY DEF CallsInFiles, InCall, FileTypes
<1>3. FileTypes'
  BY DEF FileTypes
<1>4. CallsInFiles' /\ ClosedAtZero' /\ Fits'
  BY <1>1, <1>2 DEF CallsInFiles, ClosedAtZero, Fits, InCall, FileTypes
<1>5. \A f \in OpenFiles : bases'[f] = bases[f]
  BY <1>1 DEF FileTypes
<1>6. NoByteSkipped'
  <2>1. f_pos[p] = 0 /\ 0 \in bases'[p] /\ 0 .. f_pos[p] - 1 = {}
    BY <1>1 DEF ClosedAtZero, FileTypes
  <2>2. QED
    BY <1>1, <1>5, <2>1 DEF NoByteSkipped, FileTypes
<1>7. Follows'
  <2>1. \A q \in Procs : InCall(q) => uses[q] \in OpenFiles
    BY DEF CallsInFiles, OpenFiles, FileTypes
  <2>2. QED
    BY <1>2, <1>5, <2>1 DEF Follows, Reached, InCall, EndOf, FileTypes
<1>8. Owned'
  <2>1. PICK buf \in IF fdrv.buffer = "private" THEN {p, NoFile} ELSE {p} :
          /\ live' = live \cup (IF fdrv.buffer = "ram" THEN {} ELSE {buf} \ {NoFile})
          /\ private_data' = (IF fdrv.buffer = "private" THEN [private_data EXCEPT ![p] = buf] ELSE private_data)
    OBVIOUS
  <2>2. p # NoFile
    BY DEF NoFile
  <2>3. CASE fdrv.buffer = "ram"
    BY <2>1, <2>3 DEF Owned
  <2>4. CASE fdrv.buffer = "private"
    <3>1. \A f \in Procs : private_data'[f] = IF f = p THEN buf ELSE private_data[f]
      BY <2>1, <2>4 DEF FileTypes
    <3>2. OpenFiles \subseteq Procs
      BY DEF OpenFiles, FileTypes
    <3>3. QED
      BY <1>1, <2>1, <2>2, <2>4, <3>1, <3>2 DEF Owned
  <2>5. CASE fdrv.buffer = "cache"
    <3>1. SUFFICES ASSUME ~crowded' PROVE Owned'
      BY <2>5 DEF Owned
    <3>2. OpenFiles = {} /\ ~twice' /\ ramdisk' = p /\ live = {}
      BY <2>5, <3>1 DEF Owned
    <3>3. live' = {p}
      <4>1. buf = p /\ live' = live \cup ({buf} \ {NoFile})
        BY <2>1, <2>5
      <4>2. QED
        BY <2>2, <3>2, <4>1
    <3>4. QED
      BY <1>1, <2>5, <3>2, <3>3 DEF Owned
  <2>6. QED
    BY <2>3, <2>4, <2>5 DEF FileTypes
<1>9. QED
  BY <1>3, <1>4, <1>6, <1>7, <1>8

(* An open that gets no memory leaves no file, but spoils the one pointer. *)
LEMMA OpenFailsKeeps == ASSUME IInv, NEW p \in Procs, OpenFails(p) PROVE IInv'
<1> USE RamFileAssumption
<1> USE DEF IInv, OpenFails
<1>1. OpenFiles' = OpenFiles /\ \A q \in Procs : InCall(q)' = InCall(q) /\ EndOf(q)' = EndOf(q)
  BY DEF OpenFiles, InCall, EndOf
<1>2. FileTypes'
  BY DEF FileTypes
<1>3. CallsInFiles' /\ ClosedAtZero' /\ Fits' /\ NoByteSkipped' /\ Follows'
  BY <1>1 DEF CallsInFiles, ClosedAtZero, Fits, NoByteSkipped, Follows, Reached
<1>4. Owned'
  BY <1>1 DEF Owned
<1>5. QED
  BY <1>2, <1>3, <1>4

(* A second process on an open file. *)
LEMMA ShareKeeps == ASSUME IInv, NEW p \in Procs, NEW q \in Procs, Share(p, q) PROVE IInv'
<1> USE RamFileAssumption
<1> USE DEF IInv, Share
<1>1. OpenFiles' = OpenFiles
  <2>1. uses[q] \in OpenFiles /\ \A r \in Procs : uses'[r] = IF r = p THEN uses[q] ELSE uses[r]
    BY DEF OpenFiles, FileTypes
  <2>2. QED
    BY <2>1 DEF OpenFiles
<1>2. ~InCall(p) /\ \A r \in Procs : InCall(r) => uses'[r] = uses[r]
  BY DEF CallsInFiles, FileTypes
<1>3. \A r \in Procs : InCall(r)' = InCall(r) /\ EndOf(r)' = EndOf(r)
  BY DEF InCall, EndOf
<1>4. FileTypes'
  BY DEF FileTypes
<1>5. CallsInFiles' /\ ClosedAtZero' /\ Fits' /\ NoByteSkipped' /\ Owned'
  BY <1>1, <1>2, <1>3 DEF CallsInFiles, ClosedAtZero, Fits, NoByteSkipped, Owned
<1>6. Follows'
  BY <1>2, <1>3 DEF Follows, Reached
<1>7. QED
  BY <1>4, <1>5, <1>6

(* The last release of a file rewinds it and frees its buffer.             *)
LEMMA ClosedKeeps ==
  ASSUME IInv, NEW p \in Procs, uses[p] # NoFile, Closed(p), io' \in [Procs -> Calls],
         \A r \in Procs : InCall(r)' => r # p /\ InCall(r) /\ io'[r] = io[r]
  PROVE  IInv'
<1> USE RamFileAssumption
<1> USE DEF IInv
<1> DEFINE f == uses[p]
<1>1. f \in OpenFiles /\ f \in Procs
  BY DEF OpenFiles, FileTypes
<1>2. /\ uses' = [uses EXCEPT ![p] = NoFile] /\ UNCHANGED <<fdrv, wide, ramdisk, crowded>>
      /\ \A r \in Procs : uses'[r] = IF r = p THEN NoFile ELSE uses[r]
  BY DEF Closed, FileTypes
<1>3. \A r \in Procs : InCall(r)' => InCall(r) /\ r # p /\ uses'[r] = uses[r] /\ io'[r] = io[r] /\ EndOf(r)' = EndOf(r)
  BY <1>2 DEF EndOf
<1>4. CASE \E q \in Procs \ {p} : uses[q] = f
  <2>1. OpenFiles' = OpenFiles
    <3>1. PICK q \in Procs \ {p} : uses[q] = f
      BY <1>4
    <3>2. QED
      BY <1>2, <3>1 DEF OpenFiles
  <2>2. UNCHANGED <<live, private_data, twice, f_pos, bases, covered>>
    BY <1>4 DEF Closed
  <2>3. FileTypes'
    BY <1>2, <2>2 DEF FileTypes
  <2>4. CallsInFiles' /\ ClosedAtZero' /\ Fits' /\ NoByteSkipped' /\ Owned'
    BY <1>2, <1>3, <2>1, <2>2 DEF CallsInFiles, ClosedAtZero, Fits, NoByteSkipped, Owned
  <2>5. Follows'
    BY <1>2, <1>3, <2>2 DEF Follows, Reached
  <2>6. QED
    BY <2>3, <2>4, <2>5
<1>5. CASE ~\E q \in Procs \ {p} : uses[q] = f
  <2>1. OpenFiles' = OpenFiles \ {f}
    BY <1>1, <1>2, <1>5 DEF OpenFiles
  <2>2. LastClose(f)
    BY <1>5 DEF Closed
  <2>3. /\ f_pos' = [f_pos EXCEPT ![f] = 0] /\ bases' = [bases EXCEPT ![f] = {}] /\ covered' = [covered EXCEPT ![f] = {}]
        /\ private_data' = [private_data EXCEPT ![f] = NoFile]
    BY <2>2 DEF LastClose
  <2>4. FileTypes'
    BY <2>3, <1>1, <1>2 DEF FileTypes
  <2>5. CallsInFiles' /\ ClosedAtZero' /\ Fits'
    BY <2>1, <2>3, <1>1, <1>2, <1>3 DEF CallsInFiles, ClosedAtZero, Fits, FileTypes
  <2>6. NoByteSkipped'
    <3>0. OpenFiles \subseteq Procs
      BY DEF FileTypes, OpenFiles
    <3>1. \A g \in OpenFiles' : g \in OpenFiles /\ f_pos'[g] = f_pos[g] /\ bases'[g] = bases[g] /\ covered'[g] = covered[g]
      BY <2>1, <2>3, <3>0 DEF FileTypes
    <3>2. QED
      BY <3>1 DEF NoByteSkipped
  <2>7. Follows'
    <3>1. \A r \in Procs : InCall(r)' => uses[r] # f
      BY <1>1, <1>3, <1>5
    <3>2. QED
      BY <3>1, <1>2, <1>3, <2>3 DEF Follows, Reached, CallsInFiles, FileTypes
  <2>8. Owned'
    <3>1. FreeBuffer(f)
      BY <2>2 DEF LastClose
    <3>2. CASE fdrv.buffer = "ram"
      BY <1>2, <3>1, <3>2 DEF FreeBuffer, Owned
    <3>3. CASE fdrv.buffer = "private"
      <4>1. \A g \in Procs : private_data'[g] = IF g = f THEN NoFile ELSE private_data[g]
        BY <2>3, <1>1 DEF FileTypes
      <4>2. ~twice /\ live = {g \in OpenFiles : private_data[g] = g} /\ \A g \in Procs : private_data[g] \in {g, NoFile}
        BY <3>3 DEF Owned
      <4>3. OpenFiles \subseteq Procs /\ f # NoFile
        BY <1>1 DEF OpenFiles, FileTypes, NoFile
      <4>4. ~twice' /\ live' = live \ {f}
        BY <1>1, <3>1, <3>3, <4>2, <4>3 DEF FreeBuffer, BufferOf
      <4>5. QED
        BY <1>1, <1>2, <2>1, <3>3, <4>1, <4>2, <4>3, <4>4 DEF Owned, NoFile
    <3>4. CASE fdrv.buffer = "cache"
      <4>1. SUFFICES ASSUME ~crowded PROVE ~twice' /\ live' = OpenFiles' /\ OpenFiles' \subseteq {ramdisk}
        BY <1>2, <3>4 DEF Owned
      <4>2. BufferOf(f) = f /\ live = OpenFiles /\ ~twice /\ OpenFiles \subseteq {ramdisk}
        BY <1>1, <3>4, <4>1 DEF Owned, BufferOf
      <4>3. live' = live \ {f} /\ twice' = (twice \/ f \notin live)
        BY <3>1, <3>4, <4>2 DEF FreeBuffer
      <4>4. QED
        BY <1>1, <2>1, <4>2, <4>3
    <3>5. QED
      BY <3>2, <3>3, <3>4 DEF FileTypes
  <2>9. QED
    BY <2>4, <2>5, <2>6, <2>7, <2>8
<1>6. QED
  BY <1>4, <1>5

LEMMA CloseKeeps == ASSUME IInv, NEW p \in Procs, FileClose(p) PROVE IInv'
<1>1. io' = io /\ ~InCall(p) /\ uses[p] # NoFile /\ Closed(p) /\ io \in [Procs -> Calls]
  BY DEF FileClose, IInv, FileTypes
<1>2. \A r \in Procs : InCall(r)' => r # p /\ InCall(r) /\ io'[r] = io[r]
  BY <1>1 DEF InCall
<1>3. QED
  BY <1>1, <1>2, ClosedKeeps

(* Who is killed in a call has its file closed.                            *)
LEMMA OopsKeeps == ASSUME IInv, NEW p \in Procs, Oops(p) PROVE IInv'
<1>1. io' = [io EXCEPT ![p] = NoCall] /\ Closed(p) /\ io \in [Procs -> Calls] /\ InCall(p)
  BY DEF Oops, IInv, FileTypes, InCall
<1>2. NoCall \in Calls /\ NoCall.at = "out"
  BY DEF NoCall, Calls
<1>3. io' \in [Procs -> Calls] /\ \A r \in Procs : io'[r] = IF r = p THEN NoCall ELSE io[r]
  BY <1>1, <1>2
<1>4. \A r \in Procs : InCall(r)' => r # p /\ InCall(r) /\ io'[r] = io[r]
  BY <1>2, <1>3 DEF InCall
<1>5. uses[p] # NoFile
  BY <1>1 DEF IInv, CallsInFiles
<1>6. QED
  BY <1>1, <1>3, <1>4, <1>5, ClosedKeeps

(* What a call may move fits behind the position it starts at, if that is  *)
(* in the buffer; behind it, nothing is refused but by the second kind.    *)
LEMMA TodoFits == ASSUME fdrv \in FileDrivers, NEW from \in Nat, NEW len \in 0..MaxLen
                  PROVE  /\ Todo(from, len) \in Nat
                         /\ fdrv.bounds # "none" /\ from <= RamSize => from + Todo(from, len) <= RamSize
                         /\ fdrv.bounds = "refuse" /\ from > RamSize => Todo(from, len) = 0
<1> USE RamFileAssumption
<1>1. CASE fdrv.bounds = "clip"
  <2> DEFINE m == ToInt(RamSize - from)
  <2>1. RamSize - from \in Int /\ (from <= RamSize => RamSize - from \in 0..IntMax)
    OBVIOUS
  <2>2. m \in -(IntMax + 1) .. IntMax /\ (from <= RamSize => m = RamSize - from)
    BY <2>1, IntHolds
  <2> HIDE DEF m
  <2>3. ClipTo(m, len) \in Nat /\ (m >= 0 => ClipTo(m, len) <= m)
    BY <2>2, ClippedLength
  <2>4. Todo(from, len) = ClipTo(m, len)
    BY <1>1 DEF Todo, m
  <2>5. QED
    BY <1>1, <2>2, <2>3, <2>4
<1>2. CASE fdrv.bounds = "refuse"
  BY <1>2 DEF Todo
<1>3. CASE fdrv.bounds = "none"
  BY <1>3 DEF Todo
<1>4. QED
  BY <1>1, <1>2, <1>3

(* A call starts with a copy of the position of its file, or its own.      *)
LEMMA EnterKeeps == ASSUME IInv, NEW p \in Procs, NEW len \in 0..MaxLen, EnterCall(p, len) PROVE IInv'
<1> USE RamFileAssumption
<1> USE DEF IInv
<1>1. PICK own \in {fdrv.moves, FALSE} : \E from \in IF fdrv.moves THEN Starts(p, own) ELSE {0} :
        io' = [io EXCEPT ![p] = [from |-> from, own |-> own, todo |-> Todo(from, len), done |-> 0, at |-> "moving"]]
  BY DEF EnterCall
<1>14. PICK from \in IF fdrv.moves THEN Starts(p, own) ELSE {0} :
        io' = [io EXCEPT ![p] = [from |-> from, own |-> own, todo |-> Todo(from, len), done |-> 0, at |-> "moving"]]
  BY <1>1
<1> DEFINE call == [from |-> from, own |-> own, todo |-> Todo(from, len), done |-> 0, at |-> "moving"]
<1>2. /\ uses[p] # NoFile /\ ~InCall(p) /\ io' = [io EXCEPT ![p] = call]
      /\ UNCHANGED <<fdrv, wide, uses, f_pos, live, ramdisk, private_data, twice, crowded, bases, covered>>
  BY <1>14 DEF EnterCall
<1>3. uses[p] \in Procs /\ uses[p] \in OpenFiles /\ OpenFiles' = OpenFiles
  BY <1>2 DEF OpenFiles, FileTypes
<1>4. /\ own \in BOOLEAN /\ from \in Nat /\ (fdrv.bounds # "none" /\ ~own => from <= RamSize)
      /\ (fdrv.moves /\ ~own => from = f_pos[uses[p]])
  <2>1. own \in BOOLEAN
    BY <1>14 DEF FileTypes
  <2>2. f_pos[uses[p]] \in Nat /\ (fdrv.bounds # "none" => f_pos[uses[p]] <= RamSize)
    BY <1>3 DEF FileTypes, Fits
  <2>3. CASE ~fdrv.moves
    BY <1>14, <2>1, <2>3
  <2>4. CASE fdrv.moves /\ own
    BY <1>14, <2>1, <2>4 DEF Starts
  <2>5. CASE fdrv.moves /\ ~own
    BY <1>14, <2>1, <2>2, <2>5 DEF Starts
  <2>6. QED
    BY <2>1, <2>3, <2>4, <2>5
<1>5. /\ call.todo \in Nat
      /\ fdrv.bounds # "none" => \/ from + call.todo <= RamSize
                                 \/ own /\ (call.todo = 0 \/ (fdrv.bounds = "clip" /\ from > RamSize))
  <2>1. /\ Todo(from, len) \in Nat
        /\ fdrv.bounds # "none" /\ from <= RamSize => from + Todo(from, len) <= RamSize
        /\ fdrv.bounds = "refuse" /\ from > RamSize => Todo(from, len) = 0
    BY <1>4, TodoFits DEF FileTypes
  <2>2. fdrv.bounds \in {"clip", "refuse", "none"}
    BY DEF FileTypes
  <2>3. QED
    BY <1>4, <2>1, <2>2
<1>6. call \in Calls
  BY <1>4, <1>5 DEF Calls
<1>7. \A r \in Procs : io'[r] = IF r = p THEN call ELSE io[r]
  BY <1>2 DEF FileTypes
<1>8. FileTypes'
  BY <1>2, <1>6 DEF FileTypes
<1>9. CallsInFiles' /\ ClosedAtZero' /\ NoByteSkipped'
  BY <1>2, <1>3, <1>5, <1>7 DEF CallsInFiles, ClosedAtZero, NoByteSkipped, InCall
<1>10. Fits'
  BY <1>2, <1>5, <1>7 DEF Fits, InCall
<1>11. Follows'
  <2>1. fdrv.moves /\ ~own => Reached(uses[p], from)
    BY <1>3, <1>4 DEF NoByteSkipped, Reached
  <2>2. from .. from + 0 - 1 = {}
    BY <1>4
  <2>3. \A r \in Procs \ {p} : InCall(r)' = InCall(r) /\ io'[r] = io[r] /\ EndOf(r)' = EndOf(r)
    BY <1>7 DEF InCall, EndOf
  <2>4. io'[p].from = from /\ io'[p].own = own /\ EndOf(p)' = from + 0
    BY <1>7 DEF EndOf
  <2>5. SUFFICES ASSUME NEW r \in Procs, InCall(r)', fdrv.moves, ~io'[r].own
                 PROVE  Reached(uses[r], io[r].from)' /\ (io[r].from .. EndOf(r) - 1 \subseteq covered[uses[r]])'
    BY <1>2 DEF Follows
  <2>6. CASE r # p
    <3>1. Reached(uses[r], io[r].from) /\ io[r].from .. EndOf(r) - 1 \subseteq covered[uses[r]]
      BY <2>3, <2>5, <2>6 DEF Follows
    <3>2. QED
      BY <1>2, <2>3, <2>5, <2>6, <3>1 DEF Reached
  <2>7. CASE r = p
    <3>1. \E b \in bases[uses[p]] : b <= from /\ b .. from - 1 \subseteq covered[uses[p]]
      BY <2>1, <2>4, <2>5, <2>7 DEF Reached
    <3>2. Reached(uses[p], io[p].from)'
      BY <1>2, <2>4, <3>1 DEF Reached
    <3>3. (io[p].from .. EndOf(p) - 1 \subseteq covered[uses[p]])'
      BY <1>4, <2>4
    <3>4. QED
      BY <2>7, <3>2, <3>3
  <2>8. QED
    BY <2>6, <2>7
<1>12. Owned'
  BY <1>2, <1>3 DEF Owned
<1>13. QED
  BY <1>8, <1>9, <1>10, <1>11, <1>12

(* A byte that is moved joins those before it.                             *)
LEMMA MoveKeeps == ASSUME IInv, NEW p \in Procs, MoveByte(p) PROVE IInv'
<1> USE RamFileAssumption
<1> USE DEF IInv
<1> DEFINE f == uses[p]
           byte == io[p].from + io[p].done
<1>1. /\ io[p].at = "moving" /\ io[p].done < io[p].todo
      /\ io' = [io EXCEPT ![p].done = io[p].done + 1]
      /\ covered' = (IF io[p].own THEN covered ELSE [covered EXCEPT ![f] = covered[f] \cup {byte}])
      /\ UNCHANGED <<fdrv, wide, uses, f_pos, live, ramdisk, private_data, twice, crowded, bases>>
  BY DEF MoveByte
<1>2. f \in Procs /\ InCall(p) /\ OpenFiles' = OpenFiles /\ byte \in Nat
  BY <1>1 DEF FileTypes, CallsInFiles, InCall, OpenFiles, Calls
<1>3. /\ \A r \in Procs \ {p} : io'[r] = io[r]
      /\ io'[p].from = io[p].from /\ io'[p].todo = io[p].todo /\ io'[p].own = io[p].own
      /\ io'[p].done = io[p].done + 1 /\ io'[p].at = "moving"
  BY <1>1 DEF FileTypes, Calls
<1>4. \A g \in Procs : covered[g] \subseteq covered'[g] /\ covered'[g] \subseteq covered[g] \cup {byte}
  BY <1>1 DEF FileTypes
<1>5. \A r \in Procs : InCall(r)' = InCall(r)
  BY <1>1, <1>3 DEF InCall
<1>6. FileTypes'
  BY <1>1, <1>2 DEF FileTypes, Calls
<1>7. CallsInFiles' /\ ClosedAtZero'
  BY <1>1, <1>2, <1>3, <1>5 DEF CallsInFiles, ClosedAtZero, FileTypes, Calls
<1>8. \A g \in Procs, pos \in Nat : Reached(g, pos) => Reached(g, pos)'
  BY <1>1, <1>4 DEF Reached
<1>9. NoByteSkipped'
  BY <1>1, <1>2, <1>4 DEF NoByteSkipped, OpenFiles, FileTypes
<1>10. Fits'
  BY <1>1, <1>2, <1>3, <1>4, <1>5 DEF Fits, FileTypes, Calls
<1>11. Follows'
  <2>1. SUFFICES ASSUME NEW r \in Procs, InCall(r), fdrv.moves, ~io[r].own
                 PROVE  /\ Reached(uses[r], io[r].from)'
                        /\ io'[r].from .. EndOf(r)' - 1 \subseteq covered'[uses[r]]
    BY <1>1, <1>3, <1>5 DEF Follows
  <2>2. Reached(uses[r], io[r].from) /\ io[r].from .. EndOf(r) - 1 \subseteq covered[uses[r]]
    BY <2>1 DEF Follows
  <2>3. uses[r] \in Procs /\ io[r].from \in Nat /\ io[r].done \in Nat /\ io'[r].from = io[r].from
    BY <2>1, <1>3 DEF CallsInFiles, FileTypes, Calls
  <2>4. Reached(uses[r], io[r].from)'
    BY <1>1, <1>8, <2>2, <2>3 DEF Reached
  <2>5. CASE r # p
    BY <1>3, <1>4, <2>2, <2>3, <2>4, <2>5 DEF EndOf
  <2>6. CASE r = p
    <3>1. io[p].from .. byte \subseteq (io[p].from .. byte - 1) \cup {byte}
      BY <1>2, <2>3, <2>6
    <3>2. EndOf(p)' - 1 = byte /\ EndOf(p) = byte
      BY <1>3, <2>3, <2>6 DEF EndOf
    <3>3. byte \in covered'[f]
      BY <1>1, <1>2, <2>1, <2>6 DEF FileTypes
    <3>4. QED
      BY <1>2, <1>3, <1>4, <2>2, <2>4, <2>6, <3>1, <3>2, <3>3
  <2>7. QED
    BY <2>5, <2>6
<1>12. Owned'
  BY <1>1, <1>2 DEF Owned
<1>13. QED
  BY <1>6, <1>7, <1>9, <1>10, <1>11, <1>12

(* A fault keeps the bytes that have been moved.                           *)
LEMMA FaultKeeps == ASSUME IInv, NEW p \in Procs, Fault(p) PROVE IInv'
<1> USE RamFileAssumption
<1> USE DEF IInv
<1>1. /\ InCall(p) /\ io' = [io EXCEPT ![p].at = "fault"]
      /\ UNCHANGED <<fdrv, wide, uses, f_pos, live, ramdisk, private_data, twice, crowded, bases, covered>>
  BY DEF Fault, InCall
<1>2. \A r \in Procs : /\ io'[r].from = io[r].from /\ io'[r].todo = io[r].todo /\ io'[r].own = io[r].own
                       /\ io'[r].done = io[r].done /\ InCall(r)' = InCall(r)
  BY <1>1 DEF FileTypes, Calls, InCall
<1>3. OpenFiles' = OpenFiles
  BY <1>1 DEF OpenFiles
<1>4. FileTypes'
  BY <1>1 DEF FileTypes, Calls
<1>5. CallsInFiles' /\ ClosedAtZero' /\ NoByteSkipped' /\ Fits' /\ Owned'
  BY <1>1, <1>2, <1>3 DEF CallsInFiles, ClosedAtZero, NoByteSkipped, Fits, Owned
<1>6. Follows'
  BY <1>1, <1>2 DEF Follows, Reached, EndOf
<1>7. QED
  BY <1>4, <1>5, <1>6

(* The position becomes the end of what the call has moved, whichever call *)
(* stores it last: from a base up to its start, and on to there, each byte *)
(* has been moved.                                                         *)
LEMMA LeaveKeeps == ASSUME IInv, NEW p \in Procs, LeaveCall(p) PROVE IInv'
<1> USE RamFileAssumption
<1> USE DEF IInv
<1> DEFINE f == uses[p]
           end == EndOf(p)
<1>1. /\ InCall(p) /\ f_pos' = [f_pos EXCEPT ![f] = IF fdrv.moves /\ ~io[p].own THEN end ELSE f_pos[f]]
      /\ io' = [io EXCEPT ![p] = NoCall]
      /\ UNCHANGED <<fdrv, wide, uses, live, ramdisk, private_data, twice, crowded, bases, covered>>
  BY DEF LeaveCall
<1>2. /\ f \in Procs /\ OpenFiles' = OpenFiles /\ end \in Nat /\ f \in OpenFiles
      /\ io[p].from \in Nat /\ end = io[p].from + io[p].done /\ io[p].from <= end
      /\ end <= io[p].from + io[p].todo
  BY <1>1 DEF FileTypes, CallsInFiles, InCall, OpenFiles, Calls, EndOf
<1>3. \A r \in Procs : io'[r] = IF r = p THEN NoCall ELSE io[r]
  BY <1>1 DEF FileTypes
<1>4. \A r \in Procs : InCall(r)' => InCall(r) /\ r # p /\ EndOf(r)' = EndOf(r) /\ io'[r] = io[r]
  BY <1>3 DEF InCall, NoCall, EndOf
<1>5. \A g \in Procs : f_pos'[g] = IF g = f /\ fdrv.moves /\ ~io[p].own THEN end ELSE f_pos[g]
  BY <1>1 DEF FileTypes
<1>6. FileTypes'
  BY <1>1, <1>2 DEF FileTypes, Calls, NoCall
<1>7. CallsInFiles' /\ ClosedAtZero'
  BY <1>1, <1>2, <1>4, <1>5 DEF CallsInFiles, ClosedAtZero
<1>8. Fits'
  <2>1. fdrv.bounds # "none" /\ ~io[p].own => end <= RamSize
    BY <1>1, <1>2, <1>6 DEF Fits, FileTypes, Calls
  <2>2. QED
    BY <1>1, <1>4, <1>5, <2>1 DEF Fits
<1>9. NoByteSkipped'
  <2>1. SUFFICES ASSUME NEW g \in OpenFiles
                 PROVE  Reached(g, f_pos'[g])
    BY <1>1, <1>2 DEF NoByteSkipped, Reached
  <2>2. g \in Procs
    BY <1>2 DEF OpenFiles, FileTypes
  <2>3. CASE ~(g = f /\ fdrv.moves /\ ~io[p].own)
    BY <1>5, <2>1, <2>2, <2>3 DEF NoByteSkipped, Reached
  <2>4. CASE g = f /\ fdrv.moves /\ ~io[p].own
    <3>1. PICK b \in bases[f] : b <= io[p].from /\ b .. io[p].from - 1 \subseteq covered[f]
      BY <1>1, <2>4 DEF Follows, Reached
    <3>2. io[p].from .. end - 1 \subseteq covered[f]
      BY <1>1, <2>4 DEF Follows
    <3>3. b \in Nat
      BY <1>2 DEF FileTypes
    <3>4. b <= end /\ b .. end - 1 \subseteq (b .. io[p].from - 1) \cup (io[p].from .. end - 1)
      BY <1>2, <3>1, <3>3
    <3>5. QED
      BY <1>2, <1>5, <2>4, <3>1, <3>2, <3>4 DEF Reached
  <2>5. QED
    BY <2>3, <2>4
<1>10. Follows'
  BY <1>1, <1>4 DEF Follows, Reached
<1>11. Owned'
  BY <1>1, <1>2 DEF Owned
<1>12. QED
  BY <1>6, <1>7, <1>8, <1>9, <1>10, <1>11

(* A seek starts a new run of bytes, within the buffer.                    *)
LEMMA SeekKeeps == ASSUME IInv, NEW p \in Procs, NEW offset \in {-1, 0, 1}, Seek(p, offset) PROVE IInv'
<1> USE RamFileAssumption
<1> USE DEF IInv
<1> DEFINE f == uses[p]
<1>1. PICK orig \in {0, f_pos[f], RamSize} :
        /\ f_pos' = [f_pos EXCEPT ![f] = Clamp(orig + offset)]
        /\ bases' = [bases EXCEPT ![f] = bases[f] \cup {Clamp(orig + offset)}]
  BY DEF Seek
<1> DEFINE pos == Clamp(orig + offset)
<1>2. f # NoFile /\ UNCHANGED <<fdrv, wide, uses, io, live, ramdisk, private_data, twice, crowded, covered>>
  BY DEF Seek
<1>3. f \in Procs /\ f \in OpenFiles /\ OpenFiles' = OpenFiles
  BY <1>2 DEF FileTypes, OpenFiles
<1>4. pos \in Nat /\ pos <= RamSize
  <2>1. orig + offset \in Int
    BY <1>3 DEF FileTypes
  <2>2. QED
    BY <2>1 DEF Clamp
<1> HIDE DEF pos
<1>5. \A g \in Procs : /\ f_pos'[g] = IF g = f THEN pos ELSE f_pos[g]
                       /\ bases'[g] = IF g = f THEN bases[f] \cup {pos} ELSE bases[g]
  BY <1>1 DEF FileTypes, pos
<1>6. \A r \in Procs : InCall(r)' = InCall(r) /\ EndOf(r)' = EndOf(r)
  BY <1>2 DEF InCall, EndOf
<1>7. FileTypes'
  BY <1>1, <1>2, <1>3, <1>4 DEF FileTypes, pos
<1>8. CallsInFiles' /\ ClosedAtZero' /\ Owned'
  BY <1>2, <1>3, <1>5, <1>6 DEF CallsInFiles, ClosedAtZero, Owned
<1>9. Fits'
  BY <1>2, <1>4, <1>5, <1>6 DEF Fits
<1>10. NoByteSkipped'
  <2>1. SUFFICES ASSUME NEW g \in OpenFiles
                 PROVE  \E b \in bases'[g] : b <= f_pos'[g] /\ b .. f_pos'[g] - 1 \subseteq covered[g]
    BY <1>2, <1>3 DEF NoByteSkipped
  <2>2. g \in Procs
    BY <2>1 DEF OpenFiles, FileTypes
  <2>3. CASE g = f
    <3>1. pos \in bases'[g] /\ f_pos'[g] = pos /\ pos .. pos - 1 = {}
      BY <1>4, <1>5, <2>2, <2>3
    <3>2. QED
      BY <1>4, <3>1
  <2>4. CASE g # f
    BY <1>5, <2>1, <2>2, <2>4 DEF NoByteSkipped
  <2>5. QED
    BY <2>3, <2>4
<1>11. Follows'
  <2>1. SUFFICES ASSUME NEW r \in Procs, InCall(r), fdrv.moves, ~io[r].own
                 PROVE  /\ \E b \in bases'[uses[r]] : b <= io[r].from /\ b .. io[r].from - 1 \subseteq covered[uses[r]]
                        /\ io[r].from .. EndOf(r) - 1 \subseteq covered[uses[r]]
    BY <1>2, <1>6 DEF Follows, Reached
  <2>2. uses[r] \in Procs
    BY <2>1 DEF CallsInFiles, FileTypes
  <2>3. bases[uses[r]] \subseteq bases'[uses[r]]
    BY <1>5, <2>2
  <2>4. QED
    BY <2>1, <2>3 DEF Follows, Reached
<1>12. QED
  BY <1>7, <1>8, <1>9, <1>10, <1>11

(* Every step of a process keeps the invariant.                            *)
LEMMA StepIInv == IInv /\ [FileNext]_fileVars => IInv'
<1> SUFFICES ASSUME IInv, [FileNext]_fileVars PROVE IInv'
  OBVIOUS
<1>1. CASE UNCHANGED fileVars
  <2>1. UNCHANGED <<fdrv, wide, uses, f_pos, io, live, ramdisk, private_data, twice, crowded, bases, covered>>
    BY <1>1 DEF fileVars
  <2>2. FileTypes' /\ CallsInFiles' /\ ClosedAtZero'
    BY <2>1 DEF IInv, FileTypes, CallsInFiles, ClosedAtZero, InCall, OpenFiles
  <2>3. NoByteSkipped' /\ Fits' /\ Owned'
    BY <2>1 DEF IInv, NoByteSkipped, Fits, Owned, InCall, OpenFiles
  <2>4. Follows'
    BY <2>1 DEF IInv, Follows, Reached, InCall, EndOf
  <2>5. QED
    BY <2>2, <2>3, <2>4 DEF IInv
<1>2. CASE FileNext
  <2>1. PICK p \in Procs : FileStep(p)
    BY <1>2 DEF FileNext
  <2>2. CASE FileOpen(p)
    BY <2>2, OpenKeeps
  <2>3. CASE OpenFails(p)
    BY <2>3, OpenFailsKeeps
  <2>4. CASE FileClose(p)
    BY <2>4, CloseKeeps
  <2>5. CASE \E q \in Procs : Share(p, q)
    BY <2>5, ShareKeeps
  <2>6. CASE \E len \in 0..MaxLen : EnterCall(p, len)
    BY <2>6, EnterKeeps
  <2>7. CASE MoveByte(p)
    BY <2>7, MoveKeeps
  <2>8. CASE Fault(p)
    BY <2>8, FaultKeeps
  <2>9. CASE LeaveCall(p)
    BY <2>9, LeaveKeeps
  <2>10. CASE \E offset \in {-1, 0, 1} : Seek(p, offset)
    BY <2>10, SeekKeeps
  <2>11. CASE Oops(p)
    BY <2>11, OopsKeeps
  <2>12. QED
    BY <2>1, <2>2, <2>3, <2>4, <2>5, <2>6, <2>7, <2>8, <2>9, <2>10, <2>11 DEF FileStep
<1>3. QED
  BY <1>1, <1>2

(* A buffer is there as long as its file, if there was memory for it, and  *)
(* is freed once; and however the calls, seeks and faults of any processes *)
(* interleave, the position stays in a buffer of any size, and so does     *)
(* each call of a driver that tests the length, but for a position past    *)
(* the end that its caller gives to one that clips.                        *)
THEOREM FilesInBounds == FileSpec => []FileInBounds
<1>1. IInv => FileInBounds
  <2>1. SUFFICES ASSUME IInv PROVE FileInBounds
    OBVIOUS
  <2>2. OpenFiles \subseteq Procs /\ \A p \in Procs : InCall(p) => uses[p] \in OpenFiles
    BY <2>1 DEF IInv, FileTypes, CallsInFiles, OpenFiles
  <2>3. BuffersPaired
    <3> DEFINE held == IF fdrv.buffer = "ram" THEN {ramdisk} ELSE {BufferOf(f) : f \in OpenFiles}
    <3>1. SUFFICES ASSUME fdrv.buffer = "cache" => ~crowded
                   PROVE  ~twice /\ live = held \ {NoFile} /\ \A p \in Procs : InCall(p) => BufferOf(uses[p]) \in live \cup {NoFile}
      BY DEF BuffersPaired
    <3>2. ~twice
      BY <2>1, <3>1 DEF IInv, Owned
    <3>3. live = held \ {NoFile}
      <4>1. CASE fdrv.buffer = "ram"
        BY <2>1, <4>1 DEF IInv, Owned
      <4>2. CASE fdrv.buffer = "private"
        <5>1. live = {f \in OpenFiles : private_data[f] = f} /\ \A f \in OpenFiles : private_data[f] \in {f, NoFile}
          BY <2>1, <2>2, <4>2 DEF IInv, Owned
        <5>2. NoFile \notin OpenFiles /\ \A f \in OpenFiles : BufferOf(f) = private_data[f]
          BY <4>2 DEF OpenFiles, BufferOf
        <5>3. QED
          BY <4>2, <5>1, <5>2
      <4>3. CASE fdrv.buffer = "cache"
        <5>1. live = OpenFiles /\ OpenFiles \subseteq {ramdisk} /\ NoFile \notin OpenFiles
          BY <2>1, <3>1, <4>3 DEF IInv, Owned, OpenFiles
        <5>2. \A f \in OpenFiles : BufferOf(f) = f
          BY <4>3, <5>1 DEF BufferOf
        <5>3. QED
          BY <4>3, <5>1, <5>2
      <4>4. QED
        BY <2>1, <4>1, <4>2, <4>3, RamFileAssumption DEF IInv, FileTypes
    <3>4. \A p \in Procs : InCall(p) => BufferOf(uses[p]) \in held
      BY <2>1, <2>2 DEF IInv, FileTypes, BufferOf
    <3>5. QED
      BY <3>2, <3>3, <3>4
  <2>4. fdrv.bounds # "none" =>
          /\ \A f \in OpenFiles : f_pos[f] <= RamSize
          /\ \A p \in Procs : InCall(p) =>
               Inside(p) \/ (fdrv.bounds = "clip" /\ io[p].own /\ io[p].from > RamSize)
    BY <2>1, <2>2 DEF IInv, Fits, Inside
  <2>5. QED
    BY <2>3, <2>4 DEF FileInBounds
<1>2. QED
  BY InitIInv, StepIInv, <1>1, PTL DEF FileSpec

(* Racing calls may move a byte twice, but the position that the kernel    *)
(* stores never jumps over one that nobody has moved.                      *)
THEOREM NoneSkipped == FileSpec => []NoByteSkipped
<1>1. IInv => NoByteSkipped
  BY DEF IInv
<1>2. QED
  BY InitIInv, StepIInv, <1>1, PTL DEF FileSpec

-----------------------------------------------------------------------------
(*************************************************************************)
(* Eeprom: a chip and pages of any size.                                 *)
(*************************************************************************)
Opened == {p \in EepProcs : epos[p] # -1}

Shape == /\ ecall = [p \in EepProcs |-> ecall[p]]
         /\ \A p \in EepProcs : {"at", "from", "count"} \subseteq DOMAIN ecall[p]

(* The users are counted, and the buffer goes with the last of them.       *)
UsersCounted == /\ epos \in [EepProcs -> -1 .. EEP_SIZE]
                /\ IsFiniteSet(Opened) /\ users = Cardinality(Opened)
                /\ data = NoData <=> Opened = {}

(* A call keeps its file open and moves its position within the chip: if   *)
(* it could not, the file would look closed to the count.                  *)
CallSound(p) == /\ ecall[p].at # "out" <=> eep_mutex = p
                /\ ecall[p].at # "out" => /\ epos[p] # -1 /\ ecall[p].from \in 0..EEP_SIZE
                                          /\ ecall[p].count \in 0 .. EEP_SIZE - ecall[p].from
                /\ ecall[p].at = "fetched" /\ ecall[p].count \in 1 .. LenT - 1 => data = <<p, "read">>
                /\ ecall[p].at = "writing" => data = <<p, "write">>

EInv == Shape /\ UsersCounted /\ \A p \in EepProcs : CallSound(p)

(* Nobody has the device open.                                           *)
LEMMA InitEInv == EepInit => EInv
<1> SUFFICES ASSUME EepInit PROVE EInv
  OBVIOUS
<1>1. Opened = {} /\ \A p \in EepProcs : eep_mutex # p
  BY EepromAssumption DEF EepInit, Opened
<1>2. UsersCounted
  BY <1>1, FS_EmptySet, EepromAssumption DEF EepInit, UsersCounted
<1>3. Shape
  BY DEF EepInit, Shape, Idle
<1>4. \A p \in EepProcs : ecall[p].at = "out"
  BY DEF EepInit, Idle
<1>5. QED
  BY <1>1, <1>2, <1>3, <1>4 DEF EInv, CallSound

(* An open allocates the buffer or leaves it to those who are in a call.   *)
LEMMA EepOpenKeeps == ASSUME EInv, NEW p \in EepProcs, eep_open(p) PROVE EInv'
<1>1. CASE epos' = epos
  <2>1. UNCHANGED eepVars
    BY <1>1, EepromAssumption DEF eep_open, EInv, UsersCounted, eepVars
  <2>2. QED
    BY <2>1 DEF eepVars, EInv, Shape, UsersCounted, CallSound, Opened
<1>2. CASE epos' # epos
  <2>1. /\ epos[p] = -1 /\ epos' = [epos EXCEPT ![p] = 0] /\ users' = users + 1
        /\ data' = (IF data = NoData THEN Zeroed ELSE data) /\ UNCHANGED <<eep_mutex, ecall, overrun>>
    BY <1>2 DEF eep_open
  <2>2. Opened' = Opened \cup {p} /\ p \notin Opened
    BY <2>1 DEF EInv, UsersCounted, Opened
  <2>3. IsFiniteSet(Opened') /\ users' = Cardinality(Opened')
    BY <2>1, <2>2, FS_AddElement DEF EInv, UsersCounted
  <2>4. epos' \in [EepProcs -> -1 .. EEP_SIZE]
    BY <2>1, EepromAssumption DEF EInv, UsersCounted
  <2>5. data' # NoData
    BY <2>1 DEF Zeroed, NoData
  <2>6. \A q \in EepProcs : CallSound(q)'
    <3>1. SUFFICES ASSUME NEW q \in EepProcs PROVE CallSound(q)'
      OBVIOUS
    <3>2. ecall[q].at # "out" => q # p /\ epos'[q] = epos[q] /\ data' = data
      BY <2>1 DEF EInv, CallSound, UsersCounted, Opened
    <3>3. QED
      BY <2>1, <3>2 DEF EInv, CallSound
  <2>7. QED
    BY <2>1, <2>2, <2>3, <2>4, <2>5, <2>6 DEF EInv, Shape, UsersCounted
<1>3. QED
  BY <1>1, <1>2

(* The buffer goes when nobody has the device open, and so nobody is in a  *)
(* call.                                                                   *)
LEMMA ReleaseKeeps == ASSUME EInv, NEW p \in EepProcs, eep_release(p) PROVE EInv'
<1>1. /\ epos[p] # -1 /\ ecall[p].at = "out" /\ epos' = [epos EXCEPT ![p] = -1] /\ users' = users - 1
      /\ data' = (IF users' = 0 THEN NoData ELSE data) /\ UNCHANGED <<eep_mutex, ecall, overrun>>
  BY DEF eep_release, At
<1>2. Opened' = Opened \ {p} /\ p \in Opened
  BY <1>1 DEF EInv, UsersCounted, Opened
<1>3. IsFiniteSet(Opened') /\ users' = Cardinality(Opened')
  BY <1>1, <1>2, FS_RemoveElement DEF EInv, UsersCounted
<1>4. epos' \in [EepProcs -> -1 .. EEP_SIZE]
  BY <1>1, EepromAssumption DEF EInv, UsersCounted
<1>5. users' = 0 <=> Opened' = {}
  BY <1>3, FS_EmptySet
<1>6. data' = NoData <=> Opened' = {}
  BY <1>1, <1>2, <1>5 DEF EInv, UsersCounted
<1>7. \A q \in EepProcs : CallSound(q)'
  <2>1. SUFFICES ASSUME NEW q \in EepProcs PROVE CallSound(q)'
    OBVIOUS
  <2>2. ecall[q].at # "out" => q # p /\ epos'[q] = epos[q] /\ data' = data
    <3>1. SUFFICES ASSUME ecall[q].at # "out" PROVE q # p /\ epos'[q] = epos[q] /\ data' = data
      OBVIOUS
    <3>2. q # p /\ q \in Opened
      BY <1>1, <3>1 DEF EInv, CallSound, Opened
    <3>3. q \in Opened'
      BY <1>2, <3>2
    <3>4. QED
      BY <1>1, <1>5, <3>2, <3>3 DEF EInv, UsersCounted
  <2>3. QED
    BY <1>1, <2>2 DEF EInv, CallSound
<1>8. QED
  BY <1>1, <1>3, <1>4, <1>6, <1>7 DEF EInv, Shape, UsersCounted

(* A position is set within the chip.                                    *)
LEMMA EepSeekKeeps == ASSUME EInv, NEW p \in EepProcs, eep_llseek(p) PROVE EInv'
<1>1. PICK newpos \in 0..EEP_SIZE : epos' = [epos EXCEPT ![p] = newpos]
  BY DEF eep_llseek
<1>2. epos[p] # -1 /\ ecall[p].at = "out" /\ UNCHANGED <<users, data, eep_mutex, ecall, overrun>>
  BY DEF eep_llseek, At
<1>3. epos' \in [EepProcs -> -1 .. EEP_SIZE] /\ Opened' = Opened
  BY <1>1, <1>2, EepromAssumption DEF EInv, UsersCounted, Opened
<1>4. \A q \in EepProcs : CallSound(q)'
  BY <1>1, <1>2 DEF EInv, UsersCounted, CallSound
<1>5. QED
  BY <1>2, <1>3, <1>4 DEF EInv, Shape, UsersCounted

(* The mutex is taken with the position of the file, or one of the         *)
(* caller's, and what of the length is left of the chip behind it.         *)
LEMMA LockKeeps ==
  ASSUME EInv, NEW p \in EepProcs, NEW op \in {"read", "write"}, NEW len \in 0..EEP_SIZE + 1, EepLock(p, op, len)
  PROVE  EInv'
<1>1. PICK own \in BOOLEAN : \E from \in IF own THEN 0..EEP_SIZE ELSE {epos[p]} :
        ecall' = [ecall EXCEPT ![p] = [Idle EXCEPT !.at = op, !.from = from, !.own = own, !.count = Clip(from, len)]]
  BY DEF EepLock
<1>2. PICK from \in IF own THEN 0..EEP_SIZE ELSE {epos[p]} :
        ecall' = [ecall EXCEPT ![p] = [Idle EXCEPT !.at = op, !.from = from, !.own = own, !.count = Clip(from, len)]]
  BY <1>1
<1> DEFINE call == [Idle EXCEPT !.at = op, !.from = from, !.own = own, !.count = Clip(from, len)]
<1>3. /\ epos[p] # -1 /\ eep_mutex = "free" /\ eep_mutex' = p /\ ecall' = [ecall EXCEPT ![p] = call]
      /\ UNCHANGED <<users, data, epos, overrun>>
  BY <1>2 DEF EepLock, MutexFree
<1>4. from \in 0..EEP_SIZE
  BY <1>2, <1>3, EepromAssumption DEF EInv, UsersCounted
<1>5. Clip(from, len) \in 0 .. EEP_SIZE - from
  BY <1>4, EepromAssumption DEF Clip
<1>6. call.at = op /\ call.from = from /\ call.count = Clip(from, len) /\ {"at", "from", "count"} \subseteq DOMAIN call
  BY DEF Idle
<1> HIDE DEF call
<1>7. Shape' /\ \A q \in EepProcs : ecall'[q] = IF q = p THEN call ELSE ecall[q]
  BY <1>3, <1>6 DEF EInv, Shape
<1>8. \A q \in EepProcs : CallSound(q)'
  <2>1. \A q \in EepProcs : ecall[q].at = "out"
    BY <1>3, EepromAssumption DEF EInv, CallSound
  <2>2. QED
    BY <1>3, <1>4, <1>5, <1>6, <1>7, <2>1 DEF CallSound
<1>9. QED
  BY <1>3, <1>7, <1>8 DEF EInv, UsersCounted, Opened

(* The mutex is given back, with the position somewhere in the chip.       *)
LEMMA UnlockKeeps ==
  ASSUME EInv, NEW p \in EepProcs, ecall[p].at # "out", NEW moved \in {0, ecall[p].count}, EepUnlock(p, moved)
  PROVE  EInv'
<1>1. /\ eep_mutex' = "free" /\ ecall' = [ecall EXCEPT ![p] = Idle] /\ UNCHANGED <<users, data, overrun>>
      /\ epos' = epos \/ epos' = [epos EXCEPT ![p] = ecall[p].from + moved]
  BY DEF EepUnlock
<1>2. ecall[p].from + moved \in 0..EEP_SIZE /\ epos[p] # -1 /\ eep_mutex = p
  BY EepromAssumption DEF EInv, CallSound
<1>3. epos' \in [EepProcs -> -1 .. EEP_SIZE] /\ Opened' = Opened
  BY <1>1, <1>2, EepromAssumption DEF EInv, UsersCounted, Opened
<1>4. Shape' /\ \A q \in EepProcs : ecall'[q] = IF q = p THEN Idle ELSE ecall[q]
  BY <1>1 DEF EInv, Shape, Idle
<1>5. \A q \in EepProcs : CallSound(q)'
  <2>1. \A q \in EepProcs \ {p} : ecall[q].at = "out"
    BY <1>2 DEF EInv, CallSound
  <2>2. QED
    BY <1>1, <1>4, <2>1, EepromAssumption DEF CallSound, Idle
<1>6. QED
  BY <1>1, <1>3, <1>4, <1>5 DEF EInv, UsersCounted

(* The steps under the mutex, which alone change what the buffer holds.    *)
LEMMA WorkKeeps ==
  ASSUME EInv, NEW p \in EepProcs, ecall[p].at # "out", UNCHANGED <<users, eep_mutex, epos>>,
         Shape', ecall'[p].at # "out", ecall'[p].from = ecall[p].from, ecall'[p].count = ecall[p].count,
         \A q \in EepProcs \ {p} : ecall'[q] = ecall[q],
         data' # NoData,
         ecall'[p].at = "fetched" /\ ecall[p].count \in 1 .. LenT - 1 => data' = <<p, "read">>,
         ecall'[p].at = "writing" => data' = <<p, "write">>
  PROVE  EInv'
<1>1. p \in Opened /\ Opened' = Opened
  BY DEF EInv, CallSound, Opened
<1>2. \A q \in EepProcs : CallSound(q)'
  BY DEF EInv, CallSound
<1>3. QED
  BY <1>1, <1>2 DEF EInv, UsersCounted

(* The transfers of a call.                                              *)
LEMMA CallKeeps ==
  ASSUME EInv, NEW p \in EepProcs, Fetch(p) \/ Gather(p) \/ transacWrite(p)
  PROVE  EInv'
<1>1. ecall[p].at # "out" /\ ecall[p].at \in {"read", "write", "writing"} /\ UNCHANGED <<users, eep_mutex, epos>>
  BY DEF Fetch, Gather, transacWrite, At
<1>2. data # NoData
  BY <1>1 DEF EInv, UsersCounted, CallSound, Opened
<1>3. CASE Fetch(p)
  <2>1. \A count \in 1 .. LenT - 1 : count % LenT = count
    <3>1. SUFFICES ASSUME NEW count \in 1 .. LenT - 1 PROVE count % LenT = count
      OBVIOUS
    <3>2. LenT \in Nat \ {0} /\ count \in 0..LenT - 1 /\ count = (LenT * 0) + count
      BY EepromAssumption
    <3>3. QED
      BY <3>2, Remainder
  <2>2. /\ Shape' /\ ecall'[p].at \in {"fetched", "failed"} /\ data' \in {data, <<p, "read">>}
        /\ ecall'[p].from = ecall[p].from /\ ecall'[p].count = ecall[p].count
        /\ \A q \in EepProcs \ {p} : ecall'[q] = ecall[q]
    BY <1>3 DEF Fetch, EInv, Shape
  <2>3. ecall'[p].at = "fetched" /\ ecall[p].count % LenT # 0 => data' = <<p, "read">>
    BY <1>3 DEF Fetch, EInv, Shape
  <2>4. ecall'[p].at = "fetched" /\ ecall[p].count \in 1 .. LenT - 1 => data' = <<p, "read">>
    BY <2>1, <2>3
  <2>5. QED
    BY <1>1, <1>2, <2>2, <2>4, WorkKeeps DEF NoData
<1>4. CASE Gather(p)
  BY <1>1, <1>4, WorkKeeps DEF Gather, EInv, Shape, NoData
<1>5. CASE transacWrite(p)
  BY <1>1, <1>2, <1>5, WorkKeeps DEF transacWrite, At, EInv, Shape, CallSound
<1>6. QED
  BY <1>3, <1>4, <1>5

(* The invariant is inductive.                                           *)
LEMMA StepEInv == EInv /\ [EepNext]_eepVars => EInv'
<1>1. ASSUME EInv, UNCHANGED eepVars PROVE EInv'
  BY <1>1 DEF eepVars, EInv, Shape, UsersCounted, CallSound, Opened
<1>2. ASSUME EInv, NEW p \in EepProcs,
             AtEnd(p) \/ EndRead(p) \/ BadBuffer(p) \/ TransferFails(p) \/ EndWrite(p)
      PROVE  EInv'
  BY <1>2, UnlockKeeps DEF AtEnd, EndRead, BadBuffer, TransferFails, EndWrite, At
<1>3. ASSUME EInv, NEW p \in EepProcs, EepStep(p) PROVE EInv'
  BY <1>2, <1>3, EepOpenKeeps, ReleaseKeeps, EepSeekKeeps, LockKeeps, CallKeeps DEF EepStep
<1>4. QED
  BY <1>1, <1>3 DEF EepNext

(* For any processes, whoever opens, closes, reads and writes meanwhile:   *)
(* the shared buffer is allocated while the device is open, and holds what *)
(* the process under the mutex has put there, to write it or with a        *)
(* transfer that did not fail and whose length fits its message.           *)
THEOREM BufferIsOwn == EepSpec => []EepOwnBuffer
<1>1. EInv => EepOwnBuffer
  BY DEF EInv, UsersCounted, CallSound, Opened, EepOwnBuffer
<1>2. QED
  BY InitEInv, StepEInv, <1>1, PTL DEF EepSpec

(* Quotient and remainder of M * q + r.                                  *)
LEMMA DivIs == ASSUME NEW M \in Nat \ {0}, NEW q \in Int, NEW r \in 0..M - 1
               PROVE  (M * q + r) \div M = q /\ (M * q + r) % M = r
<1> DEFINE x == M * q + r
           u == x \div M
           v == x % M
<1>1. x \in Int
  OBVIOUS
<1>2. u \in Int /\ v \in 0..M - 1 /\ x = M * u + v
  <2> HIDE DEF x
  <2> QED BY <1>1
<1>3. x = M * q + r
  OBVIOUS
<1> HIDE DEF u, v, x
<1> DEFINE d == q - u
<1>4. v - r = M * d /\ d \in Int
  BY <1>2, <1>3
<1>5. d = q - u
  OBVIOUS
<1> HIDE DEF d
<1>6. CASE d = 0
  BY <1>2, <1>4, <1>5, <1>6 DEF x, u, v
<1>7. CASE d >= 1
  <2>1. M * d >= M
    BY <1>4, <1>7
  <2> QED BY <2>1, <1>2, <1>4
<1>8. CASE d <= -1
  <2>1. M * d <= -M
    BY <1>4, <1>8
  <2> QED BY <2>1, <1>2, <1>4
<1> QED BY <1>4, <1>6, <1>7, <1>8

(* Transfers, where the first i of them end, and whether one stays on    *)
(* its page.                                                             *)
ChunkSet == [addr : Nat, offset : Nat, len : Nat]
EndsAt(s, i) == IF i = 0 THEN 0 ELSE s[i].offset + s[i].len
OnePage(c) == c.addr \div EEP_PAGE_SIZE = (c.addr + c.len - 1) \div EEP_PAGE_SIZE

(* A position is on some page, at some place of it; Remain is what is    *)
(* left of the page behind it, unless it is the page's first place.      *)
LEMMA PageOf == ASSUME NEW pos \in Nat
  PROVE  \E q \in Nat, m \in 0..EEP_PAGE_SIZE - 1 :
           /\ pos = EEP_PAGE_SIZE * q + m /\ pos % EEP_PAGE_SIZE = m
           /\ Remain(pos) = (IF m = 0 THEN 0 ELSE EEP_PAGE_SIZE - m)
<1> DEFINE P == EEP_PAGE_SIZE
           q == pos \div P
           m == pos % P
<1>1. P \in Nat \ {0}
  BY EepromAssumption
<1> HIDE DEF P
<1>2. q \in Nat /\ m \in 0..P - 1 /\ pos = P * q + m
  BY <1>1
<1>3. Remain(pos) = (P - m) % P
  BY DEF Remain, P
<1> HIDE DEF q
<1>4. m = pos % P
  OBVIOUS
<1> HIDE DEF m
<1>5. CASE m = 0
  <2>1. P - m = P * 1 + 0 /\ 0 \in 0..P - 1
    BY <1>1, <1>5
  <2>2. (P * 1 + 0) % P = 0
    BY <1>1, <2>1, DivIs
  <2> QED BY <1>2, <1>3, <1>4, <1>5, <2>1, <2>2 DEF P
<1>6. CASE m # 0
  <2>1. P - m = P * 0 + (P - m) /\ P - m \in 0..P - 1
    BY <1>1, <1>2, <1>6
  <2>2. (P * 0 + (P - m)) % P = P - m
    BY <1>1, <2>1, DivIs
  <2> QED BY <1>2, <1>3, <1>4, <1>6, <2>1, <2>2 DEF P
<1> QED BY <1>5, <1>6

(* A transfer that is no longer than what is left of its page stays      *)
(* there.                                                                *)
LEMMA PageStays == ASSUME NEW q \in Int, NEW m \in 0..EEP_PAGE_SIZE - 1, NEW len \in 1..EEP_PAGE_SIZE - m,
                          NEW c, c.addr = EEP_PAGE_SIZE * q + m, c.len = len
                   PROVE  OnePage(c)
<1> DEFINE P == EEP_PAGE_SIZE
<1>1. P \in Nat \ {0}
  BY EepromAssumption
<1>2. (P * q + m) \div P = q
  BY <1>1, DivIs
<1>3. m + len - 1 \in 0..P - 1
  BY <1>1
<1>4. (P * q + (m + len - 1)) \div P = q
  BY <1>1, <1>3, DivIs
<1>5. c.addr + c.len - 1 = P * q + (m + len - 1)
  BY <1>1
<1> QED BY <1>2, <1>4, <1>5 DEF OnePage

(* What a sequence of three parts consists of.                           *)
LEMMA ThreeParts ==
  ASSUME NEW S, NEW a \in Seq(S), NEW b \in Seq(S), NEW c \in Seq(S), NEW t, t = a \o b \o c
  PROVE  /\ t \in Seq(S) /\ Len(t) = Len(a) + Len(b) + Len(c)
         /\ \A i \in 1..Len(a) : t[i] = a[i]
         /\ \A i \in 1..Len(b) : t[Len(a) + i] = b[i]
         /\ \A i \in 1..Len(c) : t[Len(a) + Len(b) + i] = c[i]
OBVIOUS

(* The parts of Transfers: up to the next page, whole pages, and what is *)
(* left over.                                                            *)
HeadPart(pos) == IF Remain(pos) > 0 THEN <<Chunk(pos, 0, Remain(pos))>> ELSE << >>
NbPage(pos, count) == Rest(pos, count) \div EEP_PAGE_SIZE
LeftOver(pos, count) == Rest(pos, count) % EEP_PAGE_SIZE
PageParts(pos, count) ==
  [i \in 1..NbPage(pos, count) |-> Chunk(pos, Remain(pos) + (i - 1) * EEP_PAGE_SIZE, EEP_PAGE_SIZE)]
TailPart(pos, count) ==
  IF LeftOver(pos, count) > 0
  THEN <<Chunk(pos, Remain(pos) + NbPage(pos, count) * EEP_PAGE_SIZE, LeftOver(pos, count))>> ELSE << >>

(* Transfers is those three parts, whatever the position and the count.  *)
LEMMA TransfersTyped ==
  ASSUME NEW pos \in Nat, NEW count \in Nat
  PROVE  /\ Transfers(pos, count) = HeadPart(pos) \o PageParts(pos, count) \o TailPart(pos, count)
         /\ HeadPart(pos) \in Seq(ChunkSet) /\ PageParts(pos, count) \in Seq(ChunkSet) /\ TailPart(pos, count) \in Seq(ChunkSet)
         /\ Transfers(pos, count) \in Seq(ChunkSet)
         /\ Remain(pos) \in Nat /\ Rest(pos, count) \in Nat /\ NbPage(pos, count) \in Nat
         /\ LeftOver(pos, count) \in 0..EEP_PAGE_SIZE - 1
         /\ Rest(pos, count) = EEP_PAGE_SIZE * NbPage(pos, count) + LeftOver(pos, count)
<1> DEFINE P == EEP_PAGE_SIZE
           x == Rest(pos, count)
           remain == Remain(pos)
           nb == NbPage(pos, count)
           last == LeftOver(pos, count)
           A == HeadPart(pos)
           B == PageParts(pos, count)
           C == TailPart(pos, count)
<1>1. P \in Nat \ {0} /\ SizeT \in Nat \ {0}
  BY EepromAssumption
<1>2. remain \in Nat
  BY PageOf, <1>1
<1>3. x \in Nat
  <2>1. count - remain \in Int /\ x = (count - remain) % SizeT
    BY <1>2 DEF Rest
  <2> HIDE DEF x, remain
  <2> QED BY <1>1, <2>1
<1>4. nb \in Nat /\ last \in 0..P - 1 /\ x = P * nb + last
  <2>1. nb = x \div P /\ last = x % P
    BY DEF NbPage, LeftOver
  <2> HIDE DEF x, P, nb, last
  <2> QED BY <1>1, <1>3, <2>1
<1>5. A \in Seq(ChunkSet)
  <2>1. CASE remain > 0
    <3>1. Chunk(pos, 0, remain) \in ChunkSet
      BY <1>2 DEF Chunk, ChunkSet
    <3> QED BY <2>1, <3>1 DEF HeadPart
  <2>2. CASE ~(remain > 0)
    BY <2>2 DEF HeadPart
  <2> QED BY <2>1, <2>2
<1>6. C \in Seq(ChunkSet)
  <2>1. CASE last > 0
    <3>1. nb * P \in Nat
      BY <1>1, <1>4
    <3>2. Chunk(pos, remain + nb * P, last) \in ChunkSet
      BY <1>2, <1>4, <3>1 DEF Chunk, ChunkSet
    <3> QED BY <2>1, <3>2 DEF TailPart
  <2>2. CASE ~(last > 0)
    BY <2>2 DEF TailPart
  <2> QED BY <2>1, <2>2
<1>7. B \in Seq(ChunkSet)
  <2>1. B = [i \in 1..nb |-> Chunk(pos, remain + (i - 1) * P, P)]
    BY DEF PageParts
  <2> HIDE DEF B, nb, remain, P
  <2>2. \A i \in 1..nb : (i - 1) * P \in Nat
    BY <1>1, <1>4
  <2>3. \A i \in 1..nb : Chunk(pos, remain + (i - 1) * P, P) \in ChunkSet
    BY <1>1, <1>2, <2>2 DEF Chunk, ChunkSet
  <2> QED BY <1>4, <2>1, <2>3
<1>8. Transfers(pos, count) = A \o B \o C
  BY DEF Transfers, HeadPart, PageParts, TailPart, NbPage, LeftOver
<1> HIDE DEF A, B, C
<1>9. A \o B \o C \in Seq(ChunkSet)
  BY <1>5, <1>6, <1>7
<1> QED BY <1>2, <1>3, <1>4, <1>5, <1>6, <1>7, <1>8, <1>9 DEF A, B, C

(* For a write that reaches the next page, or starts on one: the         *)
(* transfers follow each other from its first byte to its last, and each *)
(* stays on its page.                                                    *)
LEMMA CutExactly ==
  ASSUME NEW pos \in Nat, NEW count \in 0..EEP_SIZE, Remain(pos) <= count
  PROVE  LET t == Transfers(pos, count)
         IN  /\ \A i \in 1..Len(t) : t[i].offset = EndsAt(t, i - 1) /\ t[i].addr = pos + t[i].offset /\ OnePage(t[i])
             /\ EndsAt(t, Len(t)) = count
<1> DEFINE P == EEP_PAGE_SIZE
           remain == Remain(pos)
           nb == NbPage(pos, count)
           last == LeftOver(pos, count)
           A == HeadPart(pos)
           B == PageParts(pos, count)
           C == TailPart(pos, count)
           T == Transfers(pos, count)
           a == Len(A)
           E(i) == IF i < a THEN 0 ELSE IF i <= a + nb THEN remain + (i - a) * P ELSE count
<1>1. P \in Nat \ {0} /\ SizeT \in Nat \ {0} /\ EEP_SIZE \in Nat /\ EEP_SIZE < SizeT /\ count \in Nat
  BY EepromAssumption
<1>2. /\ T = A \o B \o C /\ A \in Seq(ChunkSet) /\ B \in Seq(ChunkSet) /\ C \in Seq(ChunkSet)
      /\ remain \in Nat /\ nb \in Nat /\ last \in 0..P - 1 /\ Rest(pos, count) = P * nb + last
  BY <1>1, TransfersTyped
<1>3. Rest(pos, count) = count - remain
  <2>1. count - remain \in 0..SizeT - 1 /\ SizeT * 0 + (count - remain) = count - remain
    BY <1>1, <1>2
  <2>2. (SizeT * 0 + (count - remain)) % SizeT = count - remain
    <3> HIDE DEF remain
    <3> QED BY <1>1, <2>1, DivIs
  <2> QED BY <2>1, <2>2 DEF Rest
<1>4. count = remain + P * nb + last
  <2> DEFINE z == P * nb
  <2>1. z \in Int /\ count - remain = z + last /\ last \in Int
    BY <1>1, <1>2, <1>3
  <2> HIDE DEF z, remain, last
  <2>2. count = remain + z + last
    BY <1>1, <1>2, <2>1
  <2> QED BY <2>2 DEF z
<1>5. PICK q \in Nat, m \in 0..P - 1 : pos = P * q + m /\ remain = (IF m = 0 THEN 0 ELSE P - m)
  BY PageOf
<1>6. PICK k \in Nat : pos + remain = P * k
  <2>1. CASE m = 0
    BY <1>1, <1>5, <2>1
  <2>2. CASE m # 0
    <3>1. pos + remain = P * (q + 1)
      BY <1>1, <1>5, <2>2
    <3> QED BY <3>1
  <2> QED BY <2>1, <2>2
<1>7. /\ a = (IF remain > 0 THEN 1 ELSE 0) /\ Len(B) = nb /\ Len(C) = (IF last > 0 THEN 1 ELSE 0)
      /\ remain > 0 => A[1] = Chunk(pos, 0, remain)
      /\ \A i \in 1..nb : B[i] = Chunk(pos, remain + (i - 1) * P, P)
      /\ last > 0 => C[1] = Chunk(pos, remain + nb * P, last)
  <2>1. a = (IF remain > 0 THEN 1 ELSE 0) /\ (remain > 0 => A[1] = Chunk(pos, 0, remain))
    BY DEF HeadPart
  <2>2. Len(C) = (IF last > 0 THEN 1 ELSE 0) /\ (last > 0 => C[1] = Chunk(pos, remain + nb * P, last))
    BY DEF TailPart
  <2>3. B = [i \in 1..nb |-> Chunk(pos, remain + (i - 1) * P, P)]
    BY DEF PageParts
  <2>4. Len(B) = nb /\ \A i \in 1..nb : B[i] = Chunk(pos, remain + (i - 1) * P, P)
    <3> HIDE DEF nb, remain, P, B
    <3> QED BY <1>2, <2>3
  <2> QED BY <2>1, <2>2, <2>4
<1> HIDE DEF A, B, C, T, nb, last, remain, P
<1>8. /\ Len(T) = a + nb + Len(C)
      /\ \A i \in 1..a : T[i] = A[i]
      /\ \A i \in 1..nb : T[a + i] = B[i]
      /\ \A i \in 1..Len(C) : T[a + nb + i] = C[i]
  <2>1. /\ Len(T) = Len(A) + Len(B) + Len(C)
        /\ \A i \in 1..Len(A) : T[i] = A[i]
        /\ \A i \in 1..Len(B) : T[Len(A) + i] = B[i]
        /\ \A i \in 1..Len(C) : T[Len(A) + Len(B) + i] = C[i]
    BY <1>2, ThreeParts
  <2>2. Len(B) = nb
    BY <1>7
  <2> QED BY <2>1, <2>2
<1>9. ASSUME NEW i \in 1..Len(T)
      PROVE  /\ T[i].offset = E(i - 1) /\ T[i].offset + T[i].len = E(i)
             /\ T[i].addr = pos + T[i].offset /\ OnePage(T[i])
  <2>1. CASE i <= a
    <3>1. i = 1 /\ a = 1 /\ remain > 0 /\ T[i] = Chunk(pos, 0, remain)
      BY <1>7, <1>8, <2>1
    <3>2. remain = P - m /\ T[i].offset = 0 /\ T[i].addr = pos + 0 /\ T[i].len = remain
      BY <1>1, <1>2, <1>5, <3>1 DEF Chunk
    <3>6. T[i].addr = P * q + m
      BY <1>5, <3>2
    <3>7. T[i].offset + T[i].len = remain
      BY <1>2, <3>2
    <3>3. OnePage(T[i])
      <4>1. P - m \in 1..P - m
        BY <1>1, <1>5
      <4> QED BY <1>5, <3>2, <3>6, <4>1, PageStays DEF P
    <3>4. E(i - 1) = 0 /\ E(i) = remain
      BY <1>1, <1>2, <3>1
    <3> QED BY <3>2, <3>3, <3>4, <3>7
  <2>2. CASE i > a /\ i <= a + nb
    <3> DEFINE j == i - a
    <3>1. j \in 1..nb /\ i = a + j
      BY <1>2, <1>7, <2>2
    <3>2. T[i] = Chunk(pos, remain + (j - 1) * P, P)
      BY <1>7, <1>8, <3>1
    <3>3. T[i].offset = remain + (j - 1) * P /\ T[i].len = P /\ T[i].addr = pos + (remain + (j - 1) * P)
      BY <3>2 DEF Chunk
    <3> HIDE DEF j
    <3>4. T[i].addr = P * (k + j - 1) + 0 /\ k + j - 1 \in Int
      <4>1. (j - 1) * P \in Int /\ P * (k + j - 1) = P * k + (j - 1) * P
        BY <1>1, <1>6, <3>1
      <4>2. T[i].addr = P * k + (j - 1) * P
        BY <1>2, <1>6, <3>3, <4>1
      <4> QED BY <1>1, <1>6, <3>1, <4>1, <4>2, SMTT(30)
    <3>5. OnePage(T[i])
      <4>1. 0 \in 0..P - 1 /\ P \in 1..P - 0
        BY <1>1
      <4> QED BY <3>3, <3>4, <4>1, PageStays DEF P
    <3>6. (i - 1) - a = j - 1 /\ i - a = j /\ a \in Nat
      BY <1>7, <3>1
    <3>7. E(i - 1) = remain + (j - 1) * P
      <4>1. ~(i - 1 < a) /\ i - 1 <= a + nb
        BY <1>2, <2>2, <3>6
      <4> QED BY <3>6, <4>1
    <3>8. E(i) = remain + j * P
      BY <2>2, <3>6
    <3>9. remain + (j - 1) * P + P = remain + j * P
      BY <1>1, <1>2, <3>1
    <3> QED BY <3>3, <3>5, <3>7, <3>8, <3>9
  <2>3. CASE i > a + nb
    <3>1. i = a + nb + 1 /\ last > 0 /\ Len(C) = 1 /\ a \in Nat
      <4>1. a \in Nat /\ nb \in Nat /\ last \in Nat /\ Len(C) \in Nat
        BY <1>1, <1>2, <1>7
      <4>2. Len(C) >= 1
        BY <1>8, <2>3, <4>1
      <4>3. last > 0 /\ Len(C) = 1
        BY <1>7, <4>1, <4>2
      <4>4. Len(T) = a + nb + 1 /\ i \in 1..a + nb + 1
        BY <1>8, <4>3
      <4>5. i = a + nb + 1
        BY <2>3, <4>1, <4>4
      <4> QED BY <4>1, <4>3, <4>5
    <3>2. T[i] = Chunk(pos, remain + nb * P, last)
      BY <1>7, <1>8, <3>1
    <3>3. T[i].offset = remain + nb * P /\ T[i].len = last /\ T[i].addr = pos + (remain + nb * P)
      BY <3>2 DEF Chunk
    <3>4. T[i].addr = P * (k + nb) + 0 /\ k + nb \in Int
      <4>1. nb * P \in Int /\ P * (k + nb) = P * k + nb * P
        BY <1>1, <1>2, <1>6
      <4>2. T[i].addr = P * k + nb * P
        BY <1>2, <1>6, <3>3, <4>1
      <4> QED BY <1>1, <1>2, <1>6, <4>1, <4>2
    <3>5. OnePage(T[i])
      <4>1. 0 \in 0..P - 1 /\ last \in 1..P - 0
        BY <1>1, <1>2, <3>1
      <4> QED BY <3>3, <3>4, <4>1, PageStays DEF P
    <3>6. E(i - 1) = remain + nb * P /\ E(i) = count
      <4>1. i - 1 = a + nb /\ (a + nb) - a = nb /\ ~(a + nb < a)
        BY <1>2, <3>1
      <4>2. ~(i < a) /\ ~(i <= a + nb)
        BY <1>2, <3>1
      <4> QED BY <4>1, <4>2
    <3>7. remain + nb * P + last = count
      BY <1>1, <1>2, <1>4
    <3> QED BY <3>3, <3>5, <3>6, <3>7
  <2>4. i <= a \/ (i > a /\ i <= a + nb) \/ i > a + nb
    BY <1>2, <1>7
  <2> HIDE DEF E
  <2> QED BY <2>1, <2>2, <2>3, <2>4
<1>10. E(0) = 0
  <2>1. CASE a = 0
    <3>1. remain = 0 /\ (0 - a) * P = 0
      BY <1>1, <1>2, <1>7, <2>1
    <3> QED BY <1>2, <2>1, <3>1
  <2>2. CASE a = 1
    BY <2>2
  <2> QED BY <1>7, <2>1, <2>2
<1>11. E(Len(T)) = count
  <2>1. CASE last > 0
    BY <1>2, <1>7, <1>8, <2>1
  <2>2. CASE last = 0
    <3>1. Len(T) = a + nb /\ (a + nb) - a = nb /\ ~(a + nb < a) /\ a + nb <= a + nb
      BY <1>2, <1>7, <1>8, <2>2
    <3>2. remain + nb * P = count
      BY <1>1, <1>2, <1>4, <2>2
    <3> QED BY <3>1, <3>2
  <2> QED BY <1>2, <2>1, <2>2
<1>12. Len(T) \in Nat
  BY <1>2, <1>7, <1>8
<1> HIDE DEF E
<1>13. \A i \in 0..Len(T) : EndsAt(T, i) = E(i)
  <2>1. SUFFICES ASSUME NEW i \in 0..Len(T) PROVE EndsAt(T, i) = E(i)
    OBVIOUS
  <2>2. CASE i = 0
    BY <1>10, <2>2 DEF EndsAt
  <2>3. CASE i # 0
    <3>1. i \in 1..Len(T)
      BY <1>12, <2>3
    <3> QED BY <1>9, <2>3, <3>1 DEF EndsAt
  <2> QED BY <2>2, <2>3
<1>14. \A i \in 1..Len(T) : i - 1 \in 0..Len(T)
  BY <1>12
<1>15. \A i \in 1..Len(T) : T[i].offset = EndsAt(T, i - 1) /\ T[i].addr = pos + T[i].offset /\ OnePage(T[i])
  BY <1>9, <1>13, <1>14
<1>16. EndsAt(T, Len(T)) = count
  BY <1>11, <1>12, <1>13
<1> QED BY <1>15, <1>16 DEF T

(* A sequence and another behind it.                                     *)
LEMMA Concat ==
  ASSUME NEW S, NEW s \in Seq(S), NEW t \in Seq(S)
  PROVE  /\ s \o t \in Seq(S) /\ Len(s \o t) = Len(s) + Len(t)
         /\ \A i \in 1..Len(s) + Len(t) : (s \o t)[i] = (IF i <= Len(s) THEN s[i] ELSE t[i - Len(s)])
         /\ s = [i \in 1..Len(s) |-> s[i]]
OBVIOUS

(* What is planned is made in order.                                     *)
LEMMA OneMade == ASSUME NEW S, NEW s \in Seq(S), NEW t \in Seq(S), t # << >>
  PROVE  /\ Append(s, Head(t)) \in Seq(S) /\ Tail(t) \in Seq(S)
         /\ Append(s, Head(t)) \o Tail(t) = s \o t
<1>1. /\ Head(t) \in S /\ Tail(t) \in Seq(S) /\ Len(t) \in Nat \ {0} /\ Len(s) \in Nat /\ Len(Tail(t)) = Len(t) - 1
      /\ Head(t) = t[1] /\ \A i \in 1..Len(t) - 1 : Tail(t)[i] = t[i + 1]
  OBVIOUS
<1> DEFINE u == Append(s, Head(t))
           x == u \o Tail(t)
           y == s \o t
<1>2. u \in Seq(S) /\ Len(u) = Len(s) + 1 /\ u[Len(s) + 1] = t[1] /\ \A i \in 1..Len(s) : u[i] = s[i]
  BY <1>1
<1> HIDE DEF u
<1>3. x \in Seq(S) /\ Len(x) = Len(u) + Len(Tail(t))
  BY <1>1, <1>2, Concat
<1>4. \A i \in 1..Len(u) + Len(Tail(t)) : x[i] = (IF i <= Len(u) THEN u[i] ELSE Tail(t)[i - Len(u)])
  BY <1>1, <1>2, Concat
<1>5. y \in Seq(S) /\ Len(y) = Len(s) + Len(t)
  OBVIOUS
<1>6. \A i \in 1..Len(s) + Len(t) : y[i] = (IF i <= Len(s) THEN s[i] ELSE t[i - Len(s)])
  OBVIOUS
<1> HIDE DEF x, y
<1>7. Len(x) = Len(y)
  BY <1>1, <1>2, <1>3, <1>5
<1>8. ASSUME NEW i \in 1..Len(x) PROVE x[i] = y[i]
  <2>1. i \in 1..Len(s) + Len(t) /\ i \in 1..Len(u) + Len(Tail(t))
    BY <1>1, <1>3, <1>5, <1>7
  <2>2. CASE i <= Len(s)
    BY <1>1, <1>2, <1>4, <1>6, <2>1, <2>2
  <2>3. CASE i = Len(s) + 1
    BY <1>1, <1>2, <1>4, <1>6, <2>1, <2>3
  <2>4. CASE i > Len(s) + 1
    <3>1. i - Len(u) \in 1..Len(t) - 1 /\ (i - Len(u)) + 1 = i - Len(s)
      BY <1>1, <1>2, <2>1, <2>4
    <3>2. x[i] = Tail(t)[i - Len(u)] /\ y[i] = t[i - Len(s)]
      BY <1>1, <1>2, <1>4, <1>6, <2>1, <2>4
    <3> QED BY <1>1, <3>1, <3>2
  <2> QED BY <1>1, <2>1, <2>2, <2>3, <2>4
<1>9. x = y
  <2>1. x = [i \in 1..Len(x) |-> x[i]]
    BY <1>3, Concat
  <2>2. y = [i \in 1..Len(y) |-> y[i]]
    BY <1>5, Concat
  <2> QED BY <1>7, <1>8, <2>1, <2>2
<1> QED BY <1>1, <1>2, <1>9 DEF u, x, y

(* What has been made is the beginning of the whole.                     *)
LEMMA MadeFirst == ASSUME NEW S, NEW s \in Seq(S), NEW t \in Seq(S)
  PROVE  /\ Len(s) \in Nat /\ Len(s \o t) = Len(s) + Len(t) /\ Len(t) \in Nat /\ DOMAIN s = 1..Len(s)
         /\ \A i \in 1..Len(s) : (s \o t)[i] = s[i]
         /\ t = << >> => Len(s \o t) = Len(s)
OBVIOUS

(* A call's transfers made and transfers still to make are those of      *)
(* Transfers.                                                            *)
CallSet == [at : {"out", "read", "write", "fetched", "failed", "writing"}, from : Nat, own : BOOLEAN, count : 0..EEP_SIZE,
            plan : Seq(ChunkSet), sent : Seq(ChunkSet)]
CallCut(c) == /\ c \in CallSet
              /\ c.at # "writing" => c.sent = << >>
              /\ c.at = "writing" => c.sent \o c.plan = Transfers(c.from, c.count)
CutInv == EInv /\ \A p \in EepProcs : CallCut(ecall[p])

(* No call has no transfers.                                             *)
LEMMA IdleCut == CallCut(Idle)
BY EepromAssumption DEF CallCut, CallSet, Idle

(* Nobody is in a call.                                                  *)
LEMMA CutInitially == EepInit => CutInv
BY InitEInv, IdleCut DEF EepInit, CutInv

(* Only transacWrite changes the plan that Gather has made.              *)
LEMMA CutKeeps == ASSUME CutInv, NEW p \in EepProcs, EepStep(p) PROVE \A q \in EepProcs : CallCut(ecall[q])'
<1>1. ecall = [q \in EepProcs |-> ecall[q]] /\ CallCut(ecall[p]) /\ ecall[p] \in CallSet
  BY DEF CutInv, EInv, Shape, CallCut
<1>2. ASSUME NEW c, CallCut(c), ecall' = [ecall EXCEPT ![p] = c] PROVE \A q \in EepProcs : CallCut(ecall[q])'
  BY <1>1, <1>2 DEF CutInv, CallCut
<1>3. CASE eep_open(p) \/ eep_release(p) \/ eep_llseek(p)
  BY <1>3 DEF eep_open, eep_release, eep_llseek, CutInv, CallCut
<1>4. ASSUME NEW op \in {"read", "write"}, NEW len \in 0..EEP_SIZE + 1, EepLock(p, op, len)
      PROVE  \A q \in EepProcs : CallCut(ecall[q])'
  <2>1. PICK own \in BOOLEAN : \E from \in IF own THEN 0..EEP_SIZE ELSE {epos[p]} :
          ecall' = [ecall EXCEPT ![p] = [Idle EXCEPT !.at = op, !.from = from, !.own = own, !.count = Clip(from, len)]]
    BY <1>4 DEF EepLock
  <2>2. PICK from \in IF own THEN 0..EEP_SIZE ELSE {epos[p]} :
          ecall' = [ecall EXCEPT ![p] = [Idle EXCEPT !.at = op, !.from = from, !.own = own, !.count = Clip(from, len)]]
    BY <2>1
  <2> DEFINE c == [Idle EXCEPT !.at = op, !.from = from, !.own = own, !.count = Clip(from, len)]
  <2>3. epos[p] \in 0..EEP_SIZE
    BY <1>4, EepromAssumption DEF EepLock, CutInv, EInv, UsersCounted
  <2>4. from \in Nat /\ Clip(from, len) \in 0..EEP_SIZE
    <3>1. from \in 0..EEP_SIZE
      BY <2>2, <2>3
    <3> QED BY <3>1, EepromAssumption DEF Clip
  <2>5. PICK idle \in CallSet : idle = Idle /\ idle.sent = << >>
    BY IdleCut DEF CallCut, Idle
  <2>6. c \in CallSet /\ c.at = op /\ c.sent = << >>
    <3>1. c = [idle EXCEPT !.at = op, !.from = from, !.own = own, !.count = Clip(from, len)]
      BY <2>5
    <3> HIDE DEF c
    <3> QED BY <2>1, <2>4, <2>5, <3>1 DEF CallSet
  <2>7. CallCut(c)
    BY <2>6 DEF CallCut
  <2>8. ecall' = [ecall EXCEPT ![p] = c]
    BY <2>2
  <2> HIDE DEF c
  <2> QED BY <1>2, <2>7, <2>8
<1>5. CASE AtEnd(p) \/ EndRead(p) \/ BadBuffer(p) \/ TransferFails(p) \/ EndWrite(p)
  BY <1>2, <1>5, IdleCut DEF AtEnd, EndRead, BadBuffer, TransferFails, EndWrite, EepUnlock
<1>6. CASE Fetch(p)
  <2>1. PICK at \in {"fetched", "failed"} : ecall' = [ecall EXCEPT ![p] = [ecall[p] EXCEPT !.at = at]]
    BY <1>1, <1>6 DEF Fetch
  <2>2. CallCut([ecall[p] EXCEPT !.at = at])
    BY <1>1, <1>6 DEF Fetch, At, CallCut, CallSet
  <2> QED BY <1>2, <2>1, <2>2
<1>7. CASE Gather(p)
  <2> DEFINE t == Transfers(ecall[p].from, ecall[p].count)
             c == [ecall[p] EXCEPT !.at = "writing", !.plan = t]
  <2>1. ecall' = [ecall EXCEPT ![p] = c] /\ ecall[p].sent = << >>
    BY <1>1, <1>7 DEF Gather, At, CallCut
  <2>2. t \in Seq(ChunkSet)
    <3>1. ecall[p].from \in Nat /\ ecall[p].count \in 0..EEP_SIZE
      BY <1>1 DEF CallSet
    <3>2. ecall[p].count \in Nat
      BY <3>1, EepromAssumption
    <3> QED BY <3>1, <3>2, TransfersTyped
  <2>3. c \in CallSet /\ c.at = "writing" /\ c.sent = << >> /\ c.plan = t /\ c.from = ecall[p].from /\ c.count = ecall[p].count
    BY <1>1, <2>1, <2>2 DEF CallSet
  <2>4. << >> \o t = t
    BY <2>2
  <2>5. CallCut(c)
    BY <2>3, <2>4 DEF CallCut
  <2> HIDE DEF c
  <2> QED BY <1>2, <2>1, <2>5
<1>8. CASE transacWrite(p)
  <2> DEFINE chunk == Head(ecall[p].plan)
             c == [ecall[p] EXCEPT !.plan = Tail(ecall[p].plan), !.sent = Append(ecall[p].sent, chunk)]
  <2>1. ecall' = [ecall EXCEPT ![p] = c] /\ ecall[p].at = "writing" /\ ecall[p].plan # << >>
    BY <1>1, <1>8 DEF transacWrite, At
  <2>2. /\ Append(ecall[p].sent, chunk) \in Seq(ChunkSet) /\ Tail(ecall[p].plan) \in Seq(ChunkSet)
        /\ Append(ecall[p].sent, chunk) \o Tail(ecall[p].plan) = ecall[p].sent \o ecall[p].plan
    <3>1. ecall[p].sent \in Seq(ChunkSet) /\ ecall[p].plan \in Seq(ChunkSet)
      BY <1>1 DEF CallSet
    <3> QED BY <2>1, <3>1, OneMade
  <2> HIDE DEF chunk
  <2>3. c \in CallSet /\ c.at = "writing" /\ c.sent = Append(ecall[p].sent, chunk) /\ c.plan = Tail(ecall[p].plan)
        /\ c.from = ecall[p].from /\ c.count = ecall[p].count
    BY <1>1, <2>1, <2>2 DEF CallSet
  <2>4. CallCut(c)
    BY <1>1, <2>1, <2>2, <2>3 DEF CallCut
  <2> HIDE DEF c
  <2> QED BY <1>2, <2>1, <2>4
<1> QED BY <1>3, <1>4, <1>5, <1>6, <1>7, <1>8 DEF EepStep

(* What the invariant says of the transfers made.                        *)
LEMMA SegmentsExact == CutInv => EepSegmentsExact
<1> SUFFICES ASSUME CutInv, NEW p \in EepProcs, ecall[p].at = "writing", ecall[p].count >= Remain(ecall[p].from)
             PROVE  /\ \A i \in DOMAIN ecall[p].sent :
                         /\ ecall[p].sent[i].offset = SentUpTo(p, i - 1)
                         /\ ecall[p].sent[i].addr = ecall[p].from + ecall[p].sent[i].offset
                         /\ OnePage(ecall[p].sent[i])
                    /\ ecall[p].plan = << >> => SentUpTo(p, Len(ecall[p].sent)) = ecall[p].count
  BY DEF EepSegmentsExact, OnePage
<1> DEFINE c == ecall[p]
           t == Transfers(c.from, c.count)
<1>1. c \in CallSet /\ c.sent \o c.plan = t
  BY DEF CutInv, CallCut
<1>2. /\ Len(c.sent) \in Nat /\ Len(t) = Len(c.sent) + Len(c.plan) /\ Len(c.plan) \in Nat
      /\ DOMAIN c.sent = 1..Len(c.sent)
      /\ \A i \in 1..Len(c.sent) : t[i] = c.sent[i]
      /\ c.plan = << >> => Len(t) = Len(c.sent)
  <2>1. c.sent \in Seq(ChunkSet) /\ c.plan \in Seq(ChunkSet)
    BY <1>1 DEF CallSet
  <2> HIDE DEF c, t
  <2> QED BY <1>1, <2>1, MadeFirst
<1>3. c.from \in Nat /\ c.count \in 0..EEP_SIZE /\ Remain(c.from) \in Nat /\ c.count \in Nat
  <2>1. c.from \in Nat /\ c.count \in 0..EEP_SIZE
    BY <1>1 DEF CallSet
  <2>2. c.count \in Nat
    BY <2>1, EepromAssumption
  <2> QED BY <2>1, <2>2, TransfersTyped
<1>4. /\ \A i \in 1..Len(t) : t[i].offset = EndsAt(t, i - 1) /\ t[i].addr = c.from + t[i].offset /\ OnePage(t[i])
      /\ EndsAt(t, Len(t)) = c.count
  BY <1>3, CutExactly
<1>5. ASSUME NEW i \in 0..Len(c.sent) PROVE EndsAt(t, i) = SentUpTo(p, i)
  <2>1. CASE i = 0
    BY <2>1 DEF EndsAt, SentUpTo
  <2>2. CASE i # 0
    BY <1>2, <2>2 DEF EndsAt, SentUpTo
  <2> QED BY <2>1, <2>2
<1>6. ASSUME NEW i \in DOMAIN c.sent
      PROVE  c.sent[i].offset = SentUpTo(p, i - 1) /\ c.sent[i].addr = c.from + c.sent[i].offset /\ OnePage(c.sent[i])
  <2>1. i \in 1..Len(c.sent) /\ i \in 1..Len(t) /\ i - 1 \in 0..Len(c.sent)
    <3> DEFINE n == Len(c.sent)
               k == Len(t)
               l == Len(c.plan)
    <3>1. n \in Nat /\ l \in Nat /\ k = n + l /\ i \in 1..n
      BY <1>2, <1>6
    <3> HIDE DEF n, k, l
    <3>2. i \in 1..n /\ i \in 1..k /\ i - 1 \in 0..n
      BY <3>1
    <3> QED BY <3>2 DEF n, k
  <2> HIDE DEF c, t
  <2> QED BY <1>2, <1>4, <1>5, <2>1
<1>7. c.plan = << >> => SentUpTo(p, Len(c.sent)) = c.count
  BY <1>2, <1>4, <1>5
<1> QED BY <1>6, <1>7

(* For pages and chips of any size, any position and any length: a write *)
(* that reaches the next page, or starts on one, sends every byte once,  *)
(* in order and to its own place, and no transfer crosses a page         *)
(* (ee24lc512_write, transacWrite).                                      *)
THEOREM SegmentsCutExactly == EepSpec => []EepSegmentsExact
<1>1. CutInv /\ [EepNext]_eepVars => CutInv'
  <2>1. SUFFICES ASSUME CutInv, [EepNext]_eepVars PROVE CutInv'
    OBVIOUS
  <2>2. EInv'
    BY <2>1, StepEInv DEF CutInv
  <2>3. CASE UNCHANGED eepVars
    BY <2>1, <2>2, <2>3 DEF eepVars, CutInv, CallCut
  <2>4. CASE EepNext
    BY <2>1, <2>2, <2>4, CutKeeps DEF EepNext, CutInv
  <2> QED BY <2>1, <2>3, <2>4
<1> QED BY CutInitially, <1>1, SegmentsExact, PTL DEF EepSpec

-----------------------------------------------------------------------------
(*************************************************************************)
(* MouseLab: a UART of any size, and any number of packets.              *)
(*************************************************************************)
(* A byte at the end of a queue.                                         *)
LEMMA ByteAdded == ASSUME NEW S, NEW s \in Seq(S), NEW x \in S
  PROVE /\ Append(s, x) \in Seq(S) /\ Len(Append(s, x)) = Len(s) + 1 /\ Len(s) \in Nat
        /\ \A i \in 1..Len(s) : Append(s, x)[i] = s[i]
        /\ Append(s, x)[Len(s) + 1] = x
OBVIOUS

(* A queue without its first byte.                                       *)
LEMMA ByteTaken == ASSUME NEW S, NEW s \in Seq(S), s # << >>
  PROVE /\ Tail(s) \in Seq(S) /\ Len(Tail(s)) = Len(s) - 1 /\ Len(s) \in Nat \ {0} /\ Head(s) = s[1] /\ s[1] \in S
        /\ \A i \in 1..Len(s) - 1 : Tail(s)[i] = s[i + 1]
OBVIOUS

(* The bytes of packets, and where a process may be.                     *)
Packed == (Nat \ {0}) \X (1..MY_NBYTES)
Places == {"closed", "open", "test", "asleep", "disable", "sync", "copy", "clear", "enable", "kill", "killed"}
(* The reads that have disabled the interrupt and not enabled it again.  *)
Copying == {p \in MouseUsers : mpc[p] \in {"sync", "copy", "clear", "enable"}}
(* The order in which the mouse sends its bytes.                         *)
Before(a, b) == a[1] < b[1] \/ (a[1] = b[1] /\ a[2] < b[2])
(* Every place of the buffer has a byte; the byte that comes next to the *)
(* handler.                                                              *)
Filled == \A i \in 1..MY_NBYTES : bytes[i] # Blank
Expect == IF uart = << >> THEN coming ELSE uart[1]

(* What the UART and the handler hold.                                   *)
ByteTypes == /\ uart \in Seq(Packed) /\ coming \in Packed
             /\ bytes \in [1..MY_NBYTES -> Packed \cup {Blank}] /\ numByteIn \in 0..MY_NBYTES
             /\ mouseIsr \in {"idle", "byte", "full", "wake"}
             /\ mouseIsr = "full" <=> numByteIn = MY_NBYTES
(* Where the processes are, and what is remembered of them.              *)
CallTypes == /\ mpc \in [MouseUsers -> Places] /\ got = [p \in MouseUsers |-> got[p]] /\ newest \in Int
             /\ packet_ready \in BOOLEAN /\ dropped \in BOOLEAN /\ paired \in BOOLEAN /\ late \in BOOLEAN /\ stray \in BOOLEAN
             /\ usersig \in BOOLEAN
(* The bytes come in the order in which they were sent: those in the     *)
(* buffer, those in the UART, the next of the mouse.                     *)
Ordered == /\ \A j \in 1..Len(uart) : /\ Before(uart[j], coming)
                                      /\ \A k \in 1..Len(uart) : j < k => Before(uart[j], uart[k])
           /\ \A i \in 1..MY_NBYTES : /\ Before(bytes[i], coming)
                                      /\ \A j \in 1..Len(uart) : Before(bytes[i], uart[j])
(* The first place of the buffer has the first byte of a packet, and the *)
(* last place is from an earlier packet until the handler reaches it.    *)
Started == /\ bytes[1] = Blank \/ Magic(bytes[1])
           /\ \A i \in 1..numByteIn : bytes[i] # Blank
           /\ numByteIn \in {1, 2} => bytes[3][1] < bytes[1][1]
(* As long as nothing is dropped the bytes follow each other: between    *)
(* two packets the buffer is empty or has a whole one, and within a      *)
(* packet the places that it has not reached have the packet before it,  *)
(* or nothing.                                                           *)
Framed == ~dropped =>
  /\ \A j \in 1..Len(uart) - 1 : uart[j + 1] = Following(uart[j])
  /\ uart # << >> => coming = Following(uart[Len(uart)])
  /\ numByteIn = 0 => \/ \A i \in 1..MY_NBYTES : bytes[i] = Blank
                      \/ /\ \A i \in 1..MY_NBYTES : bytes[i] = <<bytes[1][1], i>>
                         /\ Expect = <<bytes[1][1] + 1, 1>>
  /\ numByteIn > 0 => /\ \A i \in 1..numByteIn : bytes[i] = <<bytes[1][1], i>>
                      /\ \A i \in numByteIn + 1..MY_NBYTES : bytes[i] \in {Blank, <<bytes[1][1] - 1, i>>}
                      /\ Expect = Following(bytes[numByteIn])
(* The interrupt is disabled by the reads that copy and by those that    *)
(* have failed; while a read copies the handler is out, and the buffer   *)
(* is what the read gets.                                                *)
DisableInv == /\ IsFiniteSet(Copying) /\ faults \in Nat /\ disabled = faults + Cardinality(Copying)
              /\ \A p \in MouseUsers : mpc[p] \in {"copy", "clear", "enable"} => mouseIsr = "idle"
              /\ \A p \in MouseUsers : mpc[p] \in {"clear", "enable"} => got[p] = bytes
              /\ \A p \in MouseUsers : mpc[p] = "enable" => ~packet_ready
(* The packet in the buffer is newer than the one read last as long as   *)
(* it is announced, or a read is past the wait for it.                   *)
NewInv == /\ newest <= bytes[3][1]
          /\ packet_ready \/ (\E p \in MouseUsers : PacketSeen(p)) => Filled
          /\ ~paired => /\ \A p, q \in MouseUsers : PacketSeen(p) /\ PacketSeen(q) => p = q
                        /\ mouseIsr = "full" \/ packet_ready \/ (\E p \in MouseUsers : PacketSeen(p)) => newest < bytes[3][1]
(* The tasklet has somebody to signal.                                   *)
SignalInv == /\ usersig /\ (user_pid = "0" \/ \E p \in MouseUsers : mpc[p] = "killed") => late
             /\ stray => late
(* The invariant of the bytes, and of all.                               *)
BytesInv == ByteTypes /\ Ordered /\ Started /\ Framed
MInv == BytesInv /\ CallTypes /\ DisableInv /\ NewInv /\ SignalInv
(* Nothing has come, and nobody has the device open.                     *)
LEMMA MouseInitially == MouseInit => MInv
<1> SUFFICES ASSUME MouseInit PROVE MInv
  OBVIOUS
<1>1. ByteTypes
  BY DEF MouseInit, ByteTypes, Packed, MY_NBYTES
<1>2. Ordered
  BY DEF MouseInit, Ordered, Before, Blank, MY_NBYTES
<1>3. Started /\ Framed
  BY DEF MouseInit, Started, Framed, Blank, MY_NBYTES
<1>4. CallTypes
  <2>1. mpc \in [MouseUsers -> Places] /\ got = [p \in MouseUsers |-> got[p]] /\ newest \in Int
    BY DEF MouseInit, Places
  <2>2. /\ packet_ready \in BOOLEAN /\ dropped \in BOOLEAN /\ paired \in BOOLEAN /\ late \in BOOLEAN
        /\ stray \in BOOLEAN /\ usersig \in BOOLEAN
    BY Zenon DEF MouseInit
  <2> QED BY <2>1, <2>2 DEF CallTypes
<1>5. \A p \in MouseUsers : mpc[p] = "closed" 
  BY DEF MouseInit
<1>6. Copying = {} /\ \A p \in MouseUsers : ~PacketSeen(p)
  BY <1>5 DEF Copying, PacketSeen
<1>7. DisableInv
  BY <1>5, <1>6, FS_EmptySet DEF MouseInit, DisableInv
<1>8. NewInv /\ SignalInv
  BY <1>5, <1>6 DEF MouseInit, NewInv, SignalInv, Blank, MY_NBYTES
<1> QED BY <1>1, <1>2, <1>3, <1>4, <1>7, <1>8 DEF MInv, BytesInv

(* The next byte goes into the UART, or is dropped.                      *)
LEMMA SendsKeeps == ASSUME MInv, MouseSends PROVE MInv'
<1>1. /\ coming' = Following(coming)
      /\ UNCHANGED <<bytes, numByteIn, packet_ready, mouseIsr, disabled, usersig, user_pid, mpc, got,
                     faults, newest, paired, late, stray>>
  BY DEF MouseSends
<1>2. coming \in Packed /\ uart \in Seq(Packed) /\ bytes \in [1..MY_NBYTES -> Packed \cup {Blank}]
  BY DEF MInv, BytesInv, ByteTypes
<1>3. coming' \in Packed /\ Before(coming, coming')
  BY <1>1, <1>2 DEF Packed, Following, Before, MY_NBYTES
<1>4. \A b \in Packed \cup {Blank} : Before(b, coming) => Before(b, coming')
  BY <1>2, <1>3 DEF Packed, Blank, Before
<1>5. DisableInv' /\ NewInv' /\ SignalInv'
  BY <1>1 DEF MInv, DisableInv, NewInv, SignalInv, Copying, PacketSeen, Filled
<1>6. CASE uart' = Append(uart, coming) /\ dropped' = dropped
  <2>1. /\ uart' \in Seq(Packed) /\ Len(uart') = Len(uart) + 1 /\ Len(uart) \in Nat
        /\ \A i \in 1..Len(uart) : uart'[i] = uart[i]
        /\ uart'[Len(uart) + 1] = coming
    BY <1>2, <1>6, ByteAdded
  <2>2. ByteTypes'
    BY <1>1, <1>3, <2>1 DEF MInv, BytesInv, ByteTypes
  <2>3. \A j \in 1..Len(uart') : Before(uart'[j], coming')
    <3>1. SUFFICES ASSUME NEW j \in 1..Len(uart') PROVE Before(uart'[j], coming')
      OBVIOUS
    <3>2. CASE j = Len(uart) + 1
      BY <1>3, <2>1, <3>2
    <3>3. CASE j \in 1..Len(uart)
      BY <1>2, <1>4, <2>1, <3>3 DEF MInv, BytesInv, Ordered
    <3> QED BY <2>1, <3>2, <3>3
  <2>4. \A j, k \in 1..Len(uart') : j < k => Before(uart'[j], uart'[k])
    <3>1. SUFFICES ASSUME NEW j \in 1..Len(uart'), NEW k \in 1..Len(uart'), j < k PROVE Before(uart'[j], uart'[k])
      OBVIOUS
    <3>2. j \in 1..Len(uart) /\ uart'[j] = uart[j]
      BY <2>1, <3>1
    <3>3. CASE k = Len(uart) + 1
      BY <2>1, <3>2, <3>3 DEF MInv, BytesInv, Ordered
    <3>4. CASE k \in 1..Len(uart)
      BY <2>1, <3>1, <3>2, <3>4 DEF MInv, BytesInv, Ordered
    <3> QED BY <2>1, <3>3, <3>4
  <2>5. \A i \in 1..MY_NBYTES : Before(bytes[i], coming') /\ \A j \in 1..Len(uart') : Before(bytes[i], uart'[j])
    <3>1. SUFFICES ASSUME NEW i \in 1..MY_NBYTES
                   PROVE  Before(bytes[i], coming') /\ \A j \in 1..Len(uart') : Before(bytes[i], uart'[j])
      OBVIOUS
    <3>2. bytes[i] \in Packed \cup {Blank} /\ Before(bytes[i], coming)
      BY <1>2 DEF MInv, BytesInv, Ordered
    <3>3. \A j \in 1..Len(uart) : Before(bytes[i], uart'[j])
      BY <2>1 DEF MInv, BytesInv, Ordered
    <3> QED BY <1>4, <2>1, <3>2, <3>3
  <2>6. Ordered'
    BY <1>1, <2>3, <2>4, <2>5 DEF Ordered
  <2>7. Framed'
    <3>1. SUFFICES ASSUME ~dropped PROVE Framed'
      BY <1>6 DEF Framed
    <3>2. \A j \in 1..Len(uart') - 1 : uart'[j + 1] = Following(uart'[j])
      <4>1. SUFFICES ASSUME NEW j \in 1..Len(uart') - 1 PROVE uart'[j + 1] = Following(uart'[j])
        OBVIOUS
      <4>2. j \in 1..Len(uart) /\ uart'[j] = uart[j]
        BY <2>1
      <4>3. CASE j = Len(uart)
        BY <2>1, <3>1, <4>2, <4>3 DEF MInv, BytesInv, Framed
      <4>4. CASE j \in 1..Len(uart) - 1
        <5>1. uart'[j + 1] = uart[j + 1]
          BY <2>1, <4>4
        <5> QED BY <3>1, <4>2, <4>4, <5>1 DEF MInv, BytesInv, Framed
      <4> QED BY <2>1, <4>3, <4>4
    <3>3. coming' = Following(uart'[Len(uart')])
      BY <1>1, <2>1
    <3>4. Expect' = Expect
      <4>1. CASE uart = << >>
        BY <2>1, <4>1 DEF Expect
      <4>2. CASE uart # << >>
        BY <2>1, <1>2, <4>2 DEF Expect
      <4> QED BY <4>1, <4>2
    <3> QED BY <1>1, <3>1, <3>2, <3>3, <3>4 DEF MInv, BytesInv, Framed
  <2>8. Started' /\ CallTypes'
    BY <1>1, <1>6 DEF MInv, BytesInv, Started, CallTypes
  <2> QED BY <1>5, <2>2, <2>6, <2>7, <2>8 DEF MInv, BytesInv
<1>7. CASE uart' = uart /\ dropped' = TRUE
  <2>1. ByteTypes' /\ Started'
    BY <1>1, <1>3, <1>7 DEF MInv, BytesInv, ByteTypes, Started
  <2>2. Ordered'
    <3>1. \A j \in 1..Len(uart) : Before(uart[j], coming')
      BY <1>2, <1>4 DEF MInv, BytesInv, Ordered
    <3>2. \A i \in 1..MY_NBYTES : Before(bytes[i], coming')
      BY <1>2, <1>4 DEF MInv, BytesInv, Ordered
    <3> QED BY <1>1, <1>7, <3>1, <3>2 DEF MInv, BytesInv, Ordered
  <2>3. Framed'
    BY <1>7 DEF Framed
  <2>4. CallTypes'
    BY <1>1, <1>7 DEF MInv, CallTypes
  <2> QED BY <1>5, <2>1, <2>2, <2>3, <2>4 DEF MInv, BytesInv
<1> QED BY <1>6, <1>7 DEF MouseSends

(* What leaves the bytes alone keeps their order.                        *)
LEMMA BytesStay == ASSUME BytesInv, UNCHANGED <<uart, coming, bytes, numByteIn, dropped>>,
                          mouseIsr' \in {"idle", "byte", "full", "wake"}, mouseIsr' = "full" <=> numByteIn = MY_NBYTES
                   PROVE  BytesInv'
<1>1. ByteTypes'
  BY DEF BytesInv, ByteTypes
<1>2. Expect' = Expect
  BY DEF Expect
<1> QED BY <1>1, <1>2 DEF BytesInv, Ordered, Started, Framed

(* The handler starts when no read copies.                               *)
LEMMA InterruptKeeps == ASSUME MInv, MouseInterrupt PROVE MInv'
<1>1. /\ disabled = 0 /\ mouseIsr = "idle" /\ mouseIsr' = "byte"
      /\ UNCHANGED <<uart, coming, bytes, numByteIn, packet_ready, disabled, usersig, user_pid, mpc, got,
                     dropped, faults, newest, paired, late, stray>>
  BY DEF MouseInterrupt
<1>2. BytesInv'
  BY <1>1, BytesStay DEF MInv, BytesInv, ByteTypes
<1>3. Copying = {}
  <2>1. IsFiniteSet(Copying) /\ Cardinality(Copying) \in Nat /\ faults \in Nat /\ disabled = faults + Cardinality(Copying)
    BY FS_CardinalityType DEF MInv, DisableInv
  <2>2. Cardinality(Copying) = 0
    BY <1>1, <2>1
  <2> QED BY <2>1, <2>2, FS_EmptySet
<1>4. DisableInv'
  BY <1>1, <1>3 DEF MInv, DisableInv, Copying
<1>5. CallTypes' /\ SignalInv'
  BY <1>1 DEF MInv, CallTypes, SignalInv
<1>6. NewInv'
  BY <1>1 DEF MInv, NewInv, PacketSeen, Filled
<1> QED BY <1>2, <1>4, <1>5, <1>6 DEF MInv

(* The third byte announces the packet.                                  *)
LEMMA FullKeeps == ASSUME MInv, MouseFull PROVE MInv'
<1>1. /\ mouseIsr = "full" /\ mouseIsr' = "wake" /\ packet_ready' = TRUE /\ numByteIn' = 0
      /\ UNCHANGED <<uart, coming, bytes, disabled, usersig, user_pid, mpc, got, dropped, faults, newest, paired, late, stray>>
  BY DEF MouseFull
<1>2. numByteIn = MY_NBYTES
  BY <1>1 DEF MInv, BytesInv, ByteTypes
<1>3. ByteTypes' /\ Ordered' /\ Started'
  BY <1>1, <1>2 DEF MInv, BytesInv, ByteTypes, Ordered, Started, MY_NBYTES
<1>4. Framed'
  <2>1. SUFFICES ASSUME ~dropped PROVE Framed'
    BY <1>1 DEF Framed
  <2>2. /\ \A i \in 1..MY_NBYTES : bytes[i] = <<bytes[1][1], i>>
        /\ Expect = Following(bytes[MY_NBYTES])
    BY <1>2, <2>1 DEF MInv, BytesInv, Framed, MY_NBYTES
  <2>3. bytes[3] = <<bytes[1][1], 3>>
    BY <2>2 DEF MY_NBYTES
  <2>4. Expect = <<bytes[1][1] + 1, 1>> /\ Expect' = Expect
    BY <1>1, <2>2, <2>3 DEF Following, MY_NBYTES, Expect
  <2> QED BY <1>1, <2>1, <2>2, <2>4 DEF MInv, BytesInv, Framed
<1>5. CallTypes' /\ SignalInv'
  BY <1>1 DEF MInv, CallTypes, SignalInv
<1>6. DisableInv'
  BY <1>1 DEF MInv, DisableInv, Copying
<1>7. NewInv'
  <2>1. Filled
    BY <1>2 DEF MInv, BytesInv, Started, Filled
  <2> QED BY <1>1, <2>1 DEF MInv, NewInv, PacketSeen, Filled
<1> QED BY <1>3, <1>4, <1>5, <1>6, <1>7 DEF MInv, BytesInv

(* The handler wakes the readers and schedules the tasklet.              *)
LEMMA WakesKeeps == ASSUME MInv, MouseWakes PROVE MInv'
<1>1. /\ mouseIsr = "wake" /\ mouseIsr' = "byte"
      /\ mpc' = [p \in MouseUsers |-> IF mpc[p] = "asleep" THEN "test" ELSE mpc[p]]
      /\ usersig' = (usersig \/ user_pid # "0")
      /\ late' = (late \/ (user_pid # "0" /\ \E p \in MouseUsers : mpc[p] = "killed"))
      /\ UNCHANGED <<uart, coming, bytes, numByteIn, packet_ready, disabled, user_pid, got, dropped, faults, newest, paired, stray>>
  BY DEF MouseWakes
<1>2. BytesInv'
  BY <1>1, BytesStay DEF MInv, BytesInv, ByteTypes
<1>3. \A p \in MouseUsers : mpc'[p] = (IF mpc[p] = "asleep" THEN "test" ELSE mpc[p])
  BY <1>1
<1>4. Copying' = Copying /\ \A p \in MouseUsers : PacketSeen(p)' = PacketSeen(p) /\ (mpc'[p] = "killed") = (mpc[p] = "killed")
  BY <1>3 DEF Copying, PacketSeen
<1>5. mpc' \in [MouseUsers -> Places]
  BY <1>1 DEF MInv, CallTypes, Places
<1>6. usersig' \in BOOLEAN /\ late' \in BOOLEAN
  BY <1>1
<1>7. CallTypes'
  BY <1>1, <1>5, <1>6 DEF MInv, CallTypes
<1>8. DisableInv'
  BY <1>1, <1>3, <1>4 DEF MInv, DisableInv
<1>9. NewInv'
  BY <1>1, <1>4 DEF MInv, NewInv, Filled
<1>10. SignalInv'
  BY <1>1, <1>4 DEF MInv, SignalInv
<1> QED BY <1>2, <1>7, <1>8, <1>9, <1>10 DEF MInv

(* The tasklet signals.                                                  *)
LEMMA SendsigKeeps == ASSUME MInv, t_sendsig PROVE MInv'
<1>1. /\ usersig /\ usersig' = FALSE /\ stray' = (stray \/ user_pid = "0")
      /\ UNCHANGED <<uart, coming, bytes, numByteIn, packet_ready, mouseIsr, disabled, user_pid, mpc, got,
                     dropped, faults, newest, paired, late>>
  BY DEF t_sendsig
<1>2. BytesInv'
  BY <1>1, BytesStay DEF MInv, BytesInv, ByteTypes
<1>3. stray' \in BOOLEAN /\ usersig' \in BOOLEAN
  BY <1>1
<1>4. CallTypes'
  BY <1>1, <1>3 DEF MInv, CallTypes
<1>5. DisableInv' /\ NewInv'
  BY <1>1 DEF MInv, DisableInv, NewInv, Copying, PacketSeen, Filled
<1>6. SignalInv'
  <2>1. stray' => late
    BY <1>1 DEF MInv, SignalInv
  <2>2. ~usersig'
    BY <1>1
  <2> QED BY <1>1, <2>1, <2>2 DEF SignalInv
<1> QED BY <1>2, <1>4, <1>5, <1>6 DEF MInv

(* A process that goes on in its call.                                   *)
LEMMA UserMoves ==
  ASSUME MInv, NEW p \in MouseUsers, NEW from \in Places, NEW to \in Places, MouseMoves(p, from, to)
  PROVE  /\ mpc' \in [MouseUsers -> Places] /\ mpc[p] = from /\ mpc'[p] = to
         /\ \A q \in MouseUsers \ {p} : mpc'[q] = mpc[q] /\ PacketSeen(q)' = PacketSeen(q)
         /\ (from \in {"sync", "copy", "clear", "enable"} <=> to \in {"sync", "copy", "clear", "enable"}) => Copying' = Copying
<1>1. /\ mpc' \in [MouseUsers -> Places] /\ mpc[p] = from /\ mpc'[p] = to
      /\ \A q \in MouseUsers \ {p} : mpc'[q] = mpc[q]
  BY DEF MInv, CallTypes, MouseMoves
<1> QED BY <1>1 DEF PacketSeen, Copying

(* Steps of a process that is neither copying nor past the wait.         *)
Stays == UNCHANGED <<uart, coming, bytes, numByteIn, mouseIsr, dropped, usersig, stray, late>>
Outside == {"closed", "open", "test", "asleep", "kill", "killed"}

(* Such a step may clear packet_ready, and set nothing.                  *)
LEMMA OutsideKeeps ==
  ASSUME MInv, NEW p \in MouseUsers, NEW from \in Outside, NEW to \in Outside, MouseMoves(p, from, to), Stays,
         packet_ready' \in BOOLEAN, packet_ready' => packet_ready,
         UNCHANGED <<disabled, got, faults, newest, paired>>,
         SignalInv'
  PROVE  MInv'
<1>1. from \in Places /\ to \in Places
  BY DEF Outside, Places
<1>2. /\ mpc' \in [MouseUsers -> Places] /\ mpc[p] = from /\ mpc'[p] = to /\ Copying' = Copying
      /\ \A q \in MouseUsers \ {p} : mpc'[q] = mpc[q]
      /\ \A q \in MouseUsers : PacketSeen(q)' = PacketSeen(q)
  BY <1>1, UserMoves DEF Outside, PacketSeen
<1>3. BytesInv'
  BY BytesStay DEF MInv, BytesInv, ByteTypes, Stays
<1>4. CallTypes'
  BY <1>2 DEF MInv, CallTypes, Stays
<1>5. DisableInv'
  BY <1>2 DEF MInv, DisableInv, Stays, Outside
<1>6. NewInv'
  <2>1. (\E q \in MouseUsers : PacketSeen(q)') <=> (\E q \in MouseUsers : PacketSeen(q))
    BY <1>2
  <2> QED BY <1>2, <2>1 DEF MInv, NewInv, Stays, Filled
<1> QED BY <1>3, <1>4, <1>5, <1>6 DEF MInv

(* open and release.                                                     *)
LEMMA FileKeeps ==
  ASSUME MInv, NEW p \in MouseUsers, mymouse_open(p) \/ MouseRelease(p) \/ MouseKill(p) \/ MouseForget(p)
  PROVE  MInv'
<1>1. CASE mymouse_open(p)
  <2>1. MouseMoves(p, "closed", "open") /\ packet_ready' = FALSE /\ user_pid' = p
        /\ Stays /\ UNCHANGED <<disabled, got, faults, newest, paired>>
    BY <1>1 DEF mymouse_open, Stays
  <2>2. \A q \in MouseUsers : mpc'[q] = "killed" => mpc[q] = "killed"
    BY <2>1, UserMoves DEF Places
  <2>3. SignalInv'
    BY <2>1, <2>2, MouseAssumption DEF MInv, SignalInv, Stays
  <2> QED BY <2>1, <2>3, OutsideKeeps DEF Outside
<1>2. CASE MouseRelease(p)
  <2>1. PICK to \in {"closed", "kill"} : MouseMoves(p, "open", to)
    BY <1>2 DEF MouseRelease
  <2>2. packet_ready' = FALSE /\ user_pid' = user_pid
        /\ Stays /\ UNCHANGED <<disabled, got, faults, newest, paired>>
    BY <1>2 DEF MouseRelease, Stays
  <2>3. \A q \in MouseUsers : mpc'[q] = "killed" => mpc[q] = "killed"
    BY <2>1, UserMoves DEF Places
  <2>4. SignalInv'
    BY <2>2, <2>3 DEF MInv, SignalInv, Stays
  <2> QED BY <2>1, <2>2, <2>4, OutsideKeeps DEF Outside
<1>3. CASE MouseKill(p)
  <2>1. MouseMoves(p, "kill", "killed") /\ packet_ready' = packet_ready /\ ~usersig
        /\ Stays /\ UNCHANGED <<disabled, got, faults, newest, paired>>
    BY <1>3 DEF MouseKill, Stays
  <2>2. SignalInv'
    BY <2>1 DEF MInv, SignalInv, Stays
  <2>3. packet_ready \in BOOLEAN
    BY DEF MInv, CallTypes
  <2> QED BY <2>1, <2>2, <2>3, OutsideKeeps DEF Outside
<1>4. CASE MouseForget(p)
  <2>1. MouseMoves(p, "killed", "closed") /\ packet_ready' = packet_ready /\ user_pid' = "0" /\ mpc[p] = "killed"
        /\ Stays /\ UNCHANGED <<disabled, got, faults, newest, paired>>
    BY <1>4 DEF MouseForget, Stays, MouseMoves
  <2>2. SignalInv'
    BY <2>1 DEF MInv, SignalInv, Stays
  <2>3. packet_ready \in BOOLEAN
    BY DEF MInv, CallTypes
  <2> QED BY <2>1, <2>2, <2>3, OutsideKeeps DEF Outside
<1> QED BY <1>1, <1>2, <1>3, <1>4

(* A read up to the wait and past it.                                    *)
LEMMA ReadKeeps == ASSUME MInv, NEW p \in MouseUsers, MouseRead(p) PROVE MInv'
<1>1. UNCHANGED <<uart, coming, bytes, numByteIn, packet_ready, mouseIsr, disabled, usersig, user_pid, got,
                  dropped, faults, newest, late, stray>>
  BY DEF MouseRead
<1>2. CASE \E from, to \in {"open", "test", "asleep"} : MouseMoves(p, from, to) /\ paired' = paired
  <2>1. PICK from, to \in {"open", "test", "asleep"} : MouseMoves(p, from, to) /\ paired' = paired
    BY <1>2
  <2>2. \A q \in MouseUsers : mpc'[q] = "killed" => mpc[q] = "killed"
    BY <2>1, UserMoves DEF Places
  <2>3. SignalInv'
    BY <1>1, <2>2 DEF MInv, SignalInv
  <2>4. packet_ready \in BOOLEAN
    BY DEF MInv, CallTypes
  <2> QED BY <1>1, <2>1, <2>3, <2>4, OutsideKeeps DEF Outside, Stays
<1>3. CASE /\ packet_ready /\ MouseMoves(p, "test", "disable")
           /\ paired' = (paired \/ \E q \in MouseUsers : PacketSeen(q))
  <2>1. /\ mpc' \in [MouseUsers -> Places] /\ mpc[p] = "test" /\ mpc'[p] = "disable" /\ Copying' = Copying
        /\ \A q \in MouseUsers \ {p} : mpc'[q] = mpc[q] /\ PacketSeen(q)' = PacketSeen(q)
    BY <1>3, UserMoves DEF Places
  <2>2. BytesInv'
    BY <1>1, BytesStay DEF MInv, BytesInv, ByteTypes
  <2>3. paired' \in BOOLEAN
    BY <1>3
  <2>4. CallTypes'
    BY <1>1, <2>1, <2>3 DEF MInv, CallTypes
  <2>5. DisableInv'
    BY <1>1, <2>1 DEF MInv, DisableInv
  <2>6. NewInv'
    <3>1. ~paired' => ~paired /\ \A q \in MouseUsers : ~PacketSeen(q)
      BY <1>3
    <3>2. newest <= bytes[3][1] /\ Filled /\ (~paired => newest < bytes[3][1])
      BY <1>3 DEF MInv, NewInv
    <3> QED BY <1>1, <2>1, <3>1, <3>2 DEF NewInv, Filled
  <2>7. SignalInv'
    BY <1>1, <2>1 DEF MInv, SignalInv
  <2> QED BY <2>2, <2>4, <2>5, <2>6, <2>7 DEF MInv
<1> QED BY <1>2, <1>3 DEF MouseRead

(* A read that goes on changes nothing for the tasklet.                  *)
LEMMA SignalStays ==
  ASSUME MInv, NEW p \in MouseUsers, mpc'[p] # "killed", \A q \in MouseUsers \ {p} : mpc'[q] = mpc[q],
         UNCHANGED <<usersig, user_pid, late, stray>>
  PROVE  SignalInv'
BY DEF MInv, SignalInv

(* disable_irq, and the wait for the handler to leave.                   *)
LEMMA DisableKeeps == ASSUME MInv, NEW p \in MouseUsers, MouseDisable(p) PROVE MInv'
<1>1. UNCHANGED <<uart, coming, bytes, numByteIn, packet_ready, mouseIsr, usersig, user_pid, got,
                  dropped, faults, newest, paired, late, stray>>
  BY DEF MouseDisable
<1>2. BytesInv'
  BY <1>1, BytesStay DEF MInv, BytesInv, ByteTypes
<1>3. CASE MouseMoves(p, "disable", "sync") /\ disabled' = disabled + 1
  <2>1. /\ mpc' \in [MouseUsers -> Places] /\ mpc[p] = "disable" /\ mpc'[p] = "sync"
        /\ \A q \in MouseUsers \ {p} : mpc'[q] = mpc[q] /\ PacketSeen(q)' = PacketSeen(q)
    BY <1>3, UserMoves DEF Places
  <2>2. Copying' = Copying \cup {p} /\ p \notin Copying
    BY <2>1 DEF Copying
  <2>3. IsFiniteSet(Copying') /\ Cardinality(Copying') = Cardinality(Copying) + 1 /\ Cardinality(Copying) \in Nat
    BY <2>2, FS_AddElement, FS_CardinalityType DEF MInv, DisableInv
  <2>4. DisableInv'
    BY <1>1, <1>3, <2>1, <2>3 DEF MInv, DisableInv
  <2>5. PacketSeen(p)' /\ PacketSeen(p)
    BY <2>1 DEF PacketSeen
  <2>6. NewInv'
    BY <1>1, <2>1, <2>5 DEF MInv, NewInv, Filled
  <2>7. CallTypes' /\ SignalInv'
    BY <1>1, <2>1, SignalStays DEF MInv, CallTypes
  <2> QED BY <1>2, <2>4, <2>6, <2>7 DEF MInv
<1>4. CASE MouseMoves(p, "sync", "copy") /\ mouseIsr = "idle" /\ disabled' = disabled
  <2>1. /\ mpc' \in [MouseUsers -> Places] /\ mpc[p] = "sync" /\ mpc'[p] = "copy" /\ Copying' = Copying
        /\ \A q \in MouseUsers \ {p} : mpc'[q] = mpc[q] /\ PacketSeen(q)' = PacketSeen(q)
    BY <1>4, UserMoves DEF Places
  <2>4. DisableInv'
    BY <1>1, <1>4, <2>1 DEF MInv, DisableInv
  <2>5. PacketSeen(p)' /\ PacketSeen(p)
    BY <2>1 DEF PacketSeen
  <2>6. NewInv'
    BY <1>1, <2>1, <2>5 DEF MInv, NewInv, Filled
  <2>7. CallTypes' /\ SignalInv'
    BY <1>1, <2>1, SignalStays DEF MInv, CallTypes
  <2> QED BY <1>2, <2>4, <2>6, <2>7 DEF MInv
<1> QED BY <1>3, <1>4 DEF MouseDisable

(* The copy, which may fail with the interrupt disabled.                 *)
LEMMA CopyKeeps == ASSUME MInv, NEW p \in MouseUsers, MouseCopy(p) PROVE MInv'
<1>1. UNCHANGED <<uart, coming, bytes, numByteIn, packet_ready, mouseIsr, disabled, usersig, user_pid,
                  dropped, newest, paired, late, stray>>
  BY DEF MouseCopy
<1>2. BytesInv'
  BY <1>1, BytesStay DEF MInv, BytesInv, ByteTypes
<1>3. CASE MouseMoves(p, "copy", "clear") /\ got' = [got EXCEPT ![p] = bytes] /\ faults' = faults
  <2>1. /\ mpc' \in [MouseUsers -> Places] /\ mpc[p] = "copy" /\ mpc'[p] = "clear" /\ Copying' = Copying
        /\ \A q \in MouseUsers \ {p} : mpc'[q] = mpc[q] /\ PacketSeen(q)' = PacketSeen(q)
    BY <1>3, UserMoves DEF Places
  <2>2. got' = [q \in MouseUsers |-> got'[q]] /\ got'[p] = bytes /\ \A q \in MouseUsers \ {p} : got'[q] = got[q]
    BY <1>3 DEF MInv, CallTypes
  <2>4. DisableInv'
    BY <1>1, <1>3, <2>1, <2>2 DEF MInv, DisableInv
  <2>5. PacketSeen(p)' /\ PacketSeen(p)
    BY <2>1 DEF PacketSeen
  <2>6. NewInv'
    BY <1>1, <2>1, <2>5 DEF MInv, NewInv, Filled
  <2>7. CallTypes' /\ SignalInv'
    BY <1>1, <2>1, <2>2, SignalStays DEF MInv, CallTypes
  <2> QED BY <1>2, <2>4, <2>6, <2>7 DEF MInv
<1>4. CASE faults' = faults + 1 /\ MouseMoves(p, "copy", "open") /\ got' = got
  <2>1. /\ mpc' \in [MouseUsers -> Places] /\ mpc[p] = "copy" /\ mpc'[p] = "open"
        /\ \A q \in MouseUsers \ {p} : mpc'[q] = mpc[q] /\ PacketSeen(q)' = PacketSeen(q)
    BY <1>4, UserMoves DEF Places
  <2>2. Copying' = Copying \ {p} /\ p \in Copying
    BY <2>1 DEF Copying
  <2>3. IsFiniteSet(Copying') /\ Cardinality(Copying') = Cardinality(Copying) - 1 /\ Cardinality(Copying) \in Nat
    BY <2>2, FS_RemoveElement, FS_CardinalityType DEF MInv, DisableInv
  <2>4. DisableInv'
    BY <1>1, <1>4, <2>1, <2>3 DEF MInv, DisableInv
  <2>5. ~PacketSeen(p)'
    BY <2>1 DEF PacketSeen
  <2>6. NewInv'
    BY <1>1, <2>1, <2>5 DEF MInv, NewInv, Filled
  <2>7. CallTypes' /\ SignalInv'
    BY <1>1, <1>4, <2>1, SignalStays DEF MInv, CallTypes
  <2> QED BY <1>2, <2>4, <2>6, <2>7 DEF MInv
<1> QED BY <1>3, <1>4 DEF MouseCopy

(* The packet is no longer announced.                                    *)
LEMMA ClearKeeps == ASSUME MInv, NEW p \in MouseUsers, MouseClear(p) PROVE MInv'
<1>1. /\ MouseMoves(p, "clear", "enable") /\ packet_ready' = FALSE
      /\ UNCHANGED <<uart, coming, bytes, numByteIn, mouseIsr, disabled, usersig, user_pid, got,
                     dropped, faults, newest, paired, late, stray>>
  BY DEF MouseClear
<1>2. BytesInv'
  BY <1>1, BytesStay DEF MInv, BytesInv, ByteTypes
<1>3. /\ mpc' \in [MouseUsers -> Places] /\ mpc[p] = "clear" /\ mpc'[p] = "enable" /\ Copying' = Copying
      /\ \A q \in MouseUsers \ {p} : mpc'[q] = mpc[q] /\ PacketSeen(q)' = PacketSeen(q)
  BY <1>1, UserMoves DEF Places
<1>4. DisableInv'
  BY <1>1, <1>3 DEF MInv, DisableInv
<1>5. PacketSeen(p)' /\ PacketSeen(p)
  BY <1>3 DEF PacketSeen
<1>6. NewInv'
  BY <1>1, <1>3, <1>5 DEF MInv, NewInv, Filled
<1>7. CallTypes' /\ SignalInv'
  BY <1>1, <1>3, SignalStays DEF MInv, CallTypes
<1> QED BY <1>2, <1>4, <1>6, <1>7 DEF MInv

(* The read has its packet, and the next may come.                       *)
LEMMA EnableKeeps == ASSUME MInv, NEW p \in MouseUsers, MouseEnable(p) PROVE MInv'
<1>1. /\ MouseMoves(p, "enable", "open") /\ disabled' = disabled - 1
      /\ newest' = got[p][MY_NBYTES][1] /\ got' = [got EXCEPT ![p] = << >>]
      /\ UNCHANGED <<uart, coming, bytes, numByteIn, packet_ready, mouseIsr, usersig, user_pid,
                     dropped, faults, paired, late, stray>>
  BY DEF MouseEnable
<1>2. BytesInv'
  BY <1>1, BytesStay DEF MInv, BytesInv, ByteTypes
<1>3. /\ mpc' \in [MouseUsers -> Places] /\ mpc[p] = "enable" /\ mpc'[p] = "open"
      /\ \A q \in MouseUsers \ {p} : mpc'[q] = mpc[q] /\ PacketSeen(q)' = PacketSeen(q)
  BY <1>1, UserMoves DEF Places
<1>4. Copying' = Copying \ {p} /\ p \in Copying
  BY <1>3 DEF Copying
<1>5. IsFiniteSet(Copying') /\ Cardinality(Copying') = Cardinality(Copying) - 1 /\ Cardinality(Copying) \in Nat
  BY <1>4, FS_RemoveElement, FS_CardinalityType DEF MInv, DisableInv
<1>6. got' = [q \in MouseUsers |-> got'[q]] /\ \A q \in MouseUsers \ {p} : got'[q] = got[q]
  BY <1>1 DEF MInv, CallTypes
<1>7. DisableInv'
  BY <1>1, <1>3, <1>5, <1>6 DEF MInv, DisableInv
<1>8. newest' = bytes[3][1] /\ mouseIsr = "idle" /\ ~packet_ready /\ Filled /\ PacketSeen(p) /\ ~PacketSeen(p)'
  BY <1>1, <1>3 DEF MInv, DisableInv, NewInv, PacketSeen, MY_NBYTES
<1>9. bytes[3][1] \in Int
  BY DEF MInv, BytesInv, ByteTypes, Packed, Blank, MY_NBYTES
<1>10. NewInv'
  <2>1. ~paired => \A q \in MouseUsers : ~PacketSeen(q)'
    BY <1>3, <1>8 DEF MInv, NewInv
  <2> QED BY <1>1, <1>8, <1>9, <2>1 DEF NewInv, Filled
<1>11. CallTypes'
  BY <1>1, <1>3, <1>6, <1>8, <1>9 DEF MInv, CallTypes
<1>12. SignalInv'
  BY <1>1, <1>3, SignalStays
<1> QED BY <1>2, <1>7, <1>10, <1>11, <1>12 DEF MInv

(* The handler takes a byte: the one that belongs at the next place.     *)
LEMMA ByteKeeps == ASSUME MInv, MouseByte PROVE MInv'
<1>1. /\ mouseIsr = "byte"
      /\ UNCHANGED <<coming, packet_ready, disabled, usersig, user_pid, mpc, got, dropped, faults, newest, paired, late, stray>>
  BY DEF MouseByte
<1>2. /\ uart \in Seq(Packed) /\ coming \in Packed /\ bytes \in [1..MY_NBYTES -> Packed \cup {Blank}]
      /\ numByteIn \in 0..2 /\ numByteIn # MY_NBYTES
  BY <1>1 DEF MInv, BytesInv, ByteTypes, MY_NBYTES
<1>3. CASE uart = << >> /\ mouseIsr' = "idle" /\ UNCHANGED <<uart, bytes, numByteIn>>
  <2>1. BytesInv'
    BY <1>1, <1>2, <1>3, BytesStay DEF MInv
  <2>2. DisableInv'
    BY <1>1, <1>3 DEF MInv, DisableInv, Copying
  <2>3. NewInv'
    BY <1>1, <1>3 DEF MInv, NewInv, PacketSeen, Filled
  <2>4. CallTypes' /\ SignalInv'
    BY <1>1 DEF MInv, CallTypes, SignalInv
  <2> QED BY <2>1, <2>2, <2>3, <2>4 DEF MInv
<1>4. CASE uart # << >>
  <2> DEFINE x == uart[1]
  <2>1. /\ uart' \in Seq(Packed) /\ Len(uart') = Len(uart) - 1 /\ Len(uart) \in Nat \ {0} /\ x \in Packed
        /\ \A i \in 1..Len(uart) - 1 : uart'[i] = uart[i + 1]
        /\ Head(uart) = x
    BY <1>1, <1>2, <1>4, ByteTaken DEF MouseByte
  <2>2. Before(x, coming) /\ (\A j \in 1..Len(uart') : Before(x, uart'[j])) /\ \A i \in 1..MY_NBYTES : Before(bytes[i], x)
    <3>1. \A j \in 1..Len(uart') : j + 1 \in 1..Len(uart) /\ 1 \in 1..Len(uart) /\ 1 < j + 1
      BY <2>1
    <3> QED BY <2>1, <3>1 DEF MInv, BytesInv, Ordered
  <2>3. /\ \A j \in 1..Len(uart') : /\ Before(uart'[j], coming)
                                    /\ \A k \in 1..Len(uart') : j < k => Before(uart'[j], uart'[k])
        /\ \A i \in 1..MY_NBYTES : /\ Before(bytes[i], coming)
                                   /\ \A j \in 1..Len(uart') : Before(bytes[i], uart'[j])
    <3>1. \A j \in 1..Len(uart') : j + 1 \in 1..Len(uart) /\ uart'[j] = uart[j + 1]
      BY <2>1
    <3>2. \A j, k \in 1..Len(uart') : j < k => j + 1 < k + 1
      OBVIOUS
    <3> QED BY <3>1, <3>2 DEF MInv, BytesInv, Ordered
  <2>4. ~dropped => /\ \A j \in 1..Len(uart') - 1 : uart'[j + 1] = Following(uart'[j])
                    /\ uart' # << >> => coming = Following(uart'[Len(uart')])
                    /\ Expect = x /\ Expect' = Following(x)
    <3>1. SUFFICES ASSUME ~dropped PROVE
                    /\ \A j \in 1..Len(uart') - 1 : uart'[j + 1] = Following(uart'[j])
                    /\ uart' # << >> => coming = Following(uart'[Len(uart')])
                    /\ Expect = x /\ Expect' = Following(x)
      OBVIOUS
    <3>2. (\A j \in 1..Len(uart) - 1 : uart[j + 1] = Following(uart[j])) /\ coming = Following(uart[Len(uart)])
      BY <1>4, <3>1 DEF MInv, BytesInv, Framed
    <3>3. \A j \in 1..Len(uart') - 1 : uart'[j + 1] = Following(uart'[j])
      <4>1. SUFFICES ASSUME NEW j \in 1..Len(uart') - 1 PROVE uart'[j + 1] = Following(uart'[j])
        OBVIOUS
      <4>2. uart'[j] = uart[j + 1] /\ uart'[j + 1] = uart[(j + 1) + 1] /\ j + 1 \in 1..Len(uart) - 1
        BY <2>1
      <4> QED BY <3>2, <4>2
    <3>4. CASE Len(uart) = 1
      <4>1. uart' = << >> /\ coming = Following(x)
        BY <2>1, <3>2, <3>4
      <4> QED BY <1>1, <1>4, <3>3, <4>1 DEF Expect
    <3>5. CASE Len(uart) > 1
      <4>1. uart' # << >> /\ uart'[Len(uart')] = uart[Len(uart)] /\ uart'[1] = uart[2] /\ uart[2] = Following(x)
        BY <2>1, <3>2, <3>5
      <4> QED BY <1>1, <1>4, <3>2, <3>3, <4>1 DEF Expect
    <3> QED BY <2>1, <3>4, <3>5
  <2>5. CASE ~Kept(x) /\ UNCHANGED <<bytes, numByteIn, mouseIsr>>
    <3>1. ByteTypes' /\ Started'
      BY <1>1, <2>1, <2>5 DEF MInv, BytesInv, ByteTypes, Started
    <3>2. Ordered'
      BY <1>1, <2>3, <2>5 DEF Ordered
    <3>3. Framed'
      <4>1. SUFFICES ASSUME ~dropped PROVE Framed'
        BY <1>1 DEF Framed
      <4>2. numByteIn = 0 /\ x[2] # 1
        BY <1>2, <2>5 DEF Kept, Magic
      <4>3. \A i \in 1..MY_NBYTES : bytes[i] = Blank
        BY <2>4, <4>1, <4>2 DEF MInv, BytesInv, Framed
      <4> QED BY <1>1, <2>4, <2>5, <4>1, <4>2, <4>3 DEF Framed
    <3>4. DisableInv'
      BY <1>1, <2>5 DEF MInv, DisableInv, Copying
    <3>5. NewInv'
      BY <1>1, <2>5 DEF MInv, NewInv, PacketSeen, Filled
    <3>6. CallTypes' /\ SignalInv'
      BY <1>1 DEF MInv, CallTypes, SignalInv
    <3> QED BY <3>1, <3>2, <3>3, <3>4, <3>5, <3>6 DEF MInv, BytesInv
  <2>6. CASE /\ Kept(x) /\ bytes' = [bytes EXCEPT ![numByteIn + 1] = x] /\ numByteIn' = numByteIn + 1
             /\ mouseIsr' = (IF numByteIn' = MY_NBYTES THEN "full" ELSE "byte")
    <3> DEFINE k == numByteIn + 1
    <3>1. /\ k \in 1..MY_NBYTES /\ bytes' \in [1..MY_NBYTES -> Packed \cup {Blank}] /\ bytes'[k] = x
          /\ \A i \in 1..MY_NBYTES \ {k} : bytes'[i] = bytes[i]
          /\ numByteIn' = k
      BY <1>2, <2>1, <2>6 DEF MY_NBYTES
    <3>2. ByteTypes'
      <4>1. numByteIn' \in 0..MY_NBYTES /\ mouseIsr' \in {"idle", "byte", "full", "wake"}
            /\ (mouseIsr' = "full" <=> numByteIn' = MY_NBYTES)
        BY <1>2, <2>6 DEF MY_NBYTES
      <4> QED BY <1>1, <1>2, <2>1, <3>1, <4>1 DEF ByteTypes
    <3> HIDE DEF x, k
    <3>3. Ordered'
      <4>1. \A i \in 1..MY_NBYTES : bytes'[i] = x \/ bytes'[i] = bytes[i]
        BY <3>1
      <4> QED BY <1>1, <2>2, <2>3, <4>1 DEF Ordered
    <3>4. x # Blank /\ x = <<x[1], x[2]>> /\ x[1] \in Nat \ {0} /\ x[2] \in 1..MY_NBYTES /\ (k = 1 => x[2] = 1)
      BY <1>2, <2>1, <2>6 DEF Packed, Blank, Kept, Magic, MY_NBYTES, k
    <3>5. \A i \in 1..MY_NBYTES : bytes[i][1] \in Nat /\ bytes[i][2] \in Nat /\ (bytes[i][2] = 0 => bytes[i][1] = 0)
      BY <1>2 DEF Packed, Blank, MY_NBYTES
    <3>6. \A i \in 1..MY_NBYTES : bytes[i][1] < x[1] \/ (bytes[i][1] = x[1] /\ bytes[i][2] < x[2])
      BY <2>2 DEF Before
    <3>12. numByteIn = k - 1 /\ k \in {1, 2, 3} /\ MY_NBYTES = 3 /\ bytes[1][1] \in Nat /\ bytes[3][1] \in Nat
      BY <1>2, <3>1, <3>5 DEF MY_NBYTES, k
    <3>13. /\ bytes[1] = Blank \/ Magic(bytes[1])
           /\ \A i \in 1..numByteIn : bytes[i] # Blank
           /\ numByteIn \in {1, 2} => bytes[3][1] < bytes[1][1]
      BY DEF MInv, BytesInv, Started
    <3>7. Started'
      <4>1. bytes'[1] = Blank \/ Magic(bytes'[1])
        BY <3>1, <3>4, <3>12, <3>13 DEF Magic
      <4>2. \A i \in 1..numByteIn' : bytes'[i] # Blank
        BY <3>1, <3>4, <3>12, <3>13
      <4>3. k = 1 => bytes[3][1] < x[1]
        BY <3>4, <3>5, <3>6, <3>12
      <4>4. numByteIn' \in {1, 2} => bytes'[3][1] < bytes'[1][1]
        BY <3>1, <3>12, <3>13, <4>3
      <4> QED BY <4>1, <4>2, <4>4 DEF Started
    <3>8. Framed'
      <4>1. SUFFICES ASSUME ~dropped PROVE Framed'
        BY <1>1 DEF Framed
      <4>2. Expect = x /\ Expect' = Following(bytes'[k])
        BY <2>4, <3>1, <4>1 DEF x
      <4>3. /\ numByteIn = 0 => \/ \A i \in 1..MY_NBYTES : bytes[i] = Blank
                                \/ /\ \A i \in 1..MY_NBYTES : bytes[i] = <<bytes[1][1], i>>
                                   /\ Expect = <<bytes[1][1] + 1, 1>>
            /\ numByteIn > 0 => /\ \A i \in 1..numByteIn : bytes[i] = <<bytes[1][1], i>>
                                /\ \A i \in numByteIn + 1..MY_NBYTES : bytes[i] \in {Blank, <<bytes[1][1] - 1, i>>}
                                /\ Expect = Following(bytes[numByteIn])
        BY <4>1 DEF MInv, BytesInv, Framed
      <4>4. /\ \A i \in 1..k : bytes'[i] = <<bytes'[1][1], i>>
            /\ \A i \in k + 1..MY_NBYTES : bytes'[i] \in {Blank, <<bytes'[1][1] - 1, i>>}
        <5>1. CASE k = 1
          <6>1. x[2] = 1 /\ bytes'[1] = x /\ bytes'[1] = <<bytes'[1][1], 1>>
            BY <3>1, <3>4, <5>1
          <6>2. CASE \A i \in 1..MY_NBYTES : bytes[i] = Blank
            BY <3>1, <3>12, <5>1, <6>1, <6>2
          <6>3. CASE /\ \A i \in 1..MY_NBYTES : bytes[i] = <<bytes[1][1], i>>
                     /\ Expect = <<bytes[1][1] + 1, 1>>
            <7>1. bytes'[1][1] - 1 = bytes[1][1]
              BY <3>12, <4>2, <6>1, <6>3
            <7> QED BY <3>1, <3>12, <5>1, <6>1, <6>3, <7>1
          <6> QED BY <3>12, <4>3, <5>1, <6>2, <6>3
        <5>2. CASE k = 2
          <6>1. bytes[1] = <<bytes[1][1], 1>> /\ x = Following(bytes[1]) /\ bytes[3] \in {Blank, <<bytes[1][1] - 1, 3>>}
            BY <3>12, <4>2, <4>3, <5>2
          <6>2. x = <<bytes[1][1], 2>>
            BY <3>12, <6>1 DEF Following
          <6> QED BY <3>1, <3>12, <5>2, <6>1, <6>2
        <5>3. CASE k = 3
          <6>1. /\ bytes[1] = <<bytes[1][1], 1>> /\ bytes[2] = <<bytes[1][1], 2>> /\ x = Following(bytes[2])
            BY <3>12, <4>2, <4>3, <5>3
          <6>2. x = <<bytes[1][1], 3>>
            BY <3>12, <6>1 DEF Following
          <6> QED BY <3>1, <3>12, <5>3, <6>1, <6>2
        <5> QED BY <3>12, <5>1, <5>2, <5>3
      <4>5. numByteIn' = k /\ k > 0
        BY <3>1, <3>12
      <4>6. /\ \A j \in 1..Len(uart') - 1 : uart'[j + 1] = Following(uart'[j])
            /\ uart' # << >> => coming = Following(uart'[Len(uart')])
        BY <2>4, <4>1
      <4> QED BY <1>1, <4>2, <4>4, <4>5, <4>6 DEF Framed
    <3>9. NewInv'
      <4>1. newest \in Int /\ newest <= bytes[3][1]
        BY DEF MInv, CallTypes, NewInv
      <4>2. bytes[3][1] <= bytes'[3][1] /\ bytes'[3][1] \in Nat
        BY <3>1, <3>4, <3>6, <3>12
      <4>3. k = 3 => bytes[3][1] < bytes'[3][1]
        BY <3>1, <3>4, <3>6, <3>12, <3>13
      <4>4. newest' <= bytes'[3][1] /\ (k = 3 => newest < bytes'[3][1])
        BY <1>1, <3>12, <4>1, <4>2, <4>3
      <4>5. Filled => Filled'
        BY <3>1, <3>4 DEF Filled
      <4>6. mouseIsr' = "full" <=> k = 3
        BY <2>6, <3>1, <3>12
      <4>7. newest < bytes[3][1] => newest < bytes'[3][1]
        BY <3>12, <4>1, <4>2
      <4>8. \A q \in MouseUsers : PacketSeen(q)' = PacketSeen(q)
        BY <1>1 DEF PacketSeen
      <4> QED BY <1>1, <4>4, <4>5, <4>6, <4>7, <4>8 DEF MInv, NewInv
    <3>10. DisableInv'
      BY <1>1, <2>6 DEF MInv, DisableInv, Copying
    <3>11. CallTypes' /\ SignalInv'
      BY <1>1 DEF MInv, CallTypes, SignalInv
    <3> QED BY <3>2, <3>3, <3>7, <3>8, <3>9, <3>10, <3>11 DEF MInv, BytesInv
  <2> QED BY <1>4, <2>1, <2>5, <2>6 DEF MouseByte
<1> QED BY <1>3, <1>4 DEF MouseByte

(* Steps that change nothing of the driver.                              *)
LEMMA MouseQuiet == ASSUME MInv, UNCHANGED mouseVars PROVE MInv'
<1> USE DEF mouseVars
<1>1. Copying' = Copying /\ Expect' = Expect /\ \A p \in MouseUsers : PacketSeen(p)' = PacketSeen(p)
  BY DEF Copying, Expect, PacketSeen
<1>2. ByteTypes' /\ Ordered' /\ Started' /\ Framed'
  BY <1>1 DEF MInv, BytesInv, ByteTypes, Ordered, Started, Framed
<1>3. CallTypes' /\ DisableInv' /\ SignalInv'
  BY <1>1 DEF MInv, CallTypes, DisableInv, SignalInv
<1>4. NewInv'
  BY <1>1 DEF MInv, NewInv, Filled
<1> QED BY <1>2, <1>3, <1>4 DEF MInv, BytesInv

(* What the invariant says of the packets read.                          *)
LEMMA MouseFramed == MInv => PacketsFramed
<1> SUFFICES ASSUME MInv PROVE PacketsFramed
  OBVIOUS
<1>1. (bytes[1] = Blank \/ Magic(bytes[1])) /\ (stray => late)
  BY DEF MInv, BytesInv, Started, SignalInv
<1>2. disabled = faults + Cardinality({p \in MouseUsers : mpc[p] \in {"sync", "copy", "clear", "enable"}})
  BY DEF MInv, DisableInv, Copying
<1>3. ASSUME NEW p \in MouseUsers, mpc[p] \in {"clear", "enable"}
      PROVE  /\ ~dropped => /\ \A i \in 1..MY_NBYTES : got[p][i][2] = i
                            /\ got[p][1][1] - got[p][MY_NBYTES][1] \in {0, 1}
                            /\ got[p][2][1] \in got[p][MY_NBYTES][1] .. got[p][1][1]
             /\ ~paired /\ faults = 0 => got[p][MY_NBYTES][1] > newest
  <2>1. got[p] = bytes /\ PacketSeen(p)
    BY <1>3 DEF MInv, DisableInv, PacketSeen
  <2>2. Filled /\ (~paired => newest < bytes[3][1]) /\ newest \in Int
    BY <2>1 DEF MInv, NewInv, CallTypes
  <2>3. /\ \A i \in 1..MY_NBYTES : bytes[i] # Blank
        /\ numByteIn \in 0..3 /\ MY_NBYTES = 3
        /\ \A i \in 1..MY_NBYTES : bytes[i][1] \in Nat
    BY <2>2 DEF MInv, BytesInv, ByteTypes, Packed, Filled, Blank, MY_NBYTES
  <2>4. ASSUME ~dropped
        PROVE  /\ \A i \in 1..3 : bytes[i][2] = i
               /\ bytes[1][1] - bytes[3][1] \in {0, 1}
               /\ bytes[2][1] \in bytes[3][1] .. bytes[1][1]
    <3>1. /\ numByteIn = 0 => \A i \in 1..3 : bytes[i] = <<bytes[1][1], i>>
          /\ numByteIn > 0 => /\ \A i \in 1..numByteIn : bytes[i] = <<bytes[1][1], i>>
                              /\ \A i \in numByteIn + 1..3 : bytes[i] = <<bytes[1][1] - 1, i>>
      BY <2>3, <2>4 DEF MInv, BytesInv, Framed
    <3>2. \A i \in 1..3 : bytes[i][2] = i /\ bytes[i][1] = (IF numByteIn = 0 \/ i <= numByteIn THEN bytes[1][1] ELSE bytes[1][1] - 1)
      <4>1. SUFFICES ASSUME NEW i \in 1..3
                     PROVE  bytes[i][2] = i /\ bytes[i][1] = (IF numByteIn = 0 \/ i <= numByteIn THEN bytes[1][1] ELSE bytes[1][1] - 1)
        OBVIOUS
      <4>2. CASE numByteIn = 0 \/ i <= numByteIn
        BY <2>3, <3>1, <4>2
      <4>3. CASE ~(numByteIn = 0 \/ i <= numByteIn)
        BY <2>3, <3>1, <4>3
      <4> QED BY <4>2, <4>3
    <3>3. bytes[1][1] \in Nat /\ bytes[2][1] \in Nat /\ bytes[3][1] \in Nat
      BY <2>3
    <3> QED BY <2>3, <3>2, <3>3
  <2> QED BY <2>1, <2>2, <2>3, <2>4
<1> QED BY <1>1, <1>2, <1>3 DEF PacketsFramed

(* For any size of the UART, any number of packets and any number of     *)
(* processes: as long as the UART drops nothing each byte read is in its *)
(* place and the two packets it may come from are consecutive; what is   *)
(* taken for a first byte is one; no packet is read twice unless two     *)
(* reads were past the wait together or a copy failed; and the interrupt *)
(* is disabled by exactly the reads that copy and the ones that failed   *)
(* (my_interrupt, mymouse_read, mymouse_release).                        *)
THEOREM PacketsKept == MouseSpec => []PacketsFramed
<1>1. MInv /\ [MouseNext]_mouseVars => MInv'
  <2>1. SUFFICES ASSUME MInv, [MouseNext]_mouseVars PROVE MInv'
    OBVIOUS
  <2>2. CASE UNCHANGED mouseVars
    BY <2>1, <2>2, MouseQuiet
  <2>3. CASE MouseSends \/ MouseInterrupt \/ MouseByte \/ MouseFull \/ MouseWakes \/ t_sendsig
    BY <2>1, <2>3, SendsKeeps, InterruptKeeps, ByteKeeps, FullKeeps, WakesKeeps, SendsigKeeps
  <2>4. ASSUME NEW p \in MouseUsers,
               \/ mymouse_open(p) \/ MouseRelease(p) \/ MouseKill(p) \/ MouseForget(p)
               \/ MouseRead(p) \/ MouseDisable(p) \/ MouseCopy(p) \/ MouseClear(p) \/ MouseEnable(p)
        PROVE  MInv'
    BY <2>1, <2>4, FileKeeps, ReadKeeps, DisableKeeps, CopyKeeps, ClearKeeps, EnableKeeps
  <2> QED BY <2>1, <2>2, <2>3, <2>4 DEF MouseNext
<1> QED BY <1>1, MouseInitially, MouseFramed, PTL DEF MouseSpec
=============================================================================
