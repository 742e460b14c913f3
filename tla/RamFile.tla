------------------------------- MODULE RamFile -------------------------------
(***************************************************************************)
(* read, write and lseek of the character drivers over a RAM buffer (s_02, *)
(* s_04, s_17, s_18).  A process opens a file of its own or shares         *)
(* that of another; calls on one file overlap, because a character device  *)
(* takes no lock on the position: the kernel hands each call a copy of     *)
(* f_pos and stores what the call made of it, or, for a pread or pwrite,   *)
(* a position of the caller's, which nothing tests before the driver.      *)
(* Bytes are moved one at a time and a fault may end a call early; what    *)
(* they contain is left out.                                               *)
(***************************************************************************)
EXTENDS Integers, FiniteSets

CONSTANTS FileDrivers,  \* the drivers a run considers, as records
          Procs,        \* processes; the file that p opens is called p too
          RamSize,      \* ramdisk_size
          IntMax,       \* the greatest int
          MaxLen,       \* bound: lbuf
          MaxPos,       \* bound: f_pos at which a call may start
          Offsets       \* bound: positions given to pread and pwrite

(* ramdisk_size is 65536, and the kernel cuts lbuf to less than INT_MAX.   *)
ASSUME RamFileAssumption ==
  /\ IntMax \in Nat /\ RamSize \in 0..IntMax /\ MaxLen \in 0..IntMax
  /\ MaxPos \in Nat /\ Offsets \subseteq Nat /\ Procs \cap {"none", "ram"} = {}
  /\ \A d \in FileDrivers : /\ d.bounds \in {"clip", "refuse", "none"} /\ d.moves \in BOOLEAN
                             /\ d.buffer \in {"ram", "private", "cache"}

(* bounds: the length is clipped at the end of the buffer, a call past the *)
(*   end is refused, or there is no test.  moves: the position advances.   *)
(* buffer: one for all files, one for each ("private"), or the object that *)
(*   was allocated last ("cache").                                         *)
Refusing   == [bounds |-> "refuse", moves |-> TRUE, seeks |-> FALSE, buffer |-> "ram"]
Untested   == [Refusing EXCEPT !.bounds = "none"]
Clipped    == [Refusing EXCEPT !.bounds = "clip", !.seeks = TRUE]

char_s02   == Refusing
sample_s04 == Refusing
char_s04   == Untested
priv_s04   == [Untested EXCEPT !.buffer = "private"]
seek_s04   == Clipped
dynamic_s04 == Clipped
udev_s04   == Clipped
misc_s04   == Clipped
putget_s18 == [Clipped EXCEPT !.seeks = FALSE]
usermap_s18 == [Untested EXCEPT !.moves = FALSE]
usermap_fast_s18 == [Untested EXCEPT !.moves = FALSE]

(* The generic entry points, of which nearly every section has a copy.     *)
generic_char == Clipped
generic_misc == Clipped
generic_s08 == Clipped
generic_s09 == Clipped
generic_s10 == Clipped
generic_s11 == Clipped
generic_s13 == Clipped
generic_s17 == [Clipped EXCEPT !.seeks = FALSE]
generic_s18 == Clipped
generic_s19 == Clipped
generic_s20 == Clipped
cache_s17  == [generic_s17 EXCEPT !.buffer = "cache"]

AllFileDrivers == {char_s02, sample_s04, char_s04, priv_s04, seek_s04, dynamic_s04, udev_s04, misc_s04,
  putget_s18, usermap_s18, usermap_fast_s18, generic_char, generic_misc, generic_s08, generic_s09,
  generic_s10, generic_s11, generic_s13, cache_s17, generic_s18, generic_s19, generic_s20}

VARIABLES fdrv,      \* the driver that is loaded
          wide,      \* size_t has the 64 bits of loff_t, and not 32
          uses,      \* the file each process has open, or NoFile
          f_pos,     \* position of each open file
          io,        \* the call each process is in, or NoCall
          live,      \* the buffers that are allocated
          ramdisk,   \* the buffer that the global pointer holds
          private_data, \* the buffer that each file holds
          twice,     \* a buffer has been freed that was not allocated
          crowded,   \* two files have been open at once, or nearly
          bases,     \* where each file was opened or sought to
          covered    \* offsets that some call has moved through each file

fileVars == <<fdrv, wide, uses, f_pos, io, live, ramdisk, private_data, twice, crowded, bases, covered>>

NoFile == "none"
NoCall == [from |-> 0, own |-> FALSE, todo |-> 0, done |-> 0, at |-> "out"]

OpenFiles == {uses[p] : p \in Procs} \ {NoFile}
InCall(p) == io[p].at # "out"
BufferOf(f) == IF fdrv.buffer = "private" THEN private_data[f] ELSE ramdisk

(* No init looks at what kmalloc returned: the pointer may hold no buffer. *)
FileInit == /\ fdrv \in FileDrivers /\ wide \in BOOLEAN
            /\ uses = [p \in Procs |-> NoFile] /\ f_pos = [f \in Procs |-> 0]
            /\ io = [p \in Procs |-> NoCall]
            /\ ramdisk \in (IF fdrv.buffer = "ram" THEN {"ram", NoFile} ELSE {NoFile})
            /\ private_data = [f \in Procs |-> NoFile]
            /\ live = {ramdisk} \ {NoFile} /\ twice = FALSE /\ crowded = FALSE
            /\ bases = [f \in Procs |-> {}] /\ covered = [f \in Procs |-> {}]
-----------------------------------------------------------------------------
(* Plausible bugs, which the properties below must catch.                  *)
TodoPlusOne(from, len) == IF from + len > RamSize THEN RamSize - from + 1 ELSE len
EndAhead(p) == io[p].from + io[p].todo
-----------------------------------------------------------------------------
(* The open allocates a private buffer, or an object for everybody; that   *)
(* the buffer could not be allocated goes unnoticed.                       *)
FileOpen(p) == /\ uses[p] = NoFile /\ p \notin OpenFiles \cup live
               /\ uses' = [uses EXCEPT ![p] = p] /\ bases' = [bases EXCEPT ![p] = {0}]
               /\ \E got \in IF fdrv.buffer = "private" THEN {p, NoFile} ELSE {p} :
                    /\ live' = live \cup (IF fdrv.buffer = "ram" THEN {} ELSE {got} \ {NoFile})
                    /\ private_data' = (IF fdrv.buffer = "private" THEN [private_data EXCEPT ![p] = got] ELSE private_data)
               /\ ramdisk' = (IF fdrv.buffer = "cache" THEN p ELSE ramdisk)
               /\ crowded' = (crowded \/ OpenFiles # {})
               /\ UNCHANGED <<fdrv, wide, f_pos, io, twice, covered>>

(* kmem_cache_alloc fails: the pointer is overwritten all the same.        *)
OpenFails(p) == /\ fdrv.buffer = "cache" /\ uses[p] = NoFile /\ ramdisk' = NoFile
                /\ crowded' = (crowded \/ OpenFiles # {})
                /\ UNCHANGED <<fdrv, wide, uses, f_pos, io, live, private_data, twice, bases, covered>>

(* A fork or a thread: two processes with one open file.                   *)
Share(p, q) == /\ uses[p] = NoFile /\ uses[q] # NoFile
               /\ uses' = [uses EXCEPT ![p] = uses[q]]
               /\ UNCHANGED <<fdrv, wide, f_pos, io, live, ramdisk, private_data, twice, crowded, bases, covered>>

(* release frees what the file, or by then the global pointer, holds; a    *)
(* kfree of no buffer does nothing.                                        *)
FreeBuffer(f) == IF fdrv.buffer = "ram" \/ (fdrv.buffer = "private" /\ BufferOf(f) = NoFile)
                 THEN UNCHANGED <<live, twice>>
                 ELSE /\ live' = live \ {BufferOf(f)}
                      /\ twice' = (twice \/ BufferOf(f) \notin live)

LastClose(f) == /\ FreeBuffer(f) /\ f_pos' = [f_pos EXCEPT ![f] = 0]
                /\ private_data' = [private_data EXCEPT ![f] = NoFile]
                /\ bases' = [bases EXCEPT ![f] = {}] /\ covered' = [covered EXCEPT ![f] = {}]

Closed(p) == /\ uses' = [uses EXCEPT ![p] = NoFile]
             /\ (IF \E q \in Procs \ {p} : uses[q] = uses[p]
                 THEN UNCHANGED <<live, private_data, twice, f_pos, bases, covered>> ELSE LastClose(uses[p]))
             /\ UNCHANGED <<fdrv, wide, ramdisk, crowded>>

FileClose(p) == uses[p] # NoFile /\ ~InCall(p) /\ Closed(p) /\ UNCHANGED io
-----------------------------------------------------------------------------
(* bytes_to_do of a read or write of len bytes at from.  maxbytes is an    *)
(* int, and compared with lbuf as a size_t: a negative one is greater than *)
(* any lbuf.                                                               *)
Ints        == 2 * (IntMax + 1)
ToInt(n)    == ((n + IntMax + 1) % Ints) - IntMax - 1
SizeValues  == IF wide THEN Ints * Ints ELSE Ints
ClipTo(maxbytes, len) == IF maxbytes % SizeValues > len THEN len ELSE maxbytes

Todo(from, len) == CASE fdrv.bounds = "clip"   -> ClipTo(ToInt(RamSize - from), len)
                     [] fdrv.bounds = "refuse" -> IF len + from > RamSize THEN 0 ELSE len
                     [] fdrv.bounds = "none"   -> len

(* *ppos is f_pos or what pread or pwrite was given.                       *)
Starts(p, own) == IF own THEN Offsets ELSE {f_pos[uses[p]]} \cap 0..MaxPos
EnterCall(p, len) ==
  /\ uses[p] # NoFile /\ ~InCall(p)
  /\ \E own \in {fdrv.moves, FALSE} : \E from \in IF fdrv.moves THEN Starts(p, own) ELSE {0} :
       io' = [io EXCEPT ![p] = [from |-> from, own |-> own, todo |-> Todo(from, len), done |-> 0, at |-> "moving"]]
  /\ UNCHANGED <<fdrv, wide, uses, f_pos, live, ramdisk, private_data, twice, crowded, bases, covered>>

(* One byte of copy_to_user, copy_from_user, put_user, get_user or memcpy. *)
MoveByte(p) == /\ io[p].at = "moving" /\ io[p].done < io[p].todo /\ BufferOf(uses[p]) # NoFile
               /\ io' = [io EXCEPT ![p].done = @ + 1]
               /\ covered' = (IF io[p].own THEN covered
                              ELSE [covered EXCEPT ![uses[p]] = @ \cup {io[p].from + io[p].done}])
               /\ UNCHANGED <<fdrv, wide, uses, f_pos, live, ramdisk, private_data, twice, crowded, bases>>

(* A page of the user's buffer, or the driver's buffer, is not there: the  *)
(* rest is not moved.                                                      *)
Fault(p) == /\ io[p].at = "moving" /\ fdrv.moves /\ io[p].done < io[p].todo
            /\ io' = [io EXCEPT ![p].at = "fault"]
            /\ UNCHANGED <<fdrv, wide, uses, f_pos, live, ramdisk, private_data, twice, crowded, bases, covered>>

(* Or the kernel kills who touches a buffer that is not there, and closes  *)
(* its file.                                                               *)
Oops(p) == /\ io[p].at = "moving" /\ io[p].done < io[p].todo /\ BufferOf(uses[p]) = NoFile
           /\ io' = [io EXCEPT ![p] = NoCall] /\ Closed(p)

(* *ppos += nbytes, which the kernel stores in the file unless the caller  *)
(* gave the position.                                                      *)
EndOf(p) == io[p].from + io[p].done

LeaveCall(p) == /\ InCall(p) /\ (io[p].at = "fault" \/ io[p].done = io[p].todo)
                /\ f_pos' = [f_pos EXCEPT ![uses[p]] = IF fdrv.moves /\ ~io[p].own THEN EndOf(p) ELSE @]
                /\ io' = [io EXCEPT ![p] = NoCall]
                /\ UNCHANGED <<fdrv, wide, uses, live, ramdisk, private_data, twice, crowded, bases, covered>>

(* testpos clamped to the buffer; with a size_t of 64 bits a negative one  *)
(* is greater than the size in the first comparison.                       *)
Clamp(testpos) == IF testpos >= RamSize \/ (wide /\ testpos < 0) THEN RamSize
                  ELSE IF testpos >= 0 THEN testpos ELSE 0

Seek(p, offset) ==
  /\ fdrv.seeks /\ uses[p] # NoFile /\ ~InCall(p)
  /\ \E orig \in {0, f_pos[uses[p]], RamSize} :
       /\ f_pos' = [f_pos EXCEPT ![uses[p]] = Clamp(orig + offset)]
       /\ bases' = [bases EXCEPT ![uses[p]] = @ \cup {Clamp(orig + offset)}]
  /\ UNCHANGED <<fdrv, wide, uses, io, live, ramdisk, private_data, twice, crowded, covered>>

FileStep(p) == \/ FileOpen(p) \/ OpenFails(p) \/ FileClose(p)
               \/ \E q \in Procs : Share(p, q)
               \/ \E len \in 0..MaxLen : EnterCall(p, len)
               \/ MoveByte(p) \/ Fault(p) \/ Oops(p) \/ LeaveCall(p)
               \/ \E offset \in {-1, 0, 1} : Seek(p, offset)

FileNext == \E p \in Procs : FileStep(p)
FileSpec == FileInit /\ [][FileNext]_fileVars
-----------------------------------------------------------------------------
(* A buffer is freed once, by the release of the file it was allocated     *)
(* for, and no call is in a buffer that has been freed: in one that is     *)
(* allocated, or in none at all.  The driver with a memory cache keeps one *)
(* global pointer: that holds of it only until two opens overlap.          *)
BuffersPaired == (fdrv.buffer = "cache" => ~crowded) =>
  /\ ~twice
  /\ live = (IF fdrv.buffer = "ram" THEN {ramdisk} ELSE {BufferOf(f) : f \in OpenFiles}) \ {NoFile}
  /\ \A p \in Procs : InCall(p) => BufferOf(uses[p]) \in live \cup {NoFile}

(* Of the drivers that test the length: however calls, seeks and faults of *)
(* processes that share a file interleave, its position does not pass the  *)
(* end, and a call stays in the buffer, too.  A pread or pwrite does as    *)
(* well, unless the driver clips the length and the position it was given  *)
(* is past the end already.                                                *)
Inside(p) == io[p].todo = 0 \/ io[p].from + io[p].todo <= RamSize
FileInBounds ==
  /\ BuffersPaired
  /\ fdrv.bounds # "none" =>
       /\ \A f \in OpenFiles : f_pos[f] <= RamSize
       /\ \A p \in Procs : InCall(p) =>
            Inside(p) \/ (fdrv.bounds = "clip" /\ io[p].own /\ io[p].from > RamSize)

(* A driver that watches out for the end of the device does it for every   *)
(* position: it does not, for one past the end.                            *)
NotOffTheEnd == fdrv.bounds = "clip" =>
  \A p \in Procs : io[p].done > 0 => io[p].from + io[p].done <= RamSize

(* Threads that share a file may move the same byte twice, because both    *)
(* calls start at the same position; but none is skipped: from some        *)
(* position where the file was opened or sought to, every byte up to f_pos *)
(* has been moved, faults and racing stores of the position included.      *)
NoByteSkipped == \A f \in OpenFiles :
  \E b \in bases[f] : b <= f_pos[f] /\ b .. f_pos[f] - 1 \subseteq covered[f]
=============================================================================
