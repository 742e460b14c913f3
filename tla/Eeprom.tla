------------------------------- MODULE Eeprom -------------------------------
(***************************************************************************)
(* The character device over the I2C memory chip 24LC512 (chapter-07,      *)
(* ee24lc512.c).  All files share one data buffer, which the first open    *)
(* allocates and the last release frees; read and write use it under       *)
(* eep_mutex, and a write is cut into transfers that do not cross a page   *)
(* of the chip.  Any transfer may fail.  What the bytes contain is left    *)
(* out: data says whose they are.  Where the code runs beyond its buffer   *)
(* the model stops (overrun).  The boards are 32-bit: an int and a size_t  *)
(* are as wide.                                                            *)
(***************************************************************************)
EXTENDS Integers, Sequences

CONSTANTS EepProcs,      \* processes, each with at most one open file
          EEP_SIZE, EEP_PAGE_SIZE,
          SizeT,         \* how many values an unsigned size_t has
          LenT           \* how many values the __u16 of a message's length has
ASSUME EepromAssumption ==
  /\ EEP_PAGE_SIZE \in Nat \ {0} /\ EEP_SIZE \in Nat \ {0} /\ EEP_SIZE % EEP_PAGE_SIZE = 0
  /\ "free" \notin EepProcs /\ SizeT \in Nat /\ SizeT > 2 * EEP_SIZE /\ SizeT % EEP_PAGE_SIZE = 0
  /\ LenT \in Nat /\ LenT >= EEP_SIZE     \* 65536, both

VARIABLES users,      \* users of the device
          data,       \* NoData, or what the buffer holds
          eep_mutex,  \* who holds it, or "free"
          epos,       \* position of each open file, or -1
          ecall,      \* the call each process is in
          overrun     \* some write has run beyond the data buffer

eepVars == <<users, data, eep_mutex, epos, ecall, overrun>>

(* A call: where it is, at what position, that of the file or its own, for *)
(* how many bytes; and the transfers of a write that are still to make,    *)
(* and those made.                                                         *)
Idle == [at |-> "out", from |-> 0, own |-> FALSE, count |-> 0, plan |-> << >>, sent |-> << >>]

(* What the buffer holds: zeroes, or what p has put there to write it, or  *)
(* fetched for a read.                                                     *)
Zeroed == <<"nobody", "zeroes">>
NoData == <<"nobody", "none">>     \* it is not allocated

EepInit == /\ users = 0 /\ data = NoData /\ eep_mutex = "free" /\ overrun = FALSE
           /\ epos = [p \in EepProcs |-> -1] /\ ecall = [p \in EepProcs |-> Idle]

At(p, where) == ecall[p].at = where /\ ~overrun
-----------------------------------------------------------------------------
(* device_list_lock is held through eep_open and eep_release: one step.    *)
eep_open(p) == /\ epos[p] = -1 /\ ~overrun
               /\ \/ /\ data' = (IF data = NoData THEN Zeroed ELSE data)
                     /\ users' = users + 1 /\ epos' = [epos EXCEPT ![p] = 0]
                  \/ data = NoData /\ UNCHANGED <<data, users, epos>>       \* out of memory
               /\ UNCHANGED <<eep_mutex, ecall, overrun>>

eep_release(p) == /\ epos[p] # -1 /\ At(p, "out") /\ epos' = [epos EXCEPT ![p] = -1]
                  /\ users' = users - 1 /\ data' = (IF users' = 0 THEN NoData ELSE data)
                  /\ UNCHANGED <<eep_mutex, ecall, overrun>>

(* Only SEEK_SET and SEEK_CUR; a position outside the chip is refused.     *)
eep_llseek(p) == /\ epos[p] # -1 /\ At(p, "out")
                 /\ \E newpos \in 0..EEP_SIZE : epos' = [epos EXCEPT ![p] = newpos]
                 /\ UNCHANGED <<users, data, eep_mutex, ecall, overrun>>
-----------------------------------------------------------------------------
(* The transfers of a write.  count and remain are of the unsigned type    *)
(* size_t when the first is smaller, too.                                  *)
Remain(pos) == (EEP_PAGE_SIZE - (pos % EEP_PAGE_SIZE)) % EEP_PAGE_SIZE
Rest(pos, count) == (count - Remain(pos)) % SizeT
Chunk(pos, offset, len) == [addr |-> pos + offset, offset |-> offset, len |-> len]

(* Plausible bugs, which the properties below must catch.                  *)
TransfersUncut(pos, count) == IF count > 0 THEN <<Chunk(pos, 0, count)>> ELSE << >>
LockedAnyhow == TRUE

Transfers(pos, count) ==
  LET remain  == Remain(pos)
      nb_page == Rest(pos, count) \div EEP_PAGE_SIZE
      last    == Rest(pos, count) % EEP_PAGE_SIZE
  IN (IF remain > 0 THEN <<Chunk(pos, 0, remain)>> ELSE << >>)
     \o [i \in 1..nb_page |-> Chunk(pos, remain + (i - 1) * EEP_PAGE_SIZE, EEP_PAGE_SIZE)]
     \o (IF last > 0 THEN <<Chunk(pos, remain + nb_page * EEP_PAGE_SIZE, last)>> ELSE << >>)

-----------------------------------------------------------------------------
(* mutex_lock_killable; a process that is killed makes no further step.    *)
MutexFree == eep_mutex = "free"

(* count, clipped at the end of the chip.                                  *)
Clip(pos, count) == IF pos + count > EEP_SIZE THEN EEP_SIZE - pos ELSE count

(* *f_pos is the position of the file, or what pread or pwrite was given.  *)
EepLock(p, op, len) ==
  /\ epos[p] # -1 /\ At(p, "out") /\ MutexFree /\ eep_mutex' = p
  /\ \E own \in BOOLEAN : \E from \in IF own THEN 0..EEP_SIZE ELSE {epos[p]} :
       ecall' = [ecall EXCEPT ![p] = [Idle EXCEPT !.at = op, !.from = from, !.own = own, !.count = Clip(from, len)]]
  /\ UNCHANGED <<users, data, epos, overrun>>

(* The position of the file is that of the call, or has moved on, when it  *)
(* gives back the mutex; only success moves it.                            *)
EepUnlock(p, moved) == /\ eep_mutex' = "free" /\ ecall' = [ecall EXCEPT ![p] = Idle]
                       /\ epos' = (IF ecall[p].own THEN epos ELSE [epos EXCEPT ![p] = ecall[p].from + moved])
                       /\ UNCHANGED <<users, data, overrun>>

AtEnd(p) == /\ At(p, "read") \/ At(p, "write")
            /\ ecall[p].from >= EEP_SIZE /\ EepUnlock(p, 0)

(* The length of the message is a __u16: for the whole chip it is 0, and   *)
(* the transfer leaves the buffer as it is.  That a transfer fails is only *)
(* reported: what the buffer holds goes to the reader all the same.        *)
Fetch(p) == /\ At(p, "read") /\ ecall[p].from < EEP_SIZE
            /\ \/ /\ data' = (IF ecall[p].count % LenT = 0 THEN data ELSE <<p, "read">>)
                  /\ ecall' = [ecall EXCEPT ![p].at = "fetched"]
               \/ UNCHANGED data /\ ecall' = [ecall EXCEPT ![p].at = "failed"]
            /\ UNCHANGED <<users, eep_mutex, epos, overrun>>

(* copy_to_user, which may fault.                                          *)
EndRead(p) == /\ At(p, "fetched") \/ At(p, "failed")
              /\ EepUnlock(p, ecall[p].count) \/ EepUnlock(p, 0)

(* copy_from_user, and the cutting into transfers.                         *)
Gather(p) == /\ At(p, "write") /\ ecall[p].from < EEP_SIZE
             /\ data' = <<p, "write">>
             /\ ecall' = [ecall EXCEPT ![p].at = "writing", ![p].plan = Transfers(ecall[p].from, ecall[p].count)]
             /\ UNCHANGED <<users, eep_mutex, epos, overrun>>
BadBuffer(p) == At(p, "write") /\ ecall[p].from < EEP_SIZE /\ EepUnlock(p, 0)

(* transacWrite: the bytes from offset on are copied and sent.             *)
transacWrite(p) ==
  LET chunk == Head(ecall[p].plan)
  IN /\ At(p, "writing") /\ ecall[p].plan # << >>
     /\ overrun' = (chunk.offset + chunk.len > EEP_SIZE)
     /\ ecall' = [ecall EXCEPT ![p].plan = Tail(@), ![p].sent = Append(@, chunk)]
     /\ UNCHANGED <<users, data, eep_mutex, epos>>
TransferFails(p) == At(p, "writing") /\ ecall[p].plan # << >> /\ EepUnlock(p, 0)

EndWrite(p) == At(p, "writing") /\ ecall[p].plan = << >> /\ EepUnlock(p, ecall[p].count)

EepStep(p) == \/ eep_open(p) \/ eep_release(p) \/ eep_llseek(p)
              \/ \E op \in {"read", "write"}, len \in 0..EEP_SIZE + 1 : EepLock(p, op, len)
              \/ AtEnd(p) \/ Fetch(p) \/ EndRead(p)
              \/ Gather(p) \/ BadBuffer(p) \/ transacWrite(p) \/ TransferFails(p) \/ EndWrite(p)

EepNext == \E p \in EepProcs : EepStep(p)
EepSpec == EepInit /\ [][EepNext]_eepVars
-----------------------------------------------------------------------------
(* The one buffer is allocated exactly while the device is open, the mutex *)
(* is held by exactly the process that is in a call, and what that process *)
(* sends, or has fetched for its user with a transfer of fewer bytes than  *)
(* LenT, is what it has put there itself, whoever opens, closes, reads and *)
(* writes meanwhile.  Nothing is said of a read whose transfer failed, nor *)
(* of one of the whole chip: they hand out what an earlier call left.      *)
EepOwnBuffer ==
  /\ data = NoData <=> \A p \in EepProcs : epos[p] = -1
  /\ \A p \in EepProcs :
       /\ ecall[p].at # "out" <=> eep_mutex = p
       /\ ecall[p].at = "fetched" /\ ecall[p].count \in 1 .. LenT - 1 => data = <<p, "read">>
       /\ ecall[p].at = "writing" => data = <<p, "write">>

(* How far into its bytes the first i transfers of a write have come.      *)
SentUpTo(p, i) == IF i = 0 THEN 0 ELSE ecall[p].sent[i].offset + ecall[p].sent[i].len

(* A write that reaches the next page, or starts on a page, sends every    *)
(* byte it was given once, in order and to its own place, and no transfer  *)
(* crosses a page, where the chip would wrap around: also when one of them *)
(* fails, up to that one.                                                  *)
EepSegmentsExact == \A p \in EepProcs :
  LET c == ecall[p]
  IN (c.at = "writing" /\ c.count >= Remain(c.from)) =>
       /\ \A i \in DOMAIN c.sent :
            /\ c.sent[i].offset = SentUpTo(p, i - 1)
            /\ c.sent[i].addr = c.from + c.sent[i].offset
            /\ c.sent[i].addr \div EEP_PAGE_SIZE = (c.sent[i].addr + c.sent[i].len - 1) \div EEP_PAGE_SIZE
       /\ c.plan = << >> => SentUpTo(p, Len(c.sent)) = c.count

(* "Writing beyond the end of the buffer is not allowed"                   *)
(* (ee24lc512.c:214): no transfer of a write reaches beyond the chip.      *)
EepNotBeyondEnd == ~overrun /\ \A p \in EepProcs : \A i \in DOMAIN ecall[p].sent :
  ecall[p].sent[i].addr + ecall[p].sent[i].len <= EEP_SIZE
=============================================================================
