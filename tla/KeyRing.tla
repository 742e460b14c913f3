------------------------------- MODULE KeyRing -------------------------------
(***************************************************************************)
(* The key-event ring of 2nd_edition/int_stm32mp1_key_wait.c and of        *)
(* lab06/int_key_wait.c: the handler of the button's interrupt puts 'P' or *)
(* 'R' into hello_keys_buf, read() sleeps until there is a key and sends   *)
(* one.  Nothing orders or locks the accesses to buf_rd, buf_wr and the    *)
(* buffer, and reads of several processes overlap.                         *)
(***************************************************************************)
EXTENDS Integers, Sequences, FiniteSets, SequencesExt

CONSTANTS KeyReaders,
          MAX_KEY_STATES, \* slots of the ring (256 in the source)
          MaxKeys         \* bound: interrupts of the button
ASSUME KeyRingAssumption == MAX_KEY_STATES \in Nat \ {0} /\ MaxKeys \in Nat

Slot == 0..MAX_KEY_STATES - 1
Key  == {"P", "R"}

VARIABLES edition,    \* the first ignores a key that is the last one again
          smp,        \* whether readers run on another CPU than the
                      \* handler, and so between its steps
          storeFirst, \* whether the build stores the key before it
                      \* advances buf_wr: `buf[buf_wr++] = key' is one
                      \* unordered expression to another CPU; on one
                      \* CPU the order cannot be seen
          hello_keys_buf, buf_rd, buf_wr,
          isr,    \* where hello_keys_isr is
          val,    \* the key it has read from the pin
          kpc,    \* where each reader is
          loaded, \* the buf_rd a reader has read to advance it
          keys,   \* history: the keys pressed and released so far
          sent,   \* history: the keys sent to user space so far
          overran, \* history: the ring has been full, and so looked empty
          overlap  \* history: two readers have been past the wait at once

ringVars == <<edition, smp, storeFirst, hello_keys_buf, buf_rd, buf_wr, isr, val, kpc, loaded, keys, sent, overran, overlap>>

RingInit == /\ edition \in {"first", "second"} /\ smp \in BOOLEAN
            /\ storeFirst \in BOOLEAN /\ (~smp => storeFirst)
            /\ hello_keys_buf = [s \in Slot |-> "none"] /\ buf_rd = 0 /\ buf_wr = 0
            /\ isr = "idle" /\ val = "R" /\ kpc = [r \in KeyReaders |-> "out"]
            /\ loaded = [r \in KeyReaders |-> 0]
            /\ keys = << >> /\ sent = << >> /\ overran = FALSE /\ overlap = FALSE

(* Keys stored by the handler; keys sent by readers that have since        *)
(* advanced buf_rd.                                                        *)
KeysPosted == Len(keys) - (IF isr \in {"store", "advance"} THEN 1 ELSE 0)
Taken  == Len(sent) - Cardinality({r \in KeyReaders : kpc[r] \in {"inc", "store"}})
Unread == KeysPosted - Taken

Wrapped(i) == IF i >= MAX_KEY_STATES THEN 0 ELSE i

(* A reader's step; on one CPU it does not come between those of the       *)
(* handler.                                                                *)
RingGoto(r, from, to) == (smp \/ isr = "idle") /\ kpc[r] = from /\ kpc' = [kpc EXCEPT ![r] = to]
-----------------------------------------------------------------------------
(* Plausible bugs, which the properties below must catch.                  *)
WrapNever(r)   == /\ RingGoto(r, "wrap", "out") /\ loaded' = [loaded EXCEPT ![r] = 0]
                  /\ UNCHANGED <<hello_keys_buf, buf_rd, buf_wr, isr, val, keys, sent, overran, overlap>>
WakeNone       == /\ isr = "wake" /\ isr' = "idle"
                  /\ UNCHANGED <<hello_keys_buf, buf_rd, buf_wr, val, kpc, loaded, keys, sent, overran, overlap>>
TestBlindly(r) == /\ RingGoto(r, "test", "send")
                  /\ UNCHANGED <<hello_keys_buf, buf_rd, buf_wr, loaded, isr, val, keys, sent, overran, overlap>>
-----------------------------------------------------------------------------
(* hello_keys_isr: read the pin, store the key and advance buf_wr, wrap it, *)
(* wake the readers.  The line does not interrupt its own handler.  val is  *)
(* prev_value of the first edition, too.                                    *)
Interrupt == /\ isr = "idle" /\ Len(keys) < MaxKeys
             /\ \E k \in Key : (edition = "first" => k # val) /\ val' = k /\ keys' = Append(keys, k)
             /\ isr' = (IF storeFirst THEN "store" ELSE "advance")
             /\ UNCHANGED <<hello_keys_buf, buf_rd, buf_wr, kpc, loaded, sent, overran, overlap>>

Store == /\ isr = "store" /\ hello_keys_buf' = [hello_keys_buf EXCEPT ![buf_wr] = val]
         /\ isr' = "advance" /\ UNCHANGED <<buf_rd, buf_wr, val, kpc, loaded, keys, sent, overran, overlap>>

(* buf_wr++: until the next step buf_wr may be MAX_KEY_STATES.             *)
Advance == /\ isr = "advance" /\ buf_wr' = buf_wr + 1
           /\ isr' = (IF storeFirst THEN "wrap" ELSE "late store")
           /\ overran' = (overran \/ Unread + 1 >= MAX_KEY_STATES)
           /\ UNCHANGED <<hello_keys_buf, buf_rd, val, kpc, loaded, keys, sent, overlap>>

LateStore == /\ isr = "late store" /\ isr' = "wrap"
             /\ hello_keys_buf' = [hello_keys_buf EXCEPT ![buf_wr - 1] = val]
             /\ UNCHANGED <<buf_rd, buf_wr, val, kpc, loaded, keys, sent, overran, overlap>>

WrapWr == /\ isr = "wrap" /\ isr' = "wake"
          /\ buf_wr' = Wrapped(buf_wr)
          /\ UNCHANGED <<hello_keys_buf, buf_rd, val, kpc, loaded, keys, sent, overran, overlap>>

KeyWake == /\ isr = "wake" /\ isr' = "idle"
           /\ kpc' = [r \in KeyReaders |-> IF kpc[r] = "asleep" THEN "test" ELSE kpc[r]]
           /\ UNCHANGED <<hello_keys_buf, buf_rd, buf_wr, val, loaded, keys, sent, overran, overlap>>

Finish  == Store \/ Advance \/ LateStore \/ WrapWr \/ KeyWake
-----------------------------------------------------------------------------
KeyRead(r) == /\ RingGoto(r, "out", "test")
              /\ UNCHANGED <<hello_keys_buf, buf_rd, buf_wr, loaded, isr, val, keys, sent, overran, overlap>>

(* wait_event_interruptible queues the reader before it tests.             *)
PastWait(r) == kpc[r] \in {"send", "inc", "store", "wrap", "zero"}
KeyTest(r) == /\ RingGoto(r, "test", IF buf_wr # buf_rd THEN "send" ELSE "asleep")
              /\ overlap' = (overlap \/ (buf_wr # buf_rd /\ \E o \in KeyReaders : PastWait(o)))
              /\ UNCHANGED <<hello_keys_buf, buf_rd, buf_wr, loaded, isr, val, keys, sent, overran>>

(* A signal ends the wait and the read; so does a failing copy_to_user,    *)
(* which leaves the key in the ring.                                       *)
KeyFail(r) == /\ RingGoto(r, "asleep", "out") \/ RingGoto(r, "send", "out")
              /\ UNCHANGED <<hello_keys_buf, buf_rd, buf_wr, loaded, isr, val, keys, sent, overran, overlap>>

(* The key is copied out.  A buf_rd that another reader has advanced and   *)
(* not yet wrapped is the index of what lies behind the buffer, whatever   *)
(* it holds.  The history is bounded for readers that run past buf_wr.     *)
SendKey(r) == /\ RingGoto(r, "send", "inc") /\ Len(sent) < MaxKeys
              /\ sent' = Append(sent, IF buf_rd \in Slot THEN hello_keys_buf[buf_rd] ELSE "beyond")
              /\ UNCHANGED <<hello_keys_buf, buf_rd, buf_wr, loaded, isr, val, keys, overran, overlap>>

(* buf_rd++ is a load and a store ...                                      *)
LoadRd(r) == /\ RingGoto(r, "inc", "store") /\ loaded' = [loaded EXCEPT ![r] = buf_rd]
             /\ UNCHANGED <<hello_keys_buf, buf_rd, buf_wr, isr, val, keys, sent, overran, overlap>>

(* ... of what it has loaded plus one, whoever has advanced buf_rd since;  *)
(* a build may wrap it in the register and store only then.                *)
StoreRd(r) == /\ \/ RingGoto(r, "store", "wrap") /\ buf_rd' = loaded[r] + 1 /\ UNCHANGED loaded
                 \/ /\ RingGoto(r, "store", "out") /\ buf_rd' = Wrapped(loaded[r] + 1)
                    /\ loaded' = [loaded EXCEPT ![r] = 0]
              /\ UNCHANGED <<hello_keys_buf, buf_wr, isr, val, keys, sent, overran, overlap>>

(* The test of the wrap sees what is in memory, or still in the register.  *)
WrapRd(r) == /\ \E seen \in {buf_rd, loaded[r] + 1} :
                  RingGoto(r, "wrap", IF seen >= MAX_KEY_STATES THEN "zero" ELSE "out")
             /\ loaded' = [loaded EXCEPT ![r] = 0]
             /\ UNCHANGED <<hello_keys_buf, buf_rd, buf_wr, isr, val, keys, sent, overran, overlap>>
ZeroRd(r) == /\ RingGoto(r, "zero", "out") /\ buf_rd' = 0
             /\ UNCHANGED <<hello_keys_buf, buf_wr, loaded, isr, val, keys, sent, overran, overlap>>

AdvanceRd(r)   == LoadRd(r) \/ StoreRd(r) \/ WrapRd(r) \/ ZeroRd(r)
KeyReadStep(r) == KeyTest(r) \/ SendKey(r) \/ AdvanceRd(r)

RingNext == /\ UNCHANGED <<edition, smp, storeFirst>>
            /\ Interrupt \/ Finish \/ \E r \in KeyReaders : KeyRead(r) \/ KeyReadStep(r) \/ KeyFail(r)

(* A handler that started ends, an awake reader gets the CPU.              *)
RingFairness == /\ WF_ringVars(UNCHANGED <<edition, smp, storeFirst>> /\ Finish)
                /\ \A r \in KeyReaders : WF_ringVars(UNCHANGED <<edition, smp, storeFirst>> /\ KeyReadStep(r))
RingSpec == RingInit /\ [][RingNext]_ringVars /\ RingFairness
-----------------------------------------------------------------------------
(* buf_wr is always what the number of keys stored says it is, however     *)
(* often it has wrapped.  buf_rd is what the number of keys taken says as  *)
(* long as no two readers have been past the wait together: then they may  *)
(* lose one another's increments.  But however they overlap, buf_rd is     *)
(* beyond the ring only while one of them is about to see that and wrap it. *)
IndicesExact ==
  /\ buf_wr % MAX_KEY_STATES = KeysPosted % MAX_KEY_STATES
  /\ ~overlap => buf_rd % MAX_KEY_STATES = Taken % MAX_KEY_STATES
  /\ buf_rd >= MAX_KEY_STATES =>
       \E r \in KeyReaders : kpc[r] = "zero" \/ (kpc[r] = "wrap" /\ loaded[r] + 1 >= MAX_KEY_STATES)

(* So what has been sent is what was pressed, in that order and without    *)
(* gaps, as long as the ring has never been full, readers share the CPU of *)
(* the handler, and no two of them have been past the wait together, when  *)
(* both may send the same key.                                             *)
KeysExact == IndicesExact /\ (~overran /\ ~overlap /\ ~smp => IsPrefix(sent, keys))

(* A reader that fell asleep just before a key came is woken for it, as    *)
(* long as the indices can tell that there is one.                         *)
KeyServed == \A r \in KeyReaders :
  (kpc[r] = "asleep" /\ Unread > 0) ~> (kpc[r] # "asleep" \/ overran \/ overlap)
=============================================================================
