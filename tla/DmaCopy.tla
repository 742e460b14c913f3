------------------------------- MODULE DmaCopy -------------------------------
(***************************************************************************)
(* The drivers that copy memory to memory by DMA (lab08, the second        *)
(* edition's sdma_stm32mp1_*.c, imx-sdma-single.c): a write or ioctl fills *)
(* wbuf, submits a transfer to rbuf and waits for a completion that the    *)
(* engine's callback completes.  Buffers, completion and channel are the   *)
(* device's and no lock is taken: calls of several processes overlap.      *)
(* A text is the number of the call that wrote it.                         *)
(***************************************************************************)
EXTENDS Naturals, Sequences

CONSTANTS DmaDrivers,  \* the drivers a run considers, as records
          Copiers,     \* processes
          MaxCopies    \* bound: calls

(* fills: the call copies the text into wbuf, which else is mapped into    *)
(*   the process.  checks: a failure to submit ends the call.              *)
(* compares: who compares rbuf with wbuf: the callback before or after it  *)
(*   completes, the caller, or nobody.                                     *)
(* init: when the completion is initialised: in the call when memory is    *)
(*   mapped, first thing in it, or when the device is opened.              *)
(* buffers: the module's, or allocated by open and freed by "release" or   *)
(*   at the end of the "call".                                             *)
m2m_1st      == [fills |-> TRUE, checks |-> FALSE, compares |-> "after", init |-> "mapped",
                 buffers |-> "module", rounds |-> 1]
m2m_2nd      == [m2m_1st EXCEPT !.checks = TRUE]
sg_1st       == [m2m_1st EXCEPT !.compares = "before", !.init = "first", !.rounds = 2]
mmap_1st     == [m2m_1st EXCEPT !.compares = "caller", !.fills = FALSE]
mmap_2nd     == [mmap_1st EXCEPT !.checks = TRUE, !.buffers = "call"]
single_ch12  == [m2m_1st EXCEPT !.compares = "nobody", !.init = "open", !.buffers = "release"]

AllDmaDrivers == {m2m_1st, m2m_2nd, sg_1st, mmap_1st, mmap_2nd, single_ch12}
ASSUME DmaAssumption == DmaDrivers \subseteq AllDmaDrivers /\ MaxCopies \in Nat

VARIABLES ddrv,      \* the driver
          dopen,     \* processes that have the device open
          buffers,   \* wbuf and rbuf are allocated
          wbuf, rbuf,
          done,      \* of the completion
          chan,      \* the transfers submitted and not yet made
          callback,  \* the callback that runs, or NoCallback
          dcall,     \* the call of each process
          copies,    \* calls so far
          crossed,   \* two calls have overlapped, or two opens
          wrong      \* what must not happen: "verdict", a good copy was
                     \* reported as failed; "freed" memory was used

dmaVars == <<ddrv, dopen, buffers, wbuf, rbuf, done, chan, callback, dcall, copies, crossed, wrong>>

NoCallback == [at |-> "none", last |-> FALSE]
NoCopy     == [at |-> "out", id |-> 0, round |-> 1]

DmaInit == /\ ddrv \in DmaDrivers /\ dopen = {} /\ buffers = (ddrv.buffers = "module")
           /\ wbuf = 0 /\ rbuf = 0 /\ done = 0 /\ chan = << >> /\ callback = NoCallback
           /\ dcall = [p \in Copiers |-> NoCopy] /\ copies = 0 /\ crossed = FALSE /\ wrong = {}

DmaSane == "freed" \notin wrong
Copying(p) == dcall[p].at # "out"
Moves(p, from, to) == DmaSane /\ dcall[p].at = from /\ dcall' = [dcall EXCEPT ![p].at = to]
Touch == wrong' = (IF buffers THEN wrong ELSE wrong \cup {"freed"})

(* init_completion: done is 0, and who waits is on the queue no more.      *)
Abandon(calls) == [p \in Copiers |-> IF calls[p].at = "waiting" THEN [calls[p] EXCEPT !.at = "lost"] ELSE calls[p]]
-----------------------------------------------------------------------------
(* Plausible bugs, which the properties below must catch.                  *)
AwaitSignalled(p) == /\ Moves(p, "test", "past")
                     /\ UNCHANGED <<ddrv, dopen, buffers, wbuf, rbuf, done, chan, callback, copies, crossed, wrong>>
-----------------------------------------------------------------------------
DmaOpen(p) == /\ DmaSane /\ p \notin dopen /\ dopen' = dopen \cup {p}
              /\ buffers' = TRUE /\ crossed' = (crossed \/ (ddrv.buffers # "module" /\ dopen # {}))
              /\ done' = (IF ddrv.init = "open" THEN 0 ELSE done)
              /\ dcall' = (IF ddrv.init = "open" THEN Abandon(dcall) ELSE dcall)
              /\ UNCHANGED <<ddrv, wbuf, rbuf, chan, callback, copies, wrong>>

DmaRelease(p) == /\ DmaSane /\ p \in dopen /\ ~Copying(p) /\ dopen' = dopen \ {p}
                 /\ IF ddrv.buffers = "release" THEN Touch /\ buffers' = FALSE ELSE UNCHANGED <<wrong, buffers>>
                 /\ UNCHANGED <<ddrv, wbuf, rbuf, done, chan, callback, dcall, copies, crossed>>

(* The process writes to the buffer that it has mapped, whenever it likes. *)
UserStores(p) == /\ DmaSane /\ ~ddrv.fills /\ p \in dopen /\ buffers /\ wbuf' = copies + 1
                 /\ UNCHANGED <<ddrv, dopen, buffers, rbuf, done, chan, callback, dcall, copies, crossed, wrong>>
-----------------------------------------------------------------------------
DmaCall(p) == /\ p \in dopen /\ copies < MaxCopies /\ copies' = copies + 1
              /\ DmaSane /\ ~Copying(p) /\ done' = (IF ddrv.init = "first" THEN 0 ELSE done)
              /\ LET calls == [dcall EXCEPT ![p] = [at |-> "fill", id |-> copies', round |-> 1]]
                 IN dcall' = (IF ddrv.init = "first" THEN Abandon(calls) ELSE calls)
              /\ crossed' = (crossed \/ \E q \in Copiers \ {p} : Copying(q))
              /\ UNCHANGED <<ddrv, dopen, buffers, wbuf, rbuf, chan, callback, wrong>>

(* copy_from_user, or a fault; then the mapping of the buffers for DMA.    *)
Fill(p) == /\ dcall[p].at = "fill" /\ DmaSane /\ Touch
           /\ wbuf' = (IF ddrv.fills THEN dcall[p].id ELSE wbuf)
           /\ LET filled == [dcall EXCEPT ![p].at = "ready"]
              IN dcall' = (IF ddrv.init = "mapped" THEN Abandon(filled) ELSE filled)
           /\ done' = (IF ddrv.init = "mapped" THEN 0 ELSE done)
           /\ UNCHANGED <<ddrv, dopen, buffers, rbuf, chan, callback, copies, crossed>>
FillFails(p) == /\ ddrv.fills /\ Moves(p, "fill", "out")
                /\ UNCHANGED <<ddrv, dopen, buffers, wbuf, rbuf, done, chan, callback, copies, crossed, wrong>>

Submit(p) == /\ Moves(p, "ready", "test") /\ chan' = Append(chan, [last |-> dcall[p].round = ddrv.rounds])
             /\ UNCHANGED <<ddrv, dopen, buffers, wbuf, rbuf, done, callback, copies, crossed, wrong>>
SubmitFails(p) == /\ ddrv.checks /\ Moves(p, "ready", "out")
                  /\ UNCHANGED <<ddrv, dopen, buffers, wbuf, rbuf, done, chan, callback, copies, crossed, wrong>>

(* wait_for_completion takes the completion, or waits until it can.        *)
AwaitDone(p) == /\ \/ done = 0 /\ Moves(p, "test", "waiting") /\ UNCHANGED done
                   \/ done > 0 /\ Moves(p, "test", "past") /\ done' = done - 1
                   \/ done > 0 /\ Moves(p, "waiting", "past") /\ done' = done - 1
                /\ UNCHANGED <<ddrv, dopen, buffers, wbuf, rbuf, chan, callback, copies, crossed, wrong>>

(* The second transfer of sdma_sg_m2m.c, after reinit_completion.          *)
Again(p) == /\ dcall[p].round < ddrv.rounds /\ dcall[p].at = "past" /\ DmaSane /\ done' = 0
            /\ dcall' = [dcall EXCEPT ![p] = [at |-> "ready", id |-> @.id, round |-> @.round + 1]]
            /\ UNCHANGED <<ddrv, dopen, buffers, wbuf, rbuf, chan, callback, copies, crossed, wrong>>

(* Unmap and return; the second edition's ioctl frees the buffers unless   *)
(* it finds that they differ.                                              *)
DmaReturn(p) == /\ dcall[p].round = ddrv.rounds /\ dcall[p].at = "past" /\ DmaSane
                /\ dcall' = [dcall EXCEPT ![p] = NoCopy] /\ Touch
                /\ buffers' = (buffers /\ ~(ddrv.buffers = "call" /\ rbuf = wbuf))
                /\ UNCHANGED <<ddrv, dopen, wbuf, rbuf, done, chan, callback, copies, crossed>>
-----------------------------------------------------------------------------
(* The engine, external: one transfer after the other, each with its       *)
(* callback.                                                               *)
Transfer == /\ DmaSane /\ chan # << >> /\ callback = NoCallback /\ chan' = Tail(chan) /\ rbuf' = wbuf /\ Touch
            /\ callback' = [at |-> IF ddrv.compares = "before" THEN "compare" ELSE "complete", last |-> Head(chan).last]
            /\ UNCHANGED <<ddrv, dopen, buffers, wbuf, done, dcall, copies, crossed>>

(* complete, and its place before or after the comparison in the callback. *)
CompleteDma == /\ DmaSane /\ callback.at = "complete" /\ done' = done + 1
               /\ callback' = (IF ddrv.compares = "after" THEN [callback EXCEPT !.at = "compare"] ELSE NoCallback)
               /\ UNCHANGED <<ddrv, dopen, buffers, wbuf, rbuf, chan, dcall, copies, crossed, wrong>>

(* A callback that compares first and finds a difference never completes;  *)
(* the three buffers of its first transfer are always filled alike.        *)
Differs == rbuf # wbuf /\ callback.last
CompareDma == /\ DmaSane /\ callback.at = "compare"
              /\ wrong' = (IF Differs THEN wrong \cup {"verdict"} ELSE wrong)
              /\ callback' = (IF ddrv.compares = "before" /\ ~Differs THEN [callback EXCEPT !.at = "complete"] ELSE NoCallback)
              /\ UNCHANGED <<ddrv, dopen, buffers, wbuf, rbuf, done, chan, dcall, copies, crossed>>

DmaNext == \/ Transfer \/ CompleteDma \/ CompareDma
           \/ \E p \in Copiers : \/ DmaOpen(p) \/ DmaRelease(p) \/ UserStores(p) \/ DmaCall(p) \/ Fill(p)
                                 \/ FillFails(p) \/ Submit(p) \/ SubmitFails(p) \/ AwaitDone(p)
                                 \/ Again(p) \/ DmaReturn(p)
DmaSpec == DmaInit /\ [][DmaNext]_dmaVars
-----------------------------------------------------------------------------
(* As long as calls come one at a time: a call is past its wait only when  *)
(* its own transfer is made and rbuf holds its text, so that nothing is    *)
(* unmapped under the engine; who waits has a transfer or a callback that  *)
(* will complete it; and a return leaves no completion to the next call.   *)
(* Memory is not used after it is freed but by a second ioctl on one open  *)
(* of sdma_stm32mp1_mmap.c; and a callback that compares before it         *)
(* completes never sees the text of the next call.                         *)
DmaExact == ~crossed =>
  /\ \A p \in Copiers :
       /\ dcall[p].at = "past" => chan = << >> /\ (ddrv.fills => rbuf = dcall[p].id)
       /\ dcall[p].at = "waiting" => done > 0 \/ chan # << >> \/ callback # NoCallback
       /\ dcall[p].at # "lost"
  /\ (\A p \in Copiers : ~Copying(p)) => done = 0 /\ chan = << >>
  /\ ddrv.buffers # "call" => "freed" \notin wrong
  /\ ddrv.compares = "before" => "verdict" \notin wrong
=============================================================================
