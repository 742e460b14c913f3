------------------------------ MODULE MouseLab ------------------------------
(***************************************************************************)
(* The serial mouse driver of s_21/lab4_full_mouse_driver.c.  The handler  *)
(* puts the bytes that the UART holds together to packets of three, of     *)
(* which only the first carries FIRST_BYTE_MAGIC; read waits for a packet  *)
(* and copies it with the interrupt disabled.  A tasklet signals the       *)
(* process that opened the device last.  A byte is the number of its       *)
(* packet and its place in it; the mouse may be in the middle of a packet  *)
(* when the driver is loaded, and the UART drops what it has no room for.  *)
(***************************************************************************)
EXTENDS Naturals, Sequences, FiniteSets

CONSTANTS MouseUsers,     \* processes
          FifoSize,       \* room in the UART
          MaxPackets,     \* bound: packets the mouse sends
          MaxMouseFaults  \* bound: reads whose copy_to_user fails

ASSUME MouseAssumption ==
  "0" \notin MouseUsers /\ FifoSize \in Nat /\ MaxPackets \in Nat /\ MaxMouseFaults \in Nat

VARIABLES uart,       \* the bytes in the UART
          coming,     \* the next byte of the mouse
          bytes, numByteIn, packet_ready, \* my_state, and the handler's static
          mouseIsr,   \* where my_interrupt is
          disabled,   \* how often the interrupt has been disabled
          usersig,    \* the tasklet is scheduled
          user_pid,   \* whom to signal, or "0"
          mpc,        \* where each process is: in no call, with the device
                      \* closed or open, or in a call
          got,        \* the packet that each read has copied
          dropped, faults, \* history: bytes the UART has dropped; failed copies
          newest,     \* history: the packet whose last byte was read last
          paired,     \* history: two reads have been past the wait at once
          late, stray \* history: the tasklet was scheduled while a release
                      \* was past its tasklet_kill; it has signalled nobody

mouseVars == <<uart, coming, bytes, numByteIn, packet_ready, mouseIsr, disabled, usersig, user_pid,
               mpc, got, dropped, faults, newest, paired, late, stray>>

MY_NBYTES == 3
Blank     == <<0, 0>>
Magic(b)  == b[2] = 1
Following(b) == IF b[2] = MY_NBYTES THEN <<b[1] + 1, 1>> ELSE <<b[1], b[2] + 1>>

MouseInit == /\ uart = << >> /\ coming \in {<<1, i>> : i \in 1..MY_NBYTES}
             /\ bytes = [i \in 1..MY_NBYTES |-> Blank] /\ numByteIn = 0 /\ packet_ready = FALSE
             /\ mouseIsr = "idle" /\ disabled = 0 /\ usersig = FALSE /\ user_pid = "0"
             /\ mpc = [p \in MouseUsers |-> "closed"] /\ got = [p \in MouseUsers |-> << >>]
             /\ dropped = FALSE /\ faults = 0 /\ newest = 0 /\ paired = FALSE /\ late = FALSE /\ stray = FALSE

MouseMoves(p, from, to) == mpc[p] = from /\ mpc' = [mpc EXCEPT ![p] = to]
PacketSeen(p) == mpc[p] \in {"disable", "sync", "copy", "clear", "enable"}
-----------------------------------------------------------------------------
(* Plausible bugs, which the properties below must catch.                  *)
KeepsAll(b) == TRUE
-----------------------------------------------------------------------------
(* External: the mouse sends a byte.                                       *)
MouseSends == /\ coming[1] <= MaxPackets /\ coming' = Following(coming)
              /\ IF Len(uart) < FifoSize THEN uart' = Append(uart, coming) /\ UNCHANGED dropped
                                         ELSE dropped' = TRUE /\ UNCHANGED uart
              /\ UNCHANGED <<bytes, numByteIn, packet_ready, mouseIsr, disabled, usersig, user_pid, mpc, got,
                             faults, newest, paired, late, stray>>

MouseInterrupt == /\ uart # << >> /\ disabled = 0 /\ mouseIsr = "idle" /\ mouseIsr' = "byte"
                  /\ UNCHANGED <<uart, coming, bytes, numByteIn, packet_ready, disabled, usersig, user_pid, mpc, got,
                                 dropped, faults, newest, paired, late, stray>>

(* A byte that does not start a packet is skipped where one should start.  *)
Kept(b) == numByteIn > 0 \/ Magic(b)

(* One turn of the handler's loop: take a byte, or leave.                  *)
MouseByte ==
  /\ mouseIsr = "byte"
  /\ IF uart = << >> THEN mouseIsr' = "idle" /\ UNCHANGED <<uart, bytes, numByteIn>>
     ELSE /\ uart' = Tail(uart)
          /\ IF Kept(Head(uart))
             THEN /\ bytes' = [bytes EXCEPT ![numByteIn + 1] = Head(uart)] /\ numByteIn' = numByteIn + 1
                  /\ mouseIsr' = (IF numByteIn' = MY_NBYTES THEN "full" ELSE "byte")
             ELSE UNCHANGED <<bytes, numByteIn, mouseIsr>>
  /\ UNCHANGED <<coming, packet_ready, disabled, usersig, user_pid, mpc, got, dropped, faults, newest, paired, late, stray>>

MouseFull == /\ mouseIsr = "full" /\ mouseIsr' = "wake" /\ packet_ready' = TRUE /\ numByteIn' = 0
             /\ UNCHANGED <<uart, coming, bytes, disabled, usersig, user_pid, mpc, got, dropped, faults, newest, paired, late, stray>>

(* wake_up_interruptible and tasklet_schedule.                             *)
MouseWakes ==
  /\ mouseIsr = "wake" /\ mouseIsr' = "byte"
  /\ mpc' = [p \in MouseUsers |-> IF mpc[p] = "asleep" THEN "test" ELSE mpc[p]]
  /\ usersig' = (usersig \/ user_pid # "0")
  /\ late' = (late \/ (user_pid # "0" /\ \E p \in MouseUsers : mpc[p] = "killed"))
  /\ UNCHANGED <<uart, coming, bytes, numByteIn, packet_ready, disabled, user_pid, got, dropped, faults, newest, paired, stray>>

(* The tasklet: send_sig to user_pid, which must be somebody.              *)
t_sendsig == /\ usersig /\ usersig' = FALSE /\ stray' = (stray \/ user_pid = "0")
             /\ UNCHANGED <<uart, coming, bytes, numByteIn, packet_ready, mouseIsr, disabled, user_pid, mpc, got,
                            dropped, faults, newest, paired, late>>
-----------------------------------------------------------------------------
mymouse_open(p) == /\ MouseMoves(p, "closed", "open") /\ packet_ready' = FALSE /\ user_pid' = p
                   /\ UNCHANGED <<uart, coming, bytes, numByteIn, mouseIsr, disabled, usersig, got,
                                  dropped, faults, newest, paired, late, stray>>

(* release: reset, wait for the tasklet if there is a user, and forget him. *)
MouseRelease(p) == /\ MouseMoves(p, "open", IF user_pid = "0" THEN "closed" ELSE "kill") /\ packet_ready' = FALSE
                   /\ UNCHANGED <<uart, coming, bytes, numByteIn, mouseIsr, disabled, usersig, user_pid, got,
                                  dropped, faults, newest, paired, late, stray>>
MouseKill(p) == /\ ~usersig /\ MouseMoves(p, "kill", "killed")
                /\ UNCHANGED <<uart, coming, bytes, numByteIn, packet_ready, mouseIsr, disabled, usersig, user_pid, got,
                               dropped, faults, newest, paired, late, stray>>
MouseForget(p) == /\ MouseMoves(p, "killed", "closed") /\ user_pid' = "0"
                  /\ UNCHANGED <<uart, coming, bytes, numByteIn, packet_ready, mouseIsr, disabled, usersig, got,
                                 dropped, faults, newest, paired, late, stray>>
-----------------------------------------------------------------------------
(* mymouse_read of at least three bytes, up to disable_irq: O_NDELAY and a *)
(* signal end it.                                                          *)
MouseRead(p) == /\ \/ MouseMoves(p, "open", "test") /\ UNCHANGED paired
                   \/ MouseMoves(p, "asleep", "open") /\ UNCHANGED paired
                   \/ ~packet_ready /\ (MouseMoves(p, "test", "asleep") \/ MouseMoves(p, "test", "open")) /\ UNCHANGED paired
                   \/ /\ packet_ready /\ MouseMoves(p, "test", "disable")
                      /\ paired' = (paired \/ \E q \in MouseUsers : PacketSeen(q))
                /\ UNCHANGED <<uart, coming, bytes, numByteIn, packet_ready, mouseIsr, disabled, usersig, user_pid, got,
                               dropped, faults, newest, late, stray>>

(* disable_irq, which waits until the handler has left.                    *)
MouseDisable(p) == /\ \/ MouseMoves(p, "disable", "sync") /\ disabled' = disabled + 1
                      \/ MouseMoves(p, "sync", "copy") /\ mouseIsr = "idle" /\ UNCHANGED disabled
                   /\ UNCHANGED <<uart, coming, bytes, numByteIn, packet_ready, mouseIsr, usersig, user_pid, got,
                                  dropped, faults, newest, paired, late, stray>>

(* copy_to_user; when it fails the read returns as it is.                  *)
MouseCopy(p) == /\ \/ MouseMoves(p, "copy", "clear") /\ got' = [got EXCEPT ![p] = bytes] /\ UNCHANGED faults
                   \/ /\ faults < MaxMouseFaults /\ faults' = faults + 1
                      /\ MouseMoves(p, "copy", "open") /\ UNCHANGED got
                /\ UNCHANGED <<uart, coming, bytes, numByteIn, packet_ready, mouseIsr, disabled, usersig, user_pid,
                               dropped, newest, paired, late, stray>>

MouseClear(p) == /\ MouseMoves(p, "clear", "enable") /\ packet_ready' = FALSE
                 /\ UNCHANGED <<uart, coming, bytes, numByteIn, mouseIsr, disabled, usersig, user_pid, got,
                                dropped, faults, newest, paired, late, stray>>

MouseEnable(p) == /\ MouseMoves(p, "enable", "open") /\ disabled' = disabled - 1
                  /\ newest' = got[p][MY_NBYTES][1] /\ got' = [got EXCEPT ![p] = << >>]
                  /\ UNCHANGED <<uart, coming, bytes, numByteIn, packet_ready, mouseIsr, usersig, user_pid,
                                 dropped, faults, paired, late, stray>>

MouseNext == \/ MouseSends \/ MouseInterrupt \/ MouseByte \/ MouseFull \/ MouseWakes \/ t_sendsig
             \/ \E p \in MouseUsers : \/ mymouse_open(p) \/ MouseRelease(p) \/ MouseKill(p) \/ MouseForget(p)
                                      \/ MouseRead(p) \/ MouseDisable(p) \/ MouseCopy(p)
                                      \/ MouseClear(p) \/ MouseEnable(p)
MouseSpec == MouseInit /\ [][MouseNext]_mouseVars
-----------------------------------------------------------------------------
(* A read may get the head of a packet with the tail of the one before,    *)
(* because the next one comes in while it has not yet disabled the         *)
(* interrupt; but as long as the UART drops nothing every byte is in its   *)
(* place and the two packets are consecutive, wherever in a packet the     *)
(* driver has started; whatever is dropped, what is taken for a first byte *)
(* is one; and no packet is read twice, unless two reads are past the wait *)
(* together or a copy has failed.  The interrupt is disabled by exactly    *)
(* the reads that copy and those whose copy has failed, so that after one  *)
(* failure it is disabled for good.  Only an interrupt between the         *)
(* tasklet_kill of a release and its next line makes the tasklet signal    *)
(* nobody.                                                                 *)
PacketsFramed ==
  /\ bytes[1] = Blank \/ Magic(bytes[1])
  /\ disabled = faults + Cardinality({p \in MouseUsers : mpc[p] \in {"sync", "copy", "clear", "enable"}})
  /\ \A p \in MouseUsers : mpc[p] \in {"clear", "enable"} =>
       /\ ~dropped => /\ \A i \in 1..MY_NBYTES : got[p][i][2] = i
                      /\ got[p][1][1] - got[p][MY_NBYTES][1] \in {0, 1}
                      /\ got[p][2][1] \in got[p][MY_NBYTES][1] .. got[p][1][1]
       /\ ~paired /\ faults = 0 => got[p][MY_NBYTES][1] > newest
  /\ stray => late
=============================================================================
