----------------------------- MODULE BleRxProps -----------------------------
(***************************************************************************)
(* What the receiver of BleApp must guarantee, and what its comments say.  *)
(***************************************************************************)
EXTENDS BleRx

Byte == [v : 0 .. 2, pos : Nat, left : Nat]

RxTypeOK ==
    /\ tx \in Seq(Byte)
    /\ sent \in 0 .. PktMax /\ lost \in 0 .. LossMax /\ clean \in BOOLEAN
    /\ state \in {"init", "collect"} /\ rx \in BOOLEAN
    /\ buf \in Seq(Byte) /\ Len(buf) <= BufLen
    /\ at \in {"poll", "process"} /\ size \in 0 .. Len(buf)
    /\ guard \in {"invalid", "live", "stale"} /\ guardFor \in 0 .. PktMax
    /\ mailboxes \in 0 .. 2
    /\ queued \in 0 .. QueueMax
    /\ outcome \in [0 .. PktMax -> {"none", "handled", "forwarded", "refused"}]
    /\ last \in Nat

\* No byte of the line is accepted in two packets and none out of order,
\* whatever is lost, resynchronised or timed out, and however bytes arrive
\* while a packet is being processed (reregisterBuffer, BLEAPP_Tasks).
AcceptedOnce ==
    [][Process /\ PACKET_IsRawValid => last < buf[1].pos /\ buf[1].pos < last']_rxVars

\* On a line that loses nothing, while the phone sends only to a receiver that
\* listens (it has a buffer and has handled the packet before), the guard never
\* fires: no timer of one packet survives into another (stopPacketGuard).
NoFalseAlarm == clean => guard # "stale"

\* ... and every packet is handled, forwarded, or refused by a full mailbox,
\* even when the timer pool is exhausted and no guard can be armed.  Nothing is
\* promised of a packet sent while nobody listens: a receiver that registers its
\* buffer again may be refused, and one refused in the INIT state stays without a
\* buffer, its state overwritten with COLLECT_PACKET (BLEAPP_Tasks), for ever unless a
\* guard of before is still running and fires.
PacketsGetThrough == []clean => \A n \in 1 .. PktMax : sent >= n ~> outcome[n] # "none"

\* A timer object and a poll came before the buffer was full.  Nothing in the code
\* makes sure of it: SYS_TMR_CallbackSingle may refuse, and a full buffer counts as
\* empty, so that no guard is armed for it later (dataReadyFromBLE).
GuardInTime == Len(buf) = BufLen => guard # "invalid"

\* Where a guard is always armed in time, and until it has fired a first time,
\* received bytes do not stay in the buffer for ever, whatever was lost: they
\* become a packet, are discarded with one, or the guard clears them
\* (BLEAPP_Tasks, rxPacketTimeout).
FirstCorruptionCleared == []GuardInTime => (buf # <<>> /\ guard # "stale" ~> buf = <<>>)

-----------------------------------------------------------------------------
(* What comments say                                                       *)

\* bleapp.c:296: "If we receive a corrupted packet, we will stuck, so let's add
\* a timeout": received bytes do not stay in the buffer for ever, at least where a
\* timer object was found in time.
Unstuck == []GuardInTime => (buf # <<>> ~> buf = <<>>)
=============================================================================
