------------------------------- MODULE BleRx -------------------------------
(***************************************************************************)
(* The receiving half of BleApp (bleapp.c): bytes of the BLE module are    *)
(* collected in one buffer, polled by BLEAPP_Tasks, cut into packets by    *)
(* their length field, and handed to the main application.  A one-shot     *)
(* timer, the packet guard, is to reset the buffer after a corrupted       *)
(* packet.                                                                 *)
(*                                                                         *)
(* A byte is its value v, which is all the code sees, its position pos on  *)
(* the line, and how many bytes of its packet are left.  The header is     *)
(* shortened to preamble, length and command (4 bytes for 14), the longest *)
(* packet to BufLen bytes (269).  The UART driver, SYS_TMR and SYS_MSG are *)
(* outside: modelled by how bleapp.c uses them.                            *)
(***************************************************************************)
EXTENDS Integers, Sequences

CONSTANTS
    BufLen,      \* MAX_PACKET_LEN
    PktMax,      \* bound: packets sent
    LossMax,     \* bound: bytes lost on the way
    QueueMax     \* messages the main application's mailbox takes

Preamble == <<2, 1>>
PACKET_BASE_LEN == 4
FIELD_PKTLEN == 3   \* positions count from 1
FIELD_COMMAND == 4

\* The longest packet sent does not fill the buffer
ASSUME BufferAssumption == BufLen \in Nat /\ BufLen > PACKET_BASE_LEN + 1
ASSUME LineAssumption == PktMax \in Nat \ {0} /\ LossMax \in Nat
ASSUME QueueAssumption == QueueMax \in Nat

\* What the phone sends: no packet that fills the whole buffer
Payload == {<<>>, <<2>>}
Raw(p, c) == Preamble \o <<Len(p), c>> \o p
Sendable == {Raw(p, c) : p \in Payload, c \in {0, 1}}

VARIABLES
    \* the line
    tx,         \* bytes of the current packet still on the air
    sent, lost, \* packets sent, bytes lost
    \* BLEAPP_DATA
    state,      \* BLEAPP_STATES: "init" or "collect"
    rx,         \* packetHandler is valid
    buf,        \* bytes received into packet[]
    at, size,   \* inside BLEAPP_Tasks: processedSize read, packet to process
    guard,      \* packetTimeout: invalid, live, or stale (fired, handle kept)
    guardFor,   \* number of the packet on the air when the guard was armed
    mailboxes,  \* mailboxes opened for outgoing messages; 2 stands for more
    \* the main application's mailbox
    queued,
    \* history
    clean,      \* nothing lost, each packet sent to a receiver that has a buffer and
                \* has handled the one before
    outcome,    \* what became of each packet
    last        \* position of the last byte of the last packet accepted

lineVars == <<tx, sent, lost, clean>>
bufVars  == <<state, rx, buf>>
taskVars == <<at, size>>
guardVars == <<guard, guardFor>>
sinkVars == <<queued, outcome, last>>
rxVars == <<lineVars, bufVars, taskVars, guardVars, mailboxes, sinkVars>>

RxInit ==
    /\ tx = <<>> /\ sent = 0 /\ lost = 0 /\ clean = TRUE
    /\ state = "init" /\ rx = FALSE /\ buf = <<>>
    /\ at = "poll" /\ size = 0
    /\ guard = "invalid" /\ guardFor = 0
    /\ mailboxes = 0
    /\ queued = 0
    /\ outcome = [n \in 0 .. PktMax |-> "none"] /\ last = 0

-----------------------------------------------------------------------------
(* The line                                                                *)

\* The bytes of a packet, at the positions from before + 1 on
OnAir(p, before, i) == [v |-> p[i], pos |-> before + i, left |-> Len(p) - i]
Tagged(p, before) == [i \in 1 .. Len(p) |-> OnAir(p, before, i)]

\* A buffer is registered and polled, and no packet is in it
Listening == state = "collect" /\ rx /\ buf = <<>> /\ at = "poll"

\* The phone sends when it likes: it cannot see whether anybody listens
Send ==
    /\ tx = <<>> /\ sent < PktMax
    /\ \E p \in Sendable : tx' = Tagged(p, sent * BufLen)
    /\ sent' = sent + 1
    /\ clean' = (clean /\ Listening)
    /\ UNCHANGED <<lost, bufVars, taskVars, guardVars, mailboxes, sinkVars>>

\* The driver's interrupt stores a byte.  A full buffer is given up.
Receive ==
    /\ tx # <<>>
    /\ tx' = Tail(tx)
    /\ \/ /\ rx /\ Len(buf) < BufLen
          /\ buf' = Append(buf, Head(tx))
       \/ /\ ~rx \/ Len(buf) = BufLen
          /\ UNCHANGED buf
    /\ UNCHANGED <<sent, lost, clean, state, rx, taskVars, guardVars, mailboxes, sinkVars>>

Lose ==
    /\ tx # <<>> /\ lost < LossMax
    /\ tx' = Tail(tx) /\ lost' = lost + 1 /\ clean' = FALSE
    /\ UNCHANGED <<sent, bufVars, taskVars, guardVars, mailboxes, sinkVars>>

-----------------------------------------------------------------------------
(* Helpers of bleapp.c                                                     *)

\* Fault: the buffer is not removed, its bytes stay
RegisterOnly(next) ==
    /\ rx' = TRUE /\ state' = next /\ UNCHANGED buf

\* reregisterBuffer, in a handler that then goes to state next.  When the driver
\* refuses the buffer the application is to be restarted.
reregisterBuffer(next) ==
    /\ buf' = <<>>
    /\ \/ rx' = TRUE /\ state' = next
       \/ rx' = FALSE /\ state' = "init"

\* dataReadyFromBLE: nothing without a buffer, nor from one that is full
dataReadyFromBLE == IF rx /\ Len(buf) < BufLen THEN Len(buf) ELSE 0

PacketComplete(n) == n >= PACKET_BASE_LEN /\ n = PACKET_BASE_LEN + buf[FIELD_PKTLEN].v
PACKET_IsRawValid == buf[1].v = Preamble[1] /\ buf[2].v = Preamble[2]

\* The number of the packet whose bytes are exactly the first `size` of buf, or
\* 0: the bytes came from more than one packet, or some were lost
Intact ==
    /\ buf[1].pos % BufLen = 1 /\ buf[size].left = 0
    /\ \A i \in 1 .. size : buf[i].pos = buf[1].pos + i - 1
Origin == IF Intact THEN (buf[1].pos \div BufLen) + 1 ELSE 0

-----------------------------------------------------------------------------
(* BLEAPP_Tasks                                                            *)

\* BLEAPP_STATE_INIT.  The outgoing mailbox is opened again at every pass;
\* restartApp's new state is overwritten when the UART itself could be opened.
InitTask ==
    /\ state = "init"
    /\ mailboxes' = IF mailboxes = 0 THEN 1 ELSE 2
    /\ buf' = <<>>
    /\ \/ rx' = TRUE /\ state' = "collect"
       \/ rx' = FALSE /\ state' \in {"init", "collect"}
    /\ UNCHANGED <<lineVars, taskVars, guardVars, sinkVars>>

\* BLEAPP_COLLECT_PACKET: the count is read, the guard armed if a timer object is
\* free, the length compared
Poll ==
    /\ state = "collect" /\ at = "poll"
    /\ size' = dataReadyFromBLE
    /\ \/ /\ size' > 0 /\ guard = "invalid"
          /\ \/ guard' = "live" /\ guardFor' = sent
             \/ UNCHANGED guardVars
       \/ /\ size' = 0 \/ guard # "invalid"
          /\ UNCHANGED guardVars
    /\ at' = IF PacketComplete(size') THEN "process" ELSE "poll"
    /\ UNCHANGED <<lineVars, bufVars, mailboxes, sinkVars>>

\* Fault: the guard keeps running
ForwardNoStop ==
    /\ last' = buf[size].pos
    /\ outcome' = [outcome EXCEPT ![Origin] = "handled"]
    /\ UNCHANGED <<guardVars, queued>>

\* Fault: a full mailbox is waited for
ForwardWaits ==
    /\ guard' = "invalid" /\ guardFor' = 0
    /\ last' = buf[size].pos
    /\ outcome' = [outcome EXCEPT ![Origin] = IF buf[FIELD_COMMAND].v = 0 THEN "handled" ELSE "forwarded"]
    /\ buf[FIELD_COMMAND].v # 0 => queued < QueueMax
    /\ queued' = IF buf[FIELD_COMMAND].v = 0 THEN queued ELSE queued + 1

\* A valid packet: the guard is stopped, the packet goes to the main application
\* (a full mailbox refuses it and nobody frees it) or is handled here and freed.
Forward ==
    /\ guard' = "invalid" /\ guardFor' = 0
    /\ last' = buf[size].pos
    /\ \/ /\ buf[FIELD_COMMAND].v = 0
          /\ outcome' = [outcome EXCEPT ![Origin] = "handled"]
          /\ UNCHANGED queued
       \/ /\ buf[FIELD_COMMAND].v # 0 /\ queued < QueueMax
          /\ outcome' = [outcome EXCEPT ![Origin] = "forwarded"]
          /\ queued' = queued + 1
       \/ /\ buf[FIELD_COMMAND].v # 0 /\ queued >= QueueMax
          /\ outcome' = [outcome EXCEPT ![Origin] = "refused"]
          /\ UNCHANGED queued

Discard == UNCHANGED <<guardVars, sinkVars>>

\* The rest of the pass: bytes that came since the poll go with the buffer
Process ==
    /\ state = "collect" /\ at = "process"
    /\ \/ PACKET_IsRawValid /\ Forward
       \/ ~PACKET_IsRawValid /\ Discard
    /\ reregisterBuffer("collect")
    /\ at' = "poll" /\ size' = 0
    /\ UNCHANGED <<lineVars, mailboxes>>

-----------------------------------------------------------------------------
(* Timer and main application                                              *)

\* Fault: the buffer survives the timeout
TimeoutNoReset ==
    /\ guard = "live" /\ at = "poll"
    /\ guardFor = sent => tx = <<>> /\ size = dataReadyFromBLE
    /\ guard' = "stale"
    /\ UNCHANGED <<lineVars, bufVars, guardFor, taskVars, mailboxes, sinkVars>>

\* rxPacketTimeout, from SYS_TMR_Tasks, a second after the guard was armed: no
\* packet takes that long, and the loop has polled its last byte by then.  The
\* handle is kept.
rxPacketTimeout ==
    /\ guard = "live" /\ at = "poll"
    /\ guardFor = sent => tx = <<>> /\ size = dataReadyFromBLE
    /\ guard' = "stale"
    /\ reregisterBuffer(state)
    /\ size' = 0
    /\ UNCHANGED <<lineVars, guardFor, at, mailboxes, sinkVars>>

\* MAINAPP_Tasks takes a packet from its mailbox and frees it
Take ==
    /\ queued > 0 /\ at = "poll"
    /\ queued' = queued - 1
    /\ UNCHANGED <<lineVars, bufVars, taskVars, guardVars, mailboxes, outcome, last>>

-----------------------------------------------------------------------------
RxNext ==
    Send \/ Receive \/ Lose \/ InitTask \/ Poll \/ Process \/ rxPacketTimeout \/ Take

RxSpec == RxInit /\ [][RxNext]_rxVars

\* A poll that finds a free timer object
Arm == Poll /\ guard' # guard

\* Bytes on the air arrive, the main loop runs all its tasks again and again, and
\* a status probe gives its timer object back after 100 ms.
RxFairness ==
    /\ WF_rxVars(Receive)
    /\ WF_rxVars(InitTask) /\ WF_rxVars(Poll) /\ WF_rxVars(Process)
    /\ WF_rxVars(rxPacketTimeout) /\ SF_rxVars(Take) /\ SF_rxVars(Arm)

FairRxSpec == RxSpec /\ RxFairness
=============================================================================
