------------------------------ MODULE SomParser ------------------------------
(***************************************************************************)
(* The packet codec (somparser.c).  A packet in memory is its header; the  *)
(* payload is a block of its own, given as a sequence of bytes.  A 32 bit  *)
(* field is the sequence of its four bytes in memory order: the processor  *)
(* is little-endian, the packet big-endian, swapEndian converts.           *)
(***************************************************************************)
EXTENDS Integers, Sequences

Byte == 0 .. 255
Word == [1 .. 4 -> Byte]

\* BLECommand
BLE_CMD_GET_BAT_DATA == 10
MAINAPP_CMD_OFFSET == 16
BLE_CMD_MODE == 16
BLE_CMD_START_POS == 17
BLE_CMD_DONE_POS == 18
BLE_CMD_GET_CHANNEL_STS == 19
BLE_CMD_POS_STATUS == 81
BLE_CMD_CH_STATUS == 83
BLE_CMD_RESPONSE == 240
BLE_CMD_NOT_SUPPORTED == 241
BLE_CMD_MAX_CMD == 242

\* Device
DEV_APPLICATION == 1
DEV_MASTER == 2

PACKET_BASE_LEN == 14
Preamble == <<83, 77>>

Packet == [preamble : [1 .. 2 -> Byte], src : Byte, dst : Byte, tid : Word, mid : Word,
           pLen : Byte, cmd : Byte]

-----------------------------------------------------------------------------
(* Fields                                                                  *)

swapEndian(value) == <<value[4], value[3], value[2], value[1]>>

PACKET_SetSource(p, src) == [p EXCEPT !.src = src]
PACKET_SetDestination(p, dst) == [p EXCEPT !.dst = dst]
PACKET_SetTransactionID(p, tid) == [p EXCEPT !.tid = swapEndian(tid)]
PACKET_SetMessageID(p, mid) == [p EXCEPT !.mid = swapEndian(mid)]
PACKET_SetCommand(p, cmd) == [p EXCEPT !.cmd = cmd]

PACKET_GetSource(p) == p.src
PACKET_GetDestination(p) == p.dst
PACKET_GetTransactionID(p) == swapEndian(p.tid)
PACKET_GetMessageID(p) == swapEndian(p.mid)
PACKET_GetCommand(p) == p.cmd

\* random, random2: what SYS_RANDOM_PseudoGet returns
PACKET_Create(random, random2) ==
    [preamble |-> Preamble, src |-> 0, dst |-> 0, tid |-> swapEndian(random),
     mid |-> swapEndian(random2), pLen |-> 0, cmd |-> 0]

\* Fault: the transaction is copied without converting it
ReplyUnconverted(p, mid) ==
    LET pp == PACKET_Create(mid, mid)
    IN [pp EXCEPT !.cmd = p.cmd, !.dst = p.src, !.src = p.dst, !.tid = swapEndian(p.tid)]

\* The packet is sent back where it came from, in the same transaction
PACKET_CreateForReply(p, mid) ==
    LET p1 == PACKET_SetCommand(PACKET_Create(mid, mid), PACKET_GetCommand(p))
        p2 == PACKET_SetDestination(p1, PACKET_GetSource(p))
        p3 == PACKET_SetSource(p2, PACKET_GetDestination(p))
        p4 == PACKET_SetTransactionID(p3, PACKET_GetTransactionID(p))
    IN PACKET_SetMessageID(p4, mid)

-----------------------------------------------------------------------------
(* Bytes on the line                                                       *)

PACKET_GetFullSize(p) == PACKET_BASE_LEN + p.pLen

PACKET_GetByteArray(p, payload) ==
    <<p.preamble[1], p.preamble[2], p.src, p.dst, p.tid[1], p.tid[2], p.tid[3], p.tid[4],
      p.mid[1], p.mid[2], p.mid[3], p.mid[4], p.pLen, p.cmd>> \o payload

PACKET_IsRawValid(raw) == raw[1] = Preamble[1] /\ raw[2] = Preamble[2]

\* The header is copied byte by byte, the payload with the length the header states
PACKET_Get(raw) ==
    [preamble |-> <<raw[1], raw[2]>>, src |-> raw[3], dst |-> raw[4],
     tid |-> <<raw[5], raw[6], raw[7], raw[8]>>, mid |-> <<raw[9], raw[10], raw[11], raw[12]>>,
     pLen |-> raw[13], cmd |-> raw[14]]
PayloadOf(raw) == SubSeq(raw, PACKET_BASE_LEN + 1, PACKET_BASE_LEN + raw[13])

-----------------------------------------------------------------------------
(* Payloads                                                                *)

LASER_DX == 1
LASER_SX == 2
LOBYTE(w) == w % 256
HIBYTE(w) == (w \div 256) % 256

\* A channel is its bit in the mask, which is also its status when active
PositionStatus(mask, active) == <<mask, IF active THEN mask ELSE 0>>

\* BQ27441_Command
BQ27441_VOLTAGE == 4
BQ27441_AVERAGE_CURRENT == 16
BQ27441_STATE_OF_CHARGE == 28

BatteryData(cmd, data) == <<cmd, HIBYTE(data), LOBYTE(data)>>

RUN_MODE_POSITIONING == 1

\* Two bytes, mode and channels; a payload of another command or too short changes nothing
RunModeGiven(p, payload) == p.cmd = BLE_CMD_MODE /\ Len(payload) >= 2
=============================================================================
