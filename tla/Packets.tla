------------------------------- MODULE Packets -------------------------------
(***************************************************************************)
(* The life of a packet on the heap, across all applications: received by  *)
(* BleApp, handed to the main application through SYS_MSG, answered, freed *)
(* there, the answer copied and freed by bleOutgoingCallback, the copy     *)
(* freed when it has been transmitted.                                     *)
(*                                                                         *)
(* A handler of the main loop runs in one step or, where it allocates and  *)
(* frees at both ends, in several; reports from interrupts come in         *)
(* between.  Lasers, buffers and bus are in the other modules.             *)
(***************************************************************************)
EXTENDS SomParser, FiniteSets

CONSTANTS
    Blocks,      \* heap blocks; every packet, payload and copy takes one
    NULL,
    QueueMax,    \* messages SYS_MSG holds (64)
    Slots,       \* MAX_BLE_OUT_QUEUE (10)
    Inputs,      \* commands the phone sends: [cmd, data]
    ReqMax, ReportMax, ReopenMax   \* bounds: packets received, reports, restarts

ASSUME PacketBoundsAssumption ==
    /\ NULL \notin Blocks /\ IsFiniteSet(Blocks)
    /\ {QueueMax, Slots, ReqMax, ReportMax, ReopenMax} \subseteq Nat

\* A payload fits the length byte; the packets of the phone are numbered in one byte
ASSUME InputsAssumption ==
    /\ \A c \in Inputs : c.cmd \in Byte /\ c.data \in Seq(Byte) /\ Len(c.data) \in Byte
    /\ ReqMax \in Byte

VARIABLES
    heap,       \* [live, mem]: blocks allocated, what blocks hold
    msgs,       \* the queue of SYS_MSG: [to, packet]
    inbox,      \* packets in the main application's mailbox
    job,        \* MSG_Tasks or SYS_MSG_Tasks between two steps: [at, in, out, left]
    out_queue,  \* buff of each slot
    line,       \* slots being transmitted, in order
    requests,   \* pending battery requests: [packet, cmd], user_data and gauge command
    mailboxes,  \* outgoing mailboxes open
    runMode, activeChannels,
    probes,     \* pending status callbacks: [ch, overtaken]
    halted,     \* "trap": the exception handler; "astray": anything may happen, after a jump to
                \* nowhere or a write over the stack; "double free": the heap is corrupt
    \* history
    nReceived, reports,
    asked,      \* transactions of commands accepted and not answered
    lost        \* blocks nobody will free

pkVars == <<heap, msgs, inbox, job, out_queue, line, requests, mailboxes, runMode,
            activeChannels, probes, halted, nReceived, reports, asked, lost>>

None == [at |-> "none", in |-> NULL, out |-> NULL, left |-> 0]
Random == <<9, 8, 7, 6>>
Garbage == [PACKET_Create(Random, Random) EXCEPT !.preamble = <<0, 0>>]

PacketBlock(p) == [packet |-> p, payload |-> NULL, data |-> <<>>]
\* Read as a packet, a copy of one has its header, other bytes have none
DataBlock(bytes) ==
    [packet |-> IF Len(bytes) >= PACKET_BASE_LEN THEN PACKET_Get(bytes) ELSE Garbage,
     payload |-> NULL, data |-> bytes]
Junk == DataBlock(<<>>)

PkInit ==
    /\ heap = [live |-> {}, mem |-> [b \in Blocks |-> Junk]]
    /\ msgs = <<>> /\ inbox = <<>> /\ job = None
    /\ out_queue = [i \in 1 .. Slots |-> NULL] /\ line = <<>>
    /\ requests = <<>> /\ mailboxes = 1
    /\ runMode = 0 /\ activeChannels = 0 /\ probes = <<>> /\ halted = "no"
    /\ nReceived = 0 /\ reports = 0 /\ asked = {} /\ lost = {}

-----------------------------------------------------------------------------
(* The heap                                                                *)

\* The possible results of malloc: heap and block
Malloc(h, content) ==
    IF h.live = Blocks THEN {<<h, NULL>>}
    ELSE {<<[live |-> h.live \cup {b}, mem |-> [h.mem EXCEPT ![b] = content]], b>> :
             b \in Blocks \ h.live}

\* Fault: the payload is forgotten
PacketOnly(h, b) == {b}

\* Blocks that PACKET_Free frees: the payload only if the length is not zero
Parts(h, b) ==
    {b} \cup (IF h.mem[b].packet.pLen > 0 THEN {h.mem[b].payload} \ {NULL} ELSE {})

\* What a freed block held is kept while something points to it
Freed(h, S, pointed) ==
    [live |-> h.live \ S, mem |-> [b \in Blocks |-> IF b \in S \ pointed THEN Junk ELSE h.mem[b]]]
Requested(reqs) == {reqs[i].packet : i \in 1 .. Len(reqs)}
Pointed == Requested(requests)

\* Fault: without memory the packet is left without a payload
SetPayloadOrNothing(h, b, bytes) ==
    {IF m[2] = NULL THEN h
     ELSE [m[1] EXCEPT !.mem[b].payload = m[2], !.mem[b].packet.pLen = Len(bytes)] :
        m \in Malloc(h, DataBlock(bytes))}

\* The length is set first; without memory, -1 is returned, which nobody looks at
PACKET_SetPayload(h, b, bytes) ==
    LET old == Freed(h, {h.mem[b].payload} \ {NULL}, Pointed)
    IN {[m[1] EXCEPT !.mem[b].payload = m[2], !.mem[b].packet.pLen = Len(bytes)] :
           m \in Malloc(old, DataBlock(bytes))}

\* A packet is allocated and, if it is to have one, its payload
NewPacket(p, bytes) ==
    UNION {IF m[2] = NULL \/ bytes = <<>> THEN {m}
           ELSE {<<h, m[2]>> : h \in PACKET_SetPayload(m[1], m[2], bytes)} :
               m \in Malloc(heap, PacketBlock(p))}

Payload(b) == IF heap.mem[b].payload = NULL THEN <<>> ELSE heap.mem[heap.mem[b].payload].data
NoPayload(h, b) == h.mem[b].packet.pLen > 0 /\ h.mem[b].payload = NULL
NoMemory(m) == IF m[2] = NULL THEN TRUE ELSE NoPayload(m[1], m[2])

-----------------------------------------------------------------------------
Running == halted = "no"
Idle == Running /\ job = None

\* The program stops here, or nobody knows what it does next
Halt(why) ==
    /\ halted' = why
    /\ UNCHANGED <<heap, msgs, inbox, job, out_queue, line, requests, mailboxes, runMode,
                   activeChannels, probes, nReceived, reports, asked, lost>>

\* Fault: the queue takes any number of messages
SendUnbounded(to, h, b) == msgs' = Append(msgs, [to |-> to, packet |-> b]) /\ UNCHANGED lost

\* SYS_MSG_MessageSend of packet b, allocated in heap h.  A refused packet is freed by nobody
Send(to, h, b) ==
    \/ /\ Len(msgs) < QueueMax
       /\ msgs' = Append(msgs, [to |-> to, packet |-> b]) /\ UNCHANGED lost
    \/ /\ Len(msgs) >= QueueMax
       /\ lost' = lost \cup Parts(h, b) /\ UNCHANGED msgs

\* A packet of the applications' own making: allocate and send
CreateAndSend(p, bytes) ==
    \E m \in NewPacket(p, bytes) :
       \/ m[2] = NULL /\ halted' = "trap" /\ UNCHANGED <<heap, msgs, lost>>
       \/ m[2] # NULL /\ heap' = m[1] /\ Send("ble", m[1], m[2]) /\ UNCHANGED halted

Created(dst, cmd) ==
    PACKET_SetCommand(PACKET_SetDestination(PACKET_Create(Random, Random), dst), cmd)

-----------------------------------------------------------------------------
(* BleApp, receiving                                                       *)

\* What the phone sends as its nth packet
Sent(n, c) ==
    [preamble |-> Preamble, src |-> DEV_APPLICATION, dst |-> DEV_MASTER, tid |-> <<0, 0, 0, n>>,
     mid |-> <<0, 0, 0, n>>, pLen |-> Len(c.data), cmd |-> c.cmd]

\* manageBleAppMessage; a battery request keeps a pointer to the packet, which is freed at once, and
\* the first byte as gauge command, unchecked.  Two requests stand for ten; BQ27441_GetData refuses
\* another one
Manage(h, b) ==
    LET battery == h.mem[b].packet.cmd = BLE_CMD_GET_BAT_DATA
        request == [packet |-> b, cmd |-> h.mem[h.mem[b].payload].data[1]]
    IN \/ battery /\ h.mem[b].payload = NULL /\ halted' = "trap" /\ UNCHANGED <<heap, requests>>
       \/ /\ ~(battery /\ h.mem[b].payload = NULL)
          /\ requests' = IF battery /\ Len(requests) < 2 THEN Append(requests, request) ELSE requests
          /\ heap' = Freed(h, Parts(h, b), Requested(requests'))
          /\ UNCHANGED halted

Receive(c) ==
    /\ Idle /\ nReceived < ReqMax
    /\ nReceived' = nReceived + 1
    /\ LET raw == PACKET_GetByteArray(Sent(nReceived + 1, c), c.data)
           p == PACKET_Get(raw)
       IN \E m \in NewPacket(p, PayloadOf(raw)) :
          \/ /\ NoMemory(m)
             /\ halted' = "trap" /\ UNCHANGED <<heap, msgs, requests, asked, lost>>
          \/ /\ ~NoMemory(m) /\ p.cmd < MAINAPP_CMD_OFFSET
             /\ Manage(m[1], m[2])
             /\ UNCHANGED <<msgs, asked, lost>>
          \/ /\ ~NoMemory(m) /\ p.cmd >= MAINAPP_CMD_OFFSET
             /\ heap' = m[1] /\ Send("main", m[1], m[2])
             /\ asked' = asked \cup {p.tid}
             /\ UNCHANGED <<requests, halted>>
    /\ UNCHANGED <<inbox, job, out_queue, line, mailboxes, runMode, activeChannels, probes,
                   reports>>

\* The UART refused the buffer: the application starts again and opens its mailbox once more.
\* Opening or subscribing may fail
Reopen ==
    /\ Idle /\ mailboxes <= ReopenMax
    /\ mailboxes' = mailboxes + 1
    /\ UNCHANGED <<heap, msgs, inbox, job, out_queue, line, requests, runMode, activeChannels,
                   probes, halted, nReceived, reports, asked, lost>>

-----------------------------------------------------------------------------
(* The main application                                                    *)

\* There is no parser: the table ends at 0x13, and what lies behind it, up to 0xF1, is called unless
\* it is null
Unsupported(p) == p.cmd > BLE_CMD_GET_CHANNEL_STS
Stray(p) == Unsupported(p) /\ p.cmd < BLE_CMD_MAX_CMD

\* MSG_Tasks up to the parser: a reply, or NOT_SUPPORTED, which has no destination
Take ==
    /\ Idle /\ inbox # <<>>
    /\ LET p == heap.mem[Head(inbox)].packet
           unsupported == Unsupported(p)
           reply == IF unsupported THEN Created(0, BLE_CMD_NOT_SUPPORTED)
                    ELSE PACKET_CreateForReply(p, Random)
       IN \E m \in Malloc(heap, PacketBlock(reply)) :
          \/ m[2] = NULL /\ Halt("trap")
          \/ Stray(p) /\ Halt("astray")
          \/ /\ m[2] # NULL /\ heap' = m[1] /\ inbox' = Tail(inbox)
             /\ job' = [at |-> IF unsupported THEN "end" ELSE "parse",
                        in |-> Head(inbox), out |-> m[2], left |-> 0]
             /\ UNCHANGED <<msgs, out_queue, line, requests, mailboxes, runMode, activeChannels,
                            probes, halted, nReceived, reports, asked, lost>>

\* PACKET_SetCommand(out, BLE_CMD_RESPONSE) and the result as payload
Respond(res) ==
    heap' \in PACKET_SetPayload([heap EXCEPT !.mem[job.out].packet =
                                     PACKET_SetCommand(@, BLE_CMD_RESPONSE)], job.out, <<res>>)

\* Pending answers will name other channels than they were asked for
Overtaken == [i \in 1 .. Len(probes) |-> [probes[i] EXCEPT !.overtaken = TRUE]]

In == heap.mem[job.in].packet

\* BLE_CMD_MODE_Parser
Mode ==
    /\ In.cmd = BLE_CMD_MODE
    /\ \/ /\ RunModeGiven(In, Payload(job.in))
          /\ runMode' = Payload(job.in)[1] /\ activeChannels' = Payload(job.in)[2]
          /\ probes' = Overtaken
       \/ ~RunModeGiven(In, Payload(job.in)) /\ UNCHANGED <<runMode, activeChannels, probes>>
    /\ Respond(0)

\* BLE_CMD_START_POS_Parser, BLE_CMD_DONE_POS_Parser: the reply is sent as it was created
StartPos == In.cmd = BLE_CMD_START_POS /\ UNCHANGED <<heap, runMode, activeChannels, probes>>
DonePos == In.cmd = BLE_CMD_DONE_POS /\ UNCHANGED <<heap, runMode, activeChannels, probes>>

\* Fault: the channels asked for are not noted
GetChannelStsUnnoted ==
    /\ In.cmd = BLE_CMD_GET_CHANNEL_STS
    /\ \/ /\ Len(Payload(job.in)) = 1
          /\ UNCHANGED activeChannels
          /\ probes' = Append(Overtaken, [ch |-> Payload(job.in)[1], overtaken |-> FALSE])
          /\ Respond(0)
       \/ /\ Len(Payload(job.in)) # 1
          /\ Respond(255) /\ UNCHANGED <<activeChannels, probes>>
    /\ UNCHANGED runMode

\* BLE_CMD_GET_CHANNEL_STS_Parser; there may be no timer
GetChannelSts ==
    /\ In.cmd = BLE_CMD_GET_CHANNEL_STS
    /\ \/ /\ Len(Payload(job.in)) = 1
          /\ activeChannels' = Payload(job.in)[1]
          /\ \/ /\ probes' = Append(Overtaken, [ch |-> activeChannels', overtaken |-> FALSE])
                /\ Respond(0)
             \/ probes' = Overtaken /\ Respond(255)
       \/ /\ Len(Payload(job.in)) # 1
          /\ Respond(255) /\ UNCHANGED <<activeChannels, probes>>
    /\ UNCHANGED runMode

Parse ==
    /\ Running /\ job.at = "parse"
    /\ Mode \/ (StartPos /\ heap.mem[job.in].payload # NULL) \/ DonePos \/ GetChannelSts
    /\ job' = [job EXCEPT !.at = "end"]
    /\ UNCHANGED <<msgs, inbox, out_queue, line, requests, mailboxes, halted, nReceived, reports,
                   asked, lost>>

\* START_POS without a payload reads through a null pointer; a payload longer than the parser's local
\* is copied over the stack, after which the program goes on (Mode, GetChannelSts) or not
ParseFails ==
    /\ Running /\ job.at = "parse"
    /\ \/ StartPos /\ heap.mem[job.in].payload = NULL /\ Halt("trap")
       \/ In.cmd = BLE_CMD_MODE /\ Len(Payload(job.in)) > 2 /\ Halt("astray")
       \/ In.cmd = BLE_CMD_GET_CHANNEL_STS /\ Len(Payload(job.in)) > 1 /\ Halt("astray")

\* The rest of MSG_Tasks: send the reply, free the packet
End ==
    /\ Running /\ job.at = "end"
    /\ Send("ble", heap, job.out)
    /\ heap' = Freed(heap, Parts(heap, job.in), Pointed)
    /\ job' = None
    /\ UNCHANGED <<inbox, out_queue, line, requests, mailboxes, runMode, activeChannels, probes,
                   halted, nReceived, reports, asked>>

\* 100 ms after a probe: the channels of whatever command came last; their status is left out
ChannelStatusCallback ==
    /\ Idle /\ probes # <<>>
    /\ LET ch == activeChannels % 4
       IN CreateAndSend(Created(DEV_APPLICATION, BLE_CMD_CH_STATUS), <<ch, 0>>)
    /\ probes' = Tail(probes)
    /\ UNCHANGED <<inbox, job, out_queue, line, requests, mailboxes, runMode, activeChannels,
                   nReceived, reports, asked>>

\* wdcb, in an interrupt
Report ==
    /\ Running /\ runMode = RUN_MODE_POSITIONING /\ reports < ReportMax
    /\ CreateAndSend(Created(DEV_APPLICATION, BLE_CMD_POS_STATUS), PositionStatus(LASER_DX, TRUE))
    /\ reports' = reports + 1
    /\ UNCHANGED <<inbox, job, out_queue, line, requests, mailboxes, runMode, activeChannels,
                   probes, nReceived, asked>>

-----------------------------------------------------------------------------
(* BleApp, the battery and sending                                         *)

\* What powercb finds in the block the request packet was in: the packet, the allocator's links,
\* or whatever has been allocated there since
Found(b) ==
    (IF b \in heap.live THEN {} ELSE {Garbage}) \cup {heap.mem[b].packet}

\* The gauge commands powercb has a case for
Reported == {BQ27441_VOLTAGE, BQ27441_AVERAGE_CURRENT, BQ27441_STATE_OF_CHARGE}

\* A reply that is neither sent nor freed
CreateAndForget(p) ==
    \E m \in NewPacket(p, <<>>) :
       \/ m[2] = NULL /\ halted' = "trap" /\ UNCHANGED <<heap, msgs, lost>>
       \/ /\ m[2] # NULL /\ heap' = m[1] /\ lost' = lost \cup Parts(m[1], m[2])
          /\ UNCHANGED <<msgs, halted>>

\* powercb with the gauge's data: other commands have no case, only a reply; or without
Powercb ==
    /\ Idle /\ requests # <<>>
    /\ requests' = Tail(requests)
    /\ \/ \E p \in Found(Head(requests).packet) :
             LET cmd == Head(requests).cmd
                 reply == PACKET_CreateForReply(p, Random)
             IN \/ cmd \in Reported /\ CreateAndSend(reply, BatteryData(cmd, 300))
                \/ cmd \notin Reported /\ CreateAndForget(reply)
       \/ UNCHANGED <<heap, msgs, halted, lost>>
    /\ UNCHANGED <<inbox, job, out_queue, line, mailboxes, runMode, activeChannels, probes,
                   nReceived, reports, asked>>

\* SYS_MSG_Tasks, a message for the main application
Deliver ==
    /\ Idle /\ msgs # <<>> /\ Head(msgs).to = "main"
    /\ msgs' = Tail(msgs) /\ inbox' = Append(inbox, Head(msgs).packet)
    /\ UNCHANGED <<heap, job, out_queue, line, requests, mailboxes, runMode, activeChannels,
                   probes, halted, nReceived, reports, asked, lost>>

FreeSlots == {i \in 1 .. Slots : out_queue[i] = NULL}

\* The packet as it is sent: without a source it is the master's
Outgoing(p) == IF PACKET_GetSource(p) = 0 THEN PACKET_SetSource(p, DEV_MASTER) ELSE p

\* The copy, of packet b with header p
Wire(p, b) == PACKET_GetByteArray(Outgoing(p), Payload(b))

\* PACKET_Free at the end of a callback; the callbacks of further mailboxes still have the pointer
FreePacket(h, b) ==
    /\ heap' = Freed(h, Parts(h, b), IF mailboxes = 1 THEN Pointed ELSE Blocks)
    /\ UNCHANGED halted

\* BufferAddWrite of a copy.  Which slot does not matter here
HandOver(copy) ==
    LET i == CHOOSE s \in FreeSlots : \A t \in FreeSlots : s <= t
    IN out_queue' = [out_queue EXCEPT ![i] = copy] /\ line' = Append(line, i)

\* Without a destination the packet is discarded
Discard(b) ==
    /\ PACKET_GetDestination(heap.mem[b].packet) = 0
    /\ FreePacket(heap, b)
    /\ UNCHANGED <<out_queue, line, lost>>

\* Copy, hand the copy to the UART, free the packet
CopyOut(b) ==
    /\ PACKET_GetDestination(heap.mem[b].packet) # 0 /\ FreeSlots # {}
    /\ \/ /\ NoPayload(heap, b) /\ halted' = "trap" /\ UNCHANGED <<heap, out_queue, line>>
       \/ /\ ~NoPayload(heap, b)
          /\ \E m \in Malloc(heap, DataBlock(Wire(heap.mem[b].packet, b))) :
                \/ m[2] = NULL /\ halted' = "trap" /\ UNCHANGED <<heap, out_queue, line>>
                \/ m[2] # NULL /\ HandOver(m[2]) /\ FreePacket(m[1], b)
    /\ lost' = lost \ Parts(heap, b)

\* All slots are taken: the packet stays allocated
Forget(b) ==
    /\ PACKET_GetDestination(heap.mem[b].packet) # 0 /\ FreeSlots = {}
    /\ lost' = lost \cup Parts(heap, b)
    /\ UNCHANGED <<heap, out_queue, line, halted>>

\* SYS_MSG_Tasks, a message for BleApp
bleOutgoingCallback ==
    /\ Idle /\ msgs # <<>> /\ Head(msgs).to = "ble"
    /\ msgs' = Tail(msgs)
    /\ Discard(Head(msgs).packet) \/ CopyOut(Head(msgs).packet) \/ Forget(Head(msgs).packet)
    /\ job' = IF mailboxes = 1 THEN None
              ELSE [at |-> IF lost' = lost THEN "stale" ELSE "again", in |-> NULL,
                    out |-> Head(msgs).packet, left |-> mailboxes - 1]
    /\ UNCHANGED <<inbox, requests, mailboxes, runMode, activeChannels, probes, nReceived,
                   reports, asked>>

\* The copy of a packet that has been freed: bytes that are no payload any more are zero here
StaleWire(p, b) ==
    PACKET_GetByteArray(Outgoing(p),
        [i \in 1 .. p.pLen |-> IF i <= Len(Payload(b)) THEN Payload(b)[i] ELSE 0])

\* A callback of which packet b has been freed before: what it finds there is copied, handed to the
\* UART and freed again, or whatever is in its place now, unless all slots are taken
CopyStale(b) ==
    /\ \E p \in Found(b) :
          \/ /\ PACKET_GetDestination(p) = 0
             /\ halted' = "double free" /\ UNCHANGED <<heap, out_queue, line>>
          \/ /\ PACKET_GetDestination(p) # 0 /\ FreeSlots = {}
             /\ UNCHANGED <<heap, out_queue, line, halted>>
          \/ /\ PACKET_GetDestination(p) # 0 /\ FreeSlots # {}
             /\ \E m \in Malloc(heap, DataBlock(StaleWire(p, b))) :
                   \/ m[2] = NULL /\ halted' = "trap" /\ UNCHANGED <<heap, out_queue, line>>
                   \/ m[2] # NULL /\ heap' = m[1] /\ HandOver(m[2]) /\ halted' = "double free"
    /\ UNCHANGED lost

\* The callback of each further mailbox gets the same message
CallbackAgain ==
    /\ Running
    /\ \/ job.at = "again" /\ (CopyOut(job.out) \/ Forget(job.out))
       \/ job.at = "stale" /\ CopyStale(job.out)
    /\ job' = IF job.left = 1 THEN None
              ELSE [job EXCEPT !.at = IF lost' = lost THEN @ ELSE "stale", !.left = @ - 1]
    /\ UNCHANGED <<msgs, inbox, requests, mailboxes, runMode, activeChannels, probes, nReceived,
                   reports, asked>>

\* A reply of the main application: a response with its result, or the command sent back.  A battery
\* answer has three bytes, whatever else powercb has found
IsAnswer(raw) ==
    \/ raw[14] = BLE_CMD_RESPONSE /\ PayloadOf(raw) \in {<<0>>, <<255>>}
    \/ raw[14] \in {BLE_CMD_START_POS, BLE_CMD_DONE_POS} /\ PayloadOf(raw) = <<>>

\* The UART interrupt with hm10EventHandler: the phone has the packet, the copy is freed.  What has
\* been handed over is transmitted even if the heap is corrupt
Transmitted ==
    /\ halted \in {"no", "double free"} /\ line # <<>>
    /\ LET copy == out_queue[Head(line)]
           raw == heap.mem[copy].data
       IN /\ asked' = IF IsAnswer(raw) THEN asked \ {PACKET_Get(raw).tid} ELSE asked
          /\ heap' = Freed(heap, {copy}, Pointed)
    /\ out_queue' = [out_queue EXCEPT ![Head(line)] = NULL]
    /\ line' = Tail(line)
    /\ UNCHANGED <<msgs, inbox, job, requests, mailboxes, runMode, activeChannels, probes, halted,
                   nReceived, reports, lost>>

-----------------------------------------------------------------------------
PkNext ==
    \/ \E c \in Inputs : Receive(c)
    \/ Reopen \/ Take \/ Parse \/ ParseFails \/ End \/ ChannelStatusCallback \/ Report \/ Powercb
    \/ Deliver \/ bleOutgoingCallback \/ CallbackAgain \/ Transmitted

PkSpec == PkInit /\ [][PkNext]_pkVars
=============================================================================
