---------------------------- MODULE PacketsProofs ----------------------------
(***************************************************************************)
(* Packets and their codec.  Fields read back what was set, a reply goes   *)
(* back in the transaction of its request, decoding undoes encoding; every *)
(* block of the heap has one owner, what goes over the line is a packet,   *)
(* and an answer matches its command, for any number of blocks, slots,     *)
(* messages, packets and restarts.                                         *)
(***************************************************************************)
EXTENDS PacketsProps, SequenceTheorems, FiniteSetTheorems, WellFoundedInduction, TLAPS

-----------------------------------------------------------------------------
(* The codec                                                               *)

\* Two packets in memory are equal when all their fields are.
LEMMA PacketEquality ==
    ASSUME NEW p \in Packet, NEW q \in Packet,
           p.preamble = q.preamble, p.src = q.src, p.dst = q.dst, p.tid = q.tid,
           p.mid = q.mid, p.pLen = q.pLen, p.cmd = q.cmd
    PROVE  p = q
BY DEF Packet

\* Conversion keeps four bytes four bytes.
LEMMA SwapWord == ASSUME NEW w \in Word PROVE swapEndian(w) \in Word
BY DEF Word, swapEndian

\* swapEndian is its own inverse (somparser.c:10): what a setter converts the
\* getter converts back.
THEOREM SwapTwice == ASSUME NEW w \in Word PROVE swapEndian(swapEndian(w)) = w
<1>1. swapEndian(swapEndian(w)) \in Word
  BY SwapWord
<1>2. \A i \in 1 .. 4 : swapEndian(swapEndian(w))[i] = w[i]
  BY DEF swapEndian, Word
<1> QED
  BY <1>1, <1>2 DEF Word

-----------------------------------------------------------------------------
\* What is set is what is read, in the byte order of the caller
\* (somparser.c:27, 33, 67, 72); nothing else changes.
THEOREM FieldsReadBack ==
    ASSUME NEW p \in Packet, NEW w \in Word
    PROVE  /\ PACKET_GetTransactionID(PACKET_SetTransactionID(p, w)) = w
           /\ PACKET_GetMessageID(PACKET_SetMessageID(p, w)) = w
           /\ PACKET_GetMessageID(PACKET_SetTransactionID(p, w)) = PACKET_GetMessageID(p)
           /\ PACKET_GetTransactionID(PACKET_SetMessageID(p, w)) = PACKET_GetTransactionID(p)
<1>1. swapEndian(swapEndian(w)) = w
  BY SwapTwice
<1> QED
  BY <1>1 DEF Packet, PACKET_SetTransactionID, PACKET_GetTransactionID, PACKET_SetMessageID,
              PACKET_GetMessageID

\* A new packet is a packet.
LEMMA CreatedIsPacket ==
    ASSUME NEW r \in Word, NEW r2 \in Word
    PROVE  PACKET_Create(r, r2) \in Packet
<1>1. swapEndian(r) \in Word /\ swapEndian(r2) \in Word
  BY SwapWord
<1>2. Preamble \in [1 .. 2 -> Byte]
  BY DEF Preamble, Byte
<1> QED
  BY <1>1, <1>2 DEF PACKET_Create, Packet, Byte

\* A reply goes back to where the request came from, in the same transaction, byte
\* by byte, with the same command and no payload (PACKET_CreateForReply,
\* somparser.c:131).
THEOREM ReplyMatches ==
    ASSUME NEW p \in Packet, NEW mid \in Word
    PROVE  LET r == PACKET_CreateForReply(p, mid)
           IN /\ r \in Packet
              /\ r.tid = p.tid /\ r.dst = p.src /\ r.src = p.dst /\ r.cmd = p.cmd
              /\ r.preamble = Preamble /\ r.pLen = 0
              /\ PACKET_GetMessageID(r) = mid
<1> DEFINE pp == PACKET_Create(mid, mid)
           r == PACKET_CreateForReply(p, mid)
<1>1. pp \in Packet /\ pp.preamble = Preamble /\ pp.pLen = 0
  BY CreatedIsPacket DEF PACKET_Create
<1>2. p.tid \in Word /\ swapEndian(swapEndian(p.tid)) = p.tid
  BY SwapTwice DEF Packet
<1>3. swapEndian(mid) \in Word /\ swapEndian(swapEndian(mid)) = mid
  BY SwapTwice, SwapWord
<1>4. r = [pp EXCEPT !.cmd = p.cmd, !.dst = p.src, !.src = p.dst, !.tid = p.tid,
                     !.mid = swapEndian(mid)]
  BY <1>1, <1>2 DEF Packet, PACKET_CreateForReply, PACKET_SetCommand, PACKET_SetDestination,
     PACKET_SetSource, PACKET_SetTransactionID, PACKET_SetMessageID, PACKET_GetCommand,
     PACKET_GetSource, PACKET_GetDestination, PACKET_GetTransactionID
<1> QED
  BY <1>1, <1>2, <1>3, <1>4 DEF Packet, PACKET_GetMessageID

-----------------------------------------------------------------------------
\* The fourteen bytes of the header and the payload, one by one.
LEMMA Bytes ==
    ASSUME NEW p \in Packet, NEW payload \in Seq(Byte)
    PROVE  LET raw == PACKET_GetByteArray(p, payload)
           IN /\ raw \in Seq(Byte) /\ Len(raw) = PACKET_BASE_LEN + Len(payload)
              /\ raw[1] = p.preamble[1] /\ raw[2] = p.preamble[2]
              /\ raw[3] = p.src /\ raw[4] = p.dst
              /\ raw[5] = p.tid[1] /\ raw[6] = p.tid[2] /\ raw[7] = p.tid[3] /\ raw[8] = p.tid[4]
              /\ raw[9] = p.mid[1] /\ raw[10] = p.mid[2] /\ raw[11] = p.mid[3] /\ raw[12] = p.mid[4]
              /\ raw[13] = p.pLen /\ raw[14] = p.cmd
              /\ \A i \in 1 .. Len(payload) : raw[PACKET_BASE_LEN + i] = payload[i]
<1> DEFINE header ==
      <<p.preamble[1], p.preamble[2], p.src, p.dst, p.tid[1], p.tid[2], p.tid[3], p.tid[4],
        p.mid[1], p.mid[2], p.mid[3], p.mid[4], p.pLen, p.cmd>>
<1>1. header \in Seq(Byte) /\ Len(header) = 14
  BY DEF Packet, Word
<1> QED
  BY <1>1 DEF PACKET_GetByteArray, PACKET_BASE_LEN

\* Decoding undoes encoding, header and payload, whenever the length field is the
\* length of the payload, as PACKET_SetPayload sets it (PACKET_GetByteArray,
\* PACKET_Get, somparser.c:191, 106).
THEOREM RoundTrip ==
    ASSUME NEW p \in Packet, NEW payload \in Seq(Byte), Len(payload) = p.pLen
    PROVE  LET raw == PACKET_GetByteArray(p, payload)
           IN PACKET_Get(raw) = p /\ PayloadOf(raw) = payload /\ Len(raw) = PACKET_GetFullSize(p)
<1> DEFINE raw == PACKET_GetByteArray(p, payload)
           q == PACKET_Get(raw)
<1> HIDE DEF raw
<1>1. /\ raw \in Seq(Byte) /\ Len(raw) = 14 + Len(payload)
      /\ raw[1] = p.preamble[1] /\ raw[2] = p.preamble[2]
      /\ raw[3] = p.src /\ raw[4] = p.dst
      /\ raw[5] = p.tid[1] /\ raw[6] = p.tid[2] /\ raw[7] = p.tid[3] /\ raw[8] = p.tid[4]
      /\ raw[9] = p.mid[1] /\ raw[10] = p.mid[2] /\ raw[11] = p.mid[3] /\ raw[12] = p.mid[4]
      /\ raw[13] = p.pLen /\ raw[14] = p.cmd
      /\ \A i \in 1 .. Len(payload) : raw[14 + i] = payload[i]
  BY Bytes DEF raw, PACKET_BASE_LEN
<1>2. q = p
  <2>1. <<raw[1], raw[2]>> = p.preamble
    BY <1>1 DEF Packet
  <2>2. <<raw[5], raw[6], raw[7], raw[8]>> = p.tid
    BY <1>1 DEF Packet, Word
  <2>3. <<raw[9], raw[10], raw[11], raw[12]>> = p.mid
    BY <1>1 DEF Packet, Word
  <2>4. q \in Packet
    BY <1>1, <2>1, <2>2, <2>3 DEF Packet, PACKET_Get
  <2> QED
    BY <1>1, <2>1, <2>2, <2>3, <2>4, PacketEquality DEF PACKET_Get
<1>3. PayloadOf(raw) = payload
  <2>1. PayloadOf(raw) = SubSeq(raw, 15, 14 + Len(payload))
    BY <1>1 DEF PayloadOf, PACKET_BASE_LEN
  <2>2. /\ SubSeq(raw, 15, 14 + Len(payload)) \in Seq(Byte)
        /\ Len(SubSeq(raw, 15, 14 + Len(payload))) = Len(payload)
        /\ \A i \in 1 .. Len(payload) : SubSeq(raw, 15, 14 + Len(payload))[i] = raw[14 + i]
    <3>1. Len(payload) \in Nat /\ 15 \in Int /\ 14 + Len(payload) \in Int
      OBVIOUS
    <3>2. \A i \in 15 .. 14 + Len(payload) : raw[i] \in Byte
      BY <1>1, <3>1
    <3>3. /\ SubSeq(raw, 15, 14 + Len(payload)) \in Seq(Byte)
          /\ Len(SubSeq(raw, 15, 14 + Len(payload)))
                = IF 15 <= 14 + Len(payload) THEN 14 + Len(payload) - 15 + 1 ELSE 0
          /\ \A i \in 1 .. 14 + Len(payload) - 15 + 1 :
                SubSeq(raw, 15, 14 + Len(payload))[i] = raw[15 + i - 1]
      BY <3>1, <3>2, SubSeqProperties
    <3> QED
      BY <3>1, <3>3
  <2>3. Len(PayloadOf(raw)) = Len(payload)
        /\ \A i \in 1 .. Len(PayloadOf(raw)) : PayloadOf(raw)[i] = payload[i]
    BY <1>1, <2>1, <2>2
  <2> QED
    BY <2>1, <2>2, <2>3, SeqEqual
<1>4. Len(raw) = PACKET_GetFullSize(p)
  BY <1>1 DEF PACKET_GetFullSize, PACKET_BASE_LEN
<1> QED
  BY <1>2, <1>3, <1>4 DEF raw

-----------------------------------------------------------------------------
(* The invariant                                                           *)

Content == [packet : Packet, payload : Blocks \cup {NULL}, data : Seq(Byte)]
Heap == [live : SUBSET Blocks, mem : [Blocks -> Content]]
Message == [to : {"main", "ble"}, packet : Blocks]
Request == [packet : Blocks, cmd : Byte]
Probe == [ch : Byte, overtaken : BOOLEAN]
Job == [at : {"none", "parse", "end", "again", "stale"}, in : Blocks \cup {NULL},
        out : Blocks \cup {NULL}, left : Nat]

\* Every variable has its type.
PkTyped ==
    /\ heap \in Heap
    /\ msgs \in Seq(Message) /\ Len(msgs) <= QueueMax
    /\ inbox \in Seq(Blocks)
    /\ job \in Job
    /\ out_queue \in [1 .. Slots -> Blocks \cup {NULL}]
    /\ line \in Seq(1 .. Slots)
    /\ requests \in Seq(Request)
    /\ mailboxes \in Nat \ {0}
    /\ runMode \in Byte /\ activeChannels \in Byte
    /\ probes \in Seq(Probe)
    /\ halted \in {"no", "trap", "astray", "double free"}
    /\ nReceived \in 0 .. ReqMax /\ reports \in Nat
    /\ asked \in SUBSET Word /\ lost \in SUBSET Blocks

\* In heap h the packets R, the copies C and the blocks L are all there is, and have nothing in
\* common
Owns(h, R, C, L) ==
    /\ C \subseteq h.live /\ L \subseteq h.live /\ C \cap L = {}
    /\ \A r \in R : r \in Blocks /\ Parts(h, r) \subseteq h.live \ (C \cup L)
    /\ \A r, s \in R : r # s => Parts(h, r) \cap Parts(h, s) = {}
    /\ \A x \in h.live \ (C \cup L) : \E r \in R : x \in Parts(h, r)

\* A packet's length is that of its payload, unless there was no memory for it
Sound(h, b) ==
    LET c == h.mem[b]
    IN c.payload # NULL => c.packet.pLen > 0 /\ c.packet.pLen = Len(h.mem[c.payload].data)

QueuedFor(to) == {msgs[i].packet : i \in {j \in 1 .. Len(msgs) : msgs[j].to = to}}
Queued == {msgs[i].packet : i \in 1 .. Len(msgs)}
InBox == {inbox[i] : i \in 1 .. Len(inbox)}
AtWork == IF job.in = NULL THEN {} ELSE {job.in, job.out}
Forgotten == IF job.at = "again" THEN {job.out} ELSE {}
Roots == Queued \cup InBox \cup AtWork
Copies == {out_queue[i] : i \in {j \in 1 .. Slots : out_queue[j] # NULL}}

\* Nothing is in two places.
OnceQueued == \A i, j \in 1 .. Len(msgs) : msgs[i].packet = msgs[j].packet => i = j
OnceInBox == \A i, j \in 1 .. Len(inbox) : inbox[i] = inbox[j] => i = j
OnceInSlot == \A i, j \in 1 .. Slots : out_queue[i] = out_queue[j] /\ out_queue[i] # NULL => i = j
Separate ==
    /\ OnceQueued /\ OnceInBox /\ OnceInSlot
    /\ Queued \cap InBox = {} /\ AtWork \cap (Queued \cup InBox) = {}

\* What is being transmitted is in a slot, once.
InSlots ==
    /\ \A k \in 1 .. Len(line) : out_queue[line[k]] # NULL
    /\ \A k, m \in 1 .. Len(line) : line[k] = line[m] => k = m

\* A handler between two steps has a command and its reply; the callback of a further mailbox a
\* packet one before has freed or lost.
JobMatches ==
    /\ job.at \in {"parse", "end"} <=> job.in # NULL
    /\ job.in # NULL => job.out # NULL /\ job.in # job.out
    /\ job.at \in {"again", "stale"} => mailboxes > 1 /\ job.out # NULL /\ job.left > 0
    /\ job.at = "again" => Parts(heap, job.out) \subseteq lost
    /\ job.at = "parse" => heap.mem[job.out].payload = NULL

Owned ==
    /\ Owns(heap, Roots, Copies, lost) /\ Separate /\ InSlots /\ JobMatches
    /\ \A b \in Roots \cup Forgotten : Sound(heap, b)

\* A response to be sent has a result.
HasResult(h, b) == h.mem[b].packet.cmd = BLE_CMD_RESPONSE => h.mem[b].packet.pLen > 0
Results ==
    /\ \A b \in QueuedFor("ble") : HasResult(heap, b)
    /\ job.at \in {"end", "again"} => HasResult(heap, job.out)

\* Packet b will be an answer
Answers(h, b) ==
    LET c == h.mem[b]
    IN \/ /\ c.packet.cmd = BLE_CMD_RESPONSE /\ c.payload # NULL
          /\ h.mem[c.payload].data \in {<<0>>, <<255>>}
       \/ c.packet.cmd \in {BLE_CMD_START_POS, BLE_CMD_DONE_POS} /\ c.packet.pLen = 0

\* The blocks from which an answer of the main application may still come
Commands == QueuedFor("main") \cup InBox \cup (IF job.in = NULL THEN {} ELSE {job.in})
Replies == {b \in QueuedFor("ble") \cup Forgotten : Answers(heap, b)}
AnswerCopies == {c \in Copies : IsAnswer(heap.mem[c].data)}

Tid(b) == IF b \in Copies THEN PACKET_Get(heap.mem[b].data).tid ELSE heap.mem[b].packet.tid

\* Each of them belongs to a command of its own, which the phone has sent and waits for.
Sources == Commands \cup Replies \cup AnswerCopies
Awaited ==
    /\ \A b \in Sources : Tid(b) \in asked
    /\ \A b, c \in Sources : Tid(b) = Tid(c) => b = c
    /\ \A t \in asked : \E n \in 1 .. nReceived : t = <<0, 0, 0, n>>
    /\ \A b \in Commands : heap.mem[b].packet.src = DEV_APPLICATION
    /\ \A b \in Replies : heap.mem[b].packet.dst = DEV_APPLICATION
    /\ \A c \in AnswerCopies : PACKET_Get(heap.mem[c].data).dst = DEV_APPLICATION

\* A reply being made, if it is or will be an answer, matches its command.
ReplyFits ==
    job.in # NULL /\ (job.at = "parse" \/ Answers(heap, job.out))
       => /\ heap.mem[job.out].packet.tid = heap.mem[job.in].packet.tid
          /\ heap.mem[job.out].packet.dst = heap.mem[job.in].packet.src
          /\ job.at = "parse" => heap.mem[job.out].packet.cmd = heap.mem[job.in].packet.cmd

\* A probe that has not been overtaken is about the channels asked for last.
Named == \A i \in 1 .. Len(probes) : ~probes[i].overtaken => probes[i].ch = activeChannels

\* Types hold at all times, owners as long as the program runs; a double free takes a second mailbox.
OwnersInv ==
    /\ PkTyped
    /\ Running => Owned
    /\ halted = "double free" => mailboxes > 1

PkInv ==
    /\ OwnersInv /\ Named
    /\ Running => WellFormed /\ Results /\ ReplyFits /\ Awaited

-----------------------------------------------------------------------------
(* The heap                                                                *)

\* What a packet in heap h has for a payload
PayloadIn(h, b) == IF h.mem[b].payload = NULL THEN <<>> ELSE h.mem[h.mem[b].payload].data

\* h2 is heap h with packet b added, and its payload if it has one; everything else stays
Grown(h, h2, b) ==
    /\ h2 \in Heap /\ b \in Blocks \ h.live
    /\ h2.live = h.live \cup Parts(h2, b) /\ Parts(h2, b) \cap h.live = {}
    /\ \A x \in h.live : h2.mem[x] = h.mem[x]

\* The parts of a packet are its block and its payload.
LEMMA PartsAre ==
    ASSUME NEW h \in Heap, NEW b \in Blocks
    PROVE  /\ b \in Parts(h, b) /\ Parts(h, b) \subseteq Blocks
           /\ \A x \in Parts(h, b) : x # b => x = h.mem[b].payload /\ h.mem[b].packet.pLen > 0
           /\ h.mem[b].payload # NULL /\ h.mem[b].packet.pLen > 0
                 => Parts(h, b) = {b, h.mem[b].payload}
           /\ ~(h.mem[b].payload # NULL /\ h.mem[b].packet.pLen > 0) => Parts(h, b) = {b}
BY PacketBoundsAssumption DEF Parts, Heap, Content

\* Parts are the same in two heaps that hold the same packet.
LEMMA PartsSame ==
    ASSUME NEW h, NEW h2, NEW b, h2.mem[b] = h.mem[b]
    PROVE  Parts(h2, b) = Parts(h, b)
BY DEF Parts

\* malloc returns NULL and leaves the heap alone, or a free block with the content asked for.
LEMMA MallocGives ==
    ASSUME NEW h \in Heap, NEW c \in Content, NEW m \in Malloc(h, c)
    PROVE  /\ m[1] \in Heap
           /\ \/ m[2] = NULL /\ m[1] = h
              \/ /\ m[2] \in Blocks \ h.live /\ m[2] # NULL
                 /\ m[1].live = h.live \cup {m[2]} /\ m[1].mem[m[2]] = c
                 /\ \A x \in Blocks \ {m[2]} : m[1].mem[x] = h.mem[x]
<1>1. CASE h.live = Blocks
  BY <1>1 DEF Malloc
<1>2. CASE h.live # Blocks
  <2>1. PICK b \in Blocks \ h.live :
           m = <<[live |-> h.live \cup {b}, mem |-> [h.mem EXCEPT ![b] = c]], b>>
    BY <1>2 DEF Malloc
  <2>2. [live |-> h.live \cup {b}, mem |-> [h.mem EXCEPT ![b] = c]] \in Heap
    BY DEF Heap
  <2> QED
    BY <2>1, <2>2, PacketBoundsAssumption DEF Heap
<1> QED
  BY <1>1, <1>2

\* The contents of new blocks.
LEMMA Blank ==
    /\ Garbage \in Packet
    /\ \A p \in Packet : PacketBlock(p) \in Content
    /\ \A d \in Seq(Byte) : DataBlock(d) \in Content
<1>1. Garbage \in Packet
  <2>1. Random \in Word
    BY DEF Random, Word, Byte
  <2>2. PACKET_Create(Random, Random) \in Packet
    BY <2>1, CreatedIsPacket
  <2>3. <<0, 0>> \in [1 .. 2 -> Byte]
    BY DEF Byte
  <2> QED
    BY <2>2, <2>3 DEF Garbage, Packet
<1>2. ASSUME NEW d \in Seq(Byte), Len(d) >= 14
      PROVE  PACKET_Get(d) \in Packet
  <2>1. Len(d) \in Nat /\ \A i \in 1 .. 14 : d[i] \in Byte
    <3>1. Len(d) \in Nat
      BY LenProperties
    <3>2. \A i \in 1 .. 14 : i \in 1 .. Len(d)
      BY <1>2, <3>1
    <3> QED
      BY <3>1, <3>2, ElementOfSeq
  <2>2. /\ d[1] \in Byte /\ d[2] \in Byte /\ d[3] \in Byte /\ d[4] \in Byte /\ d[13] \in Byte
        /\ d[14] \in Byte /\ d[5] \in Byte /\ d[6] \in Byte /\ d[7] \in Byte /\ d[8] \in Byte
        /\ d[9] \in Byte /\ d[10] \in Byte /\ d[11] \in Byte /\ d[12] \in Byte
    BY <2>1
  <2>3. /\ <<d[1], d[2]>> \in [1 .. 2 -> Byte]
        /\ <<d[5], d[6], d[7], d[8]>> \in Word /\ <<d[9], d[10], d[11], d[12]>> \in Word
    BY <2>2 DEF Word
  <2> QED
    BY <2>2, <2>3 DEF PACKET_Get, Packet
<1>3. \A p \in Packet : PacketBlock(p) \in Content
  BY EmptySeq DEF PacketBlock, Content
<1>4. \A d \in Seq(Byte) : DataBlock(d) \in Content
  BY <1>1, <1>2 DEF DataBlock, Content, PACKET_BASE_LEN
<1> QED
  BY <1>1, <1>3, <1>4

\* Freeing S leaves everything but S as it is.
LEMMA FreedLeaves ==
    ASSUME NEW h \in Heap, NEW S, NEW P
    PROVE  /\ Freed(h, S, P) \in Heap /\ Freed(h, S, P).live = h.live \ S
           /\ \A x \in Blocks \ S : Freed(h, S, P).mem[x] = h.mem[x]
<1>1. Junk \in Content
  BY Blank, EmptySeq DEF Junk
<1> QED
  BY <1>1 DEF Freed, Heap

\* A payload is set on a packet that has none: nothing else changes, and the packet has its payload
\* or, without memory, only the length of it.
LEMMA PayloadSet ==
    ASSUME NEW h \in Heap, NEW b \in h.live, h.mem[b].payload = NULL,
           NEW bytes \in Seq(Byte), bytes # <<>>, Len(bytes) \in Byte,
           NEW h2 \in PACKET_SetPayload(h, b, bytes)
    PROVE  /\ h2 \in Heap
           /\ \A x \in h.live \ {b} : h2.mem[x] = h.mem[x]
           /\ h2.mem[b].packet = [h.mem[b].packet EXCEPT !.pLen = Len(bytes)]
           /\ h2.mem[b].data = h.mem[b].data
           /\ \/ h2.mem[b].payload = NULL /\ h2.live = h.live
              \/ /\ h2.mem[b].payload \in Blocks \ h.live
                 /\ h2.live = h.live \cup {h2.mem[b].payload}
                 /\ h2.mem[h2.mem[b].payload] = DataBlock(bytes)
<1> DEFINE S == {h.mem[b].payload} \ {NULL}
           old == Freed(h, S, Pointed)
<1>1. old \in Heap /\ old.live = h.live /\ \A x \in Blocks : old.mem[x] = h.mem[x]
  <2>1. S = {}
    OBVIOUS
  <2> HIDE DEF S
  <2>2. /\ old \in Heap /\ old.live = h.live \ S
        /\ \A x \in Blocks \ S : old.mem[x] = h.mem[x]
    BY FreedLeaves
  <2> HIDE DEF old
  <2> QED
    BY <2>1, <2>2
<1> HIDE DEF old
<1>2. PICK m \in Malloc(old, DataBlock(bytes)) :
         h2 = [m[1] EXCEPT !.mem[b].payload = m[2], !.mem[b].packet.pLen = Len(bytes)]
  BY DEF PACKET_SetPayload, old
<1>3. /\ m[1] \in Heap
      /\ \/ m[2] = NULL /\ m[1] = old
         \/ /\ m[2] \in Blocks \ old.live /\ m[2] # NULL
            /\ m[1].live = old.live \cup {m[2]} /\ m[1].mem[m[2]] = DataBlock(bytes)
            /\ \A x \in Blocks \ {m[2]} : m[1].mem[x] = old.mem[x]
  BY <1>1, Blank, MallocGives
<1>4. b \in Blocks /\ m[2] \in Blocks \cup {NULL} /\ m[2] # b
  BY <1>1, <1>3, PacketBoundsAssumption DEF Heap
<1>5. m[1].mem[b] = h.mem[b]
  BY <1>1, <1>3, <1>4
<1>6. /\ h2 \in Heap /\ h2.live = m[1].live
      /\ \A x \in Blocks \ {b} : h2.mem[x] = m[1].mem[x]
      /\ h2.mem[b].payload = m[2] /\ h2.mem[b].data = h.mem[b].data
      /\ h2.mem[b].packet = [h.mem[b].packet EXCEPT !.pLen = Len(bytes)]
  <2> DEFINE g == m[1]
             v == m[2]
  <2>1. g \in Heap /\ v \in Blocks \cup {NULL}
    BY <1>3, <1>4
  <2>2. h2 = [g EXCEPT !.mem[b].payload = v, !.mem[b].packet.pLen = Len(bytes)]
    BY <1>2
  <2>3. g.mem[b] = h.mem[b]
    BY <1>5
  <2> HIDE DEF g, v
  <2>4. /\ h2 \in Heap /\ h2.live = g.live
        /\ \A x \in Blocks \ {b} : h2.mem[x] = g.mem[x]
        /\ h2.mem[b].payload = v /\ h2.mem[b].data = g.mem[b].data
        /\ h2.mem[b].packet = [g.mem[b].packet EXCEPT !.pLen = Len(bytes)]
    <3> DEFINE n == Len(bytes)
               g1 == [g EXCEPT !.mem[b].payload = v]
               g2 == [g1 EXCEPT !.mem[b].packet.pLen = n]
    <3>1. n \in Byte
      OBVIOUS
    <3>2. h2 = g2
      BY <2>2
    <3> HIDE DEF n, g2
    <3>3. /\ g1 \in Heap /\ g1.live = g.live /\ \A x \in Blocks \ {b} : g1.mem[x] = g.mem[x]
          /\ g1.mem[b].payload = v /\ g1.mem[b].data = g.mem[b].data
          /\ g1.mem[b].packet = g.mem[b].packet
      BY <1>4, <2>1 DEF Heap, Content
    <3> HIDE DEF g1
    <3>4. [g1.mem[b].packet EXCEPT !.pLen = n] \in Packet
      BY <1>4, <3>1, <3>3 DEF Heap, Content, Packet
    <3> DEFINE q == [g1.mem[b].packet EXCEPT !.pLen = n]
               c == [g1.mem[b] EXCEPT !.packet = q]
    <3>5. g2 = [g1 EXCEPT !.mem[b].packet = q]
      BY DEF g2
    <3>6. g2 = [g1 EXCEPT !.mem[b] = c]
      BY <3>5
    <3> HIDE DEF q
    <3>7. c \in Content /\ c.payload = g1.mem[b].payload /\ c.data = g1.mem[b].data /\ c.packet = q
      <4>1. q \in Packet
        BY <3>4 DEF q
      <4>2. g1.mem[b] \in Content
        BY <1>4, <3>3 DEF Heap
      <4> QED
        BY <4>1, <4>2 DEF Content
    <3> HIDE DEF c
    <3>8. g2 \in Heap /\ g2.live = g1.live /\ g2.mem[b] = c /\ \A x \in Blocks \ {b} : g2.mem[x] = g1.mem[x]
      BY <1>4, <3>3, <3>6, <3>7 DEF Heap
    <3>9. g2.mem[b].packet = [g1.mem[b].packet EXCEPT !.pLen = n]
      BY <3>7, <3>8 DEF q
    <3> QED
      BY <3>2, <3>3, <3>7, <3>8, <3>9 DEF n
  <2> QED
    BY <2>3, <2>4 DEF g, v
<1>7. h.live \subseteq Blocks
  BY DEF Heap
<1> QED
  BY <1>1, <1>3, <1>4, <1>6, <1>7

\* A new packet has its payload or, without memory, only the length of it.  Nothing else changes.
LEMMA NewPacketGives ==
    ASSUME heap \in Heap, NEW p \in Packet, NEW bytes \in Seq(Byte), Len(bytes) \in Byte,
           bytes = <<>> => p.pLen = 0, NEW m \in NewPacket(p, bytes), m[2] # NULL
    PROVE  /\ Grown(heap, m[1], m[2]) /\ Sound(m[1], m[2])
           /\ m[1].mem[m[2]].packet = [p EXCEPT !.pLen = Len(bytes)]
           /\ m[1].mem[m[2]].data = <<>>
           /\ bytes = <<>> => m[1].mem[m[2]].payload = NULL
           /\ m[1].mem[m[2]].payload # NULL => m[1].mem[m[1].mem[m[2]].payload].data = bytes
<1>1. PICK k \in Malloc(heap, PacketBlock(p)) :
         m \in IF k[2] = NULL \/ bytes = <<>> THEN {k}
               ELSE {<<h, k[2]>> : h \in PACKET_SetPayload(k[1], k[2], bytes)}
  BY DEF NewPacket
<1>2. m[2] = k[2]
  BY <1>1
<1>3. /\ k[1] \in Heap /\ k[2] \in Blocks \ heap.live
      /\ k[1].live = heap.live \cup {k[2]} /\ k[1].mem[k[2]] = PacketBlock(p)
      /\ \A x \in Blocks \ {k[2]} : k[1].mem[x] = heap.mem[x]
  BY <1>2, Blank, MallocGives
<1>4. /\ k[1].mem[k[2]].packet = p /\ k[1].mem[k[2]].payload = NULL /\ k[1].mem[k[2]].data = <<>>
  BY <1>3 DEF PacketBlock
<1>5. heap.live \subseteq Blocks
  BY DEF Heap
<1>6. CASE bytes = <<>>
  <2>1. m = k
    BY <1>1, <1>2, <1>6
  <2>2. Parts(k[1], k[2]) = {k[2]}
    BY <1>3, <1>4, PartsAre
  <2>3. Grown(heap, k[1], k[2])
    BY <1>3, <1>5, <2>2 DEF Grown
  <2>4. Len(bytes) = 0 /\ p.pLen = 0
    BY <1>6
  <2>5. [p EXCEPT !.pLen = Len(bytes)] = p
    BY <2>4 DEF Packet
  <2> QED
    BY <1>4, <2>1, <2>3, <2>5 DEF Sound
<1>7. CASE bytes # <<>>
  <2> DEFINE h == k[1]
             b == k[2]
             h2 == m[1]
  <2>1. h2 \in PACKET_SetPayload(h, b, bytes)
    BY <1>1, <1>2, <1>7
  <2>2. h \in Heap /\ b \in h.live /\ h.mem[b].payload = NULL
    BY <1>3, <1>4
  <2>3. b \in Blocks /\ b \notin heap.live /\ h.live = heap.live \cup {b}
    BY <1>3
  <2>4. h.mem[b].packet = p /\ h.mem[b].data = <<>> /\ \A x \in heap.live : h.mem[x] = heap.mem[x]
    BY <1>3, <1>4, <1>5
  <2> HIDE DEF h, b, h2
  <2>5. /\ h2 \in Heap
        /\ \A x \in h.live \ {b} : h2.mem[x] = h.mem[x]
        /\ h2.mem[b].packet = [h.mem[b].packet EXCEPT !.pLen = Len(bytes)]
        /\ h2.mem[b].data = h.mem[b].data
        /\ \/ h2.mem[b].payload = NULL /\ h2.live = h.live
           \/ /\ h2.mem[b].payload \in Blocks \ h.live
              /\ h2.live = h.live \cup {h2.mem[b].payload}
              /\ h2.mem[h2.mem[b].payload] = DataBlock(bytes)
    BY <1>7, <2>1, <2>2, PayloadSet
  <2>6. h2.mem[b].packet = [p EXCEPT !.pLen = Len(bytes)] /\ h2.mem[b].data = <<>>
    BY <2>4, <2>5
  <2>7. h2.mem[b].packet.pLen = Len(bytes) /\ Len(bytes) > 0 /\ Len(bytes) \in Nat
    BY <1>7, <2>6 DEF Packet
  <2>8. h2.mem[b].payload # NULL
           => /\ h2.mem[b].payload \in Blocks \ h.live /\ h2.live = h.live \cup {h2.mem[b].payload}
              /\ h2.mem[h2.mem[b].payload].data = bytes
    BY <2>5, PacketBoundsAssumption DEF DataBlock
  <2>9. Grown(heap, h2, b)
    <3>1. \A x \in heap.live : h2.mem[x] = heap.mem[x]
      BY <2>3, <2>4, <2>5
    <3>2. CASE h2.mem[b].payload = NULL
      <4>1. Parts(h2, b) = {b} /\ h2.live = h.live
        BY <2>3, <2>5, <3>2, PartsAre, PacketBoundsAssumption
      <4> QED
        BY <2>3, <2>5, <3>1, <4>1 DEF Grown
    <3>3. CASE h2.mem[b].payload # NULL
      <4>1. h2.mem[b].packet.pLen > 0 /\ b \in Blocks /\ h2 \in Heap
        BY <2>3, <2>5, <2>7
      <4>2. Parts(h2, b) = {b, h2.mem[b].payload}
        BY <3>3, <4>1, PartsAre
      <4> QED
        BY <2>3, <2>5, <2>8, <3>1, <3>3, <4>2 DEF Grown
    <3> QED
      BY <3>2, <3>3
  <2>10. Sound(h2, b)
    BY <2>7, <2>8 DEF Sound
  <2> QED
    BY <1>2, <1>7, <2>6, <2>8, <2>9, <2>10 DEF b, h2
<1> QED
  BY <1>6, <1>7

\* A packet that is owned by nothing else is added.
LEMMA OwnsNew ==
    ASSUME NEW h \in Heap, NEW h2, NEW b, NEW R, NEW C, NEW L, Owns(h, R, C, L), Grown(h, h2, b)
    PROVE  /\ b \notin R /\ Owns(h2, R \cup {b}, C, L) /\ Owns(h2, R, C, L \cup Parts(h2, b))
           /\ \A r \in R : Parts(h2, r) = Parts(h, r)
<1>1. \A r \in R : r \in h.live
  BY PartsAre DEF Owns
<1>2. \A r \in R : Parts(h2, r) = Parts(h, r)
  BY <1>1, PartsSame DEF Grown
<1>3. b \notin R /\ Parts(h2, b) \subseteq h2.live
  BY <1>1 DEF Grown
<1>4. h2.live = h.live \cup Parts(h2, b) /\ Parts(h2, b) \cap h.live = {} /\ b \in Blocks
  BY DEF Grown
<1>5. /\ C \subseteq h.live /\ L \subseteq h.live /\ C \cap L = {}
      /\ \A r \in R : r \in Blocks /\ Parts(h2, r) \subseteq h.live \ (C \cup L)
      /\ \A r, s \in R : r # s => Parts(h2, r) \cap Parts(h2, s) = {}
      /\ \A x \in h.live \ (C \cup L) : \E r \in R : x \in Parts(h2, r)
  BY <1>2 DEF Owns
<1> HIDE DEF Parts
<1>6. Owns(h2, R \cup {b}, C, L)
  <2>1. /\ C \subseteq h2.live /\ L \subseteq h2.live /\ C \cap L = {}
        /\ \A r \in R \cup {b} : r \in Blocks /\ Parts(h2, r) \subseteq h2.live \ (C \cup L)
    BY <1>4, <1>5
  <2>2. \A r, s \in R \cup {b} : r # s => Parts(h2, r) \cap Parts(h2, s) = {}
    BY <1>4, <1>5
  <2>3. \A x \in h2.live \ (C \cup L) : \E r \in R \cup {b} : x \in Parts(h2, r)
    BY <1>4, <1>5
  <2> QED
    BY <2>1, <2>2, <2>3 DEF Owns
<1>7. Owns(h2, R, C, L \cup Parts(h2, b))
  BY <1>4, <1>5 DEF Owns
<1> QED
  BY <1>2, <1>3, <1>6, <1>7

\* A packet that is freed is owned by nobody.
LEMMA OwnsFreed ==
    ASSUME NEW h \in Heap, NEW r, NEW R, NEW C, NEW L, NEW P, Owns(h, R, C, L), r \in R
    PROVE  /\ Owns(Freed(h, Parts(h, r), P), R \ {r}, C, L)
           /\ \A s \in R \ {r} : Parts(Freed(h, Parts(h, r), P), s) = Parts(h, s)
<1> DEFINE h2 == Freed(h, Parts(h, r), P)
<1>1. h2 \in Heap /\ h2.live = h.live \ Parts(h, r) /\ \A x \in Blocks \ Parts(h, r) : h2.mem[x] = h.mem[x]
  BY FreedLeaves
<1>2. \A s \in R : s \in Blocks /\ s \in Parts(h, s)
  BY PartsAre DEF Owns
<1>3. \A s \in R \ {r} : s \notin Parts(h, r)
  BY <1>2 DEF Owns
<1>4. \A s \in R \ {r} : Parts(h2, s) = Parts(h, s)
  BY <1>1, <1>2, <1>3, PartsSame
<1> HIDE DEF h2
<1>5. Owns(h2, R \ {r}, C, L)
  BY <1>1, <1>4 DEF Owns
<1> QED
  BY <1>4, <1>5 DEF h2

\* A copy is made.
LEMMA OwnsCopy ==
    ASSUME NEW h \in Heap, NEW h2 \in Heap, NEW c \in Blocks \ h.live, NEW R, NEW C, NEW L,
           Owns(h, R, C, L), h2.live = h.live \cup {c}, \A x \in h.live : h2.mem[x] = h.mem[x]
    PROVE  /\ Owns(h2, R, C \cup {c}, L)
           /\ \A r \in R : Parts(h2, r) = Parts(h, r)
<1>1. \A r \in R : r \in h.live
  BY PartsAre DEF Owns
<1>2. \A r \in R : Parts(h2, r) = Parts(h, r)
  BY <1>1, PartsSame
<1>3. Owns(h2, R, C \cup {c}, L)
  BY <1>2 DEF Owns
<1> QED
  BY <1>2, <1>3

\* A copy is freed.
LEMMA OwnsSent ==
    ASSUME NEW h \in Heap, NEW c, NEW R, NEW C, NEW L, NEW P, Owns(h, R, C, L), c \in C
    PROVE  /\ Owns(Freed(h, {c}, P), R, C \ {c}, L)
           /\ \A r \in R : Parts(Freed(h, {c}, P), r) = Parts(h, r)
<1> DEFINE h2 == Freed(h, {c}, P)
<1>1. h2 \in Heap /\ h2.live = h.live \ {c} /\ \A x \in Blocks \ {c} : h2.mem[x] = h.mem[x]
  BY FreedLeaves
<1>2. \A r \in R : r \in Blocks /\ r # c
  BY PartsAre DEF Owns
<1>3. \A r \in R : Parts(h2, r) = Parts(h, r)
  BY <1>1, <1>2, PartsSame
<1> HIDE DEF h2
<1>4. Owns(h2, R, C \ {c}, L)
  BY <1>1, <1>3 DEF Owns
<1> QED
  BY <1>3, <1>4 DEF h2

\* A packet is lost.
LEMMA OwnsLost ==
    ASSUME NEW h \in Heap, NEW r, NEW R, NEW C, NEW L, Owns(h, R, C, L), r \in R
    PROVE  Owns(h, R \ {r}, C, L \cup Parts(h, r))
BY DEF Owns

\* A packet that was lost is found and freed.
LEMMA OwnsFound ==
    ASSUME NEW h \in Heap, NEW b \in Blocks, NEW R, NEW C, NEW L, NEW P, Owns(h, R, C, L),
           Parts(h, b) \subseteq L
    PROVE  /\ Owns(Freed(h, Parts(h, b), P), R, C, L \ Parts(h, b))
           /\ \A r \in R : Parts(Freed(h, Parts(h, b), P), r) = Parts(h, r)
<1> DEFINE h2 == Freed(h, Parts(h, b), P)
<1>1. h2 \in Heap /\ h2.live = h.live \ Parts(h, b) /\ \A x \in Blocks \ Parts(h, b) : h2.mem[x] = h.mem[x]
  BY FreedLeaves
<1>2. \A r \in R : r \in Blocks /\ r \in Parts(h, r) /\ r \notin L
  BY PartsAre DEF Owns
<1>3. \A r \in R : Parts(h2, r) = Parts(h, r)
  BY <1>1, <1>2, PartsSame
<1> HIDE DEF h2
<1>4. Owns(h2, R, C, L \ Parts(h, b))
  BY <1>1, <1>3 DEF Owns
<1> QED
  BY <1>3, <1>4 DEF h2

\* A packet is given a payload.
LEMMA OwnsPayload ==
    ASSUME NEW h \in Heap, NEW h2 \in Heap, NEW r, NEW R, NEW C, NEW L, Owns(h, R, C, L), r \in R,
           h.mem[r].payload = NULL, \A x \in h.live \ {r} : h2.mem[x] = h.mem[x],
           h2.mem[r].packet.pLen > 0,
           \/ h2.mem[r].payload = NULL /\ h2.live = h.live
           \/ h2.mem[r].payload \in Blocks \ h.live /\ h2.live = h.live \cup {h2.mem[r].payload}
    PROVE  /\ Owns(h2, R, C, L)
           /\ \A s \in R \ {r} : Parts(h2, s) = Parts(h, s)
<1>1. \A s \in R : s \in h.live /\ s \in Blocks /\ s \in Parts(h, s)
  BY PartsAre DEF Owns
<1>2. \A s \in R \ {r} : Parts(h2, s) = Parts(h, s)
  BY <1>1, PartsSame
<1>3. Parts(h, r) = {r}
  BY <1>1, PartsAre
<1>4. Parts(h2, r) = {r} \cup (h2.live \ h.live) /\ h.live \subseteq h2.live
  <2>1. CASE h2.mem[r].payload = NULL
    BY <1>1, <2>1, PartsAre, PacketBoundsAssumption
  <2>2. CASE h2.mem[r].payload # NULL
    BY <1>1, <2>2, PartsAre
  <2> QED
    BY <2>1, <2>2
<1>5. /\ C \subseteq h.live /\ L \subseteq h.live /\ C \cap L = {}
      /\ \A s \in R : s \in Blocks /\ Parts(h, s) \subseteq h.live \ (C \cup L)
      /\ \A s, t \in R : s # t => Parts(h, s) \cap Parts(h, t) = {}
      /\ \A x \in h.live \ (C \cup L) : \E s \in R : x \in Parts(h, s)
  BY DEF Owns
<1>6. \A s \in R : Parts(h, s) \subseteq Parts(h2, s) /\ Parts(h2, s) \subseteq Parts(h, s) \cup (h2.live \ h.live)
  BY <1>2, <1>3, <1>4
<1>7. \A s, t \in R : s # t => Parts(h2, s) \cap Parts(h2, t) = {}
  BY <1>2, <1>3, <1>4, <1>5
<1>8. \A x \in h2.live \ (C \cup L) : \E s \in R : x \in Parts(h2, s)
  BY <1>4, <1>5, <1>6
<1>9. Owns(h2, R, C, L)
  BY <1>4, <1>5, <1>6, <1>7, <1>8 DEF Owns
<1> QED
  BY <1>2, <1>9

-----------------------------------------------------------------------------
(* Queues and slots                                                        *)

\* A message is appended.
LEMMA QueueAppend ==
    ASSUME msgs \in Seq(Message), NEW to \in {"main", "ble"}, NEW b \in Blocks,
           msgs' = Append(msgs, [to |-> to, packet |-> b])
    PROVE  /\ msgs' \in Seq(Message) /\ Len(msgs') = Len(msgs) + 1
           /\ Queued' = Queued \cup {b}
           /\ OnceQueued /\ b \notin Queued => OnceQueued'
           /\ \A t : QueuedFor(t)' = QueuedFor(t) \cup (IF t = to THEN {b} ELSE {})
<1> DEFINE e == [to |-> to, packet |-> b]
           n == Len(msgs)
<1>1. e \in Message /\ e.to = to /\ e.packet = b
  BY DEF Message
<1> HIDE DEF e
<1>2. msgs' = Append(msgs, e)
  BY DEF e
<1>3. /\ msgs' \in Seq(Message) /\ Len(msgs') = n + 1 /\ n \in Nat /\ msgs'[n + 1] = e
      /\ \A i \in 1 .. n : msgs'[i] = msgs[i]
  BY <1>1, <1>2, AppendProperties, LenProperties
<1> HIDE DEF n
<1>4. 1 .. Len(msgs) = 1 .. n /\ 1 .. Len(msgs') = (1 .. n) \cup {n + 1}
  BY <1>3 DEF n
<1>5. Queued' = Queued \cup {b}
  BY <1>1, <1>3, <1>4 DEF Queued
<1>6. OnceQueued /\ b \notin Queued => OnceQueued'
  BY <1>1, <1>3, <1>4 DEF OnceQueued, Queued
<1>7. ASSUME NEW t PROVE QueuedFor(t)' = QueuedFor(t) \cup (IF t = to THEN {b} ELSE {})
  BY <1>1, <1>3, <1>4 DEF QueuedFor
<1> QED
  BY <1>3, <1>5, <1>6, <1>7 DEF n

\* The first message is taken out.
LEMMA QueueTail ==
    ASSUME msgs \in Seq(Message), OnceQueued, msgs # <<>>, msgs' = Tail(msgs)
    PROVE  /\ msgs' \in Seq(Message) /\ Len(msgs') <= Len(msgs)
           /\ Head(msgs) \in Message /\ Head(msgs).packet \in Queued
           /\ Head(msgs).packet \in QueuedFor(Head(msgs).to)
           /\ Queued' = Queued \ {Head(msgs).packet}
           /\ OnceQueued'
           /\ \A t : QueuedFor(t)' = QueuedFor(t) \ {Head(msgs).packet}
<1> DEFINE n == Len(msgs)
           b == Head(msgs).packet
<1>1. /\ msgs' \in Seq(Message) /\ n \in Nat /\ n > 0 /\ Len(msgs') = n - 1
      /\ Head(msgs) = msgs[1] /\ \A i \in 1 .. (n - 1) : msgs'[i] = msgs[i + 1]
  BY HeadTailProperties, LenProperties, EmptySeq
<1>2. \A i \in 1 .. n : msgs[i] \in Message
  BY ElementOfSeq
<1>3. 1 \in 1 .. n
  BY <1>1
<1> HIDE DEF n, b
<1>4. 1 .. Len(msgs) = 1 .. n /\ 1 .. Len(msgs') = 1 .. (n - 1)
  BY <1>1 DEF n
<1>5. \A i \in 1 .. (n - 1) : i + 1 \in 2 .. n
  BY <1>1
<1>6. \A i \in 2 .. n : i \in 1 .. n /\ i # 1 /\ \E k \in 1 .. (n - 1) : k + 1 = i
  <2>1. ASSUME NEW i \in 2 .. n PROVE i - 1 \in 1 .. (n - 1) /\ (i - 1) + 1 = i
    BY <1>1
  <2> QED
    BY <1>1, <2>1
<1>7. b = msgs[1].packet
  BY <1>1 DEF b
<1>8. \A i \in 2 .. n : msgs[i].packet # b
  BY <1>3, <1>4, <1>6, <1>7 DEF OnceQueued
<1>9. Queued' = Queued \ {b}
  <2>1. \A x : x \in Queued' <=> \E i \in 1 .. (n - 1) : x = msgs[i + 1].packet
    BY <1>1, <1>4 DEF Queued
  <2>2. \A x : x \in Queued \ {b} <=> \E i \in 2 .. n : x = msgs[i].packet
    BY <1>1, <1>4, <1>7, <1>8 DEF Queued
  <2>3. \A x : (\E i \in 1 .. (n - 1) : x = msgs[i + 1].packet) <=> \E i \in 2 .. n : x = msgs[i].packet
    BY <1>5, <1>6
  <2> QED
    BY <2>1, <2>2, <2>3
<1>10. OnceQueued'
  <2>1. \A i \in 1 .. (n - 1) : i + 1 \in 1 .. n
    BY <1>1
  <2>2. \A i, j \in 1 .. (n - 1) : i + 1 = j + 1 => i = j
    OBVIOUS
  <2> QED
    BY <1>1, <1>4, <2>1, <2>2 DEF OnceQueued
<1>11. ASSUME NEW t PROVE QueuedFor(t)' = QueuedFor(t) \ {b}
  <2>1. \A x : x \in QueuedFor(t)' <=> \E i \in 1 .. (n - 1) : x = msgs[i + 1].packet /\ msgs[i + 1].to = t
    BY <1>1, <1>4 DEF QueuedFor
  <2>2. \A x : x \in QueuedFor(t) \ {b} <=> \E i \in 2 .. n : x = msgs[i].packet /\ msgs[i].to = t
    BY <1>1, <1>4, <1>7, <1>8 DEF QueuedFor
  <2>3. \A x : (\E i \in 1 .. (n - 1) : x = msgs[i + 1].packet /\ msgs[i + 1].to = t)
                  <=> \E i \in 2 .. n : x = msgs[i].packet /\ msgs[i].to = t
    BY <1>5, <1>6
  <2> QED
    BY <2>1, <2>2, <2>3
<1>12. b \in Queued /\ b \in QueuedFor(Head(msgs).to)
  BY <1>1, <1>3, <1>4, <1>7 DEF Queued, QueuedFor
<1> QED
  BY <1>1, <1>2, <1>3, <1>9, <1>10, <1>11, <1>12 DEF b, n

\* A packet is put into the mailbox.
LEMMA BoxAppend ==
    ASSUME inbox \in Seq(Blocks), NEW b \in Blocks, inbox' = Append(inbox, b)
    PROVE  /\ inbox' \in Seq(Blocks) /\ InBox' = InBox \cup {b}
           /\ OnceInBox /\ b \notin InBox => OnceInBox'
<1> DEFINE n == Len(inbox)
<1>1. /\ inbox' \in Seq(Blocks) /\ Len(inbox') = n + 1 /\ n \in Nat /\ inbox'[n + 1] = b
      /\ \A i \in 1 .. n : inbox'[i] = inbox[i]
  BY AppendProperties, LenProperties
<1> HIDE DEF n
<1>2. 1 .. Len(inbox) = 1 .. n /\ 1 .. Len(inbox') = (1 .. n) \cup {n + 1}
  BY <1>1 DEF n
<1>3. InBox' = InBox \cup {b}
  BY <1>1, <1>2 DEF InBox
<1>4. OnceInBox /\ b \notin InBox => OnceInBox'
  BY <1>1, <1>2 DEF OnceInBox, InBox
<1> QED
  BY <1>1, <1>3, <1>4

\* The first packet of the mailbox is taken out.
LEMMA BoxTail ==
    ASSUME inbox \in Seq(Blocks), OnceInBox, inbox # <<>>, inbox' = Tail(inbox)
    PROVE  /\ inbox' \in Seq(Blocks) /\ Head(inbox) \in InBox /\ Head(inbox) \in Blocks
           /\ InBox' = InBox \ {Head(inbox)} /\ OnceInBox'
<1> DEFINE n == Len(inbox)
           b == Head(inbox)
<1>1. /\ inbox' \in Seq(Blocks) /\ n \in Nat /\ n > 0 /\ Len(inbox') = n - 1
      /\ b = inbox[1] /\ \A i \in 1 .. (n - 1) : inbox'[i] = inbox[i + 1]
  BY HeadTailProperties, LenProperties, EmptySeq
<1>2. \A i \in 1 .. n : inbox[i] \in Blocks
  BY ElementOfSeq
<1> HIDE DEF n, b
<1>3. 1 .. Len(inbox) = 1 .. n /\ 1 .. Len(inbox') = 1 .. (n - 1) /\ 1 \in 1 .. n
  BY <1>1 DEF n
<1>4. \A i \in 2 .. n : inbox[i] # b
  BY <1>1, <1>3 DEF OnceInBox
<1>5. InBox' = InBox \ {b}
  <2>1. \A x : x \in InBox' <=> \E i \in 1 .. (n - 1) : x = inbox[i + 1]
    BY <1>1, <1>3 DEF InBox
  <2>2. \A x : x \in InBox \ {b} <=> \E i \in 2 .. n : x = inbox[i]
    BY <1>1, <1>3, <1>4 DEF InBox
  <2>3. \A x : (\E i \in 1 .. (n - 1) : x = inbox[i + 1]) <=> \E i \in 2 .. n : x = inbox[i]
    BY <1>1
  <2> QED
    BY <2>1, <2>2, <2>3
<1>6. OnceInBox'
  BY <1>1, <1>3 DEF OnceInBox
<1>7. b \in InBox /\ b \in Blocks
  BY <1>1, <1>2, <1>3 DEF InBox
<1> QED
  BY <1>1, <1>5, <1>6, <1>7 DEF b

\* A non-empty set of numbers has a lowest one: the search for a free slot finds one if there is one.
LEMMA LowestExists ==
    ASSUME NEW S, S \subseteq Nat, S # {}
    PROVE  \E s \in S : \A t \in S : s <= t
<1>1. PICK s \in S : \A t \in S : ~ (<<t, s>> \in OpToRel(<, Nat))
  BY NatLessThanWellFounded, WFMin
<1>2. \A t \in S : <<t, s>> \in OpToRel(<, Nat) <=> t < s
  BY DEF OpToRel
<1>3. ASSUME NEW t \in S PROVE s <= t
  <2>1. ~ (t < s)
    BY <1>1, <1>2
  <2>2. s \in Nat /\ t \in Nat
    OBVIOUS
  <2> QED
    BY <2>1, <2>2
<1> QED
  BY <1>3

\* The slot taken is a free one.
LEMMA SlotFound ==
    ASSUME FreeSlots # {}
    PROVE  LET i == CHOOSE s \in FreeSlots : \A t \in FreeSlots : s <= t
           IN i \in 1 .. Slots /\ out_queue[i] = NULL
<1>1. FreeSlots \subseteq Nat
  BY PacketBoundsAssumption DEF FreeSlots
<1>2. \E s \in FreeSlots : \A t \in FreeSlots : s <= t
  BY <1>1, LowestExists
<1>3. (CHOOSE s \in FreeSlots : \A t \in FreeSlots : s <= t) \in FreeSlots
  BY <1>2
<1> QED
  BY <1>3 DEF FreeSlots

\* A copy is put into a free slot and onto the line.
LEMMA SlotTaken ==
    ASSUME out_queue \in [1 .. Slots -> Blocks \cup {NULL}], line \in Seq(1 .. Slots),
           NEW i \in 1 .. Slots, out_queue[i] = NULL, NEW c \in Blocks,
           out_queue' = [out_queue EXCEPT ![i] = c], line' = Append(line, i)
    PROVE  /\ out_queue' \in [1 .. Slots -> Blocks \cup {NULL}] /\ line' \in Seq(1 .. Slots)
           /\ Copies' = Copies \cup {c}
           /\ OnceInSlot /\ c \notin Copies => OnceInSlot'
           /\ InSlots => InSlots'
<1>1. /\ out_queue' \in [1 .. Slots -> Blocks \cup {NULL}] /\ out_queue'[i] = c /\ c # NULL
      /\ \A j \in 1 .. Slots : j # i => out_queue'[j] = out_queue[j]
  BY PacketBoundsAssumption
<1>2. Copies' = Copies \cup {c}
  BY <1>1 DEF Copies
<1>3. OnceInSlot /\ c \notin Copies => OnceInSlot'
  BY <1>1 DEF OnceInSlot, Copies
<1> DEFINE n == Len(line)
<1>4. /\ line' \in Seq(1 .. Slots) /\ Len(line') = n + 1 /\ n \in Nat /\ line'[n + 1] = i
      /\ \A k \in 1 .. n : line'[k] = line[k] /\ line[k] \in 1 .. Slots
  <2>1. \A k \in 1 .. n : line[k] \in 1 .. Slots
    BY ElementOfSeq
  <2> QED
    BY <2>1, AppendProperties, LenProperties
<1> HIDE DEF n
<1>5. 1 .. Len(line) = 1 .. n /\ 1 .. Len(line') = (1 .. n) \cup {n + 1}
  BY <1>4 DEF n
<1>6. ASSUME InSlots PROVE InSlots'
  <2>1. \A k \in 1 .. n : out_queue[line[k]] # NULL /\ line[k] # i
    BY <1>5, <1>6 DEF InSlots
  <2>2. \A k \in 1 .. Len(line') : out_queue'[line'[k]] # NULL
    BY <1>1, <1>4, <1>5, <2>1
  <2>3. \A k, m \in 1 .. Len(line') : line'[k] = line'[m] => k = m
    BY <1>4, <1>5, <1>6, <2>1 DEF InSlots
  <2> QED
    BY <2>2, <2>3 DEF InSlots
<1> QED
  BY <1>1, <1>2, <1>3, <1>4, <1>6

\* The first copy on the line is taken off it and out of its slot.
LEMMA SlotFreed ==
    ASSUME out_queue \in [1 .. Slots -> Blocks \cup {NULL}], line \in Seq(1 .. Slots), line # <<>>,
           InSlots, OnceInSlot,
           out_queue' = [out_queue EXCEPT ![Head(line)] = NULL], line' = Tail(line)
    PROVE  /\ out_queue' \in [1 .. Slots -> Blocks \cup {NULL}] /\ line' \in Seq(1 .. Slots)
           /\ Head(line) \in 1 .. Slots
           /\ out_queue[Head(line)] \in Copies /\ out_queue[Head(line)] \in Blocks
           /\ Copies' = Copies \ {out_queue[Head(line)]}
           /\ OnceInSlot' /\ InSlots'
           /\ Len(line') < Len(line)
<1> DEFINE n == Len(line)
           i == Head(line)
<1>1. /\ line' \in Seq(1 .. Slots) /\ n \in Nat /\ n > 0 /\ Len(line') = n - 1
      /\ i = line[1] /\ \A k \in 1 .. (n - 1) : line'[k] = line[k + 1]
  BY HeadTailProperties, LenProperties, EmptySeq
<1>2. \A k \in 1 .. n : line[k] \in 1 .. Slots
  BY ElementOfSeq
<1> HIDE DEF n
<1>3. 1 .. Len(line) = 1 .. n /\ 1 .. Len(line') = 1 .. (n - 1) /\ 1 \in 1 .. n
  BY <1>1 DEF n
<1>4. i \in 1 .. Slots /\ out_queue[i] # NULL
  BY <1>1, <1>2, <1>3 DEF InSlots
<1> HIDE DEF i
<1>5. /\ out_queue' \in [1 .. Slots -> Blocks \cup {NULL}] /\ out_queue'[i] = NULL
      /\ \A j \in 1 .. Slots : j # i => out_queue'[j] = out_queue[j]
  BY <1>4 DEF i
<1>6. Copies' = Copies \ {out_queue[i]} /\ out_queue[i] \in Copies /\ out_queue[i] \in Blocks
  BY <1>4, <1>5 DEF Copies, OnceInSlot
<1>7. OnceInSlot'
  BY <1>5 DEF OnceInSlot
<1>8. \A k \in 1 .. (n - 1) : k + 1 \in 1 .. n /\ k + 1 # 1
  BY <1>1
<1>9. \A k \in 1 .. (n - 1) : line[k + 1] # i
  BY <1>1, <1>3, <1>8 DEF InSlots
<1>10. InSlots'
  <2>1. \A k \in 1 .. Len(line') : out_queue'[line'[k]] # NULL
    BY <1>1, <1>2, <1>3, <1>5, <1>8, <1>9 DEF InSlots
  <2>2. \A k, m \in 1 .. (n - 1) : k + 1 = m + 1 => k = m
    OBVIOUS
  <2>3. \A k, m \in 1 .. Len(line') : line'[k] = line'[m] => k = m
    BY <1>1, <1>3, <1>8, <2>2 DEF InSlots
  <2> QED
    BY <2>1, <2>3 DEF InSlots
<1> QED
  BY <1>1, <1>4, <1>5, <1>6, <1>7, <1>10 DEF i, n

-----------------------------------------------------------------------------
(* What the invariant says of owners and types                             *)

\* PkTypeOK is part of the types the invariant gives.
LEMMA TypesAre == PkTyped => PkTypeOK
<1> SUFFICES ASSUME PkTyped PROVE PkTypeOK
  OBVIOUS
<1>1. heap.live \subseteq Blocks /\ DOMAIN heap.mem = Blocks
  BY DEF PkTyped, Heap
<1>2. \A i \in 1 .. Len(msgs) : msgs[i].to \in {"main", "ble"} /\ msgs[i].packet \in Blocks
  <2>1. \A i \in 1 .. Len(msgs) : msgs[i] \in Message
    BY ElementOfSeq DEF PkTyped
  <2> QED
    BY <2>1 DEF Message
<1>3. \A i \in 1 .. Len(inbox) : inbox[i] \in Blocks
  BY ElementOfSeq DEF PkTyped
<1>4. \A i \in 1 .. Len(line) : line[i] \in 1 .. Slots
  <2>1. line \in Seq(1 .. Slots)
    BY DEF PkTyped
  <2> QED
    BY <2>1, ElementOfSeq
<1>5. \A i \in 1 .. Len(requests) : requests[i].packet \in Blocks /\ requests[i].cmd \in Byte
  <2>1. \A i \in 1 .. Len(requests) : requests[i] \in Request
    BY ElementOfSeq DEF PkTyped
  <2> QED
    BY <2>1 DEF Request
<1> QED
  BY <1>1, <1>2, <1>3, <1>4, <1>5 DEF PkTyped, PkTypeOK, Job, Requested

\* The holder of block h[3] in place <<h[1], h[2]>> has it as part of packet r.
Place(h, r) ==
    \/ \E i \in 1 .. Len(msgs) : r = msgs[i].packet /\ h = <<"queue", i, h[3]>>
    \/ \E i \in 1 .. Len(inbox) : r = inbox[i] /\ h = <<"mailbox", i, h[3]>>
    \/ job.in # NULL /\ r = job.in /\ h = <<"in", 0, h[3]>>
    \/ job.in # NULL /\ r = job.out /\ h = <<"out", 0, h[3]>>

\* A holder has a part of a packet, a copy, or something lost.
LEMMA HoldersAre ==
    ASSUME PkTyped, JobMatches
    PROVE  \A h : h \in Holders <=>
              \/ \E r \in Roots : Place(h, r) /\ h[3] \in Parts(heap, r)
              \/ \E i \in 1 .. Slots : out_queue[i] # NULL /\ h = <<"slot", i, out_queue[i]>>
              \/ h[3] \in lost /\ h = <<"lost", 0, h[3]>>
<1> DEFINE Held(who, n, b) == {<<who, n, x>> : x \in IF b = NULL THEN {} ELSE Parts(heap, b)}
           ByQueue == UNION {Held("queue", i, msgs[i].packet) : i \in 1 .. Len(msgs)}
           ByBox == UNION {Held("mailbox", i, inbox[i]) : i \in 1 .. Len(inbox)}
           ByJob == Held("in", 0, job.in) \cup Held("out", 0, IF job.in = NULL THEN NULL ELSE job.out)
           BySlot == {<<"slot", i, out_queue[i]>> : i \in {j \in 1 .. Slots : out_queue[j] # NULL}}
           Nobody == {<<"lost", 0, b>> : b \in lost}
<1>1. Holders = ByQueue \cup ByBox \cup ByJob \cup BySlot \cup Nobody
  BY DEF Holders
<1>2. /\ \A i \in 1 .. Len(msgs) : msgs[i].packet # NULL
      /\ \A i \in 1 .. Len(inbox) : inbox[i] # NULL
  BY TypesAre, PacketBoundsAssumption DEF PkTypeOK
<1>3. \A h : h \in ByQueue <=> \E i \in 1 .. Len(msgs) : \E x \in Parts(heap, msgs[i].packet) : h = <<"queue", i, x>>
  BY <1>2 DEF Parts
<1>4. \A h : h \in ByBox <=> \E i \in 1 .. Len(inbox) : \E x \in Parts(heap, inbox[i]) : h = <<"mailbox", i, x>>
  BY <1>2 DEF Parts
<1>5. \A h : h \in ByJob <=>
         /\ job.in # NULL
         /\ \/ \E x \in Parts(heap, job.in) : h = <<"in", 0, x>>
            \/ \E x \in Parts(heap, job.out) : h = <<"out", 0, x>>
  BY DEF JobMatches
<1>6. \A h : h \in BySlot <=> \E i \in 1 .. Slots : out_queue[i] # NULL /\ h = <<"slot", i, out_queue[i]>>
  OBVIOUS
<1>7. \A h : h \in Nobody <=> h[3] \in lost /\ h = <<"lost", 0, h[3]>>
  OBVIOUS
<1> HIDE DEF ByQueue, ByBox, ByJob, BySlot, Nobody
<1>8. \A h : h \in ByQueue \cup ByBox \cup ByJob <=> \E r \in Roots : Place(h, r) /\ h[3] \in Parts(heap, r)
  <2>1. ASSUME NEW h, h \in ByQueue \cup ByBox \cup ByJob PROVE \E r \in Roots : Place(h, r) /\ h[3] \in Parts(heap, r)
    <3>1. CASE h \in ByQueue
      BY <1>3, <3>1 DEF Roots, Queued, Place
    <3>2. CASE h \in ByBox
      BY <1>4, <3>2 DEF Roots, InBox, Place
    <3>3. CASE h \in ByJob
      BY <1>5, <3>3 DEF Roots, AtWork, Place
    <3> QED
      BY <2>1, <3>1, <3>2, <3>3
  <2>2. ASSUME NEW h, NEW r \in Roots, Place(h, r), h[3] \in Parts(heap, r) PROVE h \in ByQueue \cup ByBox \cup ByJob
    <3>1. CASE \E i \in 1 .. Len(msgs) : r = msgs[i].packet /\ h = <<"queue", i, h[3]>>
      BY <1>3, <2>2, <3>1
    <3>2. CASE \E i \in 1 .. Len(inbox) : r = inbox[i] /\ h = <<"mailbox", i, h[3]>>
      BY <1>4, <2>2, <3>2
    <3>3. CASE job.in # NULL /\ r = job.in /\ h = <<"in", 0, h[3]>>
      BY <1>5, <2>2, <3>3
    <3>4. CASE job.in # NULL /\ r = job.out /\ h = <<"out", 0, h[3]>>
      BY <1>5, <2>2, <3>4
    <3> QED
      BY <2>2, <3>1, <3>2, <3>3, <3>4 DEF Place
  <2> QED
    BY <2>1, <2>2
<1> QED
  BY <1>1, <1>6, <1>7, <1>8

\* A packet is in one place.
LEMMA OnePlace ==
    ASSUME Separate, JobMatches, NEW h, NEW g, NEW r, Place(h, r), Place(g, r), h[3] = g[3]
    PROVE  h = g
<1>1. \A i \in 1 .. Len(msgs), j \in 1 .. Len(inbox) : msgs[i].packet # inbox[j]
  BY DEF Separate, Queued, InBox
<1>2. job.in # NULL => /\ \A i \in 1 .. Len(msgs) : msgs[i].packet \notin {job.in, job.out}
                       /\ \A i \in 1 .. Len(inbox) : inbox[i] \notin {job.in, job.out}
                       /\ job.in # job.out
  BY DEF Separate, JobMatches, AtWork, Queued, InBox
<1>3. /\ \A i, j \in 1 .. Len(msgs) : msgs[i].packet = msgs[j].packet => i = j
      /\ \A i, j \in 1 .. Len(inbox) : inbox[i] = inbox[j] => i = j
  BY DEF Separate, OnceQueued, OnceInBox
<1>4. CASE \E i \in 1 .. Len(msgs) : r = msgs[i].packet /\ h = <<"queue", i, h[3]>>
  BY <1>1, <1>2, <1>3, <1>4 DEF Place
<1>5. CASE \E i \in 1 .. Len(inbox) : r = inbox[i] /\ h = <<"mailbox", i, h[3]>>
  BY <1>1, <1>2, <1>3, <1>5 DEF Place
<1>6. CASE job.in # NULL /\ r = job.in /\ h = <<"in", 0, h[3]>>
  BY <1>2, <1>6 DEF Place
<1>7. CASE job.in # NULL /\ r = job.out /\ h = <<"out", 0, h[3]>>
  BY <1>2, <1>7 DEF Place
<1> QED
  BY <1>4, <1>5, <1>6, <1>7 DEF Place

\* If packets, copies and lost blocks have nothing in common and are all there is, every block has
\* one owner: there are as many holders as blocks.
LEMMA OwnersCounted ==
    ASSUME PkTyped, Owned
    PROVE  {h[3] : h \in Holders} = heap.live /\ Cardinality(Holders) = Cardinality(heap.live)
<1> DEFINE Copy(h) == \E i \in 1 .. Slots : out_queue[i] # NULL /\ h = <<"slot", i, out_queue[i]>>
           Gone(h) == h[3] \in lost /\ h = <<"lost", 0, h[3]>>
           OfPacket(h) == \E r \in Roots : Place(h, r) /\ h[3] \in Parts(heap, r)
<1>1. \A h : h \in Holders <=> OfPacket(h) \/ Copy(h) \/ Gone(h)
  BY HoldersAre DEF Owned
<1>2. /\ Copies \subseteq heap.live /\ lost \subseteq heap.live /\ Copies \cap lost = {}
      /\ \A r \in Roots : r \in Blocks /\ Parts(heap, r) \subseteq heap.live \ (Copies \cup lost)
      /\ \A r, s \in Roots : r # s => Parts(heap, r) \cap Parts(heap, s) = {}
      /\ \A x \in heap.live \ (Copies \cup lost) : \E r \in Roots : x \in Parts(heap, r)
  BY DEF Owned, Owns
<1>3. \A h : OfPacket(h) => h[3] \in heap.live \ (Copies \cup lost)
  BY <1>2
<1>4. \A h : Copy(h) => h[3] \in Copies
  BY DEF Copies
<1>5. \A h, g : OfPacket(h) /\ OfPacket(g) /\ h[3] = g[3] => h = g
  <2>1. ASSUME NEW h, NEW g, NEW r \in Roots, NEW s \in Roots, Place(h, r), h[3] \in Parts(heap, r),
               Place(g, s), g[3] \in Parts(heap, s), h[3] = g[3]
        PROVE  h = g
    <3>1. r = s
      BY <1>2, <2>1
    <3> QED
      BY <2>1, <3>1, OnePlace DEF Owned
  <2> QED
    BY <2>1
<1>6. \A h, g : Copy(h) /\ Copy(g) /\ h[3] = g[3] => h = g
  BY DEF Owned, Separate, OnceInSlot
<1>7. \A h, g : Gone(h) /\ Gone(g) /\ h[3] = g[3] => h = g
  OBVIOUS
<1>8. \A x \in heap.live : \E h \in Holders : h[3] = x
  <2>1. ASSUME NEW x \in Copies PROVE \E h \in Holders : h[3] = x
    <3>1. PICK i \in 1 .. Slots : out_queue[i] # NULL /\ x = out_queue[i]
      BY <2>1 DEF Copies
    <3>2. Copy(<<"slot", i, out_queue[i]>>) /\ <<"slot", i, out_queue[i]>>[3] = x
      BY <3>1
    <3> HIDE DEF Copy, Gone, OfPacket
    <3> QED
      BY <1>1, <3>2
  <2>2. ASSUME NEW x \in lost PROVE \E h \in Holders : h[3] = x
    <3>1. Gone(<<"lost", 0, x>>)
      OBVIOUS
    <3> QED
      BY <1>1, <3>1
  <2>3. ASSUME NEW r \in Roots, NEW x \in Parts(heap, r) PROVE \E h \in Holders : h[3] = x
    <3>1. CASE r \in Queued
      <4>1. PICK i \in 1 .. Len(msgs) : r = msgs[i].packet
        BY <3>1 DEF Queued
      <4>2. Place(<<"queue", i, x>>, r)
        BY <4>1 DEF Place
      <4> QED
        BY <1>1, <4>2
    <3>2. CASE r \in InBox
      <4>1. PICK i \in 1 .. Len(inbox) : r = inbox[i]
        BY <3>2 DEF InBox
      <4>2. Place(<<"mailbox", i, x>>, r)
        BY <4>1 DEF Place
      <4> QED
        BY <1>1, <4>2
    <3>3. CASE r \in AtWork
      <4>1. Place(<<"in", 0, x>>, r) \/ Place(<<"out", 0, x>>, r)
        BY <3>3 DEF Place, AtWork
      <4> QED
        BY <1>1, <4>1
    <3> QED
      BY <3>1, <3>2, <3>3 DEF Roots
  <2> QED
    BY <1>2, <2>1, <2>2, <2>3
<1> HIDE DEF Copy, Gone, OfPacket
<1>9. \A h \in Holders : h[3] \in heap.live
  <2>1. \A h : Gone(h) => h[3] \in lost
    BY DEF Gone
  <2> QED
    BY <1>1, <1>2, <1>3, <1>4, <2>1
<1>10. \A h, g \in Holders : h[3] = g[3] => h = g
  <2>1. \A h : Gone(h) => h[3] \in lost
    BY DEF Gone
  <2> QED
    BY <1>1, <1>2, <1>3, <1>4, <1>5, <1>6, <1>7, <2>1
<1> HIDE DEF Holders
<1>11. {h[3] : h \in Holders} = heap.live
  BY <1>8, <1>9
<1> DEFINE f == [h \in Holders |-> h[3]]
<1>12. f \in Injection(Holders, heap.live) /\ f \in Surjection(Holders, heap.live)
  BY <1>8, <1>9, <1>10 DEF Injection, IsInjective, Surjection
<1>13. IsFiniteSet(heap.live)
  BY FS_Subset, PacketBoundsAssumption DEF PkTyped, Heap
<1> HIDE DEF f
<1>14. Cardinality(Holders) = Cardinality(heap.live)
  BY <1>12, <1>13, FS_Injection
<1> QED
  BY <1>11, <1>14

-----------------------------------------------------------------------------
(* What a step leaves alone                                                *)

\* Packet b and its payload are as before.
Kept(b) == \A x \in Parts(heap, b) : heap'.mem[x] = heap.mem[x]

\* Packets that stay where something owns them, or move from one owner to another, are kept, but for
\* the reply a parser completes; so are the copies.
Remains ==
    /\ \A b \in (Roots \cup Forgotten) \cap (Roots' \cup Forgotten') :
          Kept(b) \/ (job.at = "parse" /\ job' # job /\ b = job.out)
    /\ \A c \in Copies \cap Copies' : heap'.mem[c] = heap.mem[c]

\* A packet that is kept is what it was.
LEMMA KeptIs ==
    ASSUME heap \in Heap, NEW b \in Blocks, Sound(heap, b), Kept(b)
    PROVE  /\ heap'.mem[b] = heap.mem[b] /\ Parts(heap', b) = Parts(heap, b)
           /\ Sound(heap', b) /\ PayloadIn(heap', b) = PayloadIn(heap, b)
           /\ NoPayload(heap', b) <=> NoPayload(heap, b)
           /\ HasResult(heap', b) <=> HasResult(heap, b)
           /\ Answers(heap', b) <=> Answers(heap, b)
<1>1. heap'.mem[b] = heap.mem[b]
  BY PartsAre DEF Kept
<1>2. Parts(heap', b) = Parts(heap, b)
  BY <1>1, PartsSame
<1>3. heap.mem[b].payload # NULL => heap'.mem[heap.mem[b].payload] = heap.mem[heap.mem[b].payload]
  BY PartsAre DEF Kept, Sound
<1> QED
  BY <1>1, <1>2, <1>3 DEF Sound, PayloadIn, NoPayload, HasResult, Answers

\* The blocks of the heap that the invariant speaks of are blocks.
LEMMA RootsAre ==
    ASSUME PkTyped, Owned
    PROVE  /\ \A r \in Roots : r \in Blocks /\ r \in heap.live /\ Sound(heap, r)
                               /\ r \notin Copies /\ r \notin lost
                               /\ Parts(heap, r) \subseteq heap.live
           /\ \A r \in Forgotten : r \in Blocks /\ r \in lost /\ Sound(heap, r)
                               /\ Parts(heap, r) \subseteq heap.live /\ r \notin Copies
           /\ \A c \in Copies : c \in Blocks /\ c \in heap.live
           /\ Forgotten \cap Roots = {}
<1>1. \A r \in Roots : r \in Blocks /\ Parts(heap, r) \subseteq heap.live \ (Copies \cup lost)
  BY DEF Owned, Owns
<1>2. heap \in Heap /\ heap.live \subseteq Blocks
  BY DEF PkTyped, Heap
<1>3. \A r \in Roots : r \in Parts(heap, r)
  BY <1>1, <1>2, PartsAre
<1>4. Copies \subseteq heap.live /\ lost \subseteq heap.live /\ Copies \cap lost = {}
  BY DEF Owned, Owns
<1>5. \A r \in Forgotten : r \in Blocks /\ Parts(heap, r) \subseteq lost
  BY DEF Owned, JobMatches, Forgotten, PkTyped, Job
<1>6. \A r \in Forgotten : r \in Parts(heap, r)
  BY <1>2, <1>5, PartsAre
<1>7. \A r \in Roots \cup Forgotten : Sound(heap, r)
  BY DEF Owned
<1> QED
  BY <1>1, <1>2, <1>3, <1>4, <1>5, <1>6, <1>7

\* A packet is sent, refused, or forgotten by the one who made it.
SentOrLost(to, h, b) ==
    Send(to, h, b) \/ (lost' = lost \cup Parts(h, b) /\ UNCHANGED msgs)

\* A packet is added, and sent or lost.
LEMMA AddsOwned ==
    ASSUME PkTyped, Owned, NEW to \in {"main", "ble"}, NEW b, Grown(heap, heap', b), Sound(heap', b),
           SentOrLost(to, heap', b), UNCHANGED <<inbox, job, out_queue, line, mailboxes>>
    PROVE  /\ Owned' /\ Remains
           /\ heap' \in Heap /\ msgs' \in Seq(Message) /\ Len(msgs') <= QueueMax /\ lost' \in SUBSET Blocks
           /\ b \in Blocks \ heap.live
           /\ \A t : \/ QueuedFor(t)' = QueuedFor(t)
                     \/ t = to /\ QueuedFor(t)' = QueuedFor(t) \cup {b}
<1>1. /\ heap' \in Heap /\ b \in Blocks \ heap.live /\ heap \in Heap /\ heap.live \subseteq Blocks
      /\ \A x \in heap.live : heap'.mem[x] = heap.mem[x]
      /\ Parts(heap', b) \subseteq Blocks
  BY PartsAre DEF Grown, PkTyped, Heap
<1>2. Owns(heap, Roots, Copies, lost)
  BY DEF Owned
<1>3. /\ b \notin Roots /\ Owns(heap', Roots \cup {b}, Copies, lost)
      /\ Owns(heap', Roots, Copies, lost \cup Parts(heap', b))
      /\ \A r \in Roots : Parts(heap', r) = Parts(heap, r)
  BY <1>1, <1>2, OwnsNew
<1>4. UNCHANGED <<InBox, AtWork, Forgotten, Copies, OnceInBox, OnceInSlot, InSlots>>
  BY DEF InBox, AtWork, Forgotten, Copies, OnceInBox, OnceInSlot, InSlots
<1>5. \A r \in Roots \cup Forgotten : Kept(r)
  BY <1>1, RootsAre DEF Kept
<1>6. \A r \in Roots \cup Forgotten : Sound(heap', r) /\ Parts(heap', r) = Parts(heap, r) /\ heap'.mem[r] = heap.mem[r]
  BY <1>1, <1>5, RootsAre, KeptIs
<1>7. JobMatches'
  <2>1. job.in # NULL => job.out \in Roots
    BY DEF AtWork, Roots
  <2>2. job.at = "again" => job.out \in Forgotten
    BY DEF Forgotten
  <2>3. lost \subseteq lost'
    BY DEF SentOrLost, Send
  <2> QED
    BY <1>6, <2>1, <2>2, <2>3 DEF JobMatches, Owned
<1>8. \A c \in Copies : heap'.mem[c] = heap.mem[c]
  BY <1>1, RootsAre
<1>9. msgs \in Seq(Message) /\ Len(msgs) <= QueueMax /\ Len(msgs) \in Nat /\ lost \subseteq Blocks
  BY LenProperties DEF PkTyped
<1>10. CASE Len(msgs) < QueueMax /\ msgs' = Append(msgs, [to |-> to, packet |-> b]) /\ UNCHANGED lost
  <2>1. /\ msgs' \in Seq(Message) /\ Len(msgs') = Len(msgs) + 1 /\ Queued' = Queued \cup {b}
        /\ OnceQueued /\ b \notin Queued => OnceQueued'
        /\ \A t : QueuedFor(t)' = QueuedFor(t) \cup (IF t = to THEN {b} ELSE {})
    BY <1>1, <1>9, <1>10, QueueAppend
  <2>2. Roots' = Roots \cup {b} /\ b \notin Queued /\ b \notin InBox /\ b \notin AtWork
    BY <1>3, <1>4, <2>1 DEF Roots
  <2>3. Separate'
    BY <1>4, <2>1, <2>2 DEF Owned, Separate
  <2>4. Owns(heap', Roots', Copies', lost')
    BY <1>3, <1>4, <1>10, <2>2
  <2>5. \A r \in Roots' \cup Forgotten' : Sound(heap', r)
    BY <1>4, <1>6, <2>2
  <2>6. Owned'
    BY <1>4, <1>7, <2>3, <2>4, <2>5 DEF Owned
  <2>7. Remains
    BY <1>5, <1>8 DEF Remains
  <2>8. Len(msgs') <= QueueMax
    BY <1>9, <1>10, <2>1, PacketBoundsAssumption
  <2> QED
    BY <1>1, <1>9, <1>10, <2>1, <2>6, <2>7, <2>8
<1>11. CASE lost' = lost \cup Parts(heap', b) /\ UNCHANGED msgs
  <2>1. UNCHANGED <<Queued, OnceQueued, Roots>> /\ \A t : QueuedFor(t)' = QueuedFor(t)
    BY <1>4, <1>11 DEF Queued, OnceQueued, QueuedFor, Roots
  <2>2. Separate'
    BY <1>4, <2>1 DEF Owned, Separate
  <2>3. Owns(heap', Roots', Copies', lost')
    BY <1>3, <1>4, <1>11, <2>1
  <2>4. \A r \in Roots' \cup Forgotten' : Sound(heap', r)
    BY <1>4, <1>6, <2>1
  <2>5. Owned'
    BY <1>4, <1>7, <2>2, <2>3, <2>4 DEF Owned
  <2>6. Remains
    BY <1>5, <1>8 DEF Remains
  <2> QED
    BY <1>1, <1>9, <1>11, <2>1, <2>5, <2>6
<1> QED
  BY <1>10, <1>11 DEF SentOrLost, Send

\* Packet q with these bytes for a payload, or none for want of memory, is the new block b, and its
\* receiver gets it unless the queue is full.
Gets(to, b, q, bytes) ==
    /\ b \in Blocks \ heap.live
    /\ heap'.mem[b].packet = q
    /\ IF heap'.mem[b].payload = NULL THEN TRUE ELSE heap'.mem[heap'.mem[b].payload].data = bytes
    /\ bytes = <<>> => heap'.mem[b].payload = NULL
    /\ \A t : \/ QueuedFor(t)' = QueuedFor(t)
              \/ t = to /\ QueuedFor(t)' = QueuedFor(t) \cup {b}
    /\ \A x \in heap'.live \ heap.live : heap'.mem[x].data # <<>> => heap'.mem[x].data = bytes

\* A packet is created, or received, and sent to one of the applications or forgotten.
LEMMA NewPacketOwned ==
    ASSUME PkTyped, Owned, NEW p \in Packet, NEW bytes \in Seq(Byte), Len(bytes) \in Byte,
           bytes = <<>> => p.pLen = 0, NEW m \in NewPacket(p, bytes), m[2] # NULL,
           NEW to \in {"main", "ble"}, heap' = m[1], SentOrLost(to, m[1], m[2]),
           UNCHANGED <<inbox, job, out_queue, line, mailboxes>>
    PROVE  /\ Owned' /\ Remains
           /\ heap' \in Heap /\ msgs' \in Seq(Message) /\ Len(msgs') <= QueueMax /\ lost' \in SUBSET Blocks
           /\ Gets(to, m[2], [p EXCEPT !.pLen = Len(bytes)], bytes)
<1> DEFINE b == m[2]
<1>1. heap \in Heap
  BY DEF PkTyped
<1>2. /\ Grown(heap, m[1], b) /\ Sound(m[1], b)
      /\ m[1].mem[b].packet = [p EXCEPT !.pLen = Len(bytes)]
      /\ m[1].mem[b].data = <<>>
      /\ bytes = <<>> => m[1].mem[b].payload = NULL
      /\ m[1].mem[b].payload # NULL => m[1].mem[m[1].mem[b].payload].data = bytes
  BY <1>1, NewPacketGives
<1>3. /\ Grown(heap, heap', b) /\ Sound(heap', b)
      /\ heap'.mem[b].packet = [p EXCEPT !.pLen = Len(bytes)]
      /\ heap'.mem[b].data = <<>>
      /\ bytes = <<>> => heap'.mem[b].payload = NULL
      /\ heap'.mem[b].payload # NULL => heap'.mem[heap'.mem[b].payload].data = bytes
  BY <1>2
<1> HIDE DEF b
<1>4. SentOrLost(to, heap', b)
  BY DEF b
<1>5. /\ Owned' /\ Remains
      /\ heap' \in Heap /\ msgs' \in Seq(Message) /\ Len(msgs') <= QueueMax /\ lost' \in SUBSET Blocks
      /\ b \in Blocks \ heap.live
      /\ \A t : \/ QueuedFor(t)' = QueuedFor(t)
                \/ t = to /\ QueuedFor(t)' = QueuedFor(t) \cup {b}
  BY <1>3, <1>4, AddsOwned
<1>6. \A x \in heap'.live \ heap.live : heap'.mem[x].data # <<>> => heap'.mem[x].data = bytes
  <2>1. \A x \in Parts(heap', b) : x = b \/ (x = heap'.mem[b].payload /\ x # NULL)
    <3>1. heap' \in Heap /\ b \in Blocks
      BY <1>5
    <3> QED
      BY <3>1, PartsAre, PacketBoundsAssumption
  <2>2. heap'.live \ heap.live \subseteq Parts(heap', b)
    BY <1>3 DEF Grown
  <2> QED
    BY <1>3, <2>1, <2>2
<1>7. Gets(to, b, [p EXCEPT !.pLen = Len(bytes)], bytes)
  BY <1>3, <1>5, <1>6 DEF Gets
<1> QED
  BY <1>5, <1>7 DEF b

\* A packet of the applications' own making, by a step that leaves the rest alone.
LEMMA CreatedOwned ==
    ASSUME PkTyped, Owned, NEW p \in Packet, p.pLen = 0, NEW bytes \in Seq(Byte), Len(bytes) \in Byte,
           CreateAndSend(p, bytes) \/ (bytes = <<>> /\ CreateAndForget(p)),
           UNCHANGED <<inbox, job, out_queue, line, mailboxes>>
    PROVE  /\ heap' \in Heap /\ msgs' \in Seq(Message) /\ Len(msgs') <= QueueMax /\ lost' \in SUBSET Blocks
           /\ halted' \in {halted, "trap"}
           /\ Running' => /\ Owned' /\ Remains
                          /\ \E b : Gets("ble", b, [p EXCEPT !.pLen = Len(bytes)], bytes)
<1>1. PICK m \in NewPacket(p, bytes) :
         \/ m[2] = NULL /\ halted' = "trap" /\ UNCHANGED <<heap, msgs, lost>>
         \/ m[2] # NULL /\ heap' = m[1] /\ SentOrLost("ble", m[1], m[2]) /\ UNCHANGED halted
  BY DEF CreateAndSend, CreateAndForget, SentOrLost
<1>2. CASE m[2] = NULL
  BY <1>1, <1>2 DEF PkTyped, Running
<1>3. CASE m[2] # NULL
  <2>1. /\ Owned' /\ Remains
        /\ heap' \in Heap /\ msgs' \in Seq(Message) /\ Len(msgs') <= QueueMax /\ lost' \in SUBSET Blocks
        /\ Gets("ble", m[2], [p EXCEPT !.pLen = Len(bytes)], bytes)
    BY <1>1, <1>3, NewPacketOwned
  <2> QED
    BY <1>1, <1>3, <2>1
<1> QED
  BY <1>2, <1>3

\* The packets the applications create.
LEMMA CreatedTyped ==
    /\ \A dst, cmd \in Byte : /\ Created(dst, cmd) \in Packet /\ Created(dst, cmd).pLen = 0
                              /\ Created(dst, cmd).dst = dst /\ Created(dst, cmd).cmd = cmd
    /\ Random \in Word
    /\ PositionStatus(LASER_DX, TRUE) \in Seq(Byte) /\ Len(PositionStatus(LASER_DX, TRUE)) = 2
    /\ \A cmd \in Byte : BatteryData(cmd, 300) \in Seq(Byte) /\ Len(BatteryData(cmd, 300)) = 3
    /\ \A ch \in Byte : <<ch % 4, 0>> \in Seq(Byte) /\ Len(<<ch % 4, 0>>) = 2
    /\ {0, 2, 3} \subseteq Byte
<1>1. Random \in Word
  BY DEF Random, Word, Byte
<1>2. PACKET_Create(Random, Random) \in Packet /\ PACKET_Create(Random, Random).pLen = 0
  BY <1>1, CreatedIsPacket DEF PACKET_Create
<1>3. ASSUME NEW dst \in Byte, NEW cmd \in Byte
      PROVE  /\ Created(dst, cmd) \in Packet /\ Created(dst, cmd).pLen = 0
             /\ Created(dst, cmd).dst = dst /\ Created(dst, cmd).cmd = cmd
  <2> DEFINE q == PACKET_Create(Random, Random)
  <2> HIDE DEF q
  <2>1. Created(dst, cmd) = [[q EXCEPT !.dst = dst] EXCEPT !.cmd = cmd]
    BY DEF q, Created, PACKET_SetCommand, PACKET_SetDestination
  <2>2. q \in Packet /\ q.pLen = 0
    BY <1>2 DEF q
  <2> QED
    BY <2>1, <2>2 DEF Packet
<1>4. PositionStatus(LASER_DX, TRUE) \in Seq(Byte) /\ Len(PositionStatus(LASER_DX, TRUE)) = 2
  BY DEF PositionStatus, LASER_DX, Byte
<1>5. ASSUME NEW cmd \in Byte PROVE BatteryData(cmd, 300) \in Seq(Byte) /\ Len(BatteryData(cmd, 300)) = 3
  <2>1. 300 \div 256 = 1 /\ 1 % 256 = 1 /\ 300 % 256 = 44
    OBVIOUS
  <2>2. BatteryData(cmd, 300) = <<cmd, 1, 44>>
    BY <2>1 DEF BatteryData, HIBYTE, LOBYTE
  <2>3. 1 \in Byte /\ 44 \in Byte
    BY DEF Byte
  <2>4. ASSUME NEW x \in Byte, NEW y \in Byte, NEW z \in Byte
        PROVE  <<x, y, z>> \in Seq(Byte) /\ Len(<<x, y, z>>) = 3
    OBVIOUS
  <2>5. <<cmd, 1, 44>> \in Seq(Byte) /\ Len(<<cmd, 1, 44>>) = 3
    BY <2>3, <2>4
  <2> QED
    BY <2>2, <2>5
<1>6. ASSUME NEW ch \in Byte PROVE <<ch % 4, 0>> \in Seq(Byte) /\ Len(<<ch % 4, 0>>) = 2
  <2>1. ch % 4 \in Byte /\ 0 \in Byte
    BY DEF Byte
  <2> QED
    BY <2>1
<1>7. {0, 2, 3} \subseteq Byte
  BY DEF Byte
<1> QED
  BY <1>1, <1>3, <1>4, <1>5, <1>6, <1>7

-----------------------------------------------------------------------------
(* Owners, step by step                                                    *)

\* A step keeps the types and the owners; a double free takes a second mailbox.
StaysOwned ==
    /\ PkTyped'
    /\ Running' => Owned' /\ Remains
    /\ halted' = "double free" => mailboxes' > 1

\* What the types say of numbers and of the heap.
LEMMA Numbers ==
    ASSUME PkTyped
    PROVE  /\ mailboxes \in Nat /\ mailboxes > 0
           /\ reports \in Nat
           /\ nReceived \in Nat /\ nReceived <= ReqMax
           /\ runMode \in Byte /\ activeChannels \in Byte
           /\ heap \in Heap /\ heap.live \subseteq Blocks
<1>1. /\ mailboxes \in Nat \ {0} /\ nReceived \in 0 .. ReqMax /\ reports \in Nat
      /\ runMode \in Byte /\ activeChannels \in Byte
  BY DEF PkTyped
<1>2. ReqMax \in Nat
  BY PacketBoundsAssumption
<1>3. heap \in Heap /\ heap.live \subseteq Blocks
  BY DEF PkTyped, Heap
<1> QED
  BY <1>1, <1>2, <1>3

\* A step that touches neither packets nor their places.
LEMMA NothingOwned ==
    ASSUME PkTyped, Owned, UNCHANGED <<heap, msgs, inbox, job, out_queue, line, lost>>,
           mailboxes' \in Nat, mailboxes' >= mailboxes
    PROVE  Owned' /\ Remains
<1>1. UNCHANGED <<Queued, InBox, AtWork, Forgotten, Copies, Roots, OnceQueued, OnceInBox, OnceInSlot,
                  InSlots>>
  BY DEF Queued, InBox, AtWork, Forgotten, Copies, Roots, OnceQueued, OnceInBox, OnceInSlot, InSlots
<1>2. Separate'
  BY <1>1 DEF Owned, Separate
<1>3. JobMatches'
  BY Numbers DEF Owned, JobMatches
<1>4. Owned'
  BY <1>1, <1>2, <1>3 DEF Owned
<1> QED
  BY <1>4 DEF Remains, Kept

\* What is found where a packet was is a packet.
LEMMA FoundIsPacket ==
    ASSUME PkTyped, NEW b \in Blocks, NEW p \in Found(b)
    PROVE  p \in Packet
<1>1. heap.mem[b].packet \in Packet /\ Garbage \in Packet
  BY Blank, Numbers DEF Heap, Content
<1> QED
  BY <1>1 DEF Found

\* A packet of the applications' own making, with so many bytes, is sent.
Makes(n) ==
    \E b, q, bytes : /\ bytes \in Seq(Byte) /\ Len(bytes) = n /\ q.pLen = n
                     /\ Gets("ble", b, q, bytes)

\* Report, in an interrupt.
LEMMA ReportOwned ==
    ASSUME PkTyped, Owned, Running, Report
    PROVE  StaysOwned /\ (Running' => Makes(2))
<1> DEFINE p == Created(DEV_APPLICATION, BLE_CMD_POS_STATUS)
           bytes == PositionStatus(LASER_DX, TRUE)
<1>1. p \in Packet /\ p.pLen = 0 /\ bytes \in Seq(Byte) /\ Len(bytes) = 2 /\ Len(bytes) \in Byte
  <2>1. DEV_APPLICATION \in Byte /\ BLE_CMD_POS_STATUS \in Byte
    BY DEF DEV_APPLICATION, BLE_CMD_POS_STATUS, Byte
  <2> QED
    BY <2>1, CreatedTyped
<1> HIDE DEF p, bytes
<1>2. CreateAndSend(p, bytes) /\ UNCHANGED <<inbox, job, out_queue, line, mailboxes>>
  BY DEF Report, p, bytes
<1>3. /\ heap' \in Heap /\ msgs' \in Seq(Message) /\ Len(msgs') <= QueueMax /\ lost' \in SUBSET Blocks
      /\ halted' \in {halted, "trap"}
      /\ Running' => /\ Owned' /\ Remains
                     /\ \E b : Gets("ble", b, [p EXCEPT !.pLen = Len(bytes)], bytes)
  BY <1>1, <1>2, CreatedOwned
<1>4. PkTyped'
  <2>1. reports' \in Nat
    BY Numbers DEF Report
  <2> QED
    BY <1>2, <1>3, <2>1 DEF Report, PkTyped, Running
<1>5. [p EXCEPT !.pLen = Len(bytes)].pLen = 2
  BY <1>1 DEF Packet
<1> QED
  BY <1>1, <1>3, <1>4, <1>5 DEF StaysOwned, Makes, Running

\* The answer to a probe.
LEMMA ChannelStatusOwned ==
    ASSUME PkTyped, Owned, Running, ChannelStatusCallback
    PROVE  /\ StaysOwned
           /\ Running' => /\ Makes(2)
                          /\ \E b, q : Gets("ble", b, q, <<activeChannels % 4, 0>>)
<1> DEFINE p == Created(DEV_APPLICATION, BLE_CMD_CH_STATUS)
           bytes == <<activeChannels % 4, 0>>
<1>1. p \in Packet /\ p.pLen = 0 /\ bytes \in Seq(Byte) /\ Len(bytes) = 2 /\ Len(bytes) \in Byte
  <2>1. DEV_APPLICATION \in Byte /\ BLE_CMD_CH_STATUS \in Byte /\ activeChannels \in Byte
    BY Numbers DEF DEV_APPLICATION, BLE_CMD_CH_STATUS, Byte
  <2> QED
    BY <2>1, CreatedTyped
<1> HIDE DEF p, bytes
<1>2. CreateAndSend(p, bytes) /\ UNCHANGED <<inbox, job, out_queue, line, mailboxes>>
  BY DEF ChannelStatusCallback, p, bytes
<1>3. /\ heap' \in Heap /\ msgs' \in Seq(Message) /\ Len(msgs') <= QueueMax /\ lost' \in SUBSET Blocks
      /\ halted' \in {halted, "trap"}
      /\ Running' => /\ Owned' /\ Remains
                     /\ \E b : Gets("ble", b, [p EXCEPT !.pLen = Len(bytes)], bytes)
  BY <1>1, <1>2, CreatedOwned
<1>4. PkTyped'
  <2>1. probes' \in Seq(Probe)
    BY HeadTailProperties DEF ChannelStatusCallback, PkTyped
  <2> QED
    BY <1>2, <1>3, <2>1 DEF ChannelStatusCallback, PkTyped, Running
<1>5. [p EXCEPT !.pLen = Len(bytes)].pLen = 2
  BY <1>1 DEF Packet
<1> QED
  BY <1>1, <1>3, <1>4, <1>5 DEF StaysOwned, Makes, Running, bytes

\* The answer to a battery request, whatever is found where the request was; or none, for want of
\* data or of a case for the command.
LEMMA PowercbOwned ==
    ASSUME PkTyped, Owned, Running, Powercb
    PROVE  StaysOwned /\ (Running' => UNCHANGED msgs \/ Makes(3))
<1> DEFINE request == Head(requests)
<1>1. request \in Request /\ requests' \in Seq(Request)
  BY HeadTailProperties DEF PkTyped, Powercb
<1> HIDE DEF request
<1>2. request.packet \in Blocks /\ request.cmd \in Byte
  BY <1>1 DEF Request
<1>3. CASE UNCHANGED <<heap, msgs, halted, lost>>
  <2>1. /\ UNCHANGED <<heap, msgs, inbox, job, out_queue, line, lost>>
        /\ mailboxes' \in Nat /\ mailboxes' >= mailboxes
    BY <1>3, Numbers DEF Powercb
  <2>2. Owned' /\ Remains
    BY <2>1, NothingOwned
  <2>3. PkTyped'
    BY <1>1, <1>3 DEF Powercb, PkTyped
  <2> QED
    BY <1>3, <2>2, <2>3 DEF StaysOwned, Running
<1>4. CASE \E p \in Found(request.packet) :
              \/ request.cmd \in Reported
                 /\ CreateAndSend(PACKET_CreateForReply(p, Random), BatteryData(request.cmd, 300))
              \/ CreateAndForget(PACKET_CreateForReply(p, Random))
  <2>1. PICK found \in Found(request.packet) :
           \/ CreateAndSend(PACKET_CreateForReply(found, Random), BatteryData(request.cmd, 300))
           \/ CreateAndForget(PACKET_CreateForReply(found, Random))
    BY <1>4
  <2>2. found \in Packet
    BY <1>2, FoundIsPacket
  <2> DEFINE p == PACKET_CreateForReply(found, Random)
             data == BatteryData(request.cmd, 300)
  <2>3. p \in Packet /\ p.pLen = 0
    BY <2>2, CreatedTyped, ReplyMatches
  <2>4. data \in Seq(Byte) /\ Len(data) = 3 /\ Len(data) \in Byte
    BY <1>2, CreatedTyped
  <2> HIDE DEF p, data
  <2>5. UNCHANGED <<inbox, job, out_queue, line, mailboxes>>
    BY DEF Powercb
  <2>6. PICK bytes \in {data, <<>>} :
           /\ CreateAndSend(p, bytes) \/ (bytes = <<>> /\ CreateAndForget(p))
           /\ bytes = data \/ CreateAndForget(p)
    BY <2>1 DEF p, data
  <2>7. bytes \in Seq(Byte) /\ Len(bytes) \in Byte
    <3>1. <<>> \in Seq(Byte) /\ Len(<<>>) = 0
      BY EmptySeq
    <3> QED
      BY <2>4, <2>6, <3>1, CreatedTyped
  <2>8. /\ heap' \in Heap /\ msgs' \in Seq(Message) /\ Len(msgs') <= QueueMax /\ lost' \in SUBSET Blocks
        /\ halted' \in {halted, "trap"}
        /\ Running' => /\ Owned' /\ Remains
                       /\ \E b : Gets("ble", b, [p EXCEPT !.pLen = Len(bytes)], bytes)
    BY <2>3, <2>5, <2>6, <2>7, CreatedOwned
  <2>9. PkTyped'
    BY <1>1, <2>5, <2>8 DEF Powercb, PkTyped, Running
  <2>10. Running' => UNCHANGED msgs \/ Makes(3)
    <3>1. CASE bytes = data
      <4>1. [p EXCEPT !.pLen = Len(bytes)].pLen = 3
        BY <2>3, <2>4, <3>1 DEF Packet
      <4> QED
        BY <2>4, <2>8, <3>1, <4>1 DEF Makes
    <3>2. CASE CreateAndForget(p)
      BY <3>2 DEF CreateAndForget
    <3> QED
      BY <2>6, <3>1, <3>2
  <2> QED
    BY <2>8, <2>9, <2>10 DEF StaysOwned, Running
<1> QED
  BY <1>3, <1>4 DEF Powercb, request

\* A restart opens another mailbox.
LEMMA ReopenOwned ==
    ASSUME PkTyped, Owned, Running, Reopen
    PROVE  StaysOwned
<1>1. mailboxes' \in Nat \ {0} /\ mailboxes' >= mailboxes
  BY Numbers DEF Reopen
<1>2. Owned' /\ Remains
  <2>1. UNCHANGED <<heap, msgs, inbox, job, out_queue, line, lost>> /\ mailboxes' \in Nat
    BY <1>1 DEF Reopen
  <2> QED
    BY <1>1, <2>1, NothingOwned
<1>3. PkTyped'
  BY <1>1 DEF Reopen, PkTyped
<1> QED
  BY <1>2, <1>3 DEF StaysOwned, Reopen, Running

\* What is allocated stays as it is and where it is.
LEMMA StillOwned ==
    ASSUME PkTyped, Owned, heap' \in Heap, Owns(heap', Roots, Copies, lost),
           \A x \in heap.live : heap'.mem[x] = heap.mem[x],
           UNCHANGED <<msgs, inbox, job, out_queue, line, lost, mailboxes>>
    PROVE  Owned' /\ Remains
<1>1. UNCHANGED <<Queued, InBox, AtWork, Forgotten, Copies, Roots, OnceQueued, OnceInBox, OnceInSlot,
                  InSlots>>
  BY DEF Queued, InBox, AtWork, Forgotten, Copies, Roots, OnceQueued, OnceInBox, OnceInSlot, InSlots
<1>2. Separate'
  BY <1>1 DEF Owned, Separate
<1>3. \A r \in Roots \cup Forgotten : Kept(r)
  BY RootsAre DEF Kept
<1>4. \A r \in Roots \cup Forgotten :
         Sound(heap', r) /\ Parts(heap', r) = Parts(heap, r) /\ heap'.mem[r] = heap.mem[r]
  BY <1>3, Numbers, RootsAre, KeptIs
<1>5. JobMatches'
  <2>1. job.in # NULL => job.out \in Roots
    BY DEF AtWork, Roots
  <2>2. job.at = "again" => job.out \in Forgotten
    BY DEF Forgotten
  <2> QED
    BY <1>4, <2>1, <2>2 DEF JobMatches, Owned
<1>6. Owned'
  BY <1>1, <1>2, <1>4, <1>5 DEF Owned
<1>7. \A c \in Copies : heap'.mem[c] = heap.mem[c]
  BY RootsAre
<1> QED
  BY <1>3, <1>6, <1>7 DEF Remains

\* What the phone sends is a packet, and is received as it was sent.
LEMMA SentIs ==
    ASSUME NEW n \in Byte, NEW c \in Inputs
    PROVE  LET raw == PACKET_GetByteArray(Sent(n, c), c.data)
           IN /\ Sent(n, c) \in Packet /\ Sent(n, c).pLen = Len(c.data) /\ Sent(n, c).tid = <<0, 0, 0, n>>
              /\ Sent(n, c).src = DEV_APPLICATION /\ Sent(n, c).tid \in Word
              /\ [Sent(n, c) EXCEPT !.pLen = Len(c.data)] = Sent(n, c)
              /\ c.data \in Seq(Byte) /\ Len(c.data) \in Byte
              /\ PACKET_Get(raw) = Sent(n, c) /\ PayloadOf(raw) = c.data
<1>1. c.cmd \in Byte /\ c.data \in Seq(Byte) /\ Len(c.data) \in Byte
  BY InputsAssumption
<1>2. Preamble \in [1 .. 2 -> Byte] /\ DEV_APPLICATION \in Byte /\ DEV_MASTER \in Byte
  BY DEF Preamble, DEV_APPLICATION, DEV_MASTER, Byte
<1>3. <<0, 0, 0, n>> \in Word
  BY DEF Word, Byte
<1> DEFINE p == Sent(n, c)
<1>4. /\ p \in Packet /\ p.pLen = Len(c.data) /\ p.tid = <<0, 0, 0, n>> /\ p.src = DEV_APPLICATION
      /\ p.tid \in Word
  BY <1>1, <1>2, <1>3 DEF Sent, Packet
<1> HIDE DEF p
<1>5. [p EXCEPT !.pLen = Len(c.data)] = p
  BY <1>4 DEF Packet
<1>6. /\ PACKET_Get(PACKET_GetByteArray(p, c.data)) = p
      /\ PayloadOf(PACKET_GetByteArray(p, c.data)) = c.data
  BY <1>1, <1>4, RoundTrip
<1> QED
  BY <1>1, <1>4, <1>5, <1>6 DEF p

\* A battery request is freed at once, a command of the main application is sent to it.
LEMMA ReceiveOwned ==
    ASSUME PkTyped, Owned, Running, NEW c \in Inputs, Receive(c)
    PROVE  /\ StaysOwned
           /\ Running' =>
                \/ UNCHANGED <<msgs, asked>>
                \/ /\ \E b : Gets("main", b, Sent(nReceived + 1, c), c.data)
                   /\ asked' = asked \cup {<<0, 0, 0, nReceived + 1>>}
<1> DEFINE n == nReceived + 1
           p == Sent(n, c)
           raw == PACKET_GetByteArray(p, c.data)
<1>1. n \in Byte /\ nReceived' = n /\ n \in 0 .. ReqMax
  <2>1. ReqMax \in Byte /\ nReceived < ReqMax /\ nReceived' = nReceived + 1
    BY InputsAssumption DEF Receive
  <2> QED
    BY <2>1, Numbers DEF Byte
<1>2. /\ p \in Packet /\ p.pLen = Len(c.data) /\ p.tid = <<0, 0, 0, n>> /\ p.tid \in Word
      /\ [p EXCEPT !.pLen = Len(c.data)] = p
      /\ c.data \in Seq(Byte) /\ Len(c.data) \in Byte
      /\ PACKET_Get(raw) = p /\ PayloadOf(raw) = c.data
  BY <1>1, SentIs
<1>3. PICK m \in NewPacket(PACKET_Get(raw), PayloadOf(raw)) :
         \/ /\ NoMemory(m)
            /\ halted' = "trap" /\ UNCHANGED <<heap, msgs, requests, asked, lost>>
         \/ /\ ~NoMemory(m) /\ PACKET_Get(raw).cmd < MAINAPP_CMD_OFFSET
            /\ Manage(m[1], m[2])
            /\ UNCHANGED <<msgs, asked, lost>>
         \/ /\ ~NoMemory(m) /\ PACKET_Get(raw).cmd >= MAINAPP_CMD_OFFSET
            /\ heap' = m[1] /\ SentOrLost("main", m[1], m[2])
            /\ asked' = asked \cup {PACKET_Get(raw).tid}
            /\ UNCHANGED <<requests, halted>>
  BY DEF Receive, SentOrLost
<1>4. UNCHANGED <<inbox, job, out_queue, line, mailboxes, runMode, activeChannels, probes, reports>>
  BY DEF Receive
<1> HIDE DEF raw, p
<1>5. m \in NewPacket(p, c.data) /\ (c.data = <<>> => p.pLen = 0)
  BY <1>2, <1>3
<1>9. p.cmd < MAINAPP_CMD_OFFSET <=> ~(p.cmd >= MAINAPP_CMD_OFFSET)
  <2>1. p.cmd \in Byte
    BY <1>2 DEF Packet
  <2> QED
    BY <2>1 DEF Byte, MAINAPP_CMD_OFFSET
<1>10. ~NoMemory(m) => m[2] # NULL
  BY DEF NoMemory
<1>6. CASE NoMemory(m)
  <2>1. halted' = "trap" /\ UNCHANGED <<heap, msgs, requests, asked, lost>>
    BY <1>3, <1>6
  <2>2. PkTyped'
    BY <1>1, <1>4, <2>1 DEF PkTyped
  <2> QED
    BY <2>1, <2>2 DEF StaysOwned, Running
<1>7. CASE ~NoMemory(m) /\ p.cmd < MAINAPP_CMD_OFFSET
  <2> DEFINE b == m[2]
             h == m[1]
             request == [packet |-> b, cmd |-> h.mem[h.mem[b].payload].data[1]]
             freed == Freed(h, Parts(h, b), Requested(requests'))
  <2>1. Manage(h, b) /\ UNCHANGED <<msgs, asked, lost>> /\ b # NULL
    BY <1>2, <1>3, <1>7, <1>9, <1>10
  <2>2. /\ Grown(heap, h, b)
        /\ h.mem[b].payload # NULL => h.mem[h.mem[b].payload].data = c.data /\ c.data # <<>>
    BY <1>2, <1>5, <2>1, Numbers, NewPacketGives
  <2> HIDE DEF b, h
  <2>3. CASE halted' = "trap" /\ UNCHANGED <<heap, requests>>
    <3>1. PkTyped'
      BY <1>1, <1>4, <2>1, <2>3 DEF PkTyped
    <3> QED
      BY <2>3, <3>1 DEF StaysOwned, Running
  <2>4. CASE /\ heap' = freed /\ UNCHANGED halted
             /\ \/ requests' = requests
                \/ h.mem[b].payload # NULL /\ requests' = Append(requests, request)
    <3>1. Owns(heap, Roots, Copies, lost)
      BY DEF Owned
    <3>2. b \notin Roots /\ Owns(h, Roots \cup {b}, Copies, lost) /\ h \in Heap /\ b \in Blocks
      <4>1. heap \in Heap
        BY Numbers
      <4>2. b \notin Roots /\ Owns(h, Roots \cup {b}, Copies, lost)
        BY <2>2, <3>1, <4>1, OwnsNew
      <4> QED
        BY <2>2, <4>2 DEF Grown
    <3>3. Owns(freed, (Roots \cup {b}) \ {b}, Copies, lost)
      BY <3>2, OwnsFreed
    <3>4. Owns(heap', Roots, Copies, lost)
      <4>1. (Roots \cup {b}) \ {b} = Roots
        BY <3>2
      <4> QED
        BY <2>4, <3>3, <4>1
    <3>5. heap' \in Heap /\ \A x \in Blocks \ Parts(h, b) : heap'.mem[x] = h.mem[x]
      BY <2>4, <3>2, FreedLeaves
    <3>6. \A x \in heap.live : heap'.mem[x] = heap.mem[x]
      BY <2>2, <3>5, Numbers DEF Grown
    <3>7. Owned' /\ Remains
      BY <1>4, <2>1, <3>4, <3>5, <3>6, StillOwned
    <3>8. requests' \in Seq(Request)
      <4>1. requests \in Seq(Request)
        BY DEF PkTyped
      <4>2. ASSUME h.mem[b].payload # NULL PROVE Append(requests, request) \in Seq(Request)
        <5>1. c.data[1] \in Byte
          BY <1>2, <2>2, <4>2, EmptySeq, ElementOfSeq, LenProperties
        <5>2. request \in Request
          BY <2>2, <3>2, <4>2, <5>1 DEF Request
        <5> HIDE DEF request
        <5> QED
          BY <4>1, <5>2, AppendProperties
      <4> QED
        BY <2>4, <4>1, <4>2
    <3>9. PkTyped'
      BY <1>1, <1>4, <2>1, <2>4, <3>5, <3>8 DEF PkTyped
    <3> QED
      BY <2>1, <2>4, <3>7, <3>9 DEF StaysOwned, Running
  <2> QED
    BY <2>1, <2>3, <2>4 DEF Manage
<1>8. CASE ~NoMemory(m) /\ p.cmd >= MAINAPP_CMD_OFFSET
  <2>1. /\ heap' = m[1] /\ SentOrLost("main", m[1], m[2]) /\ asked' = asked \cup {p.tid}
        /\ UNCHANGED <<requests, halted>> /\ m[2] # NULL
    BY <1>2, <1>3, <1>8, <1>9, <1>10
  <2>2. /\ Owned' /\ Remains
        /\ heap' \in Heap /\ msgs' \in Seq(Message) /\ Len(msgs') <= QueueMax /\ lost' \in SUBSET Blocks
        /\ Gets("main", m[2], [p EXCEPT !.pLen = Len(c.data)], c.data)
    BY <1>2, <1>4, <1>5, <2>1, NewPacketOwned
  <2>3. asked' \in SUBSET Word
    BY <1>2, <2>1 DEF PkTyped
  <2>4. PkTyped'
    BY <1>1, <1>4, <2>1, <2>2, <2>3 DEF PkTyped
  <2> QED
    BY <1>2, <2>1, <2>2, <2>4 DEF StaysOwned, Running, p
<1> QED
  BY <1>6, <1>7, <1>8, <1>9

\* A packet is freed, and nothing else changes.
LEMMA Frees ==
    ASSUME PkTyped, Owned, NEW r \in Roots, NEW P, heap' = Freed(heap, Parts(heap, r), P)
    PROVE  /\ heap' \in Heap /\ Owns(heap', Roots \ {r}, Copies, lost)
           /\ \A s \in (Roots \ {r}) \cup Forgotten :
                 /\ Kept(s) /\ heap'.mem[s] = heap.mem[s]
                 /\ Parts(heap', s) = Parts(heap, s) /\ Sound(heap', s)
           /\ \A c \in Copies : heap'.mem[c] = heap.mem[c]
<1>1. heap' \in Heap /\ \A x \in Blocks \ Parts(heap, r) : heap'.mem[x] = heap.mem[x]
  BY Numbers, FreedLeaves
<1>2. Owns(heap, Roots, Copies, lost)
  BY DEF Owned
<1>3. Owns(heap', Roots \ {r}, Copies, lost)
  <2>1. heap \in Heap
    BY Numbers
  <2> QED
    BY <1>2, <2>1, OwnsFreed
<1>4. \A s \in (Roots \ {r}) \cup Forgotten :
         s \in Blocks /\ Sound(heap, s) /\ Parts(heap, s) \cap Parts(heap, r) = {}
  <2>1. \A s \in Roots \ {r} : Parts(heap, s) \cap Parts(heap, r) = {}
    BY <1>2 DEF Owns
  <2>2. \A s \in Forgotten : Parts(heap, s) \cap Parts(heap, r) = {}
    <3>1. \A s \in Forgotten : Parts(heap, s) \subseteq lost
      BY DEF Owned, JobMatches, Forgotten
    <3>2. Parts(heap, r) \cap lost = {}
      BY <1>2 DEF Owns
    <3> QED
      BY <3>1, <3>2
  <2> QED
    BY <2>1, <2>2, RootsAre
<1>5. \A s \in (Roots \ {r}) \cup Forgotten : Parts(heap, s) \subseteq Blocks
  BY <1>4, Numbers, PartsAre
<1>6. \A s \in (Roots \ {r}) \cup Forgotten : Kept(s)
  BY <1>1, <1>4, <1>5 DEF Kept
<1>7. \A s \in (Roots \ {r}) \cup Forgotten :
         heap'.mem[s] = heap.mem[s] /\ Parts(heap', s) = Parts(heap, s) /\ Sound(heap', s)
  BY <1>4, <1>6, Numbers, KeptIs
<1>8. \A c \in Copies : heap'.mem[c] = heap.mem[c]
  <2>1. \A c \in Copies : c \in Blocks /\ c \notin Parts(heap, r)
    BY <1>2, RootsAre DEF Owns
  <2> QED
    BY <1>1, <2>1
<1> QED
  BY <1>1, <1>3, <1>6, <1>7, <1>8

\* The program stops, or goes astray.
LEMMA HaltOwned ==
    ASSUME PkTyped, NEW why \in {"trap", "astray"}, Halt(why)
    PROVE  StaysOwned /\ ~Running'
<1>1. PkTyped'
  BY DEF Halt, PkTyped
<1> QED
  BY <1>1 DEF Halt, StaysOwned, Running

\* A parser fails.
LEMMA ParseFailsOwned ==
    ASSUME PkTyped, ParseFails
    PROVE  StaysOwned /\ ~Running' /\ \E why \in {"trap", "astray"} : Halt(why)
<1>1. PICK why \in {"trap", "astray"} : Halt(why)
  BY DEF ParseFails
<1> QED
  BY <1>1, HaltOwned

\* The main application takes a command out of its mailbox and creates the reply.
LEMMA TakeOwned ==
    ASSUME PkTyped, Owned, Running, Take
    PROVE  /\ StaysOwned
           /\ Running' =>
                /\ job'.in \in InBox /\ InBox' = InBox \ {job'.in}
                /\ job'.out \in Blocks \ heap.live /\ job'.in # NULL
                /\ \A x \in heap.live : heap'.mem[x] = heap.mem[x]
                /\ heap'.mem[job'.out].payload = NULL
                /\ \/ /\ job'.at = "end"
                      /\ heap'.mem[job'.out].packet = Created(0, BLE_CMD_NOT_SUPPORTED)
                   \/ /\ job'.at = "parse"
                      /\ heap'.mem[job'.out].packet
                            = PACKET_CreateForReply(heap.mem[job'.in].packet, Random)
<1> DEFINE hd == Head(inbox)
           p == heap.mem[hd].packet
           unsupported == Unsupported(p)
           reply == IF unsupported THEN Created(0, BLE_CMD_NOT_SUPPORTED)
                    ELSE PACKET_CreateForReply(p, Random)
<1>1. inbox \in Seq(Blocks) /\ inbox # <<>> /\ OnceInBox
  BY DEF PkTyped, Take, Owned, Separate
<1>2. hd \in Blocks /\ hd \in InBox /\ hd # NULL
  <2>1. hd \in Blocks /\ hd \in InBox
    <3>1. /\ Len(inbox) \in Nat /\ Len(inbox) > 0 /\ hd = inbox[1]
      BY <1>1, HeadTailProperties, LenProperties, EmptySeq
    <3> QED
      BY <1>1, <3>1, ElementOfSeq DEF InBox
  <2> QED
    BY <2>1, PacketBoundsAssumption
<1>3. reply \in Packet /\ reply.pLen = 0
  <2>1. p \in Packet
    BY <1>2, Numbers DEF Heap, Content
  <2>2. BLE_CMD_NOT_SUPPORTED \in Byte /\ 0 \in Byte
    BY DEF BLE_CMD_NOT_SUPPORTED, Byte
  <2> QED
    BY <2>1, <2>2, CreatedTyped, ReplyMatches
<1>4. PICK m \in Malloc(heap, PacketBlock(reply)) :
         \/ \E why \in {"trap", "astray"} : Halt(why)
         \/ /\ m[2] # NULL /\ heap' = m[1] /\ inbox' = Tail(inbox)
            /\ job' = [at |-> IF unsupported THEN "end" ELSE "parse", in |-> hd, out |-> m[2],
                       left |-> 0]
            /\ UNCHANGED <<msgs, out_queue, line, requests, mailboxes, runMode, activeChannels,
                           probes, halted, nReceived, reports, asked, lost>>
  BY DEF Take
<1>5. job = None
  BY DEF Take, Idle
<1> HIDE DEF hd
<1>6. CASE \E why \in {"trap", "astray"} : Halt(why)
  BY <1>6, HaltOwned
<1>7. CASE ~\E why \in {"trap", "astray"} : Halt(why)
  <2> DEFINE b == m[2]
  <2>1. /\ m[2] # NULL /\ heap' = m[1] /\ inbox' = Tail(inbox)
        /\ job' = [at |-> IF unsupported THEN "end" ELSE "parse", in |-> hd, out |-> b,
                   left |-> 0]
        /\ UNCHANGED <<msgs, out_queue, line, requests, mailboxes, runMode, activeChannels,
                       probes, halted, nReceived, reports, asked, lost>>
    BY <1>4, <1>7
  <2>2. /\ heap' \in Heap /\ b \in Blocks \ heap.live /\ b # NULL
        /\ heap'.live = heap.live \cup {b} /\ heap'.mem[b] = PacketBlock(reply)
        /\ \A x \in Blocks \ {b} : heap'.mem[x] = heap.mem[x]
    <3>1. PacketBlock(reply) \in Content /\ heap \in Heap
      BY <1>3, Blank, Numbers
    <3> HIDE DEF reply
    <3> QED
      BY <2>1, <3>1, MallocGives
  <2>3. heap'.mem[b].packet = reply /\ heap'.mem[b].payload = NULL
    BY <2>2 DEF PacketBlock
  <2> HIDE DEF b, reply, unsupported
  <2>4. \A x \in heap.live : heap'.mem[x] = heap.mem[x]
    BY <2>2, Numbers
  <2>5. Grown(heap, heap', b)
    <3>1. Parts(heap', b) = {b}
      BY <2>2, <2>3, PartsAre
    <3> QED
      BY <2>2, <2>4, <3>1 DEF Grown
  <2>6. b \notin Roots /\ Owns(heap', Roots \cup {b}, Copies, lost)
    <3>1. Owns(heap, Roots, Copies, lost) /\ heap \in Heap
      BY Numbers DEF Owned
    <3> QED
      BY <2>5, <3>1, OwnsNew
  <2>7. inbox' \in Seq(Blocks) /\ InBox' = InBox \ {hd} /\ OnceInBox'
    BY <1>1, <2>1, BoxTail DEF hd
  <2>8. job'.in = hd /\ job'.out = b /\ job'.at \in {"parse", "end"} /\ job' \in Job
    BY <1>2, <2>1, <2>2 DEF Job
  <2>9. UNCHANGED <<Queued, Copies, OnceQueued, OnceInSlot, InSlots>>
    BY <2>1 DEF Queued, Copies, OnceQueued, OnceInSlot, InSlots
  <2>10. AtWork = {} /\ AtWork' = {hd, b} /\ Forgotten = {} /\ Forgotten' = {}
    BY <1>2, <1>5, <2>8 DEF AtWork, Forgotten, None
  <2>11. Roots' = Roots \cup {b} /\ hd \in Roots /\ hd # b /\ hd \notin Queued
    BY <1>2, <2>6, <2>7, <2>9, <2>10 DEF Roots, Owned, Separate
  <2>12. Separate'
    BY <2>6, <2>7, <2>9, <2>10, <2>11 DEF Roots, Owned, Separate
  <2>13. JobMatches'
    BY <1>2, <2>2, <2>3, <2>8, <2>11 DEF JobMatches
  <2>14. \A r \in Roots : Kept(r) /\ Sound(heap', r)
    <3>1. \A r \in Roots : Kept(r)
      BY <2>4, RootsAre DEF Kept
    <3> QED
      BY <3>1, RootsAre, Numbers, KeptIs
  <2>15. Owned'
    <3>1. Sound(heap', b)
      BY <2>3 DEF Sound
    <3>2. \A r \in Roots' \cup Forgotten' : Sound(heap', r)
      BY <2>10, <2>11, <2>14, <3>1
    <3>3. Owns(heap', Roots', Copies', lost')
      BY <2>1, <2>6, <2>9, <2>11
    <3> QED
      BY <2>9, <2>12, <2>13, <3>2, <3>3 DEF Owned
  <2>16. Remains
    <3>1. \A c \in Copies : heap'.mem[c] = heap.mem[c]
      BY <2>4, RootsAre
    <3> QED
      BY <2>10, <2>14, <3>1 DEF Remains
  <2>17. PkTyped'
    BY <2>1, <2>2, <2>7, <2>8 DEF PkTyped
  <2> QED
    <3>1. StaysOwned
      BY <2>1, <2>15, <2>16, <2>17 DEF StaysOwned, Running
    <3>2. \/ job'.at = "end" /\ heap'.mem[job'.out].packet = Created(0, BLE_CMD_NOT_SUPPORTED)
          \/ /\ job'.at = "parse"
             /\ heap'.mem[job'.out].packet = PACKET_CreateForReply(heap.mem[job'.in].packet, Random)
      BY <2>1, <2>3, <2>8 DEF reply
    <3> QED
      BY <1>2, <2>2, <2>3, <2>4, <2>7, <2>8, <3>1, <3>2
<1> QED
  BY <1>6, <1>7

\* What Respond does to the reply and to the heap.
LEMMA RespondGives ==
    ASSUME PkTyped, NEW res \in {0, 255}, Respond(res), NEW o, o = job.out,
           o \in heap.live, heap.mem[o].payload = NULL
    PROVE  /\ heap' \in Heap
           /\ \A x \in heap.live \ {o} : heap'.mem[x] = heap.mem[x]
           /\ heap'.mem[o].packet.cmd = BLE_CMD_RESPONSE /\ heap'.mem[o].packet.pLen = 1
           /\ heap'.mem[o].packet.tid = heap.mem[o].packet.tid
           /\ heap'.mem[o].packet.dst = heap.mem[o].packet.dst
           /\ \/ heap'.mem[o].payload = NULL /\ heap'.live = heap.live
              \/ /\ heap'.mem[o].payload \in Blocks \ heap.live
                 /\ heap'.live = heap.live \cup {heap'.mem[o].payload}
                 /\ heap'.mem[heap'.mem[o].payload] = DataBlock(<<res>>)
<1> DEFINE q == [heap.mem[o].packet EXCEPT !.cmd = BLE_CMD_RESPONSE]
           g == [heap EXCEPT !.mem[o].packet = q]
           bytes == <<res>>
<1>1. o \in Blocks /\ heap \in Heap /\ heap.mem[o].packet \in Packet /\ heap.mem[o] \in Content
  <2>1. o \in Blocks /\ heap \in Heap
    BY Numbers
  <2> QED
    BY <2>1 DEF Heap, Content
<1>2. heap' \in PACKET_SetPayload(g, o, bytes)
  BY DEF Respond, PACKET_SetCommand
<1>3. bytes \in Seq(Byte) /\ bytes # <<>> /\ Len(bytes) = 1 /\ Len(bytes) \in Byte
  BY DEF Byte
<1>4. /\ q \in Packet /\ q.cmd = BLE_CMD_RESPONSE /\ q.tid = heap.mem[o].packet.tid
      /\ q.dst = heap.mem[o].packet.dst
  <2>1. BLE_CMD_RESPONSE \in Byte
    BY DEF BLE_CMD_RESPONSE, Byte
  <2> QED
    BY <1>1, <2>1 DEF Packet
<1> HIDE DEF q, bytes
<1>5. /\ g \in Heap /\ g.live = heap.live /\ g.mem[o].packet = q /\ g.mem[o].payload = NULL
      /\ \A x \in Blocks \ {o} : g.mem[x] = heap.mem[x]
  <2> DEFINE c == [heap.mem[o] EXCEPT !.packet = q]
  <2>1. c \in Content /\ c.packet = q /\ c.payload = NULL
    BY <1>1, <1>4 DEF Content
  <2>2. g = [heap EXCEPT !.mem[o] = c]
    OBVIOUS
  <2> HIDE DEF c, g
  <2> QED
    BY <1>1, <2>1, <2>2 DEF Heap
<1> HIDE DEF g
<1>6. /\ heap' \in Heap
      /\ \A x \in g.live \ {o} : heap'.mem[x] = g.mem[x]
      /\ heap'.mem[o].packet = [g.mem[o].packet EXCEPT !.pLen = Len(bytes)]
      /\ \/ heap'.mem[o].payload = NULL /\ heap'.live = g.live
         \/ /\ heap'.mem[o].payload \in Blocks \ g.live
            /\ heap'.live = g.live \cup {heap'.mem[o].payload}
            /\ heap'.mem[heap'.mem[o].payload] = DataBlock(bytes)
  <2> DEFINE h2 == heap'
  <2>1. h2 \in PACKET_SetPayload(g, o, bytes)
    BY <1>2
  <2> HIDE DEF h2
  <2>2. /\ h2 \in Heap
        /\ \A x \in g.live \ {o} : h2.mem[x] = g.mem[x]
        /\ h2.mem[o].packet = [g.mem[o].packet EXCEPT !.pLen = Len(bytes)]
        /\ h2.mem[o].data = g.mem[o].data
        /\ \/ h2.mem[o].payload = NULL /\ h2.live = g.live
           \/ /\ h2.mem[o].payload \in Blocks \ g.live
              /\ h2.live = g.live \cup {h2.mem[o].payload}
              /\ h2.mem[h2.mem[o].payload] = DataBlock(bytes)
    <3>1. g \in Heap /\ o \in g.live /\ g.mem[o].payload = NULL
      BY <1>5
    <3>2. bytes \in Seq(Byte) /\ bytes # <<>> /\ Len(bytes) \in Byte
      BY <1>3
    <3> QED
      BY <2>1, <3>1, <3>2, PayloadSet
  <2> QED
    BY <2>2 DEF h2
<1>7. heap'.mem[o].packet = [q EXCEPT !.pLen = 1]
  BY <1>3, <1>5, <1>6
<1>8. /\ [q EXCEPT !.pLen = 1].cmd = BLE_CMD_RESPONSE /\ [q EXCEPT !.pLen = 1].pLen = 1
      /\ [q EXCEPT !.pLen = 1].tid = heap.mem[o].packet.tid
      /\ [q EXCEPT !.pLen = 1].dst = heap.mem[o].packet.dst
  BY <1>4 DEF Packet
<1>9. \A x \in heap.live \ {o} : heap'.mem[x] = heap.mem[x]
  BY <1>5, <1>6, Numbers
<1> QED
  BY <1>5, <1>6, <1>7, <1>8, <1>9 DEF q, bytes

\* The parser: the reply gets its result, or stays as it is.
LEMMA ParseOwned ==
    ASSUME PkTyped, Owned, Running, Parse
    PROVE  /\ StaysOwned
           /\ job' = [job EXCEPT !.at = "end"] /\ job.in # NULL /\ job.out \in Roots
           /\ heap.mem[job.out].payload = NULL
           /\ \/ UNCHANGED heap /\ In.cmd \in {BLE_CMD_START_POS, BLE_CMD_DONE_POS}
              \/ /\ heap'.mem[job.out].packet.cmd = BLE_CMD_RESPONSE
                 /\ heap'.mem[job.out].packet.pLen = 1
                 /\ heap'.mem[job.out].packet.tid = heap.mem[job.out].packet.tid
                 /\ heap'.mem[job.out].packet.dst = heap.mem[job.out].packet.dst
           /\ \/ UNCHANGED <<activeChannels, probes>>
              \/ probes' = Overtaken
              \/ probes' = Append(Overtaken, [ch |-> activeChannels', overtaken |-> FALSE])
<1> DEFINE o == job.out
<1>1. /\ job \in Job /\ job.in # NULL /\ o # NULL /\ job.in \in Blocks /\ o \in Blocks
      /\ heap.mem[o].payload = NULL /\ job.at = "parse"
  BY DEF Parse, Owned, JobMatches, PkTyped, Job
<1>2. /\ job' = [job EXCEPT !.at = "end"] /\ job'.in = job.in /\ job'.out = o /\ job'.at = "end"
      /\ job' \in Job
  BY <1>1 DEF Parse, Job
<1>3. UNCHANGED <<msgs, inbox, out_queue, line, requests, mailboxes, halted, nReceived, reports, asked,
                  lost>>
  BY DEF Parse
<1> HIDE DEF o
<1>4. o \in Roots /\ o \in heap.live
  BY <1>1, RootsAre DEF Roots, AtWork, o
<1>5. UNCHANGED <<Queued, InBox, AtWork, Forgotten, Copies, Roots, OnceQueued, OnceInBox, OnceInSlot,
                  InSlots>>
  BY <1>1, <1>2, <1>3
     DEF Queued, InBox, AtWork, Forgotten, Copies, Roots, OnceQueued, OnceInBox, OnceInSlot, InSlots, o
<1>6. Separate'
  BY <1>5 DEF Owned, Separate
<1>7. JobMatches'
  BY <1>1, <1>2 DEF Owned, JobMatches, o
<1>8. \/ UNCHANGED heap /\ In.cmd \in {BLE_CMD_START_POS, BLE_CMD_DONE_POS}
      \/ \E res \in {0, 255} : Respond(res)
  BY DEF Parse, Mode, StartPos, DonePos, GetChannelSts
<1>9. Payload(job.in) \in Seq(Byte)
  BY <1>1, Numbers, PacketBoundsAssumption DEF Payload, Heap, Content
<1>10. /\ runMode' \in Byte /\ activeChannels' \in Byte /\ probes' \in Seq(Probe)
       /\ \/ UNCHANGED <<activeChannels, probes>>
          \/ probes' = Overtaken
          \/ probes' = Append(Overtaken, [ch |-> activeChannels', overtaken |-> FALSE])
  <2>1. probes \in Seq(Probe) /\ runMode \in Byte /\ activeChannels \in Byte
    BY DEF PkTyped
  <2>2. Overtaken \in Seq(Probe)
    <3>1. \A i \in 1 .. Len(probes) : probes[i] \in Probe
      BY <2>1, ElementOfSeq
    <3>2. \A i \in 1 .. Len(probes) : [probes[i] EXCEPT !.overtaken = TRUE] \in Probe
      BY <3>1 DEF Probe
    <3>3. Len(probes) \in Nat
      BY <2>1, LenProperties
    <3> QED
      BY <3>2, <3>3 DEF Overtaken
  <2> DEFINE bytes == Payload(job.in)
  <2>3. \A i \in 1 .. Len(bytes) : bytes[i] \in Byte
    BY <1>9, ElementOfSeq
  <2>4. Len(bytes) \in Nat
    BY <1>9, LenProperties
  <2> HIDE DEF bytes
  <2>5. CASE Mode
    <3>1. CASE RunModeGiven(In, bytes)
      <4>1. Len(bytes) >= 2
        BY <3>1 DEF RunModeGiven
      <4>2. bytes[1] \in Byte /\ bytes[2] \in Byte
        BY <2>3, <2>4, <4>1
      <4> QED
        BY <2>2, <2>5, <3>1, <4>2 DEF Mode, bytes
    <3>2. CASE ~RunModeGiven(In, bytes)
      BY <2>1, <2>5, <3>2 DEF Mode, bytes
    <3> QED
      BY <3>1, <3>2
  <2>6. CASE StartPos \/ DonePos
    BY <2>1, <2>6 DEF StartPos, DonePos
  <2>7. CASE GetChannelSts
    <3>1. CASE Len(bytes) = 1
      <4>1. bytes[1] \in Byte
        BY <2>3, <3>1
      <4>2. activeChannels' \in Byte /\ UNCHANGED runMode
        BY <2>7, <3>1, <4>1 DEF GetChannelSts, bytes
      <4>3. probes' \in {Overtaken, Append(Overtaken, [ch |-> activeChannels', overtaken |-> FALSE])}
        BY <2>7, <3>1 DEF GetChannelSts, bytes
      <4>4. Append(Overtaken, [ch |-> activeChannels', overtaken |-> FALSE]) \in Seq(Probe)
        <5>1. [ch |-> activeChannels', overtaken |-> FALSE] \in Probe
          BY <4>2 DEF Probe
        <5> QED
          BY <2>2, <5>1, AppendProperties
      <4> QED
        BY <2>1, <2>2, <4>2, <4>3, <4>4
    <3>2. CASE Len(bytes) # 1
      BY <2>1, <2>7, <3>2 DEF GetChannelSts, bytes
    <3> QED
      BY <3>1, <3>2
  <2> QED
    BY <2>5, <2>6, <2>7 DEF Parse
<1>11. CASE UNCHANGED heap /\ In.cmd \in {BLE_CMD_START_POS, BLE_CMD_DONE_POS}
  <2>1. Owned'
    BY <1>3, <1>5, <1>6, <1>7, <1>11 DEF Owned
  <2>2. Remains
    BY <1>11 DEF Remains, Kept
  <2>3. PkTyped'
    BY <1>2, <1>3, <1>10, <1>11 DEF PkTyped
  <2>4. StaysOwned
    BY <1>3, <2>1, <2>2, <2>3 DEF StaysOwned, Running
  <2> QED
    BY <1>1, <1>2, <1>4, <1>10, <1>11, <2>4 DEF o
<1>12. ASSUME NEW res \in {0, 255}, Respond(res)
       PROVE  /\ StaysOwned
              /\ heap'.mem[o].packet.cmd = BLE_CMD_RESPONSE /\ heap'.mem[o].packet.pLen = 1
              /\ heap'.mem[o].packet.tid = heap.mem[o].packet.tid
              /\ heap'.mem[o].packet.dst = heap.mem[o].packet.dst
  <2>1. /\ heap' \in Heap
        /\ \A x \in heap.live \ {o} : heap'.mem[x] = heap.mem[x]
        /\ heap'.mem[o].packet.cmd = BLE_CMD_RESPONSE /\ heap'.mem[o].packet.pLen = 1
        /\ heap'.mem[o].packet.tid = heap.mem[o].packet.tid
        /\ heap'.mem[o].packet.dst = heap.mem[o].packet.dst
        /\ \/ heap'.mem[o].payload = NULL /\ heap'.live = heap.live
           \/ /\ heap'.mem[o].payload \in Blocks \ heap.live
              /\ heap'.live = heap.live \cup {heap'.mem[o].payload}
              /\ heap'.mem[heap'.mem[o].payload] = DataBlock(<<res>>)
    <3>1. o = job.out
      BY DEF o
    <3> QED
      BY <1>1, <1>4, <1>12, <3>1, RespondGives
  <2>2. Owns(heap, Roots, Copies, lost) /\ heap \in Heap /\ heap'.mem[o].packet.pLen > 0
    BY <2>1, Numbers DEF Owned
  <2>3. Owns(heap', Roots, Copies, lost)
    BY <1>1, <1>4, <2>1, <2>2, OwnsPayload
  <2>4. Sound(heap', o)
    <3>1. DataBlock(<<res>>).data = <<res>> /\ Len(<<res>>) = 1
      BY DEF DataBlock
    <3>2. \/ heap'.mem[o].payload = NULL
          \/ heap'.mem[heap'.mem[o].payload].data = <<res>>
      BY <2>1, <3>1
    <3> HIDE DEF Sound
    <3> QED
      BY <2>1, <3>1, <3>2 DEF Sound
  <2>5. \A r \in Roots \ {o} : Kept(r) /\ Sound(heap', r)
    <3>1. \A r \in Roots \ {o} : o \notin Parts(heap, r)
      <4>1. o \in Parts(heap, o)
        BY <1>1, Numbers, PartsAre
      <4> QED
        BY <1>4, <2>2, <4>1 DEF Owns
    <3>2. \A r \in Roots \ {o} : Kept(r)
      BY <2>1, <3>1, RootsAre DEF Kept
    <3> QED
      BY <3>2, RootsAre, Numbers, KeptIs
  <2>6. \A c \in Copies : heap'.mem[c] = heap.mem[c]
    BY <1>4, <2>1, RootsAre
  <2>7. Forgotten = {} /\ Forgotten' = {} /\ Roots' = Roots
    BY <1>1, <1>2, <1>5 DEF Forgotten
  <2>8. Owned'
    <3>1. Owns(heap', Roots', Copies', lost')
      BY <1>3, <1>5, <2>3
    <3> QED
      BY <1>5, <1>6, <1>7, <2>4, <2>5, <2>7, <3>1 DEF Owned
  <2>9. Remains
    <3>1. job' # job
      BY <1>1, <1>2
    <3> QED
      BY <1>1, <2>5, <2>6, <2>7, <3>1 DEF Remains, o
  <2>10. PkTyped'
    BY <1>2, <1>3, <1>10, <2>1 DEF PkTyped
  <2>11. StaysOwned
    BY <1>3, <2>8, <2>9, <2>10 DEF StaysOwned, Running
  <2> QED
    BY <2>1, <2>11
<1> QED
  BY <1>1, <1>2, <1>4, <1>8, <1>10, <1>11, <1>12 DEF o

\* The reply is sent and the command freed.
LEMMA EndOwned ==
    ASSUME PkTyped, Owned, Running, End
    PROVE  /\ StaysOwned /\ job' = None
           /\ job.in # NULL /\ job.out \in Roots /\ UNCHANGED <<inbox, asked>>
           /\ heap'.mem[job.out] = heap.mem[job.out]
           /\ Kept(job.out)
           /\ QueuedFor("main")' = QueuedFor("main")
           /\ \/ QueuedFor("ble")' = QueuedFor("ble")
              \/ QueuedFor("ble")' = QueuedFor("ble") \cup {job.out}
<1> DEFINE i == job.in
           o == job.out
<1>1. i # NULL /\ o # NULL /\ i # o /\ i \in Blocks /\ o \in Blocks /\ job.at = "end"
  BY DEF End, Owned, JobMatches, PkTyped, Job
<1>2. /\ Send("ble", heap, o) /\ heap' = Freed(heap, Parts(heap, i), Pointed) /\ job' = None
      /\ UNCHANGED <<inbox, out_queue, line, requests, mailboxes, runMode, activeChannels, probes,
                     halted, nReceived, reports, asked>>
  BY DEF End
<1>3. AtWork = {i, o} /\ Forgotten = {} /\ AtWork' = {} /\ Forgotten' = {}
  BY <1>1, <1>2 DEF AtWork, Forgotten, None
<1> HIDE DEF i, o
<1>4. i \in Roots /\ o \in Roots \ {i} /\ Roots \ {i} = Queued \cup InBox \cup {o}
      /\ o \notin Queued /\ o \notin InBox
  BY <1>1, <1>3 DEF Roots, Owned, Separate
<1>5. /\ heap' \in Heap /\ Owns(heap', Roots \ {i}, Copies, lost)
      /\ \A s \in Roots \ {i} : /\ Kept(s) /\ heap'.mem[s] = heap.mem[s]
                                /\ Parts(heap', s) = Parts(heap, s) /\ Sound(heap', s)
      /\ \A c \in Copies : heap'.mem[c] = heap.mem[c]
  BY <1>2, <1>4, Frees
<1>6. UNCHANGED <<InBox, Copies, OnceInBox, OnceInSlot, InSlots>>
  BY <1>2 DEF InBox, Copies, OnceInBox, OnceInSlot, InSlots
<1>7. JobMatches' /\ job' \in Job
  BY <1>2 DEF JobMatches, None, Job
<1>8. msgs \in Seq(Message) /\ Len(msgs) <= QueueMax /\ Len(msgs) \in Nat /\ lost \subseteq Blocks
  BY LenProperties DEF PkTyped
<1>9. CASE Len(msgs) < QueueMax /\ msgs' = Append(msgs, [to |-> "ble", packet |-> o]) /\ UNCHANGED lost
  <2>1. /\ msgs' \in Seq(Message) /\ Len(msgs') = Len(msgs) + 1 /\ Queued' = Queued \cup {o}
        /\ OnceQueued /\ o \notin Queued => OnceQueued'
        /\ \A t : QueuedFor(t)' = QueuedFor(t) \cup (IF t = "ble" THEN {o} ELSE {})
    BY <1>1, <1>8, <1>9, QueueAppend
  <2>2. Roots' = Roots \ {i}
    BY <1>3, <1>4, <1>6, <2>1 DEF Roots
  <2>3. Separate'
    BY <1>3, <1>4, <1>6, <2>1 DEF Owned, Separate
  <2>4. Owned'
    <3>1. Owns(heap', Roots', Copies', lost')
      BY <1>5, <1>6, <1>9, <2>2
    <3> QED
      BY <1>3, <1>5, <1>6, <1>7, <2>2, <2>3, <3>1 DEF Owned
  <2>5. Remains
    BY <1>3, <1>5, <2>2 DEF Remains
  <2>6. PkTyped'
    <3>1. Len(msgs') <= QueueMax
      BY <1>8, <1>9, <2>1, PacketBoundsAssumption
    <3> QED
      BY <1>2, <1>5, <1>7, <1>9, <2>1, <3>1 DEF PkTyped
  <2>7. StaysOwned
    BY <1>2, <2>4, <2>5, <2>6 DEF StaysOwned, Running
  <2>8. QueuedFor("main")' = QueuedFor("main") /\ QueuedFor("ble")' = QueuedFor("ble") \cup {o}
    BY <2>1
  <2> QED
    BY <1>1, <1>2, <1>4, <1>5, <2>7, <2>8 DEF o, i
<1>10. CASE lost' = lost \cup Parts(heap, o) /\ UNCHANGED msgs
  <2>1. UNCHANGED <<Queued, OnceQueued, QueuedFor("main"), QueuedFor("ble")>>
    BY <1>10 DEF Queued, OnceQueued, QueuedFor
  <2>2. Roots' = (Roots \ {i}) \ {o}
    BY <1>3, <1>4, <1>6, <2>1 DEF Roots
  <2>3. Separate'
    BY <1>3, <1>6, <2>1 DEF Owned, Separate
  <2>4. Owned'
    <3>1. Owns(heap', (Roots \ {i}) \ {o}, Copies, lost \cup Parts(heap', o))
      BY <1>4, <1>5, OwnsLost
    <3>2. Owns(heap', Roots', Copies', lost')
      BY <1>4, <1>5, <1>6, <1>10, <2>2, <3>1
    <3> QED
      BY <1>3, <1>5, <1>6, <1>7, <2>2, <2>3, <3>2 DEF Owned
  <2>5. Remains
    BY <1>3, <1>5, <2>2 DEF Remains
  <2>6. PkTyped'
    <3>1. Parts(heap, o) \subseteq Blocks
      BY <1>1, Numbers, PartsAre
    <3> QED
      BY <1>2, <1>5, <1>7, <1>8, <1>10, <3>1 DEF PkTyped
  <2>7. StaysOwned
    BY <1>2, <2>4, <2>5, <2>6 DEF StaysOwned, Running
  <2> QED
    BY <1>1, <1>2, <1>4, <1>5, <2>1, <2>7 DEF o, i
<1> QED
  BY <1>2, <1>9, <1>10 DEF Send

\* A message is handed to the main application.
LEMMA DeliverOwned ==
    ASSUME PkTyped, Owned, Running, Deliver
    PROVE  /\ StaysOwned
           /\ \E b \in QueuedFor("main") : InBox' = InBox \cup {b}
           /\ QueuedFor("main")' \subseteq QueuedFor("main") /\ QueuedFor("ble")' \subseteq QueuedFor("ble")
<1> DEFINE b == Head(msgs).packet
<1>1. /\ msgs \in Seq(Message) /\ msgs # <<>> /\ msgs' = Tail(msgs) /\ OnceQueued
      /\ inbox \in Seq(Blocks) /\ inbox' = Append(inbox, b) /\ OnceInBox
  BY DEF PkTyped, Deliver, Owned, Separate
<1>2. /\ msgs' \in Seq(Message) /\ Len(msgs') <= Len(msgs)
      /\ Head(msgs) \in Message /\ b \in Queued
      /\ b \in QueuedFor(Head(msgs).to)
      /\ Queued' = Queued \ {b}
      /\ OnceQueued'
      /\ \A t : QueuedFor(t)' = QueuedFor(t) \ {b}
  BY <1>1, QueueTail
<1>3. b \in Blocks /\ Head(msgs).to = "main" /\ job = None
  BY <1>2 DEF Message, Deliver, Idle
<1> HIDE DEF b
<1>4. inbox' \in Seq(Blocks) /\ InBox' = InBox \cup {b} /\ (b \notin InBox => OnceInBox')
  BY <1>1, <1>3, BoxAppend
<1>5. UNCHANGED <<heap, job, out_queue, line, requests, mailboxes, runMode, activeChannels,
                  probes, halted, nReceived, reports, asked, lost>>
  BY DEF Deliver
<1>6. UNCHANGED <<AtWork, Forgotten, Copies, OnceInSlot, InSlots, JobMatches>> /\ AtWork = {}
  BY <1>3, <1>5 DEF AtWork, Forgotten, Copies, OnceInSlot, InSlots, JobMatches, None
<1>7. b \notin InBox
  BY <1>2 DEF Owned, Separate
<1>8. Roots' = Roots
  BY <1>2, <1>4, <1>6 DEF Roots
<1>9. Separate'
  BY <1>2, <1>4, <1>6, <1>7 DEF Owned, Separate
<1>10. Owned'
  BY <1>5, <1>6, <1>8, <1>9 DEF Owned
<1>11. Remains
  BY <1>5 DEF Remains, Kept
<1>12. PkTyped'
  <2>1. Len(msgs') <= QueueMax
    <3>1. Len(msgs) \in Nat /\ Len(msgs') \in Nat
      BY <1>1, <1>2, LenProperties
    <3>2. Len(msgs) <= QueueMax /\ QueueMax \in Nat
      BY PacketBoundsAssumption DEF PkTyped
    <3> QED
      BY <1>2, <3>1, <3>2
  <2> QED
    BY <1>2, <1>4, <1>5, <2>1 DEF PkTyped
<1>13. b \in QueuedFor("main")
  BY <1>2, <1>3
<1> QED
  BY <1>2, <1>4, <1>5, <1>10, <1>11, <1>12, <1>13 DEF StaysOwned, Running

\* The bytes of packet b as they go over the line.
\* The bytes that packet b is sent as.
Sends(b) == Wire(heap.mem[b].packet, b)

\* Freed contents that something may still look at.
Pointing == IF mailboxes = 1 THEN Pointed ELSE Blocks

\* Packet b is copied, and the copy put into a slot and onto the line.
Ships(b) ==
    /\ PACKET_GetDestination(heap.mem[b].packet) # 0 /\ ~NoPayload(heap, b)
    /\ \E c \in Blocks \ heap.live : Copies' = Copies \cup {c} /\ heap'.mem[c].data = Sends(b)

\* A packet is a packet with a source.
LEMMA OutgoingIs == ASSUME NEW p \in Packet PROVE Outgoing(p) \in Packet
BY DEF Outgoing, PACKET_SetSource, Packet, DEV_MASTER, Byte

\* What is copied out is made of bytes.
LEMMA WireIs ==
    ASSUME PkTyped, NEW b \in Blocks
    PROVE  /\ Outgoing(heap.mem[b].packet) \in Packet /\ Payload(b) \in Seq(Byte) /\ Sends(b) \in Seq(Byte)
           /\ DataBlock(Sends(b)) \in Content
<1>1. heap.mem[b].packet \in Packet /\ heap.mem[b] \in Content /\ heap \in Heap
  BY Numbers DEF Heap, Content
<1>2. Outgoing(heap.mem[b].packet) \in Packet
  BY <1>1, OutgoingIs
<1>3. Payload(b) \in Seq(Byte)
  BY <1>1, PacketBoundsAssumption DEF Payload, Heap, Content
<1>4. Sends(b) \in Seq(Byte)
  BY <1>2, <1>3, Bytes DEF Sends, Wire
<1> QED
  BY <1>2, <1>3, <1>4, Blank

\* Either the program stops, or there is a heap h with a copy c from which the packet is then freed.
LEMMA CopyMade ==
    ASSUME PkTyped, Owned, NEW b \in Blocks, Parts(heap, b) \subseteq heap.live \ Copies, CopyOut(b)
    PROVE  /\ lost' = lost \ Parts(heap, b)
           /\ \/ halted' = "trap" /\ UNCHANGED <<heap, out_queue, line>>
              \/ /\ UNCHANGED halted
                 /\ \E h \in Heap, c \in Blocks \ heap.live :
                       /\ h.live = heap.live \cup {c} /\ h.mem[c].data = Sends(b)
                       /\ \A x \in heap.live : h.mem[x] = heap.mem[x]
                       /\ Parts(h, b) = Parts(heap, b)
                       /\ heap' = Freed(h, Parts(h, b), Pointing)
                       /\ heap' \in Heap
                       /\ \A x \in (heap.live \cup {c}) \ Parts(heap, b) : heap'.mem[x] = h.mem[x]
                       /\ Copies' = Copies \cup {c}
                 /\ out_queue' \in [1 .. Slots -> Blocks \cup {NULL}] /\ line' \in Seq(1 .. Slots)
                 /\ OnceInSlot' /\ InSlots'
                 /\ Ships(b)
<1>1. /\ lost' = lost \ Parts(heap, b)
      /\ PACKET_GetDestination(heap.mem[b].packet) # 0 /\ FreeSlots # {}
  BY DEF CopyOut
<1>2. CASE halted' = "trap" /\ UNCHANGED <<heap, out_queue, line>>
  BY <1>1, <1>2
<1> DEFINE i == CHOOSE s \in FreeSlots : \A t \in FreeSlots : s <= t
<1>3. i \in 1 .. Slots /\ out_queue[i] = NULL
  BY <1>1, SlotFound
<1> HIDE DEF i
<1>4. ASSUME NEW m \in Malloc(heap, DataBlock(Sends(b))), m[2] # NULL, ~NoPayload(heap, b),
             out_queue' = [out_queue EXCEPT ![i] = m[2]], line' = Append(line, i),
             FreePacket(m[1], b)
      PROVE  /\ UNCHANGED halted
             /\ \E h \in Heap, c \in Blocks \ heap.live :
                   /\ h.live = heap.live \cup {c} /\ h.mem[c].data = Sends(b)
                   /\ \A x \in heap.live : h.mem[x] = heap.mem[x]
                   /\ Parts(h, b) = Parts(heap, b)
                   /\ heap' = Freed(h, Parts(h, b), Pointing)
                   /\ heap' \in Heap
                   /\ \A x \in (heap.live \cup {c}) \ Parts(heap, b) : heap'.mem[x] = h.mem[x]
                   /\ Copies' = Copies \cup {c}
             /\ out_queue' \in [1 .. Slots -> Blocks \cup {NULL}] /\ line' \in Seq(1 .. Slots)
             /\ OnceInSlot' /\ InSlots'
             /\ Ships(b)
  <2> DEFINE h == m[1]
             c == m[2]
  <2>1. /\ h \in Heap /\ c \in Blocks \ heap.live /\ h.live = heap.live \cup {c}
        /\ h.mem[c] = DataBlock(Sends(b)) /\ \A x \in Blocks \ {c} : h.mem[x] = heap.mem[x]
    BY <1>4, WireIs, Numbers, MallocGives
  <2>2. h.mem[c].data = Sends(b)
    BY <2>1 DEF DataBlock
  <2>3. FreePacket(h, b) /\ out_queue' = [out_queue EXCEPT ![i] = c]
    BY <1>4
  <2> HIDE DEF h, c
  <2>4. \A x \in heap.live : h.mem[x] = heap.mem[x]
    BY <2>1, Numbers
  <2>5. b \in heap.live
    BY Numbers, PartsAre
  <2>6. Parts(h, b) = Parts(heap, b) /\ Parts(h, b) \subseteq h.live
    BY <2>1, <2>4, <2>5, PartsSame
  <2>7. heap' = Freed(h, Parts(h, b), Pointing) /\ UNCHANGED halted
    BY <2>3 DEF FreePacket, Pointing
  <2>8. heap' \in Heap /\ \A x \in Blocks \ Parts(h, b) : heap'.mem[x] = h.mem[x]
    BY <2>1, <2>7, FreedLeaves
  <2>9. c \notin Copies /\ c \notin Parts(heap, b)
    BY <2>1, RootsAre
  <2>10. /\ out_queue' \in [1 .. Slots -> Blocks \cup {NULL}] /\ line' \in Seq(1 .. Slots)
         /\ Copies' = Copies \cup {c}
         /\ OnceInSlot' /\ InSlots'
    <3>1. /\ out_queue \in [1 .. Slots -> Blocks \cup {NULL}] /\ line \in Seq(1 .. Slots)
          /\ OnceInSlot /\ InSlots
      BY DEF PkTyped, Owned, Separate
    <3> QED
      BY <1>3, <1>4, <2>1, <2>3, <2>9, <3>1, SlotTaken
  <2>11. \A x \in (heap.live \cup {c}) \ Parts(heap, b) : heap'.mem[x] = h.mem[x]
    BY <2>1, <2>6, <2>8, Numbers
  <2>12. heap'.mem[c].data = Sends(b)
    BY <2>2, <2>9, <2>11
  <2>13. Ships(b)
    BY <1>1, <1>4, <2>1, <2>10, <2>12 DEF Ships
  <2> QED
    BY <2>1, <2>2, <2>4, <2>6, <2>7, <2>8, <2>10, <2>11, <2>13
<1> QED
  BY <1>1, <1>2, <1>4 DEF CopyOut, HandOver, Sends, i

\* The first message is for BleApp: it is discarded, copied out or forgotten.
LEMMA OutgoingOwned ==
    ASSUME PkTyped, Owned, Running, bleOutgoingCallback
    PROVE  /\ StaysOwned
           /\ UNCHANGED <<inbox, probes, activeChannels, nReceived, asked>> /\ job = None /\ job'.in = NULL
           /\ Running' => \E b \in QueuedFor("ble") :
                /\ \A t : QueuedFor(t)' = QueuedFor(t) \ {b}
                /\ \/ UNCHANGED Copies /\ Forgotten' = {}
                   \/ UNCHANGED <<heap, Copies>> /\ Forgotten' = {b} /\ job'.out = b
                   \/ Ships(b) /\ Forgotten' = {}
<1> DEFINE b == Head(msgs).packet
<1>1. msgs \in Seq(Message) /\ msgs # <<>> /\ msgs' = Tail(msgs) /\ OnceQueued /\ Head(msgs).to = "ble"
  BY DEF PkTyped, bleOutgoingCallback, Owned, Separate
<1>2. /\ msgs' \in Seq(Message) /\ Len(msgs') <= Len(msgs)
      /\ Head(msgs) \in Message /\ b \in Queued
      /\ b \in QueuedFor(Head(msgs).to)
      /\ Queued' = Queued \ {b}
      /\ OnceQueued'
      /\ \A t : QueuedFor(t)' = QueuedFor(t) \ {b}
  BY <1>1, QueueTail
<1>3. b \in Blocks /\ b \in QueuedFor("ble") /\ b \in Roots /\ b # NULL
  BY <1>1, <1>2, RootsAre, PacketBoundsAssumption DEF Roots
<1>4. Discard(b) \/ CopyOut(b) \/ Forget(b)
  BY DEF bleOutgoingCallback
<1>5. /\ job' = IF mailboxes = 1 THEN None
                ELSE [at |-> IF lost' = lost THEN "stale" ELSE "again", in |-> NULL, out |-> b,
                      left |-> mailboxes - 1]
      /\ UNCHANGED <<inbox, requests, mailboxes, runMode, activeChannels, probes, nReceived,
                     reports, asked>>
      /\ job = None
  BY DEF bleOutgoingCallback, Idle
<1> HIDE DEF b
<1>6. /\ job' \in Job /\ job'.in = NULL /\ job'.at \in {"none", "again", "stale"}
      /\ job'.at # "none" => mailboxes > 1 /\ job'.out = b /\ job'.left > 0
      /\ job'.at = "again" => lost' # lost
  <2>1. CASE mailboxes = 1
    BY <1>5, <2>1 DEF None, Job
  <2>2. CASE mailboxes # 1
    <3>1. mailboxes > 1 /\ mailboxes - 1 \in Nat /\ mailboxes - 1 > 0
      BY <2>2, Numbers
    <3> DEFINE n == mailboxes - 1
    <3>2. /\ n \in Nat /\ n > 0
          /\ job' = [at |-> IF lost' = lost THEN "stale" ELSE "again", in |-> NULL, out |-> b, left |-> n]
      BY <1>5, <2>2, <3>1
    <3> HIDE DEF n
    <3> QED
      BY <1>3, <3>1, <3>2 DEF Job
  <2> QED
    BY <2>1, <2>2
<1>7. AtWork = {} /\ AtWork' = {} /\ Forgotten = {} /\ InBox' = InBox /\ OnceInBox' = OnceInBox
  BY <1>5, <1>6 DEF AtWork, Forgotten, None, InBox, OnceInBox
<1>8. Roots' = Roots \ {b}
  BY <1>2, <1>7 DEF Roots, Owned, Separate
<1>9. OnceInSlot' => Separate'
  BY <1>2, <1>7 DEF Owned, Separate
<1>10. /\ Owns(heap, Roots, Copies, lost) /\ heap \in Heap /\ lost \subseteq Blocks
       /\ Parts(heap, b) \subseteq heap.live \ Copies /\ Parts(heap, b) \cap lost = {}
       /\ b \in Parts(heap, b) /\ Parts(heap, b) \subseteq Blocks
  BY <1>3, Numbers, PartsAre DEF Owned, Owns, PkTyped
<1>11. Len(msgs') <= QueueMax
  <2>1. Len(msgs) \in Nat /\ Len(msgs') \in Nat
    BY <1>1, <1>2, LenProperties
  <2>2. Len(msgs) <= QueueMax /\ QueueMax \in Nat
    BY PacketBoundsAssumption DEF PkTyped
  <2> QED
    BY <1>2, <2>1, <2>2
<1>12. /\ heap' \in Heap /\ lost' \subseteq Blocks /\ halted' \in {"no", "trap", "double free"}
       /\ out_queue' \in [1 .. Slots -> Blocks \cup {NULL}] /\ line' \in Seq(1 .. Slots)
       => PkTyped'
  BY <1>2, <1>5, <1>6, <1>11 DEF PkTyped
<1>13. halted = "no" /\ out_queue \in [1 .. Slots -> Blocks \cup {NULL}] /\ line \in Seq(1 .. Slots)
  BY DEF Running, PkTyped
<1>14. CASE Discard(b)
  <2>1. /\ heap' = Freed(heap, Parts(heap, b), Pointing) /\ UNCHANGED <<halted, out_queue, line, lost>>
    BY <1>14 DEF Discard, FreePacket, Pointing
  <2>2. /\ heap' \in Heap /\ Owns(heap', Roots \ {b}, Copies, lost)
        /\ \A s \in (Roots \ {b}) \cup Forgotten :
              /\ Kept(s) /\ heap'.mem[s] = heap.mem[s]
              /\ Parts(heap', s) = Parts(heap, s) /\ Sound(heap', s)
        /\ \A c \in Copies : heap'.mem[c] = heap.mem[c]
    BY <1>3, <2>1, Frees
  <2>3. UNCHANGED <<Copies, OnceInSlot, InSlots>> /\ Forgotten' = {} /\ job'.at # "again"
    BY <1>6, <2>1 DEF Copies, OnceInSlot, InSlots, Forgotten
  <2>4. JobMatches'
    BY <1>5, <1>6, <1>3, <2>3 DEF JobMatches
  <2>5. Separate'
    BY <1>9, <2>3 DEF Owned, Separate
  <2>6. Owned'
    BY <1>8, <2>1, <2>2, <2>3, <2>4, <2>5 DEF Owned
  <2>7. Remains
    BY <1>7, <1>8, <2>2, <2>3 DEF Remains
  <2>8. PkTyped'
    BY <1>10, <1>12, <1>13, <2>1, <2>2
  <2>9. StaysOwned
    BY <1>13, <2>1, <2>6, <2>7, <2>8 DEF StaysOwned
  <2> QED
    BY <1>2, <1>3, <1>5, <1>6, <2>3, <2>9
<1>15. CASE CopyOut(b)
  <2>1. lost' = lost
    BY <1>10, <1>15 DEF CopyOut
  <2>2. CASE halted' = "trap" /\ UNCHANGED <<heap, out_queue, line>>
    <3>1. PkTyped'
      BY <1>10, <1>12, <1>13, <2>1, <2>2
    <3> QED
      BY <1>5, <1>6, <2>2, <3>1 DEF StaysOwned, Running
  <2>3. CASE /\ UNCHANGED halted
             /\ \E h \in Heap, c \in Blocks \ heap.live :
                   /\ h.live = heap.live \cup {c} /\ h.mem[c].data = Sends(b)
                   /\ \A x \in heap.live : h.mem[x] = heap.mem[x]
                   /\ Parts(h, b) = Parts(heap, b)
                   /\ heap' = Freed(h, Parts(h, b), Pointing)
                   /\ heap' \in Heap
                   /\ \A x \in (heap.live \cup {c}) \ Parts(heap, b) : heap'.mem[x] = h.mem[x]
                   /\ Copies' = Copies \cup {c}
             /\ out_queue' \in [1 .. Slots -> Blocks \cup {NULL}] /\ line' \in Seq(1 .. Slots)
             /\ OnceInSlot' /\ InSlots'
             /\ Ships(b)
    <3>1. PICK h \in Heap, c \in Blocks \ heap.live :
             /\ h.live = heap.live \cup {c} /\ h.mem[c].data = Sends(b)
             /\ \A x \in heap.live : h.mem[x] = heap.mem[x]
             /\ Parts(h, b) = Parts(heap, b)
             /\ heap' = Freed(h, Parts(h, b), Pointing)
             /\ heap' \in Heap
             /\ \A x \in (heap.live \cup {c}) \ Parts(heap, b) : heap'.mem[x] = h.mem[x]
             /\ Copies' = Copies \cup {c}
      BY <2>3
    <3>2. Owns(h, Roots, Copies \cup {c}, lost)
      BY <1>10, <3>1, OwnsCopy
    <3>3. Owns(heap', Roots \ {b}, Copies \cup {c}, lost)
      BY <1>3, <3>1, <3>2, OwnsFreed
    <3>4. \A s \in Roots \ {b} : Parts(heap, s) \subseteq heap.live \ Parts(heap, b)
      BY <1>3, <1>10 DEF Owns
    <3>5. \A s \in Roots \ {b} : Kept(s)
      BY <3>1, <3>4 DEF Kept
    <3>6. \A s \in Roots \ {b} : Sound(heap', s)
      BY <3>5, RootsAre, Numbers, KeptIs
    <3>7. \A x \in Copies : heap'.mem[x] = heap.mem[x]
      BY <1>10, <3>1, RootsAre
    <3>8. Forgotten' = {} /\ job'.at # "again"
      BY <1>6, <2>1 DEF Forgotten
    <3>9. JobMatches'
      BY <1>3, <1>5, <1>6, <3>8 DEF JobMatches
    <3>10. Owned'
      <4>1. Owns(heap', Roots', Copies', lost')
        BY <1>8, <2>1, <3>1, <3>3
      <4> QED
        BY <1>8, <1>9, <2>3, <3>6, <3>8, <3>9, <4>1 DEF Owned
    <3>11. Remains
      BY <1>7, <1>8, <3>5, <3>7, <3>8 DEF Remains
    <3>12. PkTyped'
      BY <1>10, <1>12, <1>13, <2>1, <2>3, <3>1
    <3>13. StaysOwned
      BY <1>13, <2>3, <3>10, <3>11, <3>12 DEF StaysOwned
    <3> QED
      BY <1>2, <1>3, <1>5, <1>6, <2>3, <3>8, <3>13
  <2> QED
    BY <1>3, <1>10, <1>15, <2>2, <2>3, CopyMade
<1>16. CASE Forget(b)
  <2>1. lost' = lost \cup Parts(heap, b) /\ UNCHANGED <<heap, out_queue, line, halted>>
    BY <1>16 DEF Forget
  <2>2. Owns(heap', Roots \ {b}, Copies, lost \cup Parts(heap, b))
    BY <1>3, <1>10, <2>1, OwnsLost
  <2>3. UNCHANGED <<Copies, OnceInSlot, InSlots>>
    BY <2>1 DEF Copies, OnceInSlot, InSlots
  <2>4. JobMatches'
    <3>1. job'.at = "again" => Parts(heap', job'.out) \subseteq lost'
      BY <1>6, <2>1
    <3> QED
      BY <1>3, <1>5, <1>6, <3>1 DEF JobMatches
  <2>5. Separate'
    BY <1>9, <2>3 DEF Owned, Separate
  <2>6. Forgotten' = {} \/ (Forgotten' = {b} /\ job'.out = b)
    BY <1>6 DEF Forgotten
  <2>7. \A s \in Roots : Sound(heap', s) /\ Kept(s)
    BY <2>1, RootsAre DEF Kept
  <2>8. Owned'
    <3>1. Owns(heap', Roots', Copies', lost')
      BY <1>8, <2>1, <2>2, <2>3
    <3>2. \A s \in Roots' \cup Forgotten' : Sound(heap', s)
      BY <1>3, <1>8, <2>6, <2>7
    <3> QED
      BY <2>3, <2>4, <2>5, <3>1, <3>2 DEF Owned
  <2>9. Remains
    BY <2>1 DEF Remains, Kept
  <2>10. PkTyped'
    BY <1>10, <1>12, <1>13, <2>1
  <2>11. StaysOwned
    BY <1>13, <2>1, <2>8, <2>9, <2>10 DEF StaysOwned
  <2> QED
    BY <1>2, <1>3, <1>5, <1>6, <2>1, <2>3, <2>6, <2>11
<1> QED
  BY <1>4, <1>14, <1>15, <1>16

\* What a callback copies out of freed blocks is made of bytes.
LEMMA StaleIs ==
    ASSUME PkTyped, NEW b \in Blocks, NEW p \in Found(b)
    PROVE  DataBlock(StaleWire(p, b)) \in Content
<1>1. Outgoing(p) \in Packet /\ p \in Packet
  BY FoundIsPacket, OutgoingIs
<1>2. Payload(b) \in Seq(Byte)
  BY WireIs
<1> DEFINE n == p.pLen
           bytes == [i \in 1 .. n |-> IF i <= Len(Payload(b)) THEN Payload(b)[i] ELSE 0]
<1>3. bytes \in Seq(Byte)
  <2>1. n \in Nat /\ 0 \in Byte
    BY <1>1 DEF Packet, Byte
  <2>2. Len(Payload(b)) \in Nat /\ \A i \in 1 .. Len(Payload(b)) : Payload(b)[i] \in Byte
    BY <1>2, LenProperties, ElementOfSeq
  <2> HIDE DEF n
  <2>3. \A i \in 1 .. n : (IF i <= Len(Payload(b)) THEN Payload(b)[i] ELSE 0) \in Byte
    BY <2>1, <2>2
  <2> QED
    BY <2>1, <2>3
<1> HIDE DEF bytes
<1>4. PACKET_GetByteArray(Outgoing(p), bytes) \in Seq(Byte)
  BY <1>1, <1>3, Bytes
<1> QED
  BY <1>4, Blank DEF StaleWire, bytes

\* The callback of a further mailbox has the message of the first.
LEMMA AgainOwned ==
    ASSUME PkTyped, Owned, Running, CallbackAgain
    PROVE  /\ StaysOwned
           /\ UNCHANGED <<msgs, inbox, probes, activeChannels, nReceived, asked>>
           /\ job.in = NULL /\ job'.in = NULL /\ job'.at # "end"
           /\ job'.at = "again" => job.at = "again" /\ job'.out = job.out
           /\ Running' => \/ UNCHANGED Copies
                          \/ job.at = "again" /\ Ships(job.out) /\ Forgotten' = {}
<1> DEFINE b == job.out
<1>1. /\ job.at \in {"again", "stale"} /\ job.in = NULL /\ mailboxes > 1 /\ job \in Job /\ job.left > 0
      /\ UNCHANGED <<msgs, inbox, requests, mailboxes, runMode, activeChannels, probes, nReceived,
                     reports, asked>>
      /\ b \in Blocks
  BY DEF CallbackAgain, Owned, JobMatches, PkTyped, Job
<1>11. /\ job' \in Job /\ job'.in = NULL /\ job'.at \in {"none", "again", "stale"}
       /\ job'.at # "none" => job'.out = b /\ job'.left > 0
       /\ job'.at = "again" => job.at = "again" /\ lost' = lost
  <2>1. CASE job.left = 1
    <3>1. job' = None
      BY <2>1 DEF CallbackAgain
    <3> QED
      BY <3>1 DEF None, Job
  <2>2. CASE job.left # 1
    <3> DEFINE a == IF lost' = lost THEN job.at ELSE "stale"
               n == job.left - 1
    <3>1. job' = [job EXCEPT !.at = a, !.left = n]
      BY <2>2 DEF CallbackAgain
    <3>2. job.left \in Nat
      BY <1>1 DEF Job
    <3>3. n \in Nat /\ n > 0
      BY <1>1, <2>2, <3>2
    <3>4. a \in {"again", "stale"} /\ (a = "again" => job.at = "again" /\ lost' = lost)
      BY <1>1
    <3> HIDE DEF a, n
    <3>5. job'.at = a /\ job'.in = job.in /\ job'.out = job.out /\ job'.left = n /\ job' \in Job
      BY <1>1, <3>1, <3>3, <3>4 DEF Job
    <3> QED
      BY <1>1, <3>3, <3>4, <3>5
  <2> QED
    BY <2>1, <2>2
<1>2. /\ \/ job.at = "again" /\ (CopyOut(b) \/ Forget(b))
         \/ /\ job.at = "stale"
            /\ CopyStale(b)
  BY DEF CallbackAgain
<1>3. UNCHANGED <<Queued, InBox, AtWork, Roots, OnceQueued, OnceInBox>>
  BY <1>1, <1>11 DEF Queued, InBox, AtWork, Roots, OnceQueued, OnceInBox
<1>4. (job'.at = "again" => Parts(heap', b) \subseteq lost') => JobMatches'
  BY <1>1, <1>11, PacketBoundsAssumption DEF JobMatches
<1>5. OnceInSlot' => Separate'
  BY <1>3 DEF Owned, Separate
<1> HIDE DEF b
<1>6. /\ heap' \in Heap /\ lost' \subseteq Blocks /\ halted' \in {"no", "trap", "double free"}
      /\ out_queue' \in [1 .. Slots -> Blocks \cup {NULL}] /\ line' \in Seq(1 .. Slots)
      => PkTyped'
  BY <1>1, <1>11 DEF PkTyped
<1>7. /\ halted = "no" /\ out_queue \in [1 .. Slots -> Blocks \cup {NULL}] /\ line \in Seq(1 .. Slots)
      /\ heap \in Heap /\ lost \subseteq Blocks /\ Owns(heap, Roots, Copies, lost)
  BY Numbers DEF Running, PkTyped, Owned
<1>8. CASE /\ UNCHANGED <<heap, out_queue, line, lost>>
           /\ halted' \in {"no", "double free"}
  <2>1. UNCHANGED <<Copies, OnceInSlot, InSlots>>
    BY <1>8 DEF Copies, OnceInSlot, InSlots
  <2>2. Owned'
    <3>1. OnceInSlot' /\ InSlots' /\ Owns(heap', Roots', Copies', lost')
      BY <1>3, <1>7, <1>8, <2>1 DEF Owned, Separate
    <3>2. Forgotten' \subseteq Forgotten
      BY <1>11 DEF Forgotten, b
    <3>3. \A s \in Roots' \cup Forgotten' : Sound(heap', s)
      BY <1>3, <1>8, <3>2 DEF Owned
    <3>4. job'.at = "again" => Parts(heap', b) \subseteq lost'
      BY <1>8, <1>11 DEF Owned, JobMatches, b
    <3> QED
      BY <1>4, <1>5, <3>1, <3>3, <3>4 DEF Owned
  <2>3. Remains
    BY <1>8 DEF Remains, Kept
  <2>4. PkTyped'
    BY <1>6, <1>7, <1>8
  <2>5. StaysOwned
    BY <1>1, <1>8, <2>2, <2>3, <2>4 DEF StaysOwned
  <2> QED
    BY <1>1, <1>11, <2>1, <2>5 DEF b
<1>9. CASE job.at = "again"
  <2>1. /\ Forgotten = {b} /\ Parts(heap, b) \subseteq lost
        /\ Parts(heap, b) \subseteq heap.live \ Copies
        /\ \A r \in Roots : Parts(heap, r) \cap Parts(heap, b) = {}
        /\ b \in Parts(heap, b)
    BY <1>1, <1>7, <1>9, PartsAre DEF Forgotten, Owned, JobMatches, Owns, b
  <2>2. CASE Forget(b)
    <3>1. UNCHANGED <<heap, out_queue, line, lost, halted>>
      BY <2>1, <2>2 DEF Forget
    <3> QED
      BY <1>7, <1>8, <3>1
  <2>3. CASE CopyOut(b)
    <3>1. CASE halted' = "trap" /\ UNCHANGED <<heap, out_queue, line>>
      <4>1. PkTyped'
        BY <1>6, <1>7, <2>3, <3>1 DEF CopyOut
      <4> QED
        BY <1>1, <1>11, <3>1, <4>1 DEF StaysOwned, Running, b
    <3>2. CASE /\ UNCHANGED halted
               /\ \E h \in Heap, c \in Blocks \ heap.live :
                     /\ h.live = heap.live \cup {c} /\ h.mem[c].data = Sends(b)
                     /\ \A x \in heap.live : h.mem[x] = heap.mem[x]
                     /\ Parts(h, b) = Parts(heap, b)
                     /\ heap' = Freed(h, Parts(h, b), Pointing)
                     /\ heap' \in Heap
                     /\ \A x \in (heap.live \cup {c}) \ Parts(heap, b) : heap'.mem[x] = h.mem[x]
                     /\ Copies' = Copies \cup {c}
               /\ out_queue' \in [1 .. Slots -> Blocks \cup {NULL}] /\ line' \in Seq(1 .. Slots)
               /\ OnceInSlot' /\ InSlots'
               /\ Ships(b)
      <4>1. PICK h \in Heap, c \in Blocks \ heap.live :
               /\ h.live = heap.live \cup {c} /\ h.mem[c].data = Sends(b)
               /\ \A x \in heap.live : h.mem[x] = heap.mem[x]
               /\ Parts(h, b) = Parts(heap, b)
               /\ heap' = Freed(h, Parts(h, b), Pointing)
               /\ heap' \in Heap
               /\ \A x \in (heap.live \cup {c}) \ Parts(heap, b) : heap'.mem[x] = h.mem[x]
               /\ Copies' = Copies \cup {c}
        BY <3>2
      <4>2. lost' = lost \ Parts(heap, b)
        BY <2>3 DEF CopyOut
      <4>3. job'.at # "again" /\ Forgotten' = {}
        BY <1>11, <2>1, <4>2 DEF Forgotten
      <4>4. Owns(h, Roots, Copies \cup {c}, lost)
        BY <1>7, <4>1, OwnsCopy
      <4>5. Parts(h, b) \subseteq lost
        BY <2>1, <4>1
      <4>6. Owns(heap', Roots, Copies \cup {c}, lost \ Parts(h, b))
        BY <1>1, <4>1, <4>4, <4>5, OwnsFound
      <4>7. \A s \in Roots : Kept(s)
        <5>1. \A s \in Roots : Parts(heap, s) \subseteq heap.live \ Parts(heap, b)
          BY <2>1, RootsAre
        <5> QED
          BY <4>1, <5>1 DEF Kept
      <4>8. \A s \in Roots : Sound(heap', s)
        BY <4>7, RootsAre, Numbers, KeptIs
      <4>9. \A x \in Copies : heap'.mem[x] = heap.mem[x]
        BY <2>1, <4>1, RootsAre
      <4>10. Owned'
        <5>1. Owns(heap', Roots', Copies', lost')
          BY <1>3, <4>1, <4>2, <4>6
        <5> QED
          BY <1>3, <1>4, <1>5, <3>2, <4>8, <4>3, <5>1 DEF Owned
      <4>11. Remains
        BY <1>3, <4>7, <4>9, <4>3 DEF Remains
      <4>12. PkTyped'
        BY <1>6, <1>7, <3>2, <4>1, <4>2
      <4>13. StaysOwned
        BY <1>7, <3>2, <4>10, <4>11, <4>12 DEF StaysOwned
      <4> QED
        BY <1>1, <1>9, <1>11, <3>2, <4>13, <4>3 DEF b
    <3> QED
      BY <1>1, <2>1, <2>3, <3>1, <3>2, CopyMade
  <2> QED
    BY <1>2, <1>9, <2>2, <2>3
<1>10. CASE job.at = "stale"
  <2>1. CopyStale(b)
    BY <1>2, <1>10
  <2>2. CASE UNCHANGED <<heap, out_queue, line, lost>> /\ halted' \in {"no", "double free"}
    BY <1>8, <2>2
  <2>3. CASE halted' = "trap" /\ UNCHANGED <<heap, out_queue, line, lost>>
    <3>1. PkTyped'
      BY <1>6, <1>7, <2>3
    <3> QED
      BY <1>1, <1>11, <2>3, <3>1 DEF StaysOwned, Running, b
  <2>4. ASSUME NEW p \in Found(b), FreeSlots # {}, NEW m \in Malloc(heap, DataBlock(StaleWire(p, b))),
               m[2] # NULL, heap' = m[1], HandOver(m[2]), halted' = "double free", UNCHANGED lost
        PROVE  StaysOwned /\ ~Running'
    <3>1. DataBlock(StaleWire(p, b)) \in Content
      BY <1>1, <2>4, StaleIs DEF b
    <3>2. m[1] \in Heap /\ m[2] \in Blocks
      <4> DEFINE q == DataBlock(StaleWire(p, b))
      <4>1. q \in Content /\ m \in Malloc(heap, q)
        BY <2>4, <3>1
      <4> HIDE DEF q
      <4> QED
        BY <1>7, <2>4, <4>1, MallocGives
    <3> DEFINE i == CHOOSE s \in FreeSlots : \A t \in FreeSlots : s <= t
               c == m[2]
    <3>3. i \in 1 .. Slots
      BY <2>4, SlotFound
    <3>4. out_queue' = [out_queue EXCEPT ![i] = c] /\ line' = Append(line, i)
      BY <2>4 DEF HandOver
    <3> HIDE DEF i, c
    <3>5. line' \in Seq(1 .. Slots)
      BY <1>7, <3>3, <3>4, AppendProperties
    <3>6. out_queue' \in [1 .. Slots -> Blocks \cup {NULL}]
      BY <1>7, <3>2, <3>4 DEF c
    <3>7. PkTyped'
      BY <1>6, <1>7, <2>4, <3>2, <3>5, <3>6
    <3> QED
      BY <1>1, <2>4, <3>7 DEF StaysOwned, Running
  <2>5. CASE \E p \in Found(b) :
                /\ FreeSlots # {} /\ UNCHANGED lost
                /\ \E m \in Malloc(heap, DataBlock(StaleWire(p, b))) :
                      m[2] # NULL /\ heap' = m[1] /\ HandOver(m[2]) /\ halted' = "double free"
    BY <1>1, <1>11, <2>4, <2>5 DEF b
  <2> QED
    BY <1>7, <2>1, <2>2, <2>3, <2>5 DEF CopyStale
<1> QED
  BY <1>1, <1>9, <1>10

\* What has been handed over is transmitted, even after a packet has been freed twice.
LEMMA TransmittedTyped ==
    ASSUME PkTyped, Transmitted
    PROVE  PkTyped' /\ UNCHANGED <<halted, mailboxes>>
<1> DEFINE i == Head(line)
           c == out_queue[i]
<1>1. /\ heap' = Freed(heap, {c}, Pointed)
      /\ out_queue' = [out_queue EXCEPT ![i] = NULL] /\ line' = Tail(line) /\ line # <<>>
      /\ asked' \subseteq asked
      /\ UNCHANGED <<msgs, inbox, job, requests, mailboxes, runMode, activeChannels, probes, halted,
                     nReceived, reports, lost>>
  BY DEF Transmitted
<1> HIDE DEF c, i
<1>2. heap' \in Heap
  BY <1>1, Numbers, FreedLeaves
<1>3. line' \in Seq(1 .. Slots)
  <2>1. line \in Seq(1 .. Slots)
    BY DEF PkTyped
  <2> QED
    BY <1>1, <2>1, HeadTailProperties
<1>4. out_queue' \in [1 .. Slots -> Blocks \cup {NULL}]
  BY <1>1 DEF PkTyped
<1>5. PkTyped'
  BY <1>1, <1>2, <1>3, <1>4 DEF PkTyped
<1> QED
  BY <1>1, <1>5

\* A copy has been transmitted and is freed.
LEMMA TransmittedOwned ==
    ASSUME PkTyped, Owned, Running, Transmitted
    PROVE  /\ StaysOwned
           /\ Head(line) \in 1 .. Slots /\ out_queue[Head(line)] \in Copies
           /\ Copies' = Copies \ {out_queue[Head(line)]}
           /\ Len(line') < Len(line)
<1> DEFINE c == out_queue[Head(line)]
<1>1. /\ heap' = Freed(heap, {c}, Pointed)
      /\ out_queue' = [out_queue EXCEPT ![Head(line)] = NULL] /\ line' = Tail(line) /\ line # <<>>
      /\ asked' \subseteq asked
      /\ UNCHANGED <<msgs, inbox, job, requests, mailboxes, runMode, activeChannels, probes, halted,
                     nReceived, reports, lost>>
  BY DEF Transmitted
<1>2. /\ out_queue \in [1 .. Slots -> Blocks \cup {NULL}] /\ line \in Seq(1 .. Slots)
      /\ InSlots /\ OnceInSlot
  BY DEF PkTyped, Owned, Separate
<1>3. /\ out_queue' \in [1 .. Slots -> Blocks \cup {NULL}] /\ line' \in Seq(1 .. Slots)
      /\ Head(line) \in 1 .. Slots
      /\ c \in Copies /\ c \in Blocks
      /\ Copies' = Copies \ {c}
      /\ OnceInSlot' /\ InSlots'
      /\ Len(line') < Len(line)
  BY <1>1, <1>2, SlotFreed
<1> HIDE DEF c
<1>4. heap' \in Heap /\ \A x \in Blocks \ {c} : heap'.mem[x] = heap.mem[x]
  BY <1>1, Numbers, FreedLeaves
<1>5. /\ Owns(heap, Roots, Copies, lost) /\ heap \in Heap
      /\ \A r \in Roots \cup Forgotten :
            r \in Blocks /\ c \notin Parts(heap, r) /\ Parts(heap, r) \subseteq Blocks
  <2>1. Owns(heap, Roots, Copies, lost) /\ heap \in Heap
    BY Numbers DEF Owned
  <2>2. \A r \in Forgotten : Parts(heap, r) \subseteq lost
    BY DEF Owned, JobMatches, Forgotten
  <2>3. \A r \in Roots \cup Forgotten : c \notin Parts(heap, r)
    BY <1>3, <2>1, <2>2 DEF Owns
  <2>4. \A r \in Roots \cup Forgotten : r \in Blocks
    BY RootsAre
  <2> QED
    BY <2>1, <2>3, <2>4, PartsAre
<1>6. Owns(heap', Roots, Copies \ {c}, lost)
  BY <1>1, <1>3, <1>5, OwnsSent
<1>7. \A r \in Roots \cup Forgotten : Kept(r)
  BY <1>4, <1>5 DEF Kept
<1>8. \A r \in Roots \cup Forgotten :
         Sound(heap', r) /\ Parts(heap', r) = Parts(heap, r) /\ heap'.mem[r] = heap.mem[r]
  BY <1>7, RootsAre, Numbers, KeptIs
<1>9. UNCHANGED <<Queued, InBox, AtWork, Forgotten, Roots, OnceQueued, OnceInBox>>
  BY <1>1 DEF Queued, InBox, AtWork, Forgotten, Roots, OnceQueued, OnceInBox
<1>10. Separate'
  BY <1>3, <1>9 DEF Owned, Separate
<1>11. JobMatches'
  <2>1. job.in # NULL => job.out \in Roots
    BY DEF AtWork, Roots
  <2>2. job.at = "again" => job.out \in Forgotten
    BY DEF Forgotten
  <2> QED
    BY <1>1, <1>8, <2>1, <2>2 DEF JobMatches, Owned
<1>12. Owned'
  <2>1. Owns(heap', Roots', Copies', lost')
    BY <1>1, <1>3, <1>6, <1>9
  <2> QED
    BY <1>3, <1>8, <1>9, <1>10, <1>11, <2>1 DEF Owned
<1>13. Remains
  <2>1. \A x \in Copies' : heap'.mem[x] = heap.mem[x]
    BY <1>3, <1>4, RootsAre
  <2> QED
    BY <1>7, <2>1 DEF Remains
<1>14. PkTyped'
  BY <1>1, <1>3, <1>4 DEF PkTyped
<1> QED
  BY <1>1, <1>3, <1>12, <1>13, <1>14 DEF StaysOwned, Running, c

-----------------------------------------------------------------------------
(* Types and owners, at all times                                          *)

\* Every step keeps types and owners.
LEMMA NextOwned ==
    ASSUME PkTyped, Owned, Running, PkNext
    PROVE  StaysOwned
<1>1. ASSUME NEW c \in Inputs, Receive(c) PROVE StaysOwned
  BY <1>1, ReceiveOwned
<1>2. CASE Reopen
  BY <1>2, ReopenOwned
<1>3. CASE Take
  BY <1>3, TakeOwned
<1>4. CASE Parse
  BY <1>4, ParseOwned
<1>5. CASE End
  BY <1>5, EndOwned
<1>6. CASE ChannelStatusCallback
  BY <1>6, ChannelStatusOwned
<1>7. CASE Report
  BY <1>7, ReportOwned
<1>8. CASE Powercb
  BY <1>8, PowercbOwned
<1>9. CASE Deliver
  BY <1>9, DeliverOwned
<1>10. CASE bleOutgoingCallback
  BY <1>10, OutgoingOwned
<1>11. CASE CallbackAgain
  BY <1>11, AgainOwned
<1>12. CASE Transmitted
  BY <1>12, TransmittedOwned
<1>13. CASE ParseFails
  BY <1>13, ParseFailsOwned
<1> QED
  BY <1>1, <1>2, <1>3, <1>4, <1>5, <1>6, <1>7, <1>8, <1>9, <1>10, <1>11, <1>12, <1>13 DEF PkNext

\* A program that has stopped takes no step, but what it has handed to the UART is transmitted.
LEMMA OnlyRunning == PkNext => Running \/ Transmitted
BY DEF PkNext, Receive, Reopen, Take, Parse, ParseFails, End, ChannelStatusCallback, Report, Powercb,
       Deliver, bleOutgoingCallback, CallbackAgain, Idle

\* At the start nothing is allocated.
LEMMA InitOwned ==
    ASSUME PkInit
    PROVE  PkTyped /\ Owned /\ Running
<1>1. /\ Roots = {} /\ Copies = {} /\ Forgotten = {} /\ lost = {} /\ heap.live = {}
      /\ Queued = {} /\ InBox = {} /\ AtWork = {}
  BY DEF PkInit, Roots, Copies, Forgotten, Queued, InBox, AtWork, None
<1>2. Owns(heap, Roots, Copies, lost)
  BY <1>1 DEF Owns
<1>3. Separate /\ InSlots /\ JobMatches
  <2>1. JobMatches
    BY DEF PkInit, JobMatches, None
  <2>2. OnceQueued /\ OnceInBox /\ OnceInSlot /\ InSlots
    BY DEF PkInit, OnceQueued, OnceInBox, OnceInSlot, InSlots
  <2> QED
    BY <1>1, <2>1, <2>2 DEF Separate
<1>4. Owned
  BY <1>1, <1>2, <1>3 DEF Owned
<1>5. heap \in Heap
  <2>1. Junk \in Content
    BY Blank, EmptySeq DEF Junk
  <2> QED
    BY <2>1 DEF PkInit, Heap
<1>6. PkTyped
  <2>1. 0 \in 0 .. ReqMax /\ 0 \in Byte /\ 0 <= QueueMax
    BY PacketBoundsAssumption DEF Byte
  <2>2. Len(<<>>) = 0 /\ \A S : <<>> \in Seq(S)
    OBVIOUS
  <2>3. job \in Job
    BY DEF PkInit, None, Job
  <2>4. out_queue \in [1 .. Slots -> Blocks \cup {NULL}]
    BY DEF PkInit
  <2> QED
    BY <1>5, <2>1, <2>2, <2>3, <2>4 DEF PkInit, PkTyped
<1> QED
  BY <1>4, <1>6 DEF PkInit, Running

\* The heap and the places packets are in agree in all interleavings of the handlers and interrupts,
\* for any commands, until the program stops, goes astray or frees a packet twice (somparser.c, mainapp.c:242, bleapp.c:111, mailbox.c:11, system_msg.c).
THEOREM OwnersInvariance == PkSpec => []OwnersInv
<1>1. PkInit => OwnersInv
  BY InitOwned DEF OwnersInv, Running
<1>2. OwnersInv /\ [PkNext]_pkVars => OwnersInv'
  <2>1. CASE PkNext
    <3>1. CASE Running
      BY <2>1, <3>1, NextOwned DEF OwnersInv, StaysOwned
    <3>2. CASE ~Running /\ Transmitted
      BY <3>2, TransmittedTyped DEF OwnersInv, Running
    <3> QED
      BY <2>1, <3>1, <3>2, OnlyRunning
  <2>2. CASE UNCHANGED pkVars
    <3>1. OwnersInv => PkTyped'
      BY <2>2 DEF pkVars, PkTyped, OwnersInv
    <3>2. OwnersInv /\ Running' => Owned'
      <4>1. /\ UNCHANGED <<heap, msgs, inbox, job, out_queue, line, lost>>
            /\ mailboxes' = mailboxes /\ Running' = Running
        BY <2>2 DEF pkVars, Running
      <4>2. OwnersInv => mailboxes' \in Nat /\ mailboxes' >= mailboxes
        <5>1. OwnersInv => mailboxes \in Nat
          BY Numbers DEF OwnersInv
        <5> QED
          BY <4>1, <5>1
      <4> QED
        BY <4>1, <4>2, NothingOwned DEF OwnersInv
    <3> QED
      BY <2>2, <3>1, <3>2 DEF OwnersInv, pkVars
  <2> QED
    BY <2>1, <2>2
<1> QED
  BY <1>1, <1>2, PTL DEF PkSpec

\* Every variable stays within its type, for any number of blocks, slots, messages and restarts.
THEOREM PkTypes == PkSpec => []PkTypeOK
<1>1. OwnersInv => PkTypeOK
  BY TypesAre DEF OwnersInv
<1> QED
  BY <1>1, OwnersInvariance, PTL

\* As long as the program runs, every allocated block has exactly one owner, or is one that a full
\* queue refused, that found no slot, or that powercb allocated for a gauge command it has no case
\* for; nothing is freed twice unless a restart has opened a second mailbox, which ends the claim
\* (mainapp.c:266, bleapp.c:134, 155, 208, 272, mailbox.c:11).
THEOREM OneOwnerAlways == PkSpec => []OneOwner
<1>1. OwnersInv => OneOwner
  <2>1. ASSUME OwnersInv, Running
        PROVE  {h[3] : h \in Holders} = heap.live /\ Cardinality(Holders) = Cardinality(heap.live)
    BY <2>1, OwnersCounted DEF OwnersInv
  <2> QED
    BY <2>1 DEF OwnersInv, OneOwner
<1> QED
  BY <1>1, OwnersInvariance, PTL

-----------------------------------------------------------------------------
(* Results and replies                                                     *)

\* A packet waiting to be sent, or forgotten, is kept by every step that does not send it.
LEMMA SendersKept ==
    ASSUME PkTyped, Owned, Remains
    PROVE  /\ \A b \in (QueuedFor("ble") \cup Forgotten) \cap (QueuedFor("ble")' \cup Forgotten') :
                 /\ b \in Roots \cup Forgotten /\ b \in Blocks /\ Kept(b) /\ heap'.mem[b] = heap.mem[b]
                 /\ HasResult(heap', b) <=> HasResult(heap, b)
                 /\ Answers(heap', b) <=> Answers(heap, b)
           /\ job' = job /\ job.in # NULL =>
                 /\ heap'.mem[job.in] = heap.mem[job.in] /\ heap'.mem[job.out] = heap.mem[job.out]
                 /\ HasResult(heap', job.out) <=> HasResult(heap, job.out)
                 /\ Answers(heap', job.out) <=> Answers(heap, job.out)
<1>1. /\ QueuedFor("ble") \subseteq Queued /\ Queued \subseteq Roots
      /\ QueuedFor("ble")' \subseteq Queued' /\ Queued' \subseteq Roots'
  BY DEF QueuedFor, Queued, Roots
<1>2. ASSUME NEW b \in (QueuedFor("ble") \cup Forgotten) \cap (QueuedFor("ble")' \cup Forgotten')
      PROVE  b \in Roots \cup Forgotten /\ b \in Blocks /\ Kept(b) /\ Sound(heap, b)
  <2>1. b \in (Roots \cup Forgotten) \cap (Roots' \cup Forgotten')
    BY <1>1
  <2>2. job.at = "parse" => b # job.out
    <3>1. job.at = "parse" => Forgotten = {} /\ job.out \in AtWork
      BY DEF Forgotten, AtWork, Owned, JobMatches
    <3>2. AtWork \cap Queued = {}
      BY DEF Owned, Separate
    <3> QED
      BY <1>1, <3>1, <3>2
  <2> QED
    BY <2>1, <2>2, RootsAre DEF Remains
<1>3. \A b \in (QueuedFor("ble") \cup Forgotten) \cap (QueuedFor("ble")' \cup Forgotten') :
         /\ heap'.mem[b] = heap.mem[b]
         /\ HasResult(heap', b) <=> HasResult(heap, b)
         /\ Answers(heap', b) <=> Answers(heap, b)
  BY <1>2, Numbers, KeptIs
<1>4. ASSUME job' = job, job.in # NULL
      PROVE  /\ heap'.mem[job.in] = heap.mem[job.in] /\ heap'.mem[job.out] = heap.mem[job.out]
             /\ HasResult(heap', job.out) <=> HasResult(heap, job.out)
             /\ Answers(heap', job.out) <=> Answers(heap, job.out)
  <2>1. {job.in, job.out} \subseteq Roots \cap Roots'
    BY <1>4 DEF AtWork, Roots
  <2>2. Kept(job.in) /\ Kept(job.out)
    BY <1>4, <2>1 DEF Remains
  <2>3. /\ job.in \in Blocks /\ Sound(heap, job.in) /\ job.out \in Blocks /\ Sound(heap, job.out)
        /\ heap \in Heap
    BY <2>1, RootsAre, Numbers
  <2> QED
    BY <2>2, <2>3, KeptIs
<1> QED
  BY <1>2, <1>3, <1>4

\* Whoever holds a reply between two steps still does, and the reply has its result.
LEMMA JobResult ==
    ASSUME PkTyped, Owned, Remains, Results, job' = job, job'.at \in {"end", "again"}
    PROVE  HasResult(heap', job'.out)
<1>1. CASE job.at = "end"
  <2>1. job.in # NULL
    BY <1>1 DEF Owned, JobMatches
  <2> QED
    BY <1>1, <2>1, SendersKept DEF Results
<1>2. CASE job.at = "again"
  <2>1. job.out \in Forgotten /\ job.out \in Forgotten'
    BY <1>2 DEF Forgotten
  <2> QED
    BY <1>2, <2>1, SendersKept DEF Results
<1> QED
  BY <1>1, <1>2

\* Nothing new is to be sent: the results are as before.
LEMMA ResultsCarry ==
    ASSUME PkTyped, Owned, Remains, Results, QueuedFor("ble")' \subseteq QueuedFor("ble"),
           job' = job \/ job'.at \notin {"end", "again"}
    PROVE  Results'
<1>1. \A b \in QueuedFor("ble")' : HasResult(heap', b)
  BY SendersKept DEF Results
<1>2. job'.at \in {"end", "again"} => HasResult(heap', job'.out)
  BY JobResult
<1> QED
  BY <1>1, <1>2 DEF Results

\* A packet of the applications' own making has a payload, and is no answer.
LEMMA MadeIs ==
    ASSUME PkTyped, Owned, Remains, NEW n \in {2, 3}, Makes(n)
    PROVE  /\ QueuedFor("main")' = QueuedFor("main")
           /\ \E b \in Blocks \ heap.live :
                 /\ QueuedFor("ble")' \in {QueuedFor("ble"), QueuedFor("ble") \cup {b}}
                 /\ HasResult(heap', b) /\ ~Answers(heap', b)
<1>1. PICK b, q, bytes : bytes \in Seq(Byte) /\ Len(bytes) = n /\ q.pLen = n /\ Gets("ble", b, q, bytes)
  BY DEF Makes
<1>2. /\ b \in Blocks \ heap.live /\ heap'.mem[b].packet = q
      /\ heap'.mem[b].payload # NULL => heap'.mem[heap'.mem[b].payload].data = bytes
      /\ \A t : \/ QueuedFor(t)' = QueuedFor(t)
                \/ t = "ble" /\ QueuedFor(t)' = QueuedFor(t) \cup {b}
  BY <1>1 DEF Gets
<1>3. HasResult(heap', b)
  BY <1>1, <1>2 DEF HasResult
<1>4. ~Answers(heap', b)
  <2>1. Len(<<0>>) = 1 /\ Len(<<255>>) = 1
    OBVIOUS
  <2>2. bytes \notin {<<0>>, <<255>>}
    BY <1>1, <2>1
  <2>3. heap'.mem[b].packet.pLen # 0
    BY <1>1, <1>2
  <2>4. heap'.mem[b].payload # NULL => heap'.mem[heap'.mem[b].payload].data \notin {<<0>>, <<255>>}
    BY <1>2, <2>2
  <2> QED
    BY <2>3, <2>4 DEF Answers
<1>5. QueuedFor("main")' = QueuedFor("main")
  BY <1>2
<1> QED
  BY <1>2, <1>3, <1>4, <1>5

\* Every response that is sent has a result, or no memory for it.
LEMMA ResultsStep ==
    ASSUME PkTyped, Owned, Running, Results, ReplyFits, PkNext, Running'
    PROVE  Results'
<1>1. Owned' /\ Remains
  BY NextOwned DEF StaysOwned
<1>2. ASSUME NEW c \in Inputs, Receive(c) PROVE Results'
  <2>1. job' = job
    BY <1>2 DEF Receive
  <2>2. CASE UNCHANGED msgs
    <3>1. QueuedFor("ble")' = QueuedFor("ble")
      BY <2>2 DEF QueuedFor
    <3> QED
      BY <1>1, <2>1, <3>1, ResultsCarry
  <2>3. CASE \E b : Gets("main", b, Sent(nReceived + 1, c), c.data)
    <3>1. QueuedFor("ble")' = QueuedFor("ble")
      BY <2>3 DEF Gets
    <3> QED
      BY <1>1, <2>1, <3>1, ResultsCarry
  <2> QED
    BY <1>2, <2>2, <2>3, ReceiveOwned
<1>3. CASE Reopen
  <2>1. QueuedFor("ble")' = QueuedFor("ble") /\ job' = job
    BY <1>3 DEF Reopen, QueuedFor
  <2> QED
    BY <1>1, <2>1, ResultsCarry
<1>4. CASE Take
  <2>1. QueuedFor("ble")' = QueuedFor("ble")
    BY <1>4 DEF Take, Halt, QueuedFor
  <2>2. CASE job'.at = "end" /\ heap'.mem[job'.out].packet = Created(0, BLE_CMD_NOT_SUPPORTED)
    <3>1. BLE_CMD_NOT_SUPPORTED \in Byte /\ 0 \in Byte /\ BLE_CMD_NOT_SUPPORTED # BLE_CMD_RESPONSE
      BY DEF BLE_CMD_NOT_SUPPORTED, BLE_CMD_RESPONSE, Byte
    <3>2. HasResult(heap', job'.out)
      BY <2>2, <3>1, CreatedTyped DEF HasResult
    <3>3. \A b \in QueuedFor("ble")' : HasResult(heap', b)
      BY <1>1, <2>1, SendersKept DEF Results
    <3> QED
      BY <3>2, <3>3 DEF Results
  <2>3. CASE job'.at = "parse"
    BY <1>1, <2>1, <2>3, ResultsCarry
  <2> QED
    BY <1>4, <2>2, <2>3, TakeOwned
<1>5. CASE Parse
  <2>1. QueuedFor("ble")' = QueuedFor("ble")
    BY <1>5 DEF Parse, QueuedFor
  <2>2. \A b \in QueuedFor("ble")' : HasResult(heap', b)
    BY <1>1, <2>1, SendersKept DEF Results
  <2>3. /\ job.in # NULL /\ job.at = "parse" /\ job'.out = job.out
    BY <1>5, ParseOwned DEF Parse, PkTyped, Job
  <2>4. HasResult(heap', job'.out)
    <3>1. CASE UNCHANGED heap /\ In.cmd \in {BLE_CMD_START_POS, BLE_CMD_DONE_POS}
      <4>1. heap.mem[job.out].packet.cmd \in {BLE_CMD_START_POS, BLE_CMD_DONE_POS}
        BY <2>3, <3>1 DEF ReplyFits, In
      <4> QED
        BY <2>3, <3>1, <4>1 DEF HasResult, BLE_CMD_START_POS, BLE_CMD_DONE_POS, BLE_CMD_RESPONSE
    <3>2. CASE heap'.mem[job.out].packet.pLen = 1
      BY <2>3, <3>2 DEF HasResult
    <3> QED
      BY <1>5, <3>1, <3>2, ParseOwned
  <2> QED
    BY <2>2, <2>4 DEF Results
<1>6. CASE End
  <2>1. /\ job' = None /\ heap'.mem[job.out] = heap.mem[job.out] /\ job.at = "end"
        /\ \/ QueuedFor("ble")' = QueuedFor("ble")
           \/ QueuedFor("ble")' = QueuedFor("ble") \cup {job.out}
    BY <1>6, EndOwned DEF End
  <2>2. \A b \in QueuedFor("ble") \cap QueuedFor("ble")' : HasResult(heap', b)
    BY <1>1, SendersKept DEF Results
  <2>3. HasResult(heap', job.out)
    BY <2>1 DEF HasResult, Results
  <2> QED
    BY <2>1, <2>2, <2>3 DEF Results, None
<1>7. CASE ChannelStatusCallback \/ Report \/ (Powercb /\ Makes(3))
  <2>1. \E n \in {2, 3} : Makes(n)
    BY <1>7, ChannelStatusOwned, ReportOwned
  <2>2. PICK b \in Blocks \ heap.live :
           /\ QueuedFor("ble")' \in {QueuedFor("ble"), QueuedFor("ble") \cup {b}}
           /\ HasResult(heap', b)
    BY <1>1, <2>1, MadeIs
  <2>3. job' = job
    BY <1>7 DEF ChannelStatusCallback, Report, Powercb
  <2>4. \A x \in QueuedFor("ble") \cap QueuedFor("ble")' : HasResult(heap', x)
    BY <1>1, SendersKept DEF Results
  <2>5. job'.at \in {"end", "again"} => HasResult(heap', job'.out)
    BY <1>1, <2>3, JobResult
  <2> QED
    BY <2>2, <2>3, <2>4, <2>5 DEF Results
<1>8. CASE Powercb /\ UNCHANGED msgs
  <2>1. QueuedFor("ble")' = QueuedFor("ble") /\ job' = job
    BY <1>8 DEF Powercb, QueuedFor
  <2> QED
    BY <1>1, <2>1, ResultsCarry
<1>9. CASE Deliver
  <2>1. job' = job
    BY <1>9 DEF Deliver
  <2> QED
    BY <1>1, <1>9, <2>1, DeliverOwned, ResultsCarry
<1>10. CASE bleOutgoingCallback
  <2>1. PICK b \in QueuedFor("ble") :
           /\ \A t : QueuedFor(t)' = QueuedFor(t) \ {b}
           /\ \/ Forgotten' = {}
              \/ UNCHANGED heap /\ Forgotten' = {b} /\ job'.out = b
    BY <1>10, OutgoingOwned
  <2>2. \A x \in QueuedFor("ble")' : HasResult(heap', x)
    BY <1>1, <2>1, SendersKept DEF Results
  <2>3. job'.in = NULL
    BY <1>10, OutgoingOwned
  <2>4. job'.at # "end"
    BY <1>1, <2>3 DEF Owned, JobMatches
  <2>5. job'.at = "again" => HasResult(heap', job'.out)
    <3>1. job'.at = "again" => Forgotten' # {}
      BY DEF Forgotten
    <3> QED
      BY <2>1, <3>1 DEF Results
  <2> QED
    BY <2>2, <2>4, <2>5 DEF Results
<1>11. CASE CallbackAgain
  <2>1. QueuedFor("ble")' = QueuedFor("ble")
    BY <1>11 DEF CallbackAgain, QueuedFor
  <2>2. job'.at # "end" /\ (job'.at = "again" => job.at = "again" /\ job'.out = job.out)
    BY <1>11, AgainOwned
  <2>3. \A b \in QueuedFor("ble")' : HasResult(heap', b)
    BY <1>1, <2>1, SendersKept DEF Results
  <2>4. job'.at = "again" => HasResult(heap', job'.out)
    <3>1. job'.at = "again" => job.out \in Forgotten /\ job.out \in Forgotten'
      BY <2>2 DEF Forgotten
    <3> QED
      BY <1>1, <2>2, <3>1, SendersKept DEF Results
  <2> QED
    BY <2>2, <2>3, <2>4 DEF Results
<1>12. CASE Transmitted
  <2>1. QueuedFor("ble")' = QueuedFor("ble") /\ job' = job
    BY <1>12 DEF Transmitted, QueuedFor
  <2> QED
    BY <1>1, <2>1, ResultsCarry
<1> QED
  BY <1>2, <1>3, <1>4, <1>5, <1>6, <1>7, <1>8, <1>9, <1>10, <1>11, <1>12, PowercbOwned,
     ParseFailsOwned DEF PkNext

\* A reply that is being made goes on matching its command.
LEMMA FitsStep ==
    ASSUME PkTyped, Owned, Running, ReplyFits, PkNext, Running'
    PROVE  ReplyFits'
<1>1. Owned' /\ Remains
  BY NextOwned DEF StaysOwned
<1>2. CASE job' = job
  <2>1. CASE job.in # NULL
    BY <1>1, <1>2, <2>1, SendersKept DEF ReplyFits
  <2>2. CASE job.in = NULL
    BY <1>2, <2>2 DEF ReplyFits
  <2> QED
    BY <2>1, <2>2
<1>3. CASE job'.in = NULL
  BY <1>3 DEF ReplyFits
<1>4. CASE Take
  <2>1. /\ job'.in \in InBox /\ job'.in # NULL
        /\ \A x \in heap.live : heap'.mem[x] = heap.mem[x]
        /\ heap'.mem[job'.out].payload = NULL
        /\ \/ /\ job'.at = "end"
              /\ heap'.mem[job'.out].packet = Created(0, BLE_CMD_NOT_SUPPORTED)
           \/ /\ job'.at = "parse"
              /\ heap'.mem[job'.out].packet
                    = PACKET_CreateForReply(heap.mem[job'.in].packet, Random)
    BY <1>4, TakeOwned
  <2>2. job'.in \in Blocks /\ job'.in \in heap.live
    BY <2>1, RootsAre DEF Roots
  <2>3. heap'.mem[job'.in] = heap.mem[job'.in] /\ heap.mem[job'.in].packet \in Packet
    BY <2>1, <2>2, Numbers DEF Heap, Content
  <2>4. CASE job'.at = "end" /\ heap'.mem[job'.out].packet = Created(0, BLE_CMD_NOT_SUPPORTED)
    <3>1. /\ BLE_CMD_NOT_SUPPORTED \in Byte /\ 0 \in Byte
          /\ BLE_CMD_NOT_SUPPORTED \notin {BLE_CMD_RESPONSE, BLE_CMD_START_POS, BLE_CMD_DONE_POS}
      BY DEF BLE_CMD_NOT_SUPPORTED, BLE_CMD_RESPONSE, BLE_CMD_START_POS, BLE_CMD_DONE_POS, Byte
    <3>2. heap'.mem[job'.out].packet.cmd = BLE_CMD_NOT_SUPPORTED
      BY <2>4, <3>1, CreatedTyped
    <3>3. ~Answers(heap', job'.out)
      BY <3>1, <3>2 DEF Answers
    <3> QED
      BY <2>4, <3>3 DEF ReplyFits
  <2>5. CASE /\ job'.at = "parse"
             /\ heap'.mem[job'.out].packet = PACKET_CreateForReply(heap.mem[job'.in].packet, Random)
    BY <2>3, <2>5, CreatedTyped, ReplyMatches DEF ReplyFits
  <2> QED
    BY <2>1, <2>4, <2>5
<1>5. CASE Parse
  <2>1. /\ job'.at = "end" /\ job'.in = job.in /\ job'.out = job.out /\ job.at = "parse"
        /\ job.in # NULL /\ job.in # job.out
    BY <1>5, ParseOwned DEF Parse, PkTyped, Job, Owned, JobMatches
  <2>2. heap'.mem[job.in] = heap.mem[job.in]
    <3>1. job.in \in Roots /\ job.in \in Roots'
      BY <2>1 DEF Roots, AtWork
    <3>2. Kept(job.in)
      BY <1>1, <2>1, <3>1 DEF Remains
    <3> QED
      BY <3>1, <3>2, RootsAre, Numbers, KeptIs
  <2>3. /\ heap'.mem[job.out].packet.tid = heap.mem[job.out].packet.tid
        /\ heap'.mem[job.out].packet.dst = heap.mem[job.out].packet.dst
    BY <1>5, ParseOwned
  <2> QED
    BY <2>1, <2>2, <2>3 DEF ReplyFits
<1>6. ASSUME NEW c \in Inputs, Receive(c) PROVE job' = job
  BY <1>6 DEF Receive
<1>7. Reopen \/ ChannelStatusCallback \/ Report \/ Powercb \/ Deliver \/ Transmitted => job' = job
  BY DEF Reopen, ChannelStatusCallback, Report, Powercb, Deliver, Transmitted
<1>8. End \/ bleOutgoingCallback \/ CallbackAgain => job'.in = NULL
  BY EndOwned, OutgoingOwned, AgainOwned DEF None
<1> QED
  BY <1>2, <1>3, <1>4, <1>5, <1>6, <1>7, <1>8, ParseFailsOwned DEF PkNext

-----------------------------------------------------------------------------
(* What goes over the line                                                 *)

\* These bytes are a packet with source and destination, and with its result if it is a response.
Formed(raw) ==
    /\ Len(raw) = PACKET_GetFullSize(PACKET_Get(raw))
    /\ raw[3] # 0 /\ raw[4] # 0
    /\ raw[14] = BLE_CMD_RESPONSE => PayloadOf(raw) # <<>>

\* A packet with its payload decodes to itself, the source set, when it has gone over the line.
LEMMA WireFormed ==
    ASSUME PkTyped, NEW b \in Blocks, Sound(heap, b), HasResult(heap, b), ~NoPayload(heap, b),
           PACKET_GetDestination(heap.mem[b].packet) # 0
    PROVE  /\ Formed(Sends(b))
           /\ PACKET_Get(Sends(b)).tid = heap.mem[b].packet.tid
           /\ PACKET_Get(Sends(b)).dst = heap.mem[b].packet.dst
           /\ IsAnswer(Sends(b)) => Answers(heap, b)
<1> DEFINE p == heap.mem[b].packet
           q == Outgoing(p)
           raw == Sends(b)
<1>1. /\ q \in Packet /\ Payload(b) \in Seq(Byte) /\ p \in Packet
  BY WireIs, Numbers DEF Heap, Content
<1>2. q.src # 0 /\ q.dst = p.dst /\ q.tid = p.tid /\ q.cmd = p.cmd /\ q.pLen = p.pLen
  <2>1. CASE p.src = 0
    BY <1>1, <2>1 DEF Outgoing, PACKET_GetSource, PACKET_SetSource, DEV_MASTER, Packet
  <2>2. CASE p.src # 0
    BY <2>2 DEF Outgoing, PACKET_GetSource
  <2> QED
    BY <2>1, <2>2
<1>3. p.dst # 0
  BY DEF PACKET_GetDestination
<1>4. p.pLen \in Nat
  <2>1. p.pLen \in Byte
    BY <1>1 DEF Packet
  <2> HIDE DEF p
  <2> QED
    BY <2>1 DEF Byte
<1>5. Len(Payload(b)) = q.pLen
  <2>1. CASE heap.mem[b].payload = NULL
    <3>1. p.pLen = 0
      BY <1>4, <2>1 DEF NoPayload
    <3>2. Payload(b) = <<>>
      BY <2>1 DEF Payload
    <3> QED
      BY <1>2, <3>1, <3>2
  <2>2. CASE heap.mem[b].payload # NULL
    BY <1>2, <2>2 DEF Sound, Payload
  <2> QED
    BY <2>1, <2>2
<1>6. heap.mem[b].payload # NULL => Payload(b) = heap.mem[heap.mem[b].payload].data /\ p.pLen > 0
  BY DEF Payload, Sound
<1>7. p.cmd = BLE_CMD_RESPONSE => p.pLen > 0
  BY DEF HasResult
<1> HIDE DEF p, q, raw
<1>8. PACKET_Get(raw) = q /\ PayloadOf(raw) = Payload(b) /\ Len(raw) = PACKET_GetFullSize(q)
  BY <1>1, <1>5, RoundTrip DEF raw, q, p, Sends, Wire
<1>9. raw[3] = q.src /\ raw[4] = q.dst /\ raw[14] = q.cmd
  BY <1>1, Bytes DEF raw, q, p, Sends, Wire
<1>10. PayloadOf(raw) = <<>> => p.pLen = 0
  BY <1>2, <1>5, <1>8
<1>11. Formed(raw)
  BY <1>2, <1>3, <1>4, <1>7, <1>8, <1>9, <1>10 DEF Formed
<1>12. IsAnswer(raw) => Answers(heap, b)
  <2>1. CASE raw[14] = BLE_CMD_RESPONSE /\ PayloadOf(raw) \in {<<0>>, <<255>>}
    <3>1. heap.mem[b].payload # NULL
      <4>1. Payload(b) # <<>>
        <5>1. <<0>> # <<>> /\ <<255>> # <<>>
          OBVIOUS
        <5> QED
          BY <1>8, <2>1, <5>1
      <4> QED
        BY <4>1 DEF Payload
    <3> QED
      BY <1>2, <1>6, <1>8, <1>9, <2>1, <3>1 DEF Answers, p
  <2>2. CASE raw[14] \in {BLE_CMD_START_POS, BLE_CMD_DONE_POS} /\ PayloadOf(raw) = <<>>
    BY <1>2, <1>9, <1>10, <2>2 DEF Answers, p
  <2> QED
    BY <2>1, <2>2 DEF IsAnswer
<1> QED
  BY <1>2, <1>8, <1>11, <1>12 DEF p, raw

\* Where copies come from: a packet waiting to be sent, or found again, is copied; otherwise there
\* are none but those there were.
LEMMA CopiesStep ==
    ASSUME PkTyped, Owned, Running, PkNext, Running'
    PROVE  \/ Copies' \subseteq Copies
           \/ \E b \in QueuedFor("ble") \cup Forgotten :
                 Ships(b) /\ (b \in Forgotten => job.at = "again" /\ b = job.out)
<1>1. ASSUME UNCHANGED out_queue PROVE Copies' \subseteq Copies
  BY <1>1 DEF Copies
<1>2. ASSUME NEW c \in Inputs, Receive(c) PROVE UNCHANGED out_queue
  BY <1>2 DEF Receive
<1>3. Reopen \/ Take \/ Parse \/ End \/ ChannelStatusCallback \/ Report \/ Powercb \/ Deliver
         => UNCHANGED out_queue
  BY DEF Reopen, Take, Halt, Parse, End, ChannelStatusCallback, Report, Powercb, Deliver
<1>4. CASE bleOutgoingCallback
  <2>1. Forgotten = {}
    BY <1>4, OutgoingOwned DEF Forgotten, None
  <2>2. \E b \in QueuedFor("ble") : UNCHANGED Copies \/ Ships(b)
    BY <1>4, OutgoingOwned
  <2> QED
    BY <2>1, <2>2
<1>5. CASE CallbackAgain
  <2>1. UNCHANGED Copies \/ (job.at = "again" /\ Ships(job.out))
    BY <1>5, AgainOwned
  <2> QED
    BY <2>1 DEF Forgotten
<1>6. Transmitted => Copies' \subseteq Copies
  BY TransmittedOwned
<1> QED
  BY <1>1, <1>2, <1>3, <1>4, <1>5, <1>6, ParseFailsOwned DEF PkNext

\* What is put on the line is a packet.
LEMMA FormedStep ==
    ASSUME PkTyped, Owned, Running, Results, WellFormed, PkNext, Running'
    PROVE  WellFormed'
<1>1. \A c \in Copies : Formed(heap.mem[c].data)
  BY DEF WellFormed, Copies, Formed
<1>2. Remains
  BY NextOwned DEF StaysOwned
<1>3. \A c \in Copies \cap Copies' : Formed(heap'.mem[c].data)
  BY <1>1, <1>2 DEF Remains
<1>4. ASSUME NEW b \in QueuedFor("ble") \cup Forgotten, Ships(b),
             b \in Forgotten => job.at = "again" /\ b = job.out
      PROVE  \A c \in Copies' : Formed(heap'.mem[c].data)
  <2>1. b \in Roots \cup Forgotten
    BY DEF QueuedFor, Queued, Roots
  <2>2. b \in Blocks /\ Sound(heap, b)
    BY <2>1, RootsAre
  <2>3. HasResult(heap, b)
    BY <1>4 DEF Results
  <2>4. Formed(Sends(b))
    BY <1>4, <2>2, <2>3, WireFormed DEF Ships
  <2> QED
    BY <1>3, <1>4, <2>4 DEF Ships
<1>5. \A c \in Copies' : Formed(heap'.mem[c].data)
  BY <1>3, <1>4, CopiesStep
<1> QED
  BY <1>5 DEF WellFormed, Copies, Formed

-----------------------------------------------------------------------------
(* Answers                                                                 *)

\* Packets and copies are apart, before and after.
LEMMA ApartAfter ==
    ASSUME PkTyped', Owned'
    PROVE  \A r \in Roots' \cup Forgotten' : r \in Blocks /\ r \notin Copies'
<1>1. heap' \in Heap /\ lost' \subseteq Blocks
  BY DEF PkTyped
<1>2. /\ Copies' \subseteq heap'.live /\ Copies' \cap lost' = {}
      /\ \A r \in Roots' : r \in Blocks /\ Parts(heap', r) \subseteq heap'.live \ (Copies' \cup lost')
  BY DEF Owned, Owns
<1>3. \A r \in Forgotten' : r \in Blocks /\ Parts(heap', r) \subseteq lost'
  BY DEF PkTyped, Job, Owned, JobMatches, Forgotten
<1>4. \A r \in Roots' \cup Forgotten' : r \in Parts(heap', r)
  BY <1>1, <1>2, <1>3, PartsAre
<1> QED
  BY <1>2, <1>3, <1>4

\* What may lead to an answer, before and after a step, says the same.
LEMMA SourcesKept ==
    ASSUME PkTyped, Owned, PkTyped', Owned', Remains
    PROVE  /\ \A x \in Commands \cap Commands' :
                 heap'.mem[x].packet = heap.mem[x].packet /\ Tid(x)' = Tid(x)
           /\ \A x \in (QueuedFor("ble") \cup Forgotten) \cap (QueuedFor("ble")' \cup Forgotten') :
                 /\ x \in Replies' <=> x \in Replies
                 /\ heap'.mem[x].packet = heap.mem[x].packet /\ Tid(x)' = Tid(x)
           /\ \A x \in Copies \cap Copies' :
                 /\ x \in AnswerCopies' <=> x \in AnswerCopies
                 /\ heap'.mem[x].data = heap.mem[x].data /\ Tid(x)' = Tid(x)
           /\ Commands \subseteq Roots /\ QueuedFor("ble") \subseteq Roots
           /\ Commands \cap QueuedFor("ble") = {}
<1>1. /\ Commands \subseteq Roots /\ Commands' \subseteq Roots'
      /\ QueuedFor("ble") \subseteq Roots /\ QueuedFor("ble")' \subseteq Roots'
  BY DEF Commands, QueuedFor, Queued, Roots, AtWork
<1>2. Commands \cap QueuedFor("ble") = {}
  <2>1. QueuedFor("main") \cap QueuedFor("ble") = {}
    BY DEF QueuedFor, Owned, Separate, OnceQueued
  <2>2. QueuedFor("ble") \subseteq Queued /\ (job.in # NULL => job.in \in AtWork)
    BY DEF QueuedFor, Queued, AtWork
  <2> QED
    BY <2>1, <2>2 DEF Commands, Owned, Separate
<1>3. ASSUME NEW x \in Commands \cap Commands'
      PROVE  heap'.mem[x].packet = heap.mem[x].packet /\ Tid(x)' = Tid(x)
  <2>1. job.at = "parse" => x # job.out
    <3>1. job.at = "parse" => job.in # job.out /\ job.out \in AtWork
      BY DEF Owned, JobMatches, AtWork
    <3>2. AtWork \cap (QueuedFor("main") \cup InBox) = {}
      BY DEF Owned, Separate, QueuedFor, Queued
    <3> QED
      BY <3>1, <3>2 DEF Commands
  <2>2. x \in Roots /\ x \in Roots' /\ Kept(x)
    BY <1>1, <2>1 DEF Remains
  <2>3. heap'.mem[x] = heap.mem[x]
    BY <2>2, RootsAre, Numbers, KeptIs
  <2>4. x \notin Copies /\ x \notin Copies'
    BY <2>2, RootsAre, ApartAfter
  <2> QED
    BY <2>3, <2>4 DEF Tid
<1>4. ASSUME NEW x \in (QueuedFor("ble") \cup Forgotten) \cap (QueuedFor("ble")' \cup Forgotten')
      PROVE  /\ x \in Replies' <=> x \in Replies
             /\ heap'.mem[x].packet = heap.mem[x].packet /\ Tid(x)' = Tid(x)
  <2>1. heap'.mem[x] = heap.mem[x] /\ (Answers(heap', x) <=> Answers(heap, x))
    BY SendersKept
  <2>2. x \notin Copies /\ x \notin Copies'
    BY <1>1, RootsAre, ApartAfter
  <2> QED
    BY <2>1, <2>2 DEF Tid, Replies
<1>5. ASSUME NEW x \in Copies \cap Copies'
      PROVE  /\ x \in AnswerCopies' <=> x \in AnswerCopies
             /\ heap'.mem[x].data = heap.mem[x].data /\ Tid(x)' = Tid(x)
  BY DEF Remains, AnswerCopies, Tid
<1> QED
  BY <1>1, <1>2, <1>3, <1>4, <1>5

\* A step after which at most block new may be a source of an answer that was none before, and then
\* block old is none any more and new is in its place.
LEMMA AwaitedMoves ==
    ASSUME PkTyped, Owned, PkTyped', Owned', Remains, Awaited,
           nReceived' \in Nat, nReceived' >= nReceived, asked' \subseteq asked, NEW new, NEW old,
           Commands' \subseteq Commands \ {old},
           QueuedFor("ble")' \cup Forgotten' \subseteq ((QueuedFor("ble") \cup Forgotten) \ {old}) \cup {new},
           Copies' \subseteq (Copies \ {old}) \cup {new},
           \A x \in Sources \ {old} : Tid(x) \in asked',
           \A x : x = new /\ x \in Replies' /\ x \notin QueuedFor("ble") \cup Forgotten =>
                     /\ old \in Sources /\ Tid(old) \in asked' /\ Tid(x)' = Tid(old)
                     /\ heap'.mem[x].packet.dst = DEV_APPLICATION,
           \A x : x = new /\ x \in AnswerCopies' /\ x \notin Copies =>
                     /\ old \in Sources /\ Tid(old) \in asked' /\ Tid(x)' = Tid(old)
                     /\ PACKET_Get(heap'.mem[x].data).dst = DEV_APPLICATION,
           new # old \/ new \notin Sources
    PROVE  Awaited'
<1>1. /\ Replies \subseteq QueuedFor("ble") \cup Forgotten
      /\ Replies' \subseteq QueuedFor("ble")' \cup Forgotten'
      /\ AnswerCopies \subseteq Copies /\ AnswerCopies' \subseteq Copies'
  BY DEF Replies, AnswerCopies
<1>2. ASSUME NEW x \in Commands'
      PROVE  /\ x \in Sources /\ x # old /\ Tid(x)' = Tid(x)
             /\ heap'.mem[x].packet.src = DEV_APPLICATION
  <2>1. x \in Commands
    OBVIOUS
  <2> QED
    BY <2>1, SourcesKept DEF Awaited, Sources
<1>3. ASSUME NEW x \in Replies'
      PROVE  /\ \/ x \in Sources /\ x # old /\ Tid(x)' = Tid(x)
                \/ x = new /\ old \in Sources /\ Tid(old) \in asked' /\ Tid(x)' = Tid(old)
             /\ heap'.mem[x].packet.dst = DEV_APPLICATION
  <2>1. CASE x \in QueuedFor("ble") \cup Forgotten
    <3>1. /\ x \in Replies /\ Tid(x)' = Tid(x)
          /\ heap'.mem[x].packet = heap.mem[x].packet
      BY <1>1, <2>1, SourcesKept
    <3>2. x # old
      BY <1>1, <3>1 DEF Sources
    <3> QED
      BY <3>1, <3>2 DEF Awaited, Sources
  <2>2. CASE x \notin QueuedFor("ble") \cup Forgotten
    <3>1. x = new
      BY <1>1, <2>2
    <3> QED
      BY <2>2, <3>1
  <2> QED
    BY <2>1, <2>2
<1>4. ASSUME NEW x \in AnswerCopies'
      PROVE  /\ \/ x \in Sources /\ x # old /\ Tid(x)' = Tid(x)
                \/ x = new /\ old \in Sources /\ Tid(old) \in asked' /\ Tid(x)' = Tid(old)
             /\ PACKET_Get(heap'.mem[x].data).dst = DEV_APPLICATION
  <2>1. CASE x \in Copies
    <3>1. /\ x \in AnswerCopies /\ Tid(x)' = Tid(x)
          /\ heap'.mem[x].data = heap.mem[x].data
      BY <1>1, <2>1, SourcesKept
    <3>2. x # old
      BY <1>1, <3>1 DEF Sources
    <3> QED
      BY <3>1, <3>2 DEF Awaited, Sources
  <2>2. CASE x \notin Copies
    <3>1. x = new
      BY <1>1, <2>2
    <3> QED
      BY <2>2, <3>1
  <2> QED
    BY <2>1, <2>2
<1>5. \A x \in Sources' : \/ x \in Sources /\ x # old /\ Tid(x)' = Tid(x)
                          \/ x = new /\ old \in Sources /\ Tid(old) \in asked' /\ Tid(x)' = Tid(old)
  BY <1>2, <1>3, <1>4 DEF Sources
<1>6. \A x \in Sources' : Tid(x)' \in asked'
  BY <1>5
<1>7. \A x, y \in Sources' : Tid(x)' = Tid(y)' => x = y
  <2>1. \A x, y \in Sources : Tid(x) = Tid(y) => x = y
    BY DEF Awaited
  <2> QED
    BY <1>5, <2>1
<1>8. \A t \in asked' : \E n \in 1 .. nReceived' : t = <<0, 0, 0, n>>
  <2>1. \A t \in asked' : \E n \in 1 .. nReceived : t = <<0, 0, 0, n>>
    BY DEF Awaited
  <2>2. 1 .. nReceived \subseteq 1 .. nReceived'
    BY Numbers
  <2> QED
    BY <2>1, <2>2
<1> QED
  BY <1>2, <1>3, <1>4, <1>6, <1>7, <1>8 DEF Awaited

\* A step after which no block may lead to an answer that could not before.
LEMMA AwaitedFewer ==
    ASSUME PkTyped, Owned, PkTyped', Owned', Remains, Awaited,
           nReceived' \in Nat, nReceived' >= nReceived, asked' = asked,
           Commands' \subseteq Commands, Copies' \subseteq Copies,
           QueuedFor("ble")' \cup Forgotten' \subseteq QueuedFor("ble") \cup Forgotten
    PROVE  Awaited'
<1>1. NULL \notin Sources /\ NULL \notin QueuedFor("ble") \cup Forgotten /\ NULL \notin Commands \cup Copies
  <2>1. Commands \subseteq Roots /\ QueuedFor("ble") \subseteq Roots
    BY SourcesKept
  <2>2. \A x \in Roots \cup Forgotten \cup Copies : x \in Blocks
    BY RootsAre
  <2>3. NULL \notin Commands \cup QueuedFor("ble") \cup Forgotten \cup Copies
    BY <2>1, <2>2, PacketBoundsAssumption
  <2> QED
    BY <2>3 DEF Sources, Replies, AnswerCopies
<1>2. NULL \notin Replies' /\ NULL \notin AnswerCopies'
  BY <1>1 DEF Replies, AnswerCopies
<1>3. \A x \in Sources : Tid(x) \in asked'
  BY DEF Awaited
<1> QED
  BY <1>1, <1>2, <1>3, AwaitedMoves

\* A new command brings a new transaction.
LEMMA AwaitedNew ==
    ASSUME PkTyped, Owned, PkTyped', Owned', Remains, Awaited, NEW c \in Inputs, NEW b, NEW bytes,
           Gets("main", b, Sent(nReceived + 1, c), bytes), nReceived' = nReceived + 1,
           nReceived + 1 \in Byte, asked' = asked \cup {<<0, 0, 0, nReceived + 1>>},
           UNCHANGED <<inbox, job, out_queue>>
    PROVE  Awaited'
<1> DEFINE t == <<0, 0, 0, nReceived + 1>>
<1>1. /\ b \in Blocks \ heap.live /\ heap'.mem[b].packet.tid = t
      /\ heap'.mem[b].packet.src = DEV_APPLICATION
      /\ QueuedFor("main")' \subseteq QueuedFor("main") \cup {b}
      /\ QueuedFor("ble")' = QueuedFor("ble")
  BY SentIs DEF Gets
<1>2. /\ InBox' = InBox /\ Forgotten' = Forgotten /\ Copies' = Copies
      /\ Commands' \subseteq Commands \cup {b}
  BY <1>1 DEF InBox, Forgotten, Copies, Commands
<1>3. Commands' \subseteq Roots'
  BY DEF Commands, QueuedFor, Queued, Roots, AtWork
<1>4. /\ Replies' \subseteq Replies /\ AnswerCopies' \subseteq AnswerCopies
      /\ \A x \in Replies' : heap'.mem[x].packet = heap.mem[x].packet /\ Tid(x)' = Tid(x)
      /\ \A x \in AnswerCopies' : heap'.mem[x].data = heap.mem[x].data /\ Tid(x)' = Tid(x)
  <2>1. Replies' \subseteq QueuedFor("ble")' \cup Forgotten' /\ AnswerCopies' \subseteq Copies'
    BY DEF Replies, AnswerCopies
  <2> QED
    BY <1>1, <1>2, <2>1, SourcesKept
<1>5. ASSUME NEW x \in Commands', x # b
      PROVE  /\ x \in Commands /\ Tid(x)' = Tid(x) /\ heap'.mem[x].packet = heap.mem[x].packet
  BY <1>2, <1>5, SourcesKept
<1>6. b \in Commands' => Tid(b)' = t
  <2>1. b \in Commands' => b \notin Copies'
    BY <1>3, ApartAfter
  <2> QED
    BY <1>1, <2>1 DEF Tid
<1>7. t \notin asked
  <2>1. SUFFICES ASSUME t \in asked PROVE FALSE
    OBVIOUS
  <2>2. PICK n \in 1 .. nReceived : t = <<0, 0, 0, n>>
    BY <2>1 DEF Awaited
  <2>3. t[4] = nReceived + 1 /\ <<0, 0, 0, n>>[4] = n
    OBVIOUS
  <2>4. nReceived + 1 = n
    BY <2>2, <2>3
  <2> QED
    BY <2>4, Numbers
<1> HIDE DEF t
<1>8. \A x \in Sources' : (x \in Sources /\ Tid(x)' = Tid(x)) \/ (x = b /\ Tid(x)' = t)
  BY <1>4, <1>5, <1>6 DEF Sources
<1>9. asked' = asked \cup {t}
  BY DEF t
<1>10. \A x \in Sources : Tid(x) \in asked
  BY DEF Awaited
<1>11. \A x \in Sources' : Tid(x)' \in asked'
  BY <1>8, <1>9, <1>10
<1>12. \A x, y \in Sources' : Tid(x)' = Tid(y)' => x = y
  <2>1. \A x, y \in Sources : Tid(x) = Tid(y) => x = y
    BY DEF Awaited
  <2> QED
    BY <1>7, <1>8, <1>10, <2>1
<1>13. \A u \in asked' : \E n \in 1 .. nReceived' : u = <<0, 0, 0, n>>
  <2>1. \A u \in asked : \E n \in 1 .. nReceived : u = <<0, 0, 0, n>>
    BY DEF Awaited
  <2>2. 1 .. nReceived \subseteq 1 .. nReceived' /\ nReceived + 1 \in 1 .. nReceived'
    BY Numbers
  <2> QED
    BY <1>9, <2>1, <2>2 DEF t
<1>14. /\ \A x \in Commands' : heap'.mem[x].packet.src = DEV_APPLICATION
       /\ \A x \in Replies' : heap'.mem[x].packet.dst = DEV_APPLICATION
       /\ \A x \in AnswerCopies' : PACKET_Get(heap'.mem[x].data).dst = DEV_APPLICATION
  BY <1>1, <1>4, <1>5 DEF Awaited
<1> QED
  BY <1>11, <1>12, <1>13, <1>14 DEF Awaited

\* A packet is copied out: the copy takes its place.
LEMMA AwaitedShipped ==
    ASSUME PkTyped, Owned, PkTyped', Owned', Remains, Awaited, Results,
           UNCHANGED <<inbox, nReceived, asked>>, job.in = NULL, job'.in = NULL,
           NEW b \in QueuedFor("ble") \cup Forgotten, b \in Forgotten => job.at = "again" /\ b = job.out,
           Ships(b), Forgotten' = {},
           QueuedFor("main")' \subseteq QueuedFor("main"), QueuedFor("ble")' \subseteq QueuedFor("ble") \ {b}
    PROVE  Awaited'
<1>1. PICK c \in Blocks \ heap.live : Copies' = Copies \cup {c} /\ heap'.mem[c].data = Sends(b)
  BY DEF Ships
<1>2. b \in Roots \cup Forgotten /\ b \notin Commands
  <2>1. Commands \subseteq Roots /\ QueuedFor("ble") \subseteq Roots /\ Commands \cap QueuedFor("ble") = {}
    BY SourcesKept
  <2> QED
    BY <2>1, RootsAre
<1>3. /\ b \in Blocks /\ Sound(heap, b) /\ b \notin Copies /\ b # c
      /\ heap.live \subseteq Blocks /\ Copies \subseteq heap.live
  BY <1>2, RootsAre, Numbers, PartsAre
<1>4. HasResult(heap, b)
  BY DEF Results
<1>5. /\ PACKET_Get(Sends(b)).tid = heap.mem[b].packet.tid
      /\ PACKET_Get(Sends(b)).dst = heap.mem[b].packet.dst
      /\ IsAnswer(Sends(b)) => Answers(heap, b)
  BY <1>3, <1>4, WireFormed DEF Ships
<1>6. Commands' \subseteq Commands
  BY DEF Commands, InBox
<1>7. Tid(b) = heap.mem[b].packet.tid
  BY <1>3 DEF Tid
<1>8. c \notin QueuedFor("ble") /\ c \notin Forgotten
  <2>1. QueuedFor("ble") \subseteq Roots
    BY SourcesKept
  <2>2. \A x \in Roots \cup Forgotten : x \in heap.live
    BY RootsAre, Numbers, PartsAre
  <2> QED
    BY <2>1, <2>2
<1>9. c \notin Replies'
  BY <1>8 DEF Replies
<1>10. \A x : x = c /\ x \in AnswerCopies' =>
          /\ b \in Sources /\ Tid(b) \in asked' /\ Tid(x)' = Tid(b)
          /\ PACKET_Get(heap'.mem[x].data).dst = DEV_APPLICATION
  <2>1. SUFFICES ASSUME c \in AnswerCopies'
                 PROVE  /\ b \in Sources /\ Tid(b) \in asked' /\ \A x : x = c => Tid(x)' = Tid(b)
                        /\ PACKET_Get(heap'.mem[c].data).dst = DEV_APPLICATION
    OBVIOUS
  <2>2. b \in Replies
    BY <1>1, <1>5, <2>1 DEF Replies, AnswerCopies
  <2>3. c \in Copies'
    BY <1>1
  <2>4. \A x : x = c => Tid(x)' = Tid(b)
    BY <1>1, <1>5, <1>7, <2>3 DEF Tid
  <2> QED
    BY <1>1, <1>5, <2>2, <2>4 DEF Sources, Awaited
<1>11. \A x \in Sources : Tid(x) \in asked'
  BY DEF Awaited
<1>12. nReceived' \in Nat /\ nReceived' >= nReceived
  BY Numbers
<1>13. /\ Commands' \subseteq Commands \ {b}
       /\ QueuedFor("ble")' \cup Forgotten' \subseteq ((QueuedFor("ble") \cup Forgotten) \ {b}) \cup {c}
       /\ Copies' \subseteq (Copies \ {b}) \cup {c}
  BY <1>1, <1>2, <1>3, <1>6
<1>14. \A x : x = c /\ x \in Replies' /\ x \notin QueuedFor("ble") \cup Forgotten =>
          /\ b \in Sources /\ Tid(b) \in asked' /\ Tid(x)' = Tid(b)
          /\ heap'.mem[x].packet.dst = DEV_APPLICATION
  BY <1>9
<1>15. \A x : x = c /\ x \in AnswerCopies' /\ x \notin Copies =>
          /\ b \in Sources /\ Tid(b) \in asked' /\ Tid(x)' = Tid(b)
          /\ PACKET_Get(heap'.mem[x].data).dst = DEV_APPLICATION
  BY <1>10
<1>16. \A x \in Sources \ {b} : Tid(x) \in asked'
  BY <1>11
<1>17. c # b /\ asked' \subseteq asked
  BY <1>3
<1> QED
  BY <1>12, <1>13, <1>14, <1>15, <1>16, <1>17, AwaitedMoves

\* The main application has answered a command, or not.
LEMMA AwaitedEnd ==
    ASSUME PkTyped, Owned, Running, PkTyped', Owned', Remains, Awaited, ReplyFits, End
    PROVE  Awaited'
<1>1. /\ job' = None /\ job.in # NULL /\ job.out \in Roots /\ UNCHANGED <<inbox, asked>>
      /\ heap'.mem[job.out] = heap.mem[job.out] /\ Kept(job.out)
      /\ QueuedFor("main")' = QueuedFor("main")
      /\ QueuedFor("ble")' \subseteq QueuedFor("ble") \cup {job.out}
  BY EndOwned
<1>2. job.at = "end" /\ UNCHANGED <<out_queue, nReceived>>
  BY DEF End
<1> DEFINE i == job.in
           o == job.out
<1>3. Forgotten = {} /\ Forgotten' = {} /\ Copies' = Copies /\ InBox' = InBox
  BY <1>1, <1>2 DEF Forgotten, None, Copies, InBox
<1>4. i # o /\ i \in AtWork /\ o \in AtWork /\ i \in Roots /\ i \in Commands
  BY <1>1 DEF Owned, JobMatches, AtWork, Roots, Commands
<1>5. i \notin Copies /\ o \notin Copies /\ i \in Blocks /\ o \in Blocks /\ Sound(heap, o)
  BY <1>1, <1>4, RootsAre
<1>6. i \notin Queued /\ i \notin InBox
  BY <1>4 DEF Owned, Separate
<1>7. QueuedFor("main") \subseteq Queued /\ QueuedFor("ble") \subseteq Queued
  BY DEF QueuedFor, Queued
<1>8. Commands' \subseteq Commands \ {i}
  BY <1>1, <1>3, <1>6, <1>7 DEF Commands, None
<1>9. QueuedFor("ble")' \cup Forgotten' \subseteq ((QueuedFor("ble") \cup Forgotten) \ {i}) \cup {o}
  BY <1>1, <1>3, <1>6, <1>7
<1>10. Copies' \subseteq (Copies \ {i}) \cup {o}
  BY <1>3, <1>5
<1>11. \A x \in Sources : Tid(x) \in asked'
  BY <1>1 DEF Awaited
<1>12. Tid(i) = heap.mem[i].packet.tid
  BY <1>5 DEF Tid
<1>13. \A x : x = o /\ x \in Replies' /\ x \notin QueuedFor("ble") \cup Forgotten =>
          /\ i \in Sources /\ Tid(i) \in asked' /\ Tid(x)' = Tid(i)
          /\ heap'.mem[x].packet.dst = DEV_APPLICATION
  <2>1. SUFFICES ASSUME o \in Replies'
                 PROVE  /\ i \in Sources /\ Tid(i) \in asked' /\ \A x : x = o => Tid(x)' = Tid(i)
                        /\ heap'.mem[o].packet.dst = DEV_APPLICATION
    OBVIOUS
  <2>2. Answers(heap', o)
    BY <2>1 DEF Replies
  <2>3. Answers(heap, o)
    BY <1>1, <1>5, <2>2, KeptIs, Numbers
  <2>4. /\ heap.mem[o].packet.tid = heap.mem[i].packet.tid
        /\ heap.mem[o].packet.dst = heap.mem[i].packet.src
    BY <1>1, <2>3 DEF ReplyFits
  <2>5. o \notin Copies'
    BY <1>3, <1>5
  <2>6. \A x : x = o => Tid(x)' = Tid(i)
    BY <1>1, <1>12, <2>4, <2>5 DEF Tid
  <2>7. heap.mem[i].packet.src = DEV_APPLICATION /\ i \in Sources
    BY <1>4 DEF Awaited, Sources
  <2> QED
    BY <1>1, <1>11, <2>4, <2>6, <2>7
<1>14. \A x : x = o => x \notin AnswerCopies'
  BY <1>3, <1>5 DEF AnswerCopies
<1>15. nReceived' \in Nat /\ nReceived' >= nReceived
  BY <1>2, Numbers
<1> HIDE DEF i, o
<1> QED
  BY <1>1, <1>4, <1>8, <1>9, <1>10, <1>11, <1>13, <1>14, <1>15, AwaitedMoves

\* A packet of the applications' own making is nobody's answer.
LEMMA AwaitedMade ==
    ASSUME PkTyped, Owned, PkTyped', Owned', Remains, Awaited, NEW n \in {2, 3}, Makes(n),
           UNCHANGED <<inbox, job, out_queue, nReceived, asked>>
    PROVE  Awaited'
<1>1. QueuedFor("main")' = QueuedFor("main")
  BY MadeIs
<1>2. PICK b \in Blocks \ heap.live :
         /\ QueuedFor("ble")' \in {QueuedFor("ble"), QueuedFor("ble") \cup {b}}
         /\ ~Answers(heap', b)
  BY MadeIs
<1>3. Forgotten' = Forgotten /\ Copies' = Copies /\ InBox' = InBox /\ Commands' = Commands
  BY <1>1 DEF Forgotten, Copies, InBox, Commands
<1>4. NULL \notin Commands \cup QueuedFor("ble") \cup Forgotten \cup Copies
  <2>1. Commands \subseteq Roots /\ QueuedFor("ble") \subseteq Roots
    BY SourcesKept
  <2>2. \A x \in Roots \cup Forgotten \cup Copies : x \in Blocks
    BY RootsAre
  <2> QED
    BY <2>1, <2>2, PacketBoundsAssumption
<1>5. b \notin Replies' /\ b # NULL
  BY <1>2, PacketBoundsAssumption DEF Replies
<1>6. b \notin Copies
  BY <1>2, RootsAre
<1>7. \A x \in Sources : Tid(x) \in asked'
  BY DEF Awaited
<1>8. b \notin AnswerCopies'
  BY <1>3, <1>6 DEF AnswerCopies
<1>9. nReceived' \in Nat /\ nReceived' >= nReceived
  BY Numbers
<1>10. /\ Commands' \subseteq Commands \ {NULL} /\ Copies' \subseteq (Copies \ {NULL}) \cup {b}
       /\ QueuedFor("ble")' \cup Forgotten' \subseteq ((QueuedFor("ble") \cup Forgotten) \ {NULL}) \cup {b}
  BY <1>2, <1>3, <1>4
<1> QED
  BY <1>5, <1>7, <1>8, <1>9, <1>10, AwaitedMoves

\* The phone has an answer: its command is answered.
LEMMA AwaitedAnswered ==
    ASSUME PkTyped, Owned, Running, PkTyped', Owned', Remains, Awaited, Transmitted
    PROVE  Awaited'
<1> DEFINE c == out_queue[Head(line)]
<1>1. c \in Copies /\ Copies' = Copies \ {c}
  BY TransmittedOwned
<1>2. /\ UNCHANGED <<msgs, inbox, job, nReceived>>
      /\ asked' = IF IsAnswer(heap.mem[c].data) THEN asked \ {PACKET_Get(heap.mem[c].data).tid} ELSE asked
  BY DEF Transmitted
<1> HIDE DEF c
<1>3. /\ Commands' = Commands /\ QueuedFor("ble")' = QueuedFor("ble") /\ Forgotten' = Forgotten
  BY <1>2 DEF Commands, InBox, QueuedFor, Forgotten
<1>4. c \notin Commands /\ c \notin QueuedFor("ble") /\ c \notin Forgotten
  <2>1. Commands \subseteq Roots /\ QueuedFor("ble") \subseteq Roots
    BY SourcesKept
  <2> QED
    BY <1>1, <2>1, RootsAre
<1>5. \A x \in Sources \ {c} : Tid(x) \in asked'
  <2>1. CASE IsAnswer(heap.mem[c].data)
    <3>1. c \in Sources /\ Tid(c) = PACKET_Get(heap.mem[c].data).tid
      BY <1>1, <2>1 DEF Sources, AnswerCopies, Tid
    <3>2. \A x \in Sources \ {c} : Tid(x) \in asked /\ Tid(x) # Tid(c)
      BY <3>1 DEF Awaited
    <3> QED
      BY <1>2, <2>1, <3>1, <3>2
  <2>2. CASE ~IsAnswer(heap.mem[c].data)
    BY <1>2, <2>2 DEF Awaited
  <2> QED
    BY <2>1, <2>2
<1>6. NULL \notin Sources
  <2>1. Commands \subseteq Roots /\ QueuedFor("ble") \subseteq Roots
    BY SourcesKept
  <2>2. \A x \in Roots \cup Forgotten \cup Copies : x \in Blocks
    BY RootsAre
  <2>3. NULL \notin Commands \cup QueuedFor("ble") \cup Forgotten \cup Copies
    BY <2>1, <2>2, PacketBoundsAssumption
  <2> QED
    BY <2>3 DEF Sources, Replies, AnswerCopies
<1>7. NULL \notin Copies' /\ NULL \notin QueuedFor("ble") \cup Forgotten
  <2>1. \A x \in Copies \cup QueuedFor("ble") \cup Forgotten : x \in Blocks
    BY SourcesKept, RootsAre
  <2> QED
    BY <1>1, <2>1, PacketBoundsAssumption
<1>8. NULL \notin Replies' /\ NULL \notin AnswerCopies'
  BY <1>3, <1>7 DEF Replies, AnswerCopies
<1>9. /\ Commands' \subseteq Commands \ {c} /\ Copies' \subseteq (Copies \ {c}) \cup {NULL}
      /\ QueuedFor("ble")' \cup Forgotten' \subseteq ((QueuedFor("ble") \cup Forgotten) \ {c}) \cup {NULL}
  BY <1>1, <1>3, <1>4
<1>10. nReceived' \in Nat /\ nReceived' >= nReceived
  BY <1>2, Numbers
<1>11. asked' \subseteq asked
  BY <1>2
<1> DEFINE new == NULL
<1>12. \A x : x = new => x \notin Replies' /\ x \notin AnswerCopies'
  BY <1>8
<1>13. /\ Copies' \subseteq (Copies \ {c}) \cup {new} /\ new \notin Sources
       /\ QueuedFor("ble")' \cup Forgotten' \subseteq ((QueuedFor("ble") \cup Forgotten) \ {c}) \cup {new}
  BY <1>6, <1>9
<1> HIDE DEF new
<1> QED
  BY <1>5, <1>9, <1>10, <1>11, <1>12, <1>13, AwaitedMoves

\* Every source of an answer belongs to a command of its own, after every step.
LEMMA AwaitedStep ==
    ASSUME PkTyped, Owned, Running, Results, ReplyFits, Awaited, PkNext, Running'
    PROVE  Awaited'
<1>1. PkTyped' /\ Owned' /\ Remains
  BY NextOwned DEF StaysOwned
<1>2. nReceived \in Nat /\ nReceived <= ReqMax
  BY Numbers
<1>3. ASSUME NEW c \in Inputs, Receive(c) PROVE Awaited'
  <2>1. nReceived' = nReceived + 1 /\ UNCHANGED <<inbox, job, out_queue>> /\ nReceived < ReqMax
    BY <1>3 DEF Receive
  <2>2. CASE UNCHANGED <<msgs, asked>>
    <3>1. UNCHANGED <<Commands, QueuedFor("ble"), Forgotten, Copies>>
      BY <2>1, <2>2 DEF Commands, InBox, QueuedFor, Forgotten, Copies
    <3>2. nReceived' \in Nat /\ nReceived' >= nReceived
      BY <1>2, <2>1
    <3> QED
      BY <1>1, <2>2, <3>1, <3>2, AwaitedFewer
  <2>3. CASE /\ \E b : Gets("main", b, Sent(nReceived + 1, c), c.data)
             /\ asked' = asked \cup {<<0, 0, 0, nReceived + 1>>}
    <3>1. nReceived + 1 \in Byte
      BY <1>2, <2>1, InputsAssumption DEF Byte
    <3> QED
      BY <1>1, <2>1, <2>3, <3>1, AwaitedNew
  <2> QED
    BY <1>3, <2>2, <2>3, ReceiveOwned
<1>4. ASSUME UNCHANGED <<nReceived, asked>>, Commands' \subseteq Commands, Copies' \subseteq Copies,
             QueuedFor("ble")' \cup Forgotten' \subseteq QueuedFor("ble") \cup Forgotten
      PROVE  Awaited'
  <2>1. nReceived' \in Nat /\ nReceived' >= nReceived
    BY <1>2, <1>4
  <2> QED
    BY <1>1, <1>4, <2>1, AwaitedFewer
<1>5. CASE Reopen
  <2>1. UNCHANGED <<nReceived, asked, Commands, QueuedFor("ble"), Forgotten, Copies>>
    BY <1>5 DEF Reopen, Commands, InBox, QueuedFor, Forgotten, Copies
  <2> QED
    BY <1>4, <2>1
<1>6. CASE Take
  <2>1. UNCHANGED <<nReceived, asked, msgs, out_queue>> /\ job = None
    BY <1>6 DEF Take, Halt, Idle
  <2>2. job'.in \in InBox /\ InBox' = InBox \ {job'.in} /\ job'.in # NULL
    BY <1>6, TakeOwned
  <2>3. job'.at \in {"parse", "end"}
    BY <1>6, TakeOwned
  <2>4. /\ QueuedFor("main")' = QueuedFor("main") /\ QueuedFor("ble")' = QueuedFor("ble")
        /\ Copies' = Copies /\ Forgotten' = {}
    BY <2>1, <2>3 DEF QueuedFor, Copies, Forgotten
  <2>5. Commands' \subseteq Commands
    BY <2>2, <2>4 DEF Commands
  <2> QED
    BY <1>4, <2>1, <2>4, <2>5
<1>7. CASE Parse
  <2>1. UNCHANGED <<nReceived, asked, msgs, inbox, out_queue>>
    BY <1>7 DEF Parse
  <2>2. job' = [job EXCEPT !.at = "end"] /\ job \in Job
    BY <1>7, ParseOwned DEF PkTyped
  <2>3. job'.in = job.in /\ job'.at = "end"
    BY <2>2 DEF Job
  <2>4. UNCHANGED <<Commands, QueuedFor("ble"), Copies>> /\ Forgotten' = {}
    BY <2>1, <2>3 DEF Commands, InBox, QueuedFor, Copies, Forgotten
  <2> QED
    BY <1>4, <2>1, <2>4
<1>8. CASE End
  BY <1>1, <1>8, AwaitedEnd
<1>9. ASSUME Report \/ ChannelStatusCallback \/ Powercb, NEW n \in {2, 3}, Makes(n) PROVE Awaited'
  <2>1. UNCHANGED <<inbox, job, out_queue, nReceived, asked>>
    BY <1>9 DEF Report, ChannelStatusCallback, Powercb
  <2> QED
    BY <1>1, <1>9, <2>1, AwaitedMade
<1>10. CASE Report
  BY <1>9, <1>10, ReportOwned
<1>11. CASE ChannelStatusCallback
  BY <1>9, <1>11, ChannelStatusOwned
<1>12. CASE Powercb
  <2>1. CASE UNCHANGED msgs
    <3>1. UNCHANGED <<nReceived, asked, Commands, QueuedFor("ble"), Forgotten, Copies>>
      BY <1>12, <2>1 DEF Powercb, Commands, InBox, QueuedFor, Forgotten, Copies
    <3> QED
      BY <1>4, <3>1
  <2> QED
    BY <1>9, <1>12, <2>1, PowercbOwned
<1>13. CASE Deliver
  <2>1. UNCHANGED <<nReceived, asked, job, out_queue>>
    BY <1>13 DEF Deliver
  <2>2. PICK b \in QueuedFor("main") : InBox' = InBox \cup {b}
    BY <1>13, DeliverOwned
  <2>3. QueuedFor("main")' \subseteq QueuedFor("main") /\ QueuedFor("ble")' \subseteq QueuedFor("ble")
    BY <1>13, DeliverOwned
  <2>4. Forgotten' = Forgotten /\ Copies' = Copies
    BY <2>1 DEF Forgotten, Copies
  <2>5. Commands' \subseteq Commands
    BY <2>1, <2>2, <2>3 DEF Commands
  <2> QED
    BY <1>4, <2>1, <2>3, <2>4, <2>5
<1>14. CASE bleOutgoingCallback
  <2>1. UNCHANGED <<inbox, nReceived, asked>> /\ job = None /\ job.in = NULL /\ job'.in = NULL
    BY <1>14, OutgoingOwned DEF None
  <2>2. PICK b \in QueuedFor("ble") :
           /\ \A t : QueuedFor(t)' = QueuedFor(t) \ {b}
           /\ \/ UNCHANGED Copies /\ Forgotten' = {}
              \/ UNCHANGED <<heap, Copies>> /\ Forgotten' = {b} /\ job'.out = b
              \/ Ships(b) /\ Forgotten' = {}
    BY <1>14, OutgoingOwned
  <2>3. Commands' \subseteq Commands
    BY <2>1, <2>2 DEF Commands, InBox
  <2>4. CASE UNCHANGED Copies /\ Forgotten' \subseteq {b}
    BY <1>4, <2>1, <2>2, <2>3, <2>4
  <2>5. CASE Ships(b) /\ Forgotten' = {}
    <3>1. Forgotten = {}
      BY <2>1 DEF Forgotten, None
    <3> QED
      BY <1>1, <2>1, <2>2, <2>5, <3>1, AwaitedShipped
  <2> QED
    BY <2>2, <2>4, <2>5
<1>15. CASE CallbackAgain
  <2>1. UNCHANGED <<msgs, inbox, nReceived, asked>> /\ job.in = NULL /\ job'.in = NULL
    BY <1>15, AgainOwned
  <2>2. UNCHANGED <<Commands, QueuedFor("ble"), QueuedFor("main")>> /\ Forgotten' \subseteq Forgotten
    <3>1. job'.at = "again" => job.at = "again" /\ job'.out = job.out
      BY <1>15, AgainOwned
    <3> QED
      BY <2>1, <3>1 DEF Commands, InBox, QueuedFor, Forgotten
  <2>3. CASE UNCHANGED Copies
    BY <1>4, <2>1, <2>2, <2>3
  <2>4. CASE job.at = "again" /\ Ships(job.out) /\ Forgotten' = {}
    <3> DEFINE b == job.out
    <3>1. b \in Forgotten
      BY <2>4 DEF Forgotten
    <3>2. b \notin QueuedFor("ble")
      BY <3>1, SourcesKept, RootsAre, <1>1
    <3>3. QueuedFor("ble")' \subseteq QueuedFor("ble") \ {b}
      BY <2>2, <3>2
    <3>4. Ships(b) /\ job.at = "again" /\ b = job.out
      BY <2>4
    <3> HIDE DEF b
    <3> QED
      BY <1>1, <2>1, <2>2, <2>4, <3>1, <3>3, <3>4, AwaitedShipped
  <2> QED
    BY <1>15, <2>3, <2>4, AgainOwned
<1>16. CASE Transmitted
  BY <1>1, <1>16, AwaitedAnswered
<1>17. ~ParseFails
  BY ParseFailsOwned
<1> QED
  BY <1>3, <1>5, <1>6, <1>7, <1>8, <1>10, <1>11, <1>12, <1>13, <1>14, <1>15, <1>16, <1>17 DEF PkNext

-----------------------------------------------------------------------------
(* Probes                                                                  *)

\* What is overtaken is the same probes.
LEMMA OvertakenIs ==
    ASSUME PkTyped
    PROVE  /\ Overtaken \in Seq(Probe) /\ Len(Overtaken) = Len(probes)
           /\ \A i \in 1 .. Len(Overtaken) : Overtaken[i].overtaken
<1>1. probes \in Seq(Probe)
  BY DEF PkTyped
<1>2. Len(probes) \in Nat
  BY <1>1, LenProperties
<1> DEFINE n == Len(probes)
           f == [i \in 1 .. n |-> [probes[i] EXCEPT !.overtaken = TRUE]]
<1>3. \A i \in 1 .. n : [probes[i] EXCEPT !.overtaken = TRUE] \in Probe
                        /\ [probes[i] EXCEPT !.overtaken = TRUE].overtaken
  <2>1. \A i \in 1 .. n : probes[i] \in Probe
    BY <1>1
  <2> HIDE DEF n
  <2> QED
    BY <2>1 DEF Probe
<1>4. f \in [1 .. n -> Probe] /\ \A i \in 1 .. n : f[i].overtaken
  BY <1>3
<1>5. Overtaken = f
  BY DEF Overtaken
<1> HIDE DEF n, f
<1>6. f \in Seq(Probe) /\ Len(f) = n
  BY <1>2, <1>4 DEF n
<1> QED
  BY <1>4, <1>5, <1>6 DEF n

\* A probe that has not been overtaken goes on naming the channels asked for last.
LEMMA NamedStep ==
    ASSUME PkTyped, Running => Owned, Named, PkNext
    PROVE  Named'
<1>1. probes \in Seq(Probe) /\ activeChannels \in Byte
  BY DEF PkTyped
<1>3. CASE UNCHANGED <<probes, activeChannels>>
  BY <1>3 DEF Named
<1>4. CASE probes' = Tail(probes) /\ probes # <<>> /\ UNCHANGED activeChannels
  <2>1. \A i \in 1 .. Len(probes') : i + 1 \in 1 .. Len(probes) /\ probes'[i] = probes[i + 1]
    BY <1>1, <1>4
  <2> QED
    BY <1>4, <2>1 DEF Named
<1>5. Overtaken \in Seq(Probe) /\ \A i \in 1 .. Len(Overtaken) : Overtaken[i].overtaken
  BY OvertakenIs
<1>6. CASE probes' = Overtaken
  BY <1>5, <1>6 DEF Named
<1>7. CASE probes' = Append(Overtaken, [ch |-> activeChannels', overtaken |-> FALSE])
  <2> DEFINE new == [ch |-> activeChannels', overtaken |-> FALSE]
             old == Overtaken
  <2>1. old \in Seq(Probe) /\ \A i \in 1 .. Len(old) : old[i].overtaken
    BY <1>5
  <2>2. new.ch = activeChannels' /\ probes' = Append(old, new)
    BY <1>7
  <2> HIDE DEF new, old
  <2>3. \A i \in 1 .. Len(probes') : (i \in 1 .. Len(old) /\ probes'[i] = old[i]) \/ probes'[i] = new
    BY <2>1, <2>2
  <2> QED
    BY <2>1, <2>2, <2>3 DEF Named
<1>8. CASE Parse
  <2>1. Running /\ Owned
    BY <1>8 DEF Parse
  <2> QED
    BY <2>1, <1>3, <1>6, <1>7, <1>8, ParseOwned
<1>9. CASE ChannelStatusCallback
  BY <1>4, <1>9 DEF ChannelStatusCallback
<1>10. CASE Take \/ ParseFails
  BY <1>3, <1>10 DEF Take, ParseFails, StartPos, Halt
<1>11. CASE \/ \E c \in Inputs : Receive(c)
            \/ Reopen \/ End \/ Report \/ Powercb \/ Deliver
            \/ bleOutgoingCallback \/ CallbackAgain \/ Transmitted
  BY <1>3, <1>11 DEF Receive, Reopen, End, Report, Powercb, Deliver, bleOutgoingCallback, CallbackAgain,
                     Transmitted
<1> QED
  BY <1>8, <1>9, <1>10, <1>11 DEF PkNext

-----------------------------------------------------------------------------
(* The theorems                                                            *)

\* At the start no answer is due.
LEMMA InitAwaited ==
    ASSUME PkInit
    PROVE  WellFormed /\ Named /\ Results /\ ReplyFits /\ Awaited
<1>1. WellFormed /\ Named /\ Results /\ ReplyFits
  BY DEF PkInit, WellFormed, Named, Results, ReplyFits, QueuedFor, None
<1>2. Commands = {} /\ Replies = {} /\ AnswerCopies = {} /\ asked = {}
  BY DEF PkInit, Commands, Replies, AnswerCopies, QueuedFor, InBox, Forgotten, Copies, None
<1> QED
  BY <1>1, <1>2 DEF Sources, Awaited

\* Owners, results, replies and the transactions they carry agree in every state in which the program
\* has not stopped, gone astray or freed a packet twice.
THEOREM PkInvariance == PkSpec => []PkInv
<1>1. PkInit => PkInv
  BY InitOwned, InitAwaited DEF PkInv, OwnersInv, Running
<1>2. PkInv /\ [PkNext]_pkVars /\ OwnersInv' => PkInv'
  <2> SUFFICES ASSUME PkInv, [PkNext]_pkVars, OwnersInv' PROVE PkInv'
    OBVIOUS
  <2>1. CASE PkNext
    <3>1. Named'
      BY <2>1, NamedStep DEF PkInv, OwnersInv
    <3>2. ASSUME Running' PROVE WellFormed' /\ Results' /\ ReplyFits' /\ Awaited'
      <4>1. Running
        BY <2>1, <3>2, OnlyRunning, TransmittedTyped DEF PkInv, OwnersInv, Running
      <4>2. PkTyped /\ Owned /\ Results /\ ReplyFits /\ Awaited /\ WellFormed
        BY <4>1 DEF PkInv, OwnersInv
      <4> QED
        BY <2>1, <3>2, <4>1, <4>2, FormedStep, ResultsStep, FitsStep, AwaitedStep
    <3> QED
      BY <3>1, <3>2 DEF PkInv
  <2>2. CASE UNCHANGED pkVars
    <3>1. UNCHANGED <<heap, msgs, inbox, job, out_queue, probes, activeChannels, halted, nReceived, asked>>
      BY <2>2 DEF pkVars
    <3>2. (WellFormed <=> WellFormed') /\ (Named <=> Named') /\ (Running <=> Running')
      BY <3>1 DEF WellFormed, Named, Running
    <3>3. UNCHANGED <<QueuedFor("ble"), QueuedFor("main"), InBox, Forgotten, Copies>>
      BY <3>1 DEF QueuedFor, InBox, Forgotten, Copies
    <3>4. (Results <=> Results') /\ (ReplyFits <=> ReplyFits')
      BY <3>1, <3>3 DEF Results, ReplyFits
    <3>5. UNCHANGED <<Commands, Replies, AnswerCopies, Sources>> /\ \A b : Tid(b)' = Tid(b)
      BY <3>1, <3>3 DEF Commands, Replies, AnswerCopies, Sources, Tid
    <3>6. Awaited <=> Awaited'
      BY <3>1, <3>5 DEF Awaited
    <3> QED
      BY <3>2, <3>4, <3>6 DEF PkInv
  <2> QED
    BY <2>1, <2>2
<1> QED
  BY <1>1, <1>2, OwnersInvariance, PTL DEF PkSpec

\* Whatever the phone sends and whenever memory is short, what goes over the line is a packet with a
\* source and a destination, and a response has its result, as long as no packet has been freed twice
\* (somparser.c:50, bleapp.c:125).
THEOREM WellFormedAlways == PkSpec => []WellFormed
<1>1. PkInv => WellFormed
  BY DEF PkInv, WellFormed
<1> QED
  BY <1>1, PkInvariance, PTL

\* The line gets shorter when something has been transmitted, and by nothing else.
LEMMA OnlyTransmitted ==
    ASSUME PkTyped, PkNext, ~Transmitted
    PROVE  ~(Len(line') < Len(line))
<1>1. line \in Seq(1 .. Slots) /\ Len(line) \in Nat
  <2>1. line \in Seq(1 .. Slots)
    BY DEF PkTyped
  <2> QED
    BY <2>1, LenProperties
<1>2. SUFFICES line' = line \/ \E i : line' = Append(line, i)
  BY <1>1
<1>3. \A c \in Inputs : Receive(c) => line' = line
  BY DEF Receive
<1>4. Reopen \/ Take \/ Parse \/ ParseFails \/ End \/ ChannelStatusCallback \/ Report \/ Powercb
         \/ Deliver => line' = line
  BY DEF Reopen, Take, Halt, Parse, ParseFails, End, ChannelStatusCallback, Report, Powercb, Deliver
<1>5. \A b : Discard(b) \/ CopyOut(b) \/ Forget(b) \/ CopyStale(b)
                => line' = line \/ \E i : line' = Append(line, i)
  BY DEF Discard, CopyOut, Forget, CopyStale, HandOver
<1>6. bleOutgoingCallback \/ CallbackAgain => line' = line \/ \E i : line' = Append(line, i)
  BY <1>5 DEF bleOutgoingCallback, CallbackAgain
<1> QED
  BY <1>3, <1>4, <1>6 DEF PkNext

\* Until a packet is freed twice, every answer the phone gets is addressed to it, and to one of its
\* commands that has not been answered, however handlers and interrupts interleave.  After a restart
\* the copy of the further mailbox comes with the second free (mainapp.c:262, somparser.c:131,
\* bleapp.c:151, 155).
THEOREM AnswersMatchAlways == PkSpec => AnswersMatch
<1> DEFINE c == out_queue[Head(line)]
           raw == heap.mem[c].data
           OK == Running /\ Len(line') < Len(line) /\ IsAnswer(raw)
                    => PACKET_Get(raw).tid \in asked /\ PACKET_Get(raw).dst = DEV_APPLICATION
<1>1. ASSUME PkInv, PkNext PROVE OK
  <2>1. CASE Running /\ Transmitted
    <3>1. PkTyped /\ Owned /\ Awaited
      BY <1>1, <2>1 DEF PkInv, OwnersInv
    <3>2. c \in Copies
      BY <2>1, <3>1, TransmittedOwned
    <3>3. ASSUME IsAnswer(raw) PROVE c \in AnswerCopies /\ Tid(c) = PACKET_Get(raw).tid
      BY <3>2, <3>3 DEF AnswerCopies, Tid
    <3>4. ASSUME IsAnswer(raw) PROVE PACKET_Get(raw).tid \in asked /\ PACKET_Get(raw).dst = DEV_APPLICATION
      BY <3>1, <3>3, <3>4 DEF Awaited, Sources
    <3> QED
      BY <3>4
  <2>2. CASE ~Transmitted
    BY <1>1, <2>2, OnlyTransmitted DEF PkInv, OwnersInv
  <2>3. CASE ~Running
    BY <2>3
  <2> QED
    BY <2>1, <2>2, <2>3
<1>2. ASSUME PkInv, UNCHANGED pkVars PROVE OK
  <2>1. line' = line /\ line \in Seq(1 .. Slots)
    BY <1>2 DEF pkVars, PkInv, OwnersInv, PkTyped
  <2>2. Len(line) \in Nat
    BY <2>1, LenProperties
  <2> QED
    BY <2>1, <2>2
<1>3. PkInv /\ [PkNext]_pkVars => [OK]_pkVars
  BY <1>1
<1> QED
  BY <1>3, PkInvariance, PTL DEF PkSpec, AnswersMatch

\* Appending makes a sequence longer.
LEMMA AppendLonger ==
    ASSUME NEW S, NEW s \in Seq(S), NEW e \in S PROVE Len(Append(s, e)) = Len(s) + 1
OBVIOUS

\* A probe is taken off the list when it is answered, and by nothing else.
LEMMA OnlyAnswered ==
    ASSUME PkTyped, Running => Owned, PkNext, ~ChannelStatusCallback
    PROVE  ~(Len(probes') < Len(probes))
<1>1. probes \in Seq(Probe) /\ Len(probes) \in Nat
  <2>1. probes \in Seq(Probe)
    BY DEF PkTyped
  <2> QED
    BY <2>1, LenProperties
<1>2. Len(Overtaken) = Len(probes)
  BY OvertakenIs
<1>3. CASE Parse
  <2> Running /\ Owned
    BY <1>3 DEF Parse
  <2>1. CASE probes' = Append(Overtaken, [ch |-> activeChannels', overtaken |-> FALSE])
    <3>1. Overtaken \in Seq(Probe)
      BY OvertakenIs
    <3>2. [ch |-> activeChannels', overtaken |-> FALSE] \in Probe
      BY NextOwned DEF StaysOwned, PkTyped, Probe
    <3>3. Len(probes') = Len(Overtaken) + 1
      BY <2>1, <3>1, <3>2, AppendLonger
    <3> QED
      BY <1>1, <1>2, <3>3
  <2>2. CASE probes' = probes \/ probes' = Overtaken
    BY <1>1, <1>2, <2>2
  <2> QED
    BY <1>3, <2>1, <2>2, ParseOwned
<1>4. CASE ~Parse
  <2>1. \A c \in Inputs : Receive(c) => probes' = probes
    BY DEF Receive
  <2>2. Reopen \/ Take \/ ParseFails \/ End \/ Report \/ Powercb \/ Deliver \/ bleOutgoingCallback
           \/ CallbackAgain \/ Transmitted => probes' = probes
    BY DEF Reopen, Take, Halt, ParseFails, StartPos, End, Report, Powercb, Deliver, bleOutgoingCallback, CallbackAgain,
           Transmitted
  <2>3. probes' = probes
    BY <1>4, <2>1, <2>2 DEF PkNext
  <2> QED
    BY <1>1, <2>3
<1> QED
  BY <1>3, <1>4

\* A status answer names the lasers of its probe unless another command has come in between, for any
\* commands and channels (mainapp.c:26, 113).
THEOREM ProbeNamedAlways == PkSpec => ProbeNamed
<1> DEFINE OK == Len(probes') < Len(probes) /\ ~Head(probes).overtaken
                    => \A b \in heap'.live \ heap.live :
                          heap'.mem[b].data # <<>> => heap'.mem[b].data[1] = Head(probes).ch % 4
<1>1. ASSUME PkInv, PkNext PROVE OK
  <2>1. PkTyped /\ (Running => Owned) /\ Named
    BY <1>1 DEF PkInv, OwnersInv
  <2>2. CASE ChannelStatusCallback
    <3> Running /\ Owned
      BY <2>1, <2>2 DEF ChannelStatusCallback, Idle
    <3>1. probes \in Seq(Probe) /\ probes # <<>>
      BY <2>1, <2>2 DEF PkTyped, ChannelStatusCallback
    <3>2. ~Head(probes).overtaken => Head(probes).ch = activeChannels
      <4>1. 1 \in 1 .. Len(probes) /\ Head(probes) = probes[1]
        BY <3>1
      <4> QED
        BY <2>1, <4>1 DEF Named
    <3>3. CASE Running'
      <4>1. PICK b, q : Gets("ble", b, q, <<activeChannels % 4, 0>>)
        BY <2>1, <2>2, <3>3, ChannelStatusOwned
      <4>2. \A x \in heap'.live \ heap.live : heap'.mem[x].data # <<>> =>
               heap'.mem[x].data = <<activeChannels % 4, 0>>
        BY <4>1 DEF Gets
      <4>3. <<activeChannels % 4, 0>>[1] = activeChannels % 4
        OBVIOUS
      <4> QED
        BY <3>2, <4>2, <4>3
    <3>4. CASE ~Running'
      BY <2>2, <3>4 DEF ChannelStatusCallback, CreateAndSend, Running
    <3> QED
      BY <3>3, <3>4
  <2>3. CASE ~ChannelStatusCallback
    BY <1>1, <2>1, <2>3, OnlyAnswered
  <2> QED
    BY <2>2, <2>3
<1>2. PkInv /\ [PkNext]_pkVars => [OK]_pkVars
  BY <1>1
<1> QED
  BY <1>2, PkInvariance, PTL DEF PkSpec, ProbeNamed
=============================================================================
