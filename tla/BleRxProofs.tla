----------------------------- MODULE BleRxProofs -----------------------------
(***************************************************************************)
(* The receiver, for every length of the buffer, number of packets and     *)
(* loss: no byte is accepted twice or out of order, and on a clean line    *)
(* the packet guard never fires.  The inductive invariant says where the   *)
(* bytes of the line are, what the last poll saw, and what a clean line    *)
(* looks like.                                                             *)
(***************************************************************************)
EXTENDS BleRxProps, SequenceTheorems, TLAPS

\* The bytes in the buffer came before those on the air, and after all accepted ones.
Increasing(s) == \A k, l \in 1 .. Len(s) : k < l => s[k].pos < s[l].pos

Line == sent * BufLen  \* positions used so far

Ordered ==
    /\ Increasing(buf) /\ Increasing(tx)
    /\ \A k \in 1 .. Len(buf), l \in 1 .. Len(tx) : buf[k].pos < tx[l].pos
    /\ \A k \in 1 .. Len(buf) : last < buf[k].pos /\ buf[k].pos <= Line
    /\ \A k \in 1 .. Len(tx) : last < tx[k].pos /\ tx[k].pos <= Line
    /\ last <= Line

\* The poll compared the length of what it counted.
Polled ==
    /\ at = "process" => state = "collect" /\ PacketComplete(size)
    /\ at = "poll" => ~PacketComplete(size)
    /\ state = "init" => size = 0

\* A clean line is at rest, or there is one packet p on it, in the buffer or in the air.
OnLine(p) ==
    /\ Len(buf) + Len(tx) = Len(p)
    /\ \A k \in 1 .. Len(buf) : buf[k].v = p[k]
    /\ \A k \in 1 .. Len(tx) : tx[k].v = p[Len(buf) + k]

AtRest == tx = <<>> /\ buf = <<>> /\ at = "poll" /\ guard = "invalid"

InFlight ==
    /\ rx /\ state = "collect" /\ guard # "stale"
    /\ guard = "live" => guardFor = sent
    /\ \E p \in Sendable : OnLine(p)

RxInv ==
    /\ RxTypeOK /\ Ordered /\ Polled
    /\ clean => AtRest \/ InFlight

-----------------------------------------------------------------------------
\* A packet as the phone sends it.
LEMMA PacketIs ==
    ASSUME NEW p \in Sendable
    PROVE  /\ p \in Seq(0 .. 2) /\ Len(p) \in {4, 5}
           /\ p[1] = 2 /\ p[2] = 1 /\ p[3] = Len(p) - PACKET_BASE_LEN
<1>1. PICK q \in Payload, c \in {0, 1} : p = Raw(q, c)
  BY DEF Sendable
<1>2. CASE q = <<>>
  BY <1>1, <1>2 DEF Raw, Preamble, PACKET_BASE_LEN
<1>3. CASE q = <<2>>
  BY <1>1, <1>3 DEF Raw, Preamble, PACKET_BASE_LEN
<1> QED
  BY <1>2, <1>3 DEF Payload

\* What is true at the start.
LEMMA RxInitInv == RxInit => RxInv
<1> SUFFICES ASSUME RxInit PROVE RxInv
  OBVIOUS
<1>1. RxTypeOK
  BY LineAssumption, QueueAssumption DEF RxInit, RxTypeOK
<1>2. Ordered
  <2>1. Line = 0
    BY BufferAssumption DEF Line, RxInit
  <2> QED
    BY <2>1 DEF RxInit, Ordered, Increasing
<1>3. Polled
  BY DEF RxInit, Polled, PacketComplete, PACKET_BASE_LEN
<1> QED
  BY <1>1, <1>2, <1>3 DEF RxInv, AtRest, RxInit

-----------------------------------------------------------------------------
\* The next packet takes the positions behind all others.
LEMMA SendKeeps ==
    ASSUME RxInv, Send
    PROVE  RxInv'
<1>1. PICK p \in Sendable : tx' = Tagged(p, Line)
  BY DEF Send, Line
<1>2. /\ RxTypeOK /\ tx = <<>> /\ sent < PktMax /\ sent' = sent + 1
      /\ clean' = (clean /\ Listening)
      /\ UNCHANGED <<lost, bufVars, taskVars, guardVars, mailboxes, sinkVars>>
  BY DEF RxInv, Send
<1>3. p \in Seq(0 .. 2) /\ Len(p) \in {4, 5} /\ \A k \in 1 .. Len(p) : p[k] \in 0 .. 2
  BY PacketIs
<1>4. Line \in Nat /\ Line' = Line + BufLen
  BY <1>2, BufferAssumption, LineAssumption DEF Line, RxTypeOK
<1>5. /\ tx' \in Seq(Byte) /\ Len(tx') = Len(p)
      /\ \A k \in 1 .. Len(p) : tx'[k].v = p[k] /\ tx'[k].pos = Line + k
  <2>1. DOMAIN tx' = 1 .. Len(p) /\ tx' = [i \in 1 .. Len(p) |-> tx'[i]]
    BY <1>1 DEF Tagged
  <2>2. ASSUME NEW i \in 1 .. Len(p)
        PROVE  tx'[i].v = p[i] /\ tx'[i].pos = Line + i /\ tx'[i] \in Byte
    <3>1. tx'[i] = OnAir(p, Line, i)
      BY <1>1 DEF Tagged
    <3>2. tx'[i].v = p[i] /\ tx'[i].pos = Line + i
      BY <3>1 DEF OnAir
    <3>3. p[i] \in 0 .. 2 /\ Line + i \in Nat /\ Len(p) - i \in Nat
      BY <1>3, <1>4
    <3>4. OnAir(p, Line, i) \in Byte
      BY <3>3 DEF OnAir, Byte
    <3> QED
      BY <3>1, <3>2, <3>4
  <2>3. Len(p) \in Nat
    BY <1>3
  <2> QED
    BY <2>1, <2>2, <2>3
<1>6. RxTypeOK'
  <2>1. clean' \in BOOLEAN
    BY <1>2 DEF RxTypeOK
  <2>2. sent' \in 0 .. PktMax
    BY <1>2, LineAssumption DEF RxTypeOK
  <2> QED
    BY <1>2, <1>5, <2>1, <2>2 DEF RxTypeOK, bufVars, taskVars, guardVars, sinkVars
<1>7. Ordered'
  <2>1. \A k \in 1 .. Len(tx') : tx'[k].pos > Line /\ tx'[k].pos <= Line'
    <3> SUFFICES ASSUME NEW k \in 1 .. Len(tx') PROVE tx'[k].pos > Line /\ tx'[k].pos <= Line'
      OBVIOUS
    <3>1. tx'[k].pos = Line + k /\ k \in 1 .. 5
      BY <1>3, <1>5
    <3> QED
      BY <1>4, <3>1, BufferAssumption DEF PACKET_BASE_LEN
  <2>5. Increasing(tx')
    BY <1>4, <1>5 DEF Increasing
  <2>2. \A k \in 1 .. Len(buf) : buf[k].pos \in Nat /\ last < buf[k].pos /\ buf[k].pos <= Line
    <3>1. \A k \in 1 .. Len(buf) : buf[k] \in Byte
      BY <1>2 DEF RxTypeOK
    <3> QED
      BY <3>1 DEF RxInv, Ordered, Byte
  <2>3. last \in Nat /\ last <= Line /\ Increasing(buf) /\ buf' = buf /\ last' = last
    BY <1>2 DEF RxInv, Ordered, RxTypeOK, bufVars, sinkVars
  <2>4. \A k \in 1 .. Len(tx') : tx'[k].pos \in Nat
    BY <1>4, <1>5
  <2> QED
    BY <1>4, <2>1, <2>2, <2>3, <2>4, <2>5, BufferAssumption DEF Ordered
<1>8. Polled'
  BY <1>2 DEF RxInv, Polled, PacketComplete, bufVars, taskVars
<1>9. clean' => InFlight'
  <2> SUFFICES ASSUME clean, state = "collect", rx, buf = <<>>, at = "poll" PROVE InFlight'
    BY <1>2 DEF Listening
  <2>1. ~InFlight
    BY <1>2, PacketIs DEF InFlight, OnLine
  <2>2. guard = "invalid"
    BY <2>1 DEF RxInv, AtRest
  <2>3. OnLine(p)'
    BY <1>2, <1>3, <1>5 DEF OnLine, bufVars
  <2> QED
    BY <1>2, <2>2, <2>3 DEF InFlight, bufVars, guardVars
<1> QED
  BY <1>6, <1>7, <1>8, <1>9 DEF RxInv

\* A byte that is lost, or comes when there is no buffer or no room in it.
LEMMA DropKeeps ==
    ASSUME RxInv, tx # <<>>, tx' = Tail(tx), UNCHANGED <<sent, bufVars, taskVars, guardVars, sinkVars>>,
           UNCHANGED mailboxes, lost' \in 0 .. LossMax, clean' = FALSE
    PROVE  RxInv'
<1>1. /\ RxTypeOK /\ Ordered /\ tx' \in Seq(Byte) /\ Len(tx') = Len(tx) - 1 /\ Len(tx) \in Nat
      /\ \A k \in 1 .. Len(tx') : tx'[k] = tx[k + 1]
  BY HeadTailProperties, LenProperties DEF RxInv, RxTypeOK
<1>2. RxTypeOK'
  BY <1>1 DEF RxTypeOK, bufVars, taskVars, guardVars, sinkVars
<1>3. Ordered'
  <2>1. \A k \in 1 .. Len(tx') : k + 1 \in 1 .. Len(tx)
    BY <1>1
  <2> QED
    BY <1>1, <2>1 DEF Ordered, Increasing, Line, bufVars, sinkVars
<1>4. Polled'
  BY DEF RxInv, Polled, PacketComplete, bufVars, taskVars
<1> QED
  BY <1>2, <1>3, <1>4 DEF RxInv

\* On a clean line every byte finds room.
LEMMA ReceiveKeeps ==
    ASSUME RxInv, Receive
    PROVE  RxInv'
<1>1. /\ RxTypeOK /\ Ordered /\ tx # <<>> /\ tx' = Tail(tx)
      /\ UNCHANGED <<sent, lost, clean, state, rx, taskVars, guardVars, mailboxes, sinkVars>>
  BY DEF RxInv, Receive
<1>2. /\ tx' \in Seq(Byte) /\ Len(tx') = Len(tx) - 1 /\ Len(tx) \in Nat \ {0} /\ Head(tx) = tx[1]
      /\ \A k \in 1 .. Len(tx') : tx'[k] = tx[k + 1] /\ k + 1 \in 1 .. Len(tx)
  BY <1>1, HeadTailProperties, LenProperties DEF RxTypeOK
<1>3. CASE (~rx \/ Len(buf) = BufLen) /\ UNCHANGED buf
  <2>1. ~clean
    <3> SUFFICES ASSUME clean PROVE FALSE
      OBVIOUS
    <3>1. rx /\ \E p \in Sendable : Len(buf) + Len(tx) = Len(p)
      BY <1>1 DEF RxInv, AtRest, InFlight, OnLine
    <3>2. Len(buf) + Len(tx) \in {4, 5}
      BY <3>1, PacketIs
    <3> QED
      BY <1>2, <1>3, <3>1, <3>2, BufferAssumption DEF PACKET_BASE_LEN
  <2>2. lost' \in 0 .. LossMax /\ clean' = FALSE
    BY <1>1, <2>1 DEF RxInv, RxTypeOK
  <2> QED
    BY <1>1, <1>3, <2>2, DropKeeps DEF bufVars
<1>4. CASE rx /\ Len(buf) < BufLen /\ buf' = Append(buf, Head(tx))
  <2>1. /\ buf' \in Seq(Byte) /\ Len(buf') = Len(buf) + 1 /\ Len(buf) \in Nat
        /\ buf'[Len(buf) + 1] = tx[1] /\ tx[1] \in Byte
        /\ \A k \in 1 .. Len(buf) : buf'[k] = buf[k]
    <3>1. tx[1] \in Byte /\ buf \in Seq(Byte)
      BY <1>1, <1>2, ElementOfSeq DEF RxTypeOK
    <3> QED
      BY <1>2, <1>4, <3>1, AppendProperties, LenProperties
  <2>2. RxTypeOK'
    BY <1>1, <1>2, <1>4, <2>1, BufferAssumption
       DEF RxTypeOK, taskVars, guardVars, sinkVars
  <2>3. Ordered'
    <3>1. Increasing(tx')
      BY <1>1, <1>2 DEF Ordered, Increasing
    <3>2. Increasing(buf')
      <4> SUFFICES ASSUME NEW k \in 1 .. Len(buf'), NEW l \in 1 .. Len(buf'), k < l
                   PROVE  buf'[k].pos < buf'[l].pos
        BY DEF Increasing
      <4>1. k \in 1 .. Len(buf) /\ buf'[k] = buf[k]
        BY <2>1
      <4>2. CASE l \in 1 .. Len(buf)
        BY <1>1, <2>1, <4>1, <4>2 DEF Ordered, Increasing
      <4>3. CASE l = Len(buf) + 1
        <5>1. buf'[l] = tx[1] /\ 1 \in 1 .. Len(tx)
          BY <1>2, <2>1, <4>3
        <5> QED
          BY <1>1, <4>1, <5>1 DEF Ordered
      <4> QED
        BY <2>1, <4>2, <4>3
    <3>3. \A k \in 1 .. Len(buf'), l \in 1 .. Len(tx') : buf'[k].pos < tx'[l].pos
      BY <1>1, <1>2, <2>1 DEF Ordered, Increasing
    <3>4. \A k \in 1 .. Len(buf') : last < buf'[k].pos /\ buf'[k].pos <= Line
      BY <1>1, <1>2, <2>1 DEF Ordered
    <3>5. \A k \in 1 .. Len(tx') : last < tx'[k].pos /\ tx'[k].pos <= Line
      BY <1>1, <1>2 DEF Ordered
    <3>6. Line' = Line /\ last' = last
      BY <1>1 DEF Line, sinkVars
    <3> QED
      BY <1>1, <3>1, <3>2, <3>3, <3>4, <3>5, <3>6 DEF Ordered
  <2>4. Polled'
    <3>1. size \in 0 .. Len(buf) /\ size' = size /\ at' = at /\ state' = state
      BY <1>1 DEF RxTypeOK, taskVars
    <3>2. size >= PACKET_BASE_LEN => buf'[FIELD_PKTLEN] = buf[FIELD_PKTLEN]
      BY <2>1, <3>1 DEF PACKET_BASE_LEN, FIELD_PKTLEN
    <3> QED
      BY <3>1, <3>2 DEF RxInv, Polled, PacketComplete
  <2>5. clean' => InFlight'
    <3> SUFFICES ASSUME clean PROVE InFlight'
      BY <1>1
    <3>1. InFlight
      BY <1>1 DEF RxInv, AtRest
    <3>2. PICK p \in Sendable : OnLine(p)
      BY <3>1 DEF InFlight
    <3>3. Len(buf') + Len(tx') = Len(p)
      <4>1. Len(buf) + Len(tx) = Len(p)
        BY <3>2 DEF OnLine
      <4>2. Len(buf') + Len(tx') = Len(buf) + Len(tx)
        BY <1>2, <2>1
      <4> QED
        BY <4>1, <4>2
    <3>4. \A k \in 1 .. Len(buf') : buf'[k].v = p[k]
      BY <1>2, <2>1, <3>2 DEF OnLine
    <3>5. \A k \in 1 .. Len(tx') : tx'[k].v = p[Len(buf') + k]
      <4> SUFFICES ASSUME NEW k \in 1 .. Len(tx') PROVE tx'[k].v = p[Len(buf') + k]
        OBVIOUS
      <4>1. tx[k + 1].v = p[Len(buf) + (k + 1)]
        BY <1>2, <3>2 DEF OnLine
      <4>2. Len(buf) + (k + 1) = Len(buf') + k
        BY <2>1
      <4> QED
        BY <1>2, <4>1, <4>2
    <3>6. OnLine(p)'
      BY <3>3, <3>4, <3>5 DEF OnLine
    <3> QED
      BY <1>1, <3>1, <3>6 DEF InFlight, guardVars
  <2> QED
    BY <2>2, <2>3, <2>4, <2>5 DEF RxInv
<1> QED
  BY <1>3, <1>4 DEF Receive

\* The buffer is empty, nothing has been polled and nothing accepted since: a buffer was
\* registered.
LEMMA EmptyKeeps ==
    ASSUME RxInv, buf' = <<>>, size' = 0, at' = "poll", rx' \in BOOLEAN, state' \in {"init", "collect"},
           mailboxes' \in 0 .. 2, guard' \in {"invalid", "live", "stale"}, guardFor' = guardFor,
           UNCHANGED <<lineVars, sinkVars>>,
           clean => AtRest /\ guard' = guard
    PROVE  RxInv'
<1>1. RxTypeOK'
  <2>1. buf' \in Seq(Byte) /\ Len(buf') = 0
    OBVIOUS
  <2> QED
    BY <2>1, BufferAssumption DEF RxInv, RxTypeOK, lineVars, sinkVars
<1>2. Ordered'
  BY DEF RxInv, Ordered, Increasing, Line, lineVars, sinkVars
<1>3. Polled'
  BY DEF Polled, PacketComplete, PACKET_BASE_LEN
<1>4. clean' => AtRest'
  BY DEF AtRest, lineVars
<1> QED
  BY <1>1, <1>2, <1>3, <1>4 DEF RxInv

\* Before the application runs nothing has been polled.
LEMMA InitTaskKeeps ==
    ASSUME RxInv, InitTask
    PROVE  RxInv'
<1>1. /\ state = "init" /\ buf' = <<>> /\ rx' \in BOOLEAN /\ state' \in {"init", "collect"}
      /\ mailboxes' \in 0 .. 2
      /\ UNCHANGED <<lineVars, taskVars, guardVars, sinkVars>>
  <2>1. mailboxes' \in 0 .. 2
    BY DEF InitTask
  <2>2. rx' \in BOOLEAN /\ state' \in {"init", "collect"}
    BY DEF InitTask
  <2> QED
    BY <2>1, <2>2 DEF InitTask
<1>2. size = 0 /\ at = "poll"
  BY <1>1 DEF RxInv, RxTypeOK, Polled
<1>3. clean => AtRest
  BY <1>1 DEF RxInv, InFlight
<1> QED
  BY <1>1, <1>2, <1>3, EmptyKeeps DEF RxInv, RxTypeOK, taskVars, guardVars

\* The guard is armed for the packet on the air.
LEMMA PollKeeps ==
    ASSUME RxInv, Poll
    PROVE  RxInv'
<1>1. /\ RxTypeOK /\ state = "collect" /\ at = "poll" /\ size' = dataReadyFromBLE
      /\ at' = IF PacketComplete(size') THEN "process" ELSE "poll"
      /\ \/ size' > 0 /\ guard = "invalid" /\ guard' = "live" /\ guardFor' = sent
         \/ UNCHANGED guardVars
      /\ UNCHANGED <<lineVars, bufVars, mailboxes, sinkVars>>
  BY DEF RxInv, Poll
<1>2. size' \in 0 .. Len(buf)
  BY <1>1, LenProperties DEF RxTypeOK, dataReadyFromBLE
<1>3. RxTypeOK'
  <2>1. guard' \in {"invalid", "live", "stale"} /\ guardFor' \in 0 .. PktMax
    BY <1>1 DEF RxTypeOK, guardVars
  <2> QED
    BY <1>1, <1>2, <2>1 DEF RxTypeOK, lineVars, bufVars, sinkVars
<1>4. Ordered'
  BY <1>1 DEF RxInv, Ordered, Increasing, Line, lineVars, bufVars, sinkVars
<1>5. PacketComplete(size)' <=> PacketComplete(size')
  BY <1>1 DEF PacketComplete, bufVars
<1>6. Polled'
  BY <1>1, <1>5 DEF Polled, bufVars
<1>7. clean' => AtRest' \/ InFlight'
  <2> SUFFICES ASSUME clean PROVE AtRest' \/ InFlight'
    BY <1>1 DEF lineVars
  <2>1. CASE AtRest
    <3>1. size' = 0
      BY <1>2, <2>1 DEF AtRest
    <3>2. ~PacketComplete(size')
      BY <3>1 DEF PacketComplete, PACKET_BASE_LEN
    <3> QED
      BY <1>1, <2>1, <3>1, <3>2 DEF AtRest, lineVars, bufVars, guardVars
  <2>2. CASE InFlight
    <3>1. PICK p \in Sendable : OnLine(p)
      BY <2>2 DEF InFlight
    <3>2. OnLine(p)'
      BY <1>1, <3>1 DEF OnLine, lineVars, bufVars
    <3>3. guard' # "stale" /\ (guard' = "live" => guardFor' = sent)
      BY <1>1, <2>2 DEF InFlight, guardVars
    <3> QED
      BY <1>1, <2>2, <3>2, <3>3 DEF InFlight, lineVars, bufVars
  <2> QED
    BY <2>1, <2>2 DEF RxInv
<1> QED
  BY <1>3, <1>4, <1>6, <1>7 DEF RxInv

\* What a complete poll says of the buffer: on a clean line nothing is left in the air, and the
\* packet is valid.
LEMMA CompleteIs ==
    ASSUME RxInv, PacketComplete(size)
    PROVE  /\ size \in 4 .. Len(buf) /\ buf[1] \in Byte /\ buf[size] \in Byte
           /\ buf[1].pos < buf[size].pos /\ last < buf[1].pos /\ buf[size].pos <= Line
           /\ clean => InFlight /\ tx = <<>> /\ PACKET_IsRawValid
<1>1. RxTypeOK /\ size \in 4 .. Len(buf) /\ Len(buf) \in Nat
  BY LenProperties DEF RxInv, RxTypeOK, PacketComplete, PACKET_BASE_LEN
<1>2. buf[1] \in Byte /\ buf[size] \in Byte
  BY <1>1, ElementOfSeq DEF RxTypeOK
<1>3. buf[1].pos < buf[size].pos /\ last < buf[1].pos /\ buf[size].pos <= Line
  BY <1>1 DEF RxInv, Ordered, Increasing
<1>4. ASSUME clean PROVE InFlight /\ tx = <<>> /\ PACKET_IsRawValid
  <2>1. InFlight
    BY <1>1, <1>4 DEF RxInv, AtRest
  <2>2. PICK p \in Sendable : OnLine(p)
    BY <2>1 DEF InFlight
  <2>3. buf[1].v = 2 /\ buf[2].v = 1 /\ buf[3].v = Len(p) - 4 /\ Len(p) \in {4, 5}
    <3>1. Len(p) \in {4, 5} /\ p[1] = 2 /\ p[2] = 1 /\ p[3] = Len(p) - 4
      BY PacketIs DEF PACKET_BASE_LEN
    <3>2. \A k \in 1 .. Len(buf) : buf[k].v = p[k]
      BY <2>2 DEF OnLine
    <3>3. 1 \in 1 .. Len(buf) /\ 2 \in 1 .. Len(buf) /\ 3 \in 1 .. Len(buf)
      BY <1>1
    <3> QED
      BY <3>1, <3>2, <3>3
  <2>4. size = Len(p)
    BY <1>1, <2>3 DEF PacketComplete, PACKET_BASE_LEN, FIELD_PKTLEN
  <2>5. Len(tx) = 0
    BY <1>1, <2>2, <2>3, <2>4, LenProperties DEF OnLine, RxTypeOK
  <2> QED
    BY <1>1, <2>1, <2>3, <2>5, EmptySeq DEF PACKET_IsRawValid, Preamble, RxTypeOK
<1> QED
  BY <1>1, <1>2, <1>3, <1>4

\* A packet is accepted or discarded, and the buffer given back empty.
LEMMA ProcessKeeps ==
    ASSUME RxInv, Process
    PROVE  RxInv'
<1>1. /\ RxTypeOK /\ state = "collect" /\ at = "process" /\ PacketComplete(size)
      /\ buf' = <<>> /\ at' = "poll" /\ size' = 0
      /\ UNCHANGED <<lineVars, mailboxes>>
  BY DEF RxInv, Polled, Process, reregisterBuffer
<1>2. rx' \in BOOLEAN /\ state' \in {"init", "collect"}
  BY DEF Process, reregisterBuffer
<1>3. /\ last' \in {last, buf[size].pos} /\ guard' \in {guard, "invalid"} /\ guardFor' \in {guardFor, 0}
      /\ queued' \in 0 .. QueueMax
      /\ outcome' \in [0 .. PktMax -> {"none", "handled", "forwarded", "refused"}]
      /\ PACKET_IsRawValid => guard' = "invalid"
  <2>1. CASE PACKET_IsRawValid /\ Forward
    <3>1. outcome' \in [0 .. PktMax -> {"none", "handled", "forwarded", "refused"}]
      BY <1>1, <2>1 DEF Forward, RxTypeOK
    <3>2. queued' \in 0 .. QueueMax
      BY <1>1, <2>1, QueueAssumption DEF Forward, RxTypeOK
    <3> QED
      BY <2>1, <3>1, <3>2 DEF Forward
  <2>2. CASE ~PACKET_IsRawValid /\ Discard
    BY <1>1, <2>2 DEF Discard, guardVars, sinkVars, RxTypeOK
  <2> QED
    BY <2>1, <2>2 DEF Process
<1>4. RxTypeOK'
  <2>1. buf' \in Seq(Byte) /\ Len(buf') = 0
    BY <1>1
  <2>2. last' \in Nat /\ guard' \in {"invalid", "live", "stale"} /\ guardFor' \in 0 .. PktMax
    BY <1>1, <1>3, CompleteIs, LineAssumption DEF RxTypeOK, Byte
  <2> QED
    BY <1>1, <1>2, <1>3, <2>1, <2>2, BufferAssumption DEF RxTypeOK, lineVars
<1>5. Ordered'
  <2>1. last' <= Line /\ \A k \in 1 .. Len(tx) : last' < tx[k].pos /\ tx[k].pos <= Line
    <3>1. size \in 1 .. Len(buf) /\ buf[size].pos <= Line
      BY <1>1, CompleteIs
    <3>2. \A k \in 1 .. Len(tx) : buf[size].pos < tx[k].pos
      BY <3>1 DEF RxInv, Ordered
    <3> QED
      BY <1>3, <3>1, <3>2 DEF RxInv, Ordered
  <2>2. Line' = Line /\ tx' = tx
    BY <1>1 DEF Line, lineVars
  <2> QED
    BY <1>1, <2>1, <2>2 DEF RxInv, Ordered, Increasing
<1>6. Polled'
  BY <1>1 DEF Polled, PacketComplete, PACKET_BASE_LEN
<1>7. clean' => AtRest'
  BY <1>1, <1>3, CompleteIs DEF AtRest, lineVars
<1> QED
  BY <1>4, <1>5, <1>6, <1>7 DEF RxInv

\* On a clean line the guard does not fire: what it was armed for has been polled and is
\* complete, so that it is processed next.
LEMMA TimeoutNotClean ==
    ASSUME RxInv, rxPacketTimeout
    PROVE  ~clean
<1> SUFFICES ASSUME clean PROVE FALSE
  OBVIOUS
<1>1. /\ RxTypeOK /\ guard = "live" /\ at = "poll" /\ InFlight
      /\ guardFor = sent => tx = <<>> /\ size = dataReadyFromBLE
  BY DEF RxInv, rxPacketTimeout, AtRest
<1>2. PICK p \in Sendable : OnLine(p)
  BY <1>1 DEF InFlight
<1>3. Len(p) \in {4, 5} /\ p[3] = Len(p) - 4
  BY PacketIs DEF PACKET_BASE_LEN
<1>4. tx = <<>> /\ size = dataReadyFromBLE /\ rx
  BY <1>1 DEF InFlight
<1>5. Len(buf) = Len(p) /\ buf[3].v = p[3]
  <2>1. Len(tx) = 0 /\ Len(buf) \in Nat
    BY <1>1, <1>4, LenProperties DEF RxTypeOK
  <2>2. Len(buf) + Len(tx) = Len(p)
    BY <1>2 DEF OnLine
  <2>3. Len(buf) = Len(p)
    BY <2>1, <2>2
  <2>4. 3 \in 1 .. Len(buf)
    BY <1>3, <2>3
  <2> QED
    BY <1>2, <2>3, <2>4 DEF OnLine
<1>6. size = Len(p)
  <2>1. Len(buf) < BufLen
    <3>1. Len(buf) \in {4, 5}
      BY <1>3, <1>5
    <3>2. BufLen \in Nat /\ BufLen > 5
      BY BufferAssumption DEF PACKET_BASE_LEN
    <3> QED
      BY <3>1, <3>2
  <2> QED
    BY <1>4, <1>5, <2>1 DEF dataReadyFromBLE
<1>7. PacketComplete(size)
  BY <1>3, <1>5, <1>6 DEF PacketComplete, PACKET_BASE_LEN, FIELD_PKTLEN
<1> QED
  BY <1>1, <1>7 DEF RxInv, Polled

\* The guard clears the buffer.
LEMMA TimeoutKeeps ==
    ASSUME RxInv, rxPacketTimeout
    PROVE  RxInv'
<1>1. /\ RxTypeOK /\ at' = "poll" /\ buf' = <<>> /\ size' = 0 /\ guard' = "stale" /\ guardFor' = guardFor
      /\ mailboxes' = mailboxes /\ UNCHANGED <<lineVars, sinkVars>>
  BY DEF RxInv, rxPacketTimeout, reregisterBuffer
<1>2. rx' \in BOOLEAN /\ state' \in {"init", "collect"}
  BY <1>1 DEF rxPacketTimeout, reregisterBuffer, RxTypeOK
<1>3. mailboxes' \in 0 .. 2
  BY <1>1 DEF RxTypeOK
<1> QED
  BY <1>1, <1>2, <1>3, TimeoutNotClean, EmptyKeeps

\* The main application takes a packet.
LEMMA TakeKeeps ==
    ASSUME RxInv, Take
    PROVE  RxInv'
<1>1. /\ RxTypeOK /\ queued > 0 /\ queued' = queued - 1
      /\ UNCHANGED <<lineVars, bufVars, taskVars, guardVars, mailboxes, outcome, last>>
  BY DEF RxInv, Take
<1>2. RxTypeOK'
  <2>1. queued' \in 0 .. QueueMax
    BY <1>1, QueueAssumption DEF RxTypeOK
  <2> QED
    BY <1>1, <2>1 DEF RxTypeOK, lineVars, bufVars, taskVars, guardVars
<1>3. Ordered' /\ Polled'
  BY <1>1 DEF RxInv, Ordered, Increasing, Line, Polled, PacketComplete, lineVars, bufVars, taskVars
<1>4. clean' => AtRest' \/ InFlight'
  BY <1>1 DEF RxInv, AtRest, InFlight, OnLine, lineVars, bufVars, taskVars, guardVars
<1> QED
  BY <1>2, <1>3, <1>4 DEF RxInv

-----------------------------------------------------------------------------
\* The invariant holds whatever the line loses, the timer does and the pools refuse.
THEOREM RxInvariance == RxSpec => []RxInv
<1>1. RxInv /\ [RxNext]_rxVars => RxInv'
  <2> SUFFICES ASSUME RxInv, [RxNext]_rxVars PROVE RxInv'
    OBVIOUS
  <2>1. CASE Lose
    <3>1. /\ tx # <<>> /\ tx' = Tail(tx) /\ lost' \in 0 .. LossMax /\ clean' = FALSE
          /\ UNCHANGED <<sent, bufVars, taskVars, guardVars, mailboxes, sinkVars>>
      BY <2>1, LineAssumption DEF Lose, RxInv, RxTypeOK
    <3> QED
      BY <3>1, DropKeeps
  <2>2. CASE UNCHANGED rxVars
    BY <2>2 DEF rxVars, lineVars, bufVars, taskVars, guardVars, sinkVars, RxInv, RxTypeOK,
                Ordered, Increasing, Line, Polled, PacketComplete, AtRest, InFlight, OnLine
  <2>3. CASE Send \/ Receive \/ InitTask \/ Poll
    BY <2>3, SendKeeps, ReceiveKeeps, InitTaskKeeps, PollKeeps
  <2>4. CASE Process \/ rxPacketTimeout \/ Take
    BY <2>4, ProcessKeeps, TimeoutKeeps, TakeKeeps
  <2> QED
    BY <2>1, <2>2, <2>3, <2>4 DEF RxNext
<1> QED
  BY <1>1, RxInitInv, PTL DEF RxSpec

\* Type correctness of the receiver: no poll counts more than the buffer holds.
THEOREM RxTyping == RxSpec => []RxTypeOK
<1>1. RxInv => RxTypeOK
  BY DEF RxInv
<1> QED
  BY <1>1, RxInvariance, PTL

\* On a clean line the packet guard never fires.
THEOREM NeverFalseAlarm == RxSpec => []NoFalseAlarm
<1>1. RxInv => NoFalseAlarm
  BY DEF RxInv, NoFalseAlarm, AtRest, InFlight
<1> QED
  BY <1>1, RxInvariance, PTL

\* No byte of the line is accepted twice or out of order.
THEOREM AlwaysAcceptedOnce == RxSpec => AcceptedOnce
<1>1. RxInv /\ [RxNext]_rxVars =>
        [Process /\ PACKET_IsRawValid => last < buf[1].pos /\ buf[1].pos < last']_rxVars
  <2> SUFFICES ASSUME RxInv, Process, PACKET_IsRawValid
               PROVE  last < buf[1].pos /\ buf[1].pos < last'
    OBVIOUS
  <2>1. PacketComplete(size)
    BY DEF RxInv, Polled, Process
  <2>2. last' = buf[size].pos
    BY DEF Process, Forward
  <2> QED
    BY <2>1, <2>2, CompleteIs
<1> QED
  BY <1>1, RxInvariance, PTL DEF RxSpec, AcceptedOnce
=============================================================================
