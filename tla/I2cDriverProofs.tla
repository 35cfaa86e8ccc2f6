--------------------------- MODULE I2cDriverProofs ---------------------------
(***************************************************************************)
(* The I2C driver for every size of the ring and every number of transfers *)
(* and bytes.  The inductive invariant relates the state of the routine to *)
(* the object it works on and to the peripheral, in three layers: what     *)
(* holds until the driver derails, what holds as long as nothing went      *)
(* wrong, and what a client that is alone can rely on.                     *)
(***************************************************************************)
EXTENDS I2cDriverProps, TLAPS

Busy == i2cState # "send_address"  \* the routine works on an object

InQueue(i) ==
    \/ queueOut < queueIn /\ queueOut <= i /\ i < queueIn
    \/ queueIn < queueOut /\ (queueOut <= i \/ i < queueIn)

-----------------------------------------------------------------------------
(* Until the driver derails                                                *)

\* The routine works on the oldest object, which is filled.
OldestTaken ==
    Busy \/ inTail => ~IsQueueEmpty /\ current = queueOut /\ ~Unfilled(queueOut)

\* Objects in the ring are not finished, but for the one the tail takes out.
Unfinished ==
    \A i \in Index : InQueue(i) /\ ~Unfilled(i) =>
        buffers[i].status \notin Final \/ (i = queueOut /\ inTail /\ ~Busy)

\* The state fits the operation.
Phase ==
    /\ i2cState \in {"read", "clock_byte", "send_read_address"} => Object.op = "read"
    /\ i2cState \in {"write", "send_address_2"} => Object.op # "read"
    /\ i2cState = "bus_silent" => Object.size = 0

\* The count of an object is no more than what is left of its client's buffer.
BoundedObject(b) ==
    /\ b.op # "read" => b.size <= b.txBuffer /\ b.rsize <= b.rxBuffer
    /\ b.op = "read" => b.size <= b.rxBuffer /\ 0 <= b.txBuffer

Bounded == \A i \in Index : BoundedObject(buffers[i])

-----------------------------------------------------------------------------
(* As long as nothing went wrong                                           *)

\* Something is left to transfer until the bus falls silent.
SomethingLeft ==
    /\ \A i \in Index : InQueue(i) /\ ~Unfilled(i) /\ ~Busy /\ buffers[i].status \notin Final
          => buffers[i].size > 0
    /\ \A i \in Index : InQueue(i) /\ ~Unfilled(i) /\ Busy /\ i # queueOut => buffers[i].size > 0
    /\ Busy /\ i2cState \notin {"bus_silent", "stop"} => Object.size > 0
    /\ i2cState = "stop" /\ Object.op = "write_read" => Object.size > 0

\* The bus works for the routine, or the routine has its answer.
BusAnswers ==
    /\ flag /\ ~inTail =>
         /\ busy = "none"
         /\ i2cState = "read" => received
         /\ i2cState = "stop" => detected = "stop"
    /\ Busy /\ (~flag \/ inTail) =>
         /\ busy \notin {"none", "start"}
         /\ i2cState = "read" => busy = "receive"
         /\ i2cState = "stop" => busy = "stop"

\* The count is what is left of the client's buffer, and the status tells it.
ExactObject(b) ==
    /\ b.op = "write" => b.size = b.txBuffer /\ b.rxBuffer = 0
    /\ b.op = "write_read" => b.size = b.txBuffer /\ b.rsize = b.rxBuffer /\ b.rsize > 0
    /\ b.op = "read" => b.size = b.rxBuffer /\ b.txBuffer = 0

Truthful(b) ==
    /\ ExactObject(b)
    /\ b.status = "complete" => b.txBuffer = 0 /\ b.rxBuffer = 0
    /\ b.status = "error" => b.txBuffer + b.rxBuffer > 0

OutcomeTrue == \A i \in Index : Truthful(buffers[i])

-----------------------------------------------------------------------------
(* A client that is alone                                                  *)

Quiet == busy = "none" /\ ~flag /\ ~inTail /\ ~Busy

AloneInv ==
    /\ mishaps \cap {"unfilled_object", "late_start"} = {}
    /\ \A g, h \in handles : g = h
    /\ \A i \in Index : InQueue(i) => \E h \in handles : h[2] = i
    /\ call # NoCall => Quiet /\ InQueue(call.buffer) /\ handles = {<<asked, call.buffer>>}
    /\ IsQueueEmpty => Quiet
    /\ \A h \in handles : Unfilled(h[2]) \/ buffers[h[2]].transfer = h[1]
    /\ busy = "stop" => i2cState = "stop"
    /\ Busy /\ i2cState # "stop" => detected = "start"
    /\ i2cState = "stop" => detected = "start" \/ (detected = "stop" /\ busy = "none")
    /\ inTail /\ ~Busy /\ Object.status \in Final => busy = "none"

I2cInv ==
    /\ I2cTypeOK
    /\ ~Derailed => OldestTaken /\ Unfinished /\ Phase
    /\ Bounded
    /\ mishaps = {} => SomethingLeft /\ BusAnswers /\ OutcomeTrue
    /\ ~shared => AloneInv

-----------------------------------------------------------------------------
\* The ring: the next slot is another one, and the oldest is in it.
LEMMA Ring ==
    ASSUME I2cTypeOK
    PROVE  /\ \A i \in Index : i \in Int /\ 0 <= i /\ After(i) \in Index /\ After(i) # i
           /\ ~IsQueueEmpty => InQueue(queueOut)
           /\ IsQueueEmpty => \A i \in Index : ~InQueue(i)
BY I2cBoundsAssumption DEF I2cTypeOK, Index, After, IsQueueEmpty, InQueue

\* A slot is added.
LEMMA RingAdd ==
    ASSUME I2cTypeOK, SlotsAvailable > 0, queueIn' = After(queueIn), queueOut' = queueOut
    PROVE  /\ \A i \in Index : InQueue(i)' <=> InQueue(i) \/ i = queueIn
           /\ ~IsQueueEmpty' /\ ~InQueue(queueIn)
BY I2cBoundsAssumption DEF I2cTypeOK, Index, After, IsQueueEmpty, InQueue, SlotsAvailable

\* The oldest leaves.
LEMMA RingRemove ==
    ASSUME I2cTypeOK, ~IsQueueEmpty, queueOut' = After(queueOut), queueIn' = queueIn
    PROVE  /\ \A i \in Index : InQueue(i)' <=> InQueue(i) /\ i # queueOut
           /\ ~IsQueueEmpty' => InQueue(After(queueOut))
BY I2cBoundsAssumption DEF I2cTypeOK, Index, After, IsQueueEmpty, InQueue

\* What is true at the start.
LEMMA I2cInitInv == I2cInit => I2cInv
<1> SUFFICES ASSUME I2cInit PROVE I2cInv
  OBVIOUS
<1>1. queueIn = queueOut /\ queueIn = 0 /\ 0 \in Index
  BY I2cBoundsAssumption DEF I2cInit, Index
<1>2. I2cTypeOK
  <2>1. EmptyBuffer \in Buffer
    BY DEF EmptyBuffer, Buffer
  <2>2. buffers \in [Index -> Buffer]
    BY <2>1 DEF I2cInit
  <2> QED
    <3>1. asked \in 0 .. TransferMax
      BY I2cBoundsAssumption DEF I2cInit
    <3> QED
      BY <1>1, <2>2, <3>1 DEF I2cInit, I2cTypeOK, States
<1>3. ~Busy /\ ~inTail /\ ~flag /\ Quiet /\ IsQueueEmpty /\ call = NoCall /\ handles = {} /\ mishaps = {}
  BY <1>1 DEF I2cInit, Busy, Quiet, IsQueueEmpty
<1>4. \A i \in Index : ~InQueue(i) /\ buffers[i] = EmptyBuffer
  BY <1>2, <1>3, Ring DEF I2cInit
<1>5. OldestTaken /\ Unfinished /\ Phase
  BY <1>3, <1>4 DEF OldestTaken, Unfinished, Phase, I2cInit
<1>6. Bounded /\ OutcomeTrue
  BY <1>4 DEF Bounded, BoundedObject, ExactObject, OutcomeTrue, Truthful, EmptyBuffer
<1>7. SomethingLeft /\ BusAnswers
  BY <1>3, <1>4 DEF SomethingLeft, BusAnswers, Busy
<1>8. AloneInv
  BY <1>3, <1>4 DEF AloneInv, I2cInit, Busy, Quiet
<1> QED
  BY <1>2, <1>5, <1>6, <1>7, <1>8 DEF I2cInv

-----------------------------------------------------------------------------
(* The routine                                                             *)

\* A step of the routine on the object it has, which becomes b: the new state fits b
\* and the command fits the state.
Works(b, state, command) ==
    /\ b \in Buffer /\ state \in States /\ command \in Commands \cup {"none"}
    /\ Busy /\ flag /\ ~inTail
    /\ buffers' = [buffers EXCEPT ![queueOut] = b]
    /\ Leave(state, command)
    /\ current' = current /\ mishaps' = mishaps /\ received' \in BOOLEAN
    /\ state = "send_address" =>
         i2cState = "stop" /\ detected = "stop" /\ b.status \in Final /\ command = "none"
    /\ state # "send_address" => b.status = Object.status
    /\ i2cState = "stop" =>
         state = "send_address" \/ (state = "stop" /\ detected # "stop" /\ command = "none")
    /\ command = "stop" => state = "stop"
    /\ b.transfer = Object.transfer /\ BoundedObject(b)
    /\ state \in {"read", "clock_byte", "send_read_address"} => b.op = "read"
    /\ state \in {"write", "send_address_2"} => b.op # "read"
    /\ state = "bus_silent" => b.size = 0
    /\ mishaps = {} =>
         /\ Truthful(b)
         /\ state # "send_address" => command \notin {"none", "start"}
         /\ state = "read" => command = "receive"
         /\ state = "stop" => command = "stop"
         /\ state \notin {"send_address", "bus_silent", "stop"} => b.size > 0
         /\ state = "stop" /\ b.op = "write_read" => b.size > 0

\* Such a step keeps the invariant.
LEMMA WorksKeeps ==
    ASSUME I2cInv, ~Derailed, NEW b, NEW state, NEW command, Works(b, state, command)
    PROVE  I2cInv'
<1> USE DEF Works
<1>1. /\ I2cTypeOK /\ ~IsQueueEmpty /\ current = queueOut /\ queueOut \in Index
      /\ ~Unfilled(queueOut) /\ Unfinished /\ Bounded /\ Object \in Buffer
  BY DEF I2cInv, OldestTaken, I2cTypeOK, Bounded, Object
<1>2. /\ i2cState' = state /\ inTail' /\ busy' = Give(busy, command)
      /\ UNCHANGED <<queueIn, queueOut, detected, acked, flag, call, asked, handles, shared>>
  BY DEF Leave, clientVars
<1>3. /\ buffers' \in [Index -> Buffer] /\ buffers'[queueOut] = b
      /\ \A i \in Index : i # queueOut => buffers'[i] = buffers[i]
  BY <1>1 DEF I2cTypeOK
<1>4. /\ Object' = b /\ IsQueueEmpty' = IsQueueEmpty /\ (Busy' <=> state # "send_address")
      /\ \A i \in Index : (InQueue(i)' <=> InQueue(i)) /\ (Unfilled(i)' <=> Unfilled(i))
  BY <1>1, <1>2, <1>3 DEF Object, IsQueueEmpty, Busy, InQueue, Unfilled
<1>5. I2cTypeOK'
  BY <1>1, <1>2, <1>3 DEF I2cTypeOK, Give
<1>6. OldestTaken'
  BY <1>1, <1>2, <1>4 DEF OldestTaken, Unfilled
<1>7. Unfinished'
  <2> SUFFICES ASSUME NEW i \in Index, InQueue(i), ~Unfilled(i)
               PROVE  buffers'[i].status \notin Final \/ (i = queueOut /\ ~Busy')
    BY <1>2, <1>4 DEF Unfinished
  <2>1. buffers[i].status \notin Final
    BY DEF Unfinished, I2cInv
  <2> QED
    BY <1>1, <1>3, <1>4, <2>1 DEF Object
<1>8. Phase'
  BY <1>2, <1>4 DEF Phase
<1>9. Bounded'
  BY <1>1, <1>3 DEF Bounded
<1>10. mishaps' = {} => SomethingLeft'
  <2> SUFFICES ASSUME mishaps = {} PROVE SomethingLeft'
    OBVIOUS
  <2>1. SomethingLeft
    BY DEF I2cInv
  <2>2. \A i \in Index : InQueue(i) /\ ~Unfilled(i) /\ i # queueOut => buffers'[i].size > 0
    BY <1>3, <2>1 DEF SomethingLeft
  <2>3. ~Busy' => buffers'[queueOut].status \in Final
    BY <1>3, <1>4
  <2>4. \A i \in Index : InQueue(i) /\ ~Unfilled(i) /\ ~Busy' /\ buffers'[i].status \notin Final
          => buffers'[i].size > 0
    BY <2>2, <2>3
  <2>5. Busy' /\ i2cState' \notin {"bus_silent", "stop"} => b.size > 0
    BY <1>2, <1>4
  <2> QED
    BY <1>2, <1>4, <2>2, <2>4, <2>5 DEF SomethingLeft
<1>11. mishaps' = {} => BusAnswers'
  <2> SUFFICES ASSUME mishaps = {} PROVE BusAnswers'
    OBVIOUS
  <2>1. busy = "none"
    BY DEF I2cInv, BusAnswers
  <2> QED
    BY <1>2, <1>4, <2>1 DEF BusAnswers, Give
<1>12. mishaps' = {} => OutcomeTrue'
  BY <1>1, <1>3 DEF OutcomeTrue, I2cInv
<1>13. ~shared' => AloneInv'
  <2> SUFFICES ASSUME ~shared PROVE AloneInv'
    BY <1>2
  <2>1. AloneInv
    BY DEF I2cInv
  <2>2. call = NoCall /\ ~Unfilled(queueOut)
    BY <1>1, <2>1 DEF AloneInv, Quiet
  <2>3. \A h \in handles : h[2] \in Index /\ buffers'[h[2]].transfer = buffers[h[2]].transfer
    BY <1>1, <1>3 DEF I2cTypeOK, Object
  <2>4. \A h \in handles : Unfilled(h[2])' \/ buffers'[h[2]].transfer = h[1]
    BY <1>4, <2>1, <2>3 DEF AloneInv
  <2>5. busy' \in {busy, command}
    BY <1>2 DEF Give
  <2>6. busy' = "stop" => i2cState' = "stop"
    BY <1>2, <2>1, <2>5 DEF AloneInv
  <2>7. Busy' /\ i2cState' # "stop" => detected' = "start"
    BY <1>2, <1>4, <2>1 DEF AloneInv
  <2>8. i2cState' = "stop" => detected' = "start"
    BY <1>2, <2>1 DEF AloneInv
  <2>9. ~Busy' => busy' = "none"
    <3>1. ~Busy' => busy = "none"
      BY <1>4, <2>1 DEF AloneInv
    <3> QED
      BY <1>2, <1>4, <2>1, <3>1 DEF Give
  <2> QED
    BY <1>1, <1>2, <1>4, <2>1, <2>2, <2>4, <2>6, <2>7, <2>8, <2>9 DEF AloneInv
<1> QED
  BY <1>5, <1>6, <1>7, <1>8, <1>9, <1>10, <1>11, <1>12, <1>13 DEF I2cInv

\* What the routine finds when it works on an object.
LEMMA AtWork ==
    ASSUME I2cInv, ~Derailed, Busy, flag, ~inTail
    PROVE  /\ current = queueOut /\ Object \in Buffer /\ BoundedObject(Object)
           /\ buffers = [buffers EXCEPT ![queueOut] = Object]
           /\ Object.status \notin Final /\ received \in BOOLEAN /\ Phase
           /\ mishaps = {} =>
                /\ busy = "none" /\ Truthful(Object)
                /\ i2cState = "read" => received
                /\ i2cState = "stop" => detected = "stop"
                /\ i2cState \notin {"bus_silent", "stop"} => Object.size > 0
                /\ i2cState = "stop" /\ Object.op = "write_read" => Object.size > 0
<1>1. /\ I2cTypeOK /\ ~IsQueueEmpty /\ current = queueOut /\ queueOut \in Index
      /\ ~Unfilled(queueOut)
  BY DEF I2cInv, OldestTaken, I2cTypeOK
<1>2. Object = buffers[queueOut] /\ Object \in Buffer /\ buffers = [buffers EXCEPT ![queueOut] = Object]
  BY <1>1 DEF Object, I2cTypeOK
<1>3. Object.status \notin Final
  BY <1>1, <1>2, Ring DEF I2cInv, Unfinished
<1>4. BoundedObject(Object)
  BY <1>1, <1>2 DEF I2cInv, Bounded
<1>5. mishaps = {} => Truthful(Object)
  BY <1>1, <1>2 DEF I2cInv, OutcomeTrue
<1>6. mishaps = {} =>
        /\ busy = "none"
        /\ i2cState = "read" => received
        /\ i2cState = "stop" => detected = "stop"
  BY DEF I2cInv, BusAnswers
<1>7. mishaps = {} =>
        /\ i2cState \notin {"bus_silent", "stop"} => Object.size > 0
        /\ i2cState = "stop" /\ Object.op = "write_read" => Object.size > 0
  BY DEF I2cInv, SomethingLeft
<1>8. Phase /\ received \in BOOLEAN
  BY DEF I2cInv, I2cTypeOK
<1> HIDE DEF Phase
<1>9. mishaps = {} =>
        /\ busy = "none" /\ Truthful(Object)
        /\ i2cState = "read" => received
        /\ i2cState = "stop" => detected = "stop"
        /\ i2cState \notin {"bus_silent", "stop"} => Object.size > 0
        /\ i2cState = "stop" /\ Object.op = "write_read" => Object.size > 0
  BY <1>5, <1>6, <1>7, Zenon
<1> QED
  BY <1>1, <1>2, <1>3, <1>4, <1>8, <1>9, Zenon

\* The addresses after the first byte.
LEMMA AddressKeeps ==
    ASSUME I2cInv, ~Derailed, SendDeviceAddressByte2 \/ SendRandomReadAddress
    PROVE  I2cInv'
<1>1. CASE SendDeviceAddressByte2
  <2>1. Works(Object, "write", "send")
    BY <1>1, AtWork DEF SendDeviceAddressByte2, Enter, Same, Works, Phase, Busy, States, Commands
  <2> QED
    BY <2>1, WorksKeeps
<1>2. CASE SendRandomReadAddress
  <2>1. Works(Object, "clock_byte", "send")
    BY <1>2, AtWork DEF SendRandomReadAddress, Enter, Same, Works, Phase, Busy, States, Commands
  <2> QED
    BY <2>1, WorksKeeps
<1> QED
  BY <1>1, <1>2

\* Reading and writing: the count follows the pointer.
LEMMA TransferKeeps ==
    ASSUME I2cInv, ~Derailed, ProcessRead \/ ProcessWrite
    PROVE  I2cInv'
<1>1. CASE ProcessRead
  <2> DEFINE n == Object.size - 1
             m == Object.rxBuffer - 1
             b == [Object EXCEPT !.size = n, !.rxBuffer = m]
  <2>1. /\ Enter("read") /\ current = queueOut /\ Object \in Buffer /\ BoundedObject(Object)
        /\ Object.op = "read" /\ Object.status \notin Final /\ Busy
    BY <1>1, AtWork DEF ProcessRead, Enter, Phase, Busy
  <2>2. CASE /\ Object.size > 0 /\ received
             /\ Update(b) /\ received' = FALSE
             /\ Leave(IF Object.size > 1 THEN "clock_byte" ELSE "bus_silent", "ack")
             /\ UNCHANGED <<current, mishaps>>
    <3>1. /\ b \in Buffer /\ b.op = "read" /\ b.size = Object.size - 1 /\ b.status = Object.status
          /\ b.transfer = Object.transfer /\ BoundedObject(b) /\ (mishaps = {} => Truthful(b))
      <4>1. Object.size \in Nat /\ Object.rxBuffer \in Int /\ Object.txBuffer \in Int
        BY <2>1 DEF Buffer
      <4>2. n \in Nat /\ m \in Int /\ n = Object.size - 1 /\ m = Object.rxBuffer - 1
        BY <2>2, <4>1
      <4> HIDE DEF n, m
      <4>3. /\ b \in Buffer /\ b.size = n /\ b.rxBuffer = m
            /\ b.op = Object.op /\ b.rsize = Object.rsize /\ b.txBuffer = Object.txBuffer
            /\ b.status = Object.status /\ b.transfer = Object.transfer
        BY <2>1, <4>2 DEF Buffer
      <4> HIDE DEF b
      <4>4. BoundedObject(b)
        BY <2>1, <4>1, <4>2, <4>3 DEF BoundedObject
      <4>5. mishaps = {} => ExactObject(Object)
        BY <2>1, AtWork DEF Enter, Truthful
      <4>6. mishaps = {} => ExactObject(b)
        BY <2>1, <4>1, <4>2, <4>3, <4>5 DEF ExactObject
      <4> QED
        BY <2>1, <4>2, <4>3, <4>4, <4>6 DEF Truthful, Final
    <3>2. /\ buffers' = [buffers EXCEPT ![queueOut] = b] /\ received' \in BOOLEAN
          /\ Leave(IF Object.size > 1 THEN "clock_byte" ELSE "bus_silent", "ack")
          /\ current' = current /\ mishaps' = mishaps
      BY <2>1, <2>2 DEF Update
    <3> HIDE DEF b
    <3>3. CASE Object.size > 1
      <4>1. Works(b, "clock_byte", "ack")
        BY <2>1, <3>1, <3>2, <3>3 DEF Works, Enter, States, Commands, Buffer
      <4> QED
        BY <4>1, WorksKeeps
    <3>4. CASE ~ (Object.size > 1)
      <4>1. b.size = 0
        BY <2>1, <2>2, <3>1, <3>4 DEF Buffer
      <4>2. Works(b, "bus_silent", "ack")
        BY <2>1, <3>1, <3>2, <3>4, <4>1 DEF Works, Enter, States, Commands
      <4> QED
        BY <4>2, WorksKeeps
    <3> QED
      BY <3>3, <3>4
  <2>3. CASE (Object.size = 0 \/ ~received) /\ Leave("read", "none") /\ Same
    <3>1. mishaps # {}
      BY <2>1, <2>3, AtWork DEF Enter, Busy
    <3>2. Works(Object, "read", "none")
      BY <2>1, <2>3, <3>1, AtWork DEF Same, Works, Enter, States, Commands
    <3> QED
      BY <3>2, WorksKeeps
  <2> QED
    BY <1>1, <2>2, <2>3 DEF ProcessRead
<1>2. CASE ProcessWrite
  <2> DEFINE n == Object.size - 1
             m == Object.txBuffer - 1
             b == [Object EXCEPT !.size = n, !.txBuffer = m]
  <2>1. /\ Enter("write") /\ current = queueOut /\ Object \in Buffer /\ BoundedObject(Object)
        /\ Object.op # "read" /\ Object.status \notin Final /\ Busy
    BY <1>2, AtWork DEF ProcessWrite, Enter, Phase, Busy
  <2>2. CASE /\ Object.size > 0 /\ busy # "send" /\ (acked \/ Object.forced)
             /\ Update(b)
             /\ Leave(IF Object.size > 1 THEN "write" ELSE "bus_silent", "send")
             /\ UNCHANGED <<current, received, mishaps>>
    <3>1. /\ b \in Buffer /\ b.op # "read" /\ b.size = Object.size - 1 /\ b.status = Object.status
          /\ b.transfer = Object.transfer /\ BoundedObject(b) /\ (mishaps = {} => Truthful(b))
      <4>1. Object.size \in Nat /\ Object.rxBuffer \in Int /\ Object.txBuffer \in Int
        BY <2>1 DEF Buffer
      <4>2. n \in Nat /\ m \in Int /\ n = Object.size - 1 /\ m = Object.txBuffer - 1
        BY <2>2, <4>1
      <4> HIDE DEF n, m
      <4>3. /\ b \in Buffer /\ b.size = n /\ b.txBuffer = m
            /\ b.op = Object.op /\ b.rsize = Object.rsize /\ b.rxBuffer = Object.rxBuffer
            /\ b.status = Object.status /\ b.transfer = Object.transfer
        BY <2>1, <4>2 DEF Buffer
      <4> HIDE DEF b
      <4>4. BoundedObject(b)
        BY <2>1, <4>1, <4>2, <4>3 DEF BoundedObject
      <4>5. mishaps = {} => ExactObject(Object)
        BY <2>1, AtWork DEF Enter, Truthful
      <4>6. mishaps = {} => ExactObject(b)
        BY <2>1, <4>1, <4>2, <4>3, <4>5 DEF ExactObject
      <4> QED
        BY <2>1, <4>2, <4>3, <4>4, <4>6 DEF Truthful, Final
    <3>2. /\ buffers' = [buffers EXCEPT ![queueOut] = b] /\ received' \in BOOLEAN
          /\ Leave(IF Object.size > 1 THEN "write" ELSE "bus_silent", "send")
          /\ current' = current /\ mishaps' = mishaps
      BY <2>1, <2>2, AtWork DEF Update, Enter
    <3> HIDE DEF b
    <3>3. CASE Object.size > 1
      <4>1. Works(b, "write", "send")
        BY <2>1, <3>1, <3>2, <3>3 DEF Works, Enter, States, Commands, Buffer
      <4> QED
        BY <4>1, WorksKeeps
    <3>4. CASE ~ (Object.size > 1)
      <4>1. b.size = 0
        BY <2>1, <2>2, <3>1, <3>4 DEF Buffer
      <4>2. Works(b, "bus_silent", "send")
        BY <2>1, <3>1, <3>2, <3>4, <4>1 DEF Works, Enter, States, Commands
      <4> QED
        BY <4>2, WorksKeeps
    <3> QED
      BY <3>3, <3>4
  <2>3. CASE Object.size > 0 /\ busy = "send" /\ Leave("write", "none") /\ Same
    <3>1. mishaps # {}
      BY <2>1, <2>3, AtWork DEF Enter
    <3>2. Works(Object, "write", "none")
      BY <2>1, <2>3, <3>1, AtWork DEF Same, Works, Enter, States, Commands
    <3> QED
      BY <3>2, WorksKeeps
  <2>4. CASE /\ Object.size = 0 \/ (busy # "send" /\ ~acked /\ ~Object.forced)
             /\ Leave("stop", "stop") /\ Same
    <3>1. Works(Object, "stop", "stop")
      BY <2>1, <2>4, AtWork DEF Same, Works, Enter, States, Commands
    <3> QED
      BY <3>1, WorksKeeps
  <2> QED
    BY <1>2, <2>2, <2>3, <2>4 DEF ProcessWrite
<1> QED
  BY <1>1, <1>2

\* After the last byte: the device is addressed again, to be read, or the bus stops.
LEMMA BusSilentKeeps ==
    ASSUME I2cInv, ~Derailed, BusSilent
    PROVE  I2cInv'
<1> DEFINE b == [Object EXCEPT !.size = Object.rsize, !.op = "read"]
<1>1. /\ Enter("bus_silent") /\ current = queueOut /\ Object \in Buffer /\ BoundedObject(Object)
      /\ Object.size = 0 /\ Object.status \notin Final /\ Busy
  BY AtWork DEF BusSilent, Enter, Phase, Busy
<1>2. CASE ~acked /\ busy = "send" /\ Leave("bus_silent", "none") /\ Same
  <2>1. mishaps # {}
    BY <1>1, <1>2, AtWork DEF Enter
  <2>2. Works(Object, "bus_silent", "none")
    BY <1>1, <1>2, <2>1, AtWork DEF Same, Works, Enter, States, Commands
  <2> QED
    BY <2>2, WorksKeeps
<1>3. CASE /\ Object.op = "write_read" /\ Update(b) /\ Leave("send_read_address", "restart")
           /\ UNCHANGED <<current, received, mishaps>>
  <2>1. /\ b \in Buffer /\ b.op = "read" /\ b.status = Object.status
        /\ b.transfer = Object.transfer /\ BoundedObject(b)
        /\ mishaps = {} => Truthful(b) /\ b.size > 0
    <3>1. /\ b \in Buffer /\ b.op = "read" /\ b.status = Object.status /\ b.transfer = Object.transfer
          /\ b.size = Object.rsize /\ b.txBuffer = Object.txBuffer /\ b.rxBuffer = Object.rxBuffer
      BY <1>1 DEF Buffer
    <3>2. Object.size \in Nat /\ Object.rsize \in Nat /\ Object.txBuffer \in Int
      BY <1>1 DEF Buffer
    <3>3. mishaps = {} => ExactObject(Object)
      BY <1>1, AtWork DEF Enter, Truthful
    <3> HIDE DEF b
    <3>4. BoundedObject(b)
      BY <1>1, <1>3, <3>1, <3>2 DEF BoundedObject
    <3>5. mishaps = {} => ExactObject(b) /\ b.size > 0
      BY <1>1, <1>3, <3>1, <3>3 DEF ExactObject
    <3> QED
      BY <1>1, <3>1, <3>4, <3>5 DEF Truthful, Final
  <2>2. /\ buffers' = [buffers EXCEPT ![queueOut] = b] /\ received' \in BOOLEAN
        /\ current' = current /\ mishaps' = mishaps /\ Leave("send_read_address", "restart")
    BY <1>1, <1>3, AtWork DEF Update, Enter
  <2> HIDE DEF b
  <2>3. Works(b, "send_read_address", "restart")
    BY <1>1, <2>1, <2>2 DEF Works, Enter, States, Commands
  <2> QED
    BY <2>3, WorksKeeps
<1>4. CASE Object.op # "write_read" /\ Leave("stop", "stop") /\ Same
  <2>1. Works(Object, "stop", "stop")
    BY <1>1, <1>4, AtWork DEF Same, Works, Enter, States, Commands
  <2> QED
    BY <2>1, WorksKeeps
<1> QED
  BY <1>2, <1>3, <1>4 DEF BusSilent

\* A byte is clocked in, unless the address was not acknowledged.
LEMMA ClockByteKeeps ==
    ASSUME I2cInv, ~Derailed, ClockByte
    PROVE  I2cInv'
<1>1. /\ Enter("clock_byte") /\ current = queueOut /\ Object \in Buffer /\ BoundedObject(Object)
      /\ Object.op = "read" /\ Object.status \notin Final /\ Busy /\ Same
  BY AtWork DEF ClockByte, Enter, Phase, Busy
<1>2. CASE Leave("read", "receive")
  <2>1. Works(Object, "read", "receive")
    BY <1>1, <1>2, AtWork DEF Same, Works, Enter, States, Commands
  <2> QED
    BY <2>1, WorksKeeps
<1>3. CASE Leave("stop", "stop")
  <2>1. Works(Object, "stop", "stop")
    BY <1>1, <1>3, AtWork DEF Same, Works, Enter, States, Commands
  <2> QED
    BY <2>1, WorksKeeps
<1>4. CASE (busy = "send" \/ (busy = "ack" /\ acked)) /\ Leave("clock_byte", "none")
  <2>1. mishaps # {}
    BY <1>1, <1>4, AtWork DEF Enter
  <2>2. Works(Object, "clock_byte", "none")
    BY <1>1, <1>4, <2>1, AtWork DEF Same, Works, Enter, States, Commands
  <2> QED
    BY <2>2, WorksKeeps
<1> QED
  BY <1>2, <1>3, <1>4 DEF ClockByte

\* The outcome is what is left to transfer.
LEMMA StopKeeps ==
    ASSUME I2cInv, ~Derailed, ProcessStop
    PROVE  I2cInv'
<1> DEFINE b == [Object EXCEPT !.status = IF Object.size > 0 THEN "error" ELSE "complete"]
<1>1. /\ Enter("stop") /\ current = queueOut /\ Object \in Buffer /\ BoundedObject(Object)
      /\ Object.status \notin Final /\ Busy
  BY AtWork DEF ProcessStop, Enter, Busy
<1>2. CASE /\ detected = "stop" /\ Update(b) /\ Leave("send_address", "none")
           /\ UNCHANGED <<current, received, mishaps>>
  <2>1. b \in Buffer /\ b.status \in Final /\ b.transfer = Object.transfer /\ BoundedObject(b)
    BY <1>1 DEF Buffer, BoundedObject, Final
  <2>2. mishaps = {} => Truthful(b)
    <3>1. mishaps = {} => ExactObject(Object) /\ (Object.op = "write_read" => Object.size > 0)
      BY <1>1, AtWork DEF Enter, Truthful
    <3>2. /\ b.txBuffer = Object.txBuffer /\ b.rxBuffer = Object.rxBuffer
          /\ b.status = IF Object.size > 0 THEN "error" ELSE "complete"
          /\ Object.size \in Nat /\ Object.op \in {"write", "read", "write_read"}
          /\ Object.rsize \in Nat /\ b.op = Object.op /\ b.size = Object.size /\ b.rsize = Object.rsize
      BY <1>1 DEF Buffer
    <3> HIDE DEF b
    <3> QED
      BY <1>1, <3>1, <3>2 DEF ExactObject, Truthful
  <2>3. /\ buffers' = [buffers EXCEPT ![queueOut] = b] /\ received' \in BOOLEAN
        /\ current' = current /\ mishaps' = mishaps /\ Leave("send_address", "none")
    BY <1>1, <1>2, AtWork DEF Update, Enter
  <2> HIDE DEF b
  <2>4. Works(b, "send_address", "none")
    BY <1>1, <1>2, <2>1, <2>2, <2>3 DEF Works, Enter, States, Commands
  <2> QED
    BY <2>4, WorksKeeps
<1>3. CASE detected # "stop" /\ Leave("stop", "none") /\ Same
  <2>1. mishaps # {}
    BY <1>1, <1>3, AtWork DEF Enter
  <2>2. Works(Object, "stop", "none")
    BY <1>1, <1>3, <2>1, AtWork DEF Same, Works, Enter, States, Commands
  <2> QED
    BY <2>2, WorksKeeps
<1> QED
  BY <1>2, <1>3 DEF ProcessStop

\* The oldest object becomes the current one; a driver that finds none, or one that is not
\* filled, has derailed, which does not happen to a client that is alone.
LEMMA SendDeviceAddressKeeps ==
    ASSUME I2cInv, ~Derailed, SendDeviceAddress
    PROVE  I2cInv'
<1>1. /\ I2cTypeOK /\ flag /\ ~inTail /\ i2cState = "send_address" /\ ~Busy /\ Bounded
      /\ queueOut \in Index /\ buffers[queueOut] \in Buffer /\ buffers \in [Index -> Buffer]
  BY DEF I2cInv, I2cTypeOK, SendDeviceAddress, Enter, Busy
<1>2. ~shared => ~IsQueueEmpty /\ call = NoCall
  BY <1>1 DEF I2cInv, AloneInv, Quiet
<1>3. received' = received /\ UNCHANGED <<queueIn, queueOut, detected, acked, flag, call, asked, handles, shared>>
  BY DEF SendDeviceAddress, Leave, clientVars
<1>4. CASE IsQueueEmpty
  <2>1. /\ current' = NoBuffer /\ mishaps' = mishaps \cup {"null_object"} /\ buffers' = buffers
        /\ Leave("send_address", "none")
    BY <1>4 DEF SendDeviceAddress
  <2>2. I2cTypeOK'
    BY <1>1, <1>3, <2>1 DEF I2cTypeOK, Leave, Give
  <2>3. Derailed' /\ mishaps' # {} /\ shared'
    BY <1>2, <1>3, <1>4, <2>1 DEF Derailed
  <2>4. Bounded'
    BY <1>1, <2>1 DEF Bounded
  <2> QED
    BY <2>2, <2>3, <2>4 DEF I2cInv
<1>5. CASE ~IsQueueEmpty
  <2>1. PICK b \in Buffer, state \in {"send_address", "send_address_2", "write", "clock_byte"},
             command \in {"none", "send"} :
          /\ current' = queueOut /\ Leave(state, command)
          /\ mishaps' = mishaps \cup (IF Unfilled(queueOut) THEN {"unfilled_object"} ELSE {})
          /\ buffers' = [buffers EXCEPT ![queueOut] = b]
          /\ b.op = buffers[queueOut].op /\ b.size = buffers[queueOut].size
          /\ b.rsize = buffers[queueOut].rsize /\ b.transfer = buffers[queueOut].transfer
          /\ b.txBuffer = buffers[queueOut].txBuffer /\ b.rxBuffer = buffers[queueOut].rxBuffer
          /\ b.status \in {buffers[queueOut].status, "write_requested", "read_requested"}
          /\ state \in {"send_address_2", "write"} => b.op # "read"
          /\ state = "clock_byte" => b.op = "read"
          /\ state # "send_address" => detected = "start" /\ command = "send"
    <3> DEFINE o == buffers[queueOut]
               Status(s) == buffers' = [buffers EXCEPT ![queueOut].status = s]
    <3>1. /\ current' = queueOut
          /\ mishaps' = mishaps \cup (IF Unfilled(queueOut) THEN {"unfilled_object"} ELSE {})
          /\ \/ detected # "start" /\ UNCHANGED buffers /\ Leave("send_address", "none")
             \/ /\ detected = "start" /\ o.op # "read" /\ o.long
                /\ UNCHANGED buffers /\ Leave("send_address_2", "send")
             \/ /\ detected = "start" /\ o.op # "read" /\ ~o.long
                /\ Status("write_requested") /\ Leave("write", "send")
             \/ /\ detected = "start" /\ o.op = "read"
                /\ Status("read_requested") /\ Leave("clock_byte", "send")
      BY <1>5 DEF SendDeviceAddress, Unfilled
    <3>2. buffers = [buffers EXCEPT ![queueOut] = o]
      BY <1>1
    <3>3. ASSUME NEW s \in {"write_requested", "read_requested"}, Status(s)
          PROVE  /\ [o EXCEPT !.status = s] \in Buffer
                 /\ buffers' = [buffers EXCEPT ![queueOut] = [o EXCEPT !.status = s]]
      BY <1>1, <3>3 DEF Buffer
    <3>4. CASE detected # "start" /\ UNCHANGED buffers /\ Leave("send_address", "none")
      BY <1>1, <3>1, <3>2, <3>4
    <3>5. CASE /\ detected = "start" /\ o.op # "read" /\ o.long
               /\ UNCHANGED buffers /\ Leave("send_address_2", "send")
      BY <1>1, <3>1, <3>2, <3>5
    <3>6. CASE /\ detected = "start" /\ o.op # "read" /\ ~o.long
               /\ Status("write_requested") /\ Leave("write", "send")
      <4> DEFINE b == [o EXCEPT !.status = "write_requested"]
      <4>1. /\ b \in Buffer /\ b.op = o.op /\ b.size = o.size /\ b.rsize = o.rsize
            /\ b.transfer = o.transfer /\ b.txBuffer = o.txBuffer /\ b.rxBuffer = o.rxBuffer
            /\ b.status = "write_requested" /\ buffers' = [buffers EXCEPT ![queueOut] = b]
        BY <1>1, <3>3, <3>6 DEF Buffer
      <4> HIDE DEF b
      <4> QED
        BY <3>1, <3>6, <4>1
    <3>7. CASE /\ detected = "start" /\ o.op = "read"
               /\ Status("read_requested") /\ Leave("clock_byte", "send")
      <4> DEFINE b == [o EXCEPT !.status = "read_requested"]
      <4>1. /\ b \in Buffer /\ b.op = o.op /\ b.size = o.size /\ b.rsize = o.rsize
            /\ b.transfer = o.transfer /\ b.txBuffer = o.txBuffer /\ b.rxBuffer = o.rxBuffer
            /\ b.status = "read_requested" /\ buffers' = [buffers EXCEPT ![queueOut] = b]
        BY <1>1, <3>3, <3>7 DEF Buffer
      <4> HIDE DEF b
      <4> QED
        BY <3>1, <3>7, <4>1
    <3> QED
      BY <3>1, <3>4, <3>5, <3>6, <3>7
  <2>2. /\ buffers' \in [Index -> Buffer] /\ buffers'[queueOut] = b
        /\ \A i \in Index : i # queueOut => buffers'[i] = buffers[i]
    BY <1>1, <2>1
  <2>3. i2cState' = state /\ inTail' /\ busy' = Give(busy, command)
    BY <2>1 DEF Leave
  <2>4. I2cTypeOK'
    <3>1. busy' \in Commands \cup {"none"} /\ i2cState' \in States
      BY <1>1, <2>1, <2>3 DEF I2cTypeOK, Give, Commands, States
    <3>2. mishaps' \subseteq {"oversized", "lost_event", "unfilled_object", "late_start", "null_object",
                             "collision"}
      BY <1>1, <2>1 DEF I2cTypeOK
    <3> QED
      BY <1>1, <1>3, <2>1, <2>2, <2>3, <3>1, <3>2 DEF I2cTypeOK
  <2>5. BoundedObject(b) /\ Bounded'
    <3>1. BoundedObject(b)
      BY <1>1, <2>1 DEF Bounded, BoundedObject
    <3> QED
      BY <1>1, <2>2, <3>1 DEF Bounded
  <2>6. CASE Unfilled(queueOut)
    <3>1. Derailed' /\ mishaps' # {} /\ shared'
      BY <1>2, <1>3, <2>1, <2>6 DEF Derailed, Unfilled, NoCall
    <3> QED
      BY <2>4, <2>5, <3>1 DEF I2cInv
  <2>7. CASE ~Unfilled(queueOut)
    <3>1. /\ mishaps' = mishaps /\ (Busy' <=> state # "send_address") /\ IsQueueEmpty' = IsQueueEmpty
          /\ \A i \in Index : (InQueue(i)' <=> InQueue(i)) /\ (Unfilled(i)' <=> Unfilled(i))
          /\ Object' = b
      BY <1>3, <2>1, <2>2, <2>3, <2>7 DEF Busy, InQueue, Unfilled, Object, IsQueueEmpty
    <3>2. \A i \in Index : InQueue(i) /\ ~Unfilled(i) => buffers[i].status \notin Final
      BY <1>1 DEF I2cInv, Unfinished
    <3>3. InQueue(queueOut) /\ b.status \notin Final
      BY <1>1, <1>5, <2>1, <2>7, <3>2, Ring DEF Final
    <3>4. OldestTaken'
      BY <1>3, <1>5, <2>1, <2>7, <3>1 DEF OldestTaken, Unfilled
    <3>5. Unfinished'
      BY <2>2, <3>1, <3>2, <3>3 DEF Unfinished
    <3>6. Phase'
      BY <2>1, <2>3, <3>1 DEF Phase
    <3>7. mishaps' = {} => SomethingLeft'
      <4> SUFFICES ASSUME mishaps = {} PROVE SomethingLeft'
        BY <3>1
      <4>1. \A i \in Index : InQueue(i) /\ ~Unfilled(i) => buffers[i].size > 0
        BY <1>1, <3>2 DEF I2cInv, SomethingLeft
      <4>2. \A i \in Index : InQueue(i) /\ ~Unfilled(i) => buffers'[i].size > 0
        BY <1>1, <2>1, <2>2, <4>1
      <4>3. b.size > 0
        BY <1>1, <2>1, <2>7, <3>3, <4>1
      <4> QED
        BY <1>3, <2>1, <2>3, <3>1, <4>2, <4>3 DEF SomethingLeft
    <3>8. mishaps' = {} => BusAnswers'
      <4> SUFFICES ASSUME mishaps = {} PROVE BusAnswers'
        BY <3>1
      <4>1. busy = "none"
        BY <1>1 DEF I2cInv, BusAnswers
      <4> QED
        BY <2>1, <2>3, <3>1, <4>1 DEF BusAnswers, Give
    <3>9. mishaps' = {} => OutcomeTrue'
      <4>1. mishaps = {} => ExactObject(buffers[queueOut])
        BY <1>1 DEF I2cInv, OutcomeTrue, Truthful
      <4>2. mishaps = {} => Truthful(b)
        BY <2>1, <3>3, <4>1 DEF Truthful, ExactObject, Final
      <4> QED
        BY <1>1, <2>2, <3>1, <4>2 DEF OutcomeTrue, I2cInv
    <3>10. ~shared' => AloneInv'
      <4> SUFFICES ASSUME ~shared PROVE AloneInv'
        BY <1>3
      <4>1. AloneInv
        BY DEF I2cInv
      <4>2. \A h \in handles : h[2] \in Index /\ buffers'[h[2]].transfer = buffers[h[2]].transfer
        BY <1>1, <2>1, <2>2 DEF I2cTypeOK
      <4>3. \A h \in handles : Unfilled(h[2])' \/ buffers'[h[2]].transfer = h[1]
        BY <3>1, <4>1, <4>2 DEF AloneInv
      <4>4. busy' # "stop"
        BY <1>1, <2>1, <2>3, <4>1 DEF AloneInv, Give
      <4> QED
        BY <1>2, <1>3, <1>5, <2>1, <2>3, <3>1, <3>3, <4>1, <4>3, <4>4 DEF AloneInv
    <3> QED
      BY <2>4, <2>5, <3>1, <3>4, <3>5, <3>6, <3>7, <3>8, <3>9, <3>10 DEF I2cInv
  <2> QED
    BY <2>6, <2>7
<1> QED
  BY <1>4, <1>5

\* The tail: a finished object leaves the ring and the next one is started, or nothing happens.
LEMMA TailKeeps ==
    ASSUME I2cInv, ~Derailed, Tail
    PROVE  I2cInv'
<1>1. /\ I2cTypeOK /\ inTail /\ current = queueOut /\ queueOut \in Index /\ ~IsQueueEmpty
      /\ ~Unfilled(queueOut) /\ InQueue(queueOut) /\ Object = buffers[queueOut]
  BY Ring DEF I2cInv, OldestTaken, I2cTypeOK, Tail, Object
<1>2. /\ ~inTail' /\ ~flag' /\ inTail' \in BOOLEAN /\ flag' \in BOOLEAN
      /\ UNCHANGED <<queueIn, buffers, current, detected, acked, received, call, asked, handles, shared, mishaps>>
  BY DEF Tail, clientVars
<1>3. ~shared => AloneInv /\ call = NoCall
  BY <1>1 DEF I2cInv, AloneInv, Quiet
<1>4. \A i \in Index : Unfilled(i)' <=> Unfilled(i)
  BY <1>2 DEF Unfilled
<1>5. CASE Object.status \in Final
  <2>1. ~Busy
    BY <1>1, <1>5, Ring DEF I2cInv, Unfinished
  <2>2. /\ queueOut' = After(queueOut) /\ queueOut' \in Index
        /\ i2cState' = "send_address" /\ ~Busy'
        /\ busy' \in {busy, "start"} /\ (queueOut' = queueIn => busy' = busy)
    BY <1>1, <1>5, <2>1, Ring DEF Tail, Give, Busy
  <2>3. \A i \in Index : InQueue(i)' <=> InQueue(i) /\ i # queueOut
    BY <1>1, <1>2, <2>2, RingRemove
  <2>4. I2cTypeOK'
    BY <1>1, <1>2, <2>2 DEF I2cTypeOK, Commands, States
  <2>5. OldestTaken' /\ Phase'
    BY <1>2, <2>2 DEF OldestTaken, Phase
  <2>6. \A i \in Index : InQueue(i)' /\ ~Unfilled(i) => buffers[i].status \notin Final
    BY <2>3 DEF I2cInv, Unfinished
  <2>7. Unfinished'
    BY <1>2, <1>4, <2>6 DEF Unfinished
  <2>8. Bounded' /\ (mishaps' = {} => OutcomeTrue')
    BY <1>2 DEF I2cInv, Bounded, OutcomeTrue
  <2>9. mishaps' = {} => SomethingLeft' /\ BusAnswers'
    BY <1>2, <1>4, <2>1, <2>2, <2>3 DEF I2cInv, SomethingLeft, BusAnswers
  <2>10. ~shared' => AloneInv'
    <3> SUFFICES ASSUME ~shared PROVE AloneInv'
      BY <1>2
    <3>1. \A i \in Index : ~InQueue(i)'
      <4> SUFFICES ASSUME NEW i \in Index, InQueue(i), i # queueOut PROVE FALSE
        BY <2>3
      <4>1. PICK g \in handles : g[2] = i
        BY <1>3 DEF AloneInv
      <4>2. PICK h \in handles : h[2] = queueOut
        BY <1>1, <1>3 DEF AloneInv
      <4> QED
        BY <1>3, <4>1, <4>2 DEF AloneInv
    <3>2. queueOut' = queueIn
      BY <1>1, <1>2, <2>2, <2>3, <3>1, Ring, RingRemove DEF IsQueueEmpty
    <3>3. busy' = "none"
      BY <1>1, <1>3, <1>5, <2>1, <2>2, <3>2 DEF AloneInv
    <3>4. Quiet'
      BY <1>2, <2>2, <3>3 DEF Quiet
    <3>5. \A h \in handles : Unfilled(h[2])' <=> Unfilled(h[2])
      BY <1>2 DEF Unfilled
    <3> QED
      BY <1>2, <1>3, <2>2, <3>1, <3>3, <3>4, <3>5 DEF AloneInv
  <2> QED
    BY <2>4, <2>5, <2>7, <2>8, <2>9, <2>10 DEF I2cInv
<1>6. CASE Object.status \notin Final
  <2>1. UNCHANGED <<queueOut, i2cState, busy>>
    BY <1>6 DEF Tail
  <2>2. /\ (Busy' <=> Busy) /\ Object' = Object /\ IsQueueEmpty' = IsQueueEmpty
        /\ \A i \in Index : InQueue(i)' <=> InQueue(i)
    BY <1>2, <2>1 DEF Busy, Object, IsQueueEmpty, InQueue
  <2>3. I2cTypeOK'
    BY <1>1, <1>2, <2>1 DEF I2cTypeOK
  <2>4. OldestTaken'
    BY <1>1, <1>2, <2>1, <2>2 DEF OldestTaken, Unfilled
  <2>5. Unfinished'
    BY <1>1, <1>2, <1>4, <1>6, <2>1, <2>2 DEF I2cInv, Unfinished
  <2>6. Phase'
    BY <2>1, <2>2 DEF I2cInv, Phase
  <2>7. Bounded' /\ (mishaps' = {} => OutcomeTrue')
    BY <1>2 DEF I2cInv, Bounded, OutcomeTrue
  <2>8. mishaps' = {} => SomethingLeft'
    BY <1>2, <1>4, <2>1, <2>2 DEF I2cInv, SomethingLeft
  <2>9. mishaps' = {} => BusAnswers'
    BY <1>1, <1>2, <2>1, <2>2 DEF I2cInv, BusAnswers
  <2>10. ~shared' => AloneInv'
    <3>1. \A h \in handles : Unfilled(h[2])' <=> Unfilled(h[2])
      BY <1>2 DEF Unfilled
    <3> QED
      BY <1>1, <1>2, <1>3, <2>1, <2>2, <3>1 DEF AloneInv
  <2> QED
    BY <2>3, <2>4, <2>5, <2>6, <2>7, <2>8, <2>9, <2>10 DEF I2cInv
<1> QED
  BY <1>5, <1>6

-----------------------------------------------------------------------------
(* The main loop                                                           *)

\* A free slot is not the object the routine works on.
LEMMA SlotGetKeeps ==
    ASSUME I2cInv, ~Derailed, SlotGet
    PROVE  I2cInv'
<1>1. /\ I2cTypeOK /\ call = NoCall /\ ~inTail /\ asked' = asked + 1 /\ asked + 1 \in 0 .. TransferMax
      /\ UNCHANGED <<queueOut, buffers, i2cState, current, hwVars, inTail, mishaps>>
  <2>1. call = NoCall
    BY DEF SlotGet, MainRuns, I2cInv, I2cTypeOK
  <2> QED
    BY <2>1, I2cBoundsAssumption DEF SlotGet, MainRuns, I2cInv, I2cTypeOK
<1>2. /\ (Busy' <=> Busy) /\ Object' = Object
      /\ \A i : ~Unfilled(i)
  BY <1>1 DEF Busy, Object, Unfilled, NoCall
<1>3. Bounded' /\ (mishaps' = {} => OutcomeTrue' /\ BusAnswers') /\ (~Derailed' => Phase')
  BY <1>1, <1>2 DEF I2cInv, Bounded, OutcomeTrue, BusAnswers, Phase, Derailed, hwVars
<1>4. CASE /\ SlotsAvailable > 0 /\ queueIn' = After(queueIn)
           /\ call' = [step |-> "fill", buffer |-> queueIn]
           /\ handles' = handles \cup {<<asked + 1, queueIn>>}
           /\ shared' = (shared \/ handles # {})
  <2>1. /\ \A i \in Index : InQueue(i)' <=> InQueue(i) \/ i = queueIn
        /\ ~IsQueueEmpty' /\ ~InQueue(queueIn)
    BY <1>1, <1>4, RingAdd
  <2>2. \A i : Unfilled(i)' <=> i = queueIn
    BY <1>4 DEF Unfilled
  <2>3. I2cTypeOK'
    BY <1>1, <1>4, Ring DEF I2cTypeOK, hwVars
  <2>4. OldestTaken'
    BY <1>1, <1>2, <2>1, <2>2 DEF I2cInv, OldestTaken, IsQueueEmpty
  <2>5. Unfinished'
    BY <1>1, <1>2, <2>1, <2>2 DEF I2cInv, Unfinished
  <2>6. mishaps' = {} => SomethingLeft'
    BY <1>1, <1>2, <2>1, <2>2 DEF I2cInv, SomethingLeft
  <2>7. ~shared' => AloneInv'
    <3> SUFFICES ASSUME ~shared, handles = {} PROVE AloneInv'
      BY <1>4
    <3>1. \A i \in Index : ~InQueue(i)
      BY DEF I2cInv, AloneInv
    <3>2. Quiet
      BY <1>1, <3>1, Ring DEF I2cInv, AloneInv, I2cTypeOK
    <3>3. Quiet'
      BY <1>1, <1>2, <3>2 DEF Quiet, hwVars
    <3>4. handles' = {<<asked', queueIn>>} /\ call'.buffer = queueIn /\ queueIn \in Index
      BY <1>1, <1>4 DEF I2cTypeOK
    <3>5. \A h \in handles' : Unfilled(h[2])'
      BY <2>2, <3>4
    <3>6. i2cState' = "send_address" /\ busy' = "none"
      BY <3>3 DEF Quiet, Busy
    <3>7. InQueue(call.buffer)'
      BY <2>1, <3>4
    <3>8. \A i \in Index : InQueue(i)' => \E h \in handles' : h[2] = i
      BY <2>1, <3>1, <3>4
    <3>9. mishaps' \cap {"unfilled_object", "late_start"} = {}
      BY <1>1 DEF I2cInv, AloneInv
    <3> QED
      BY <2>1, <3>3, <3>4, <3>5, <3>6, <3>7, <3>8, <3>9 DEF AloneInv, Quiet
  <2> QED
    BY <1>3, <2>3, <2>4, <2>5, <2>6, <2>7 DEF I2cInv
<1>5. CASE UNCHANGED <<queueIn, call, handles, shared>>
  <2>1. /\ IsQueueEmpty' = IsQueueEmpty /\ \A i : (InQueue(i)' <=> InQueue(i)) /\ ~Unfilled(i)'
    BY <1>1, <1>2, <1>5 DEF IsQueueEmpty, InQueue, Unfilled
  <2>2. I2cTypeOK'
    BY <1>1, <1>5 DEF I2cTypeOK, hwVars
  <2>3. OldestTaken' /\ Unfinished'
    BY <1>1, <1>2, <1>5, <2>1 DEF I2cInv, OldestTaken, Unfinished
  <2>4. mishaps' = {} => SomethingLeft'
    BY <1>1, <1>2, <2>1 DEF I2cInv, SomethingLeft
  <2>5. ~shared' => AloneInv'
    BY <1>1, <1>2, <1>5, <2>1 DEF I2cInv, AloneInv, Quiet, hwVars
  <2> QED
    BY <1>3, <2>2, <2>3, <2>4, <2>5 DEF I2cInv
<1> QED
  BY <1>4, <1>5 DEF SlotGet

\* What eight bits keep of a length.
LEMMA CountIs ==
    ASSUME NEW n \in Nat
    PROVE  Count(n) \in Nat /\ Count(n) <= n /\ (n < 256 => Count(n) = n)
BY DEF Count

\* The object is filled before the routine can take it.
LEMMA FillKeeps ==
    ASSUME I2cInv, ~Derailed, Fill
    PROVE  I2cInv'
<1>1. PICK q \in Requests :
        /\ buffers' = [buffers EXCEPT ![call.buffer] = Filled(q)]
        /\ mishaps' = mishaps \cup (IF Fits(q) THEN {} ELSE {"oversized"})
  BY DEF Fill
<1> DEFINE b == Filled(q)
<1>2. /\ I2cTypeOK /\ call.step = "fill" /\ call.buffer \in Index /\ ~inTail /\ call # NoCall
      /\ call' = [call EXCEPT !.step = "look_at_bus"]
      /\ call \in [step : {"fill", "look_at_bus", "look_at_flag"}, buffer : Index]
      /\ UNCHANGED <<queueIn, queueOut, i2cState, current, hwVars, inTail, clientVars>>
      /\ mishaps' \in {mishaps, mishaps \cup {"oversized"}}
  <2>1. I2cTypeOK /\ call.step = "fill"
    BY DEF I2cInv, Fill, MainRuns
  <2>2. call # NoCall
    BY <2>1 DEF NoCall
  <2> QED
    BY <1>1, <2>1, <2>2 DEF I2cTypeOK, Fill, MainRuns
<1>3. call' # NoCall /\ call'.buffer = call.buffer /\ call'.step = "look_at_bus"
  <2>1. call'.step = "look_at_bus" /\ call'.buffer = call.buffer
    BY <1>2
  <2> QED
    BY <2>1 DEF NoCall
<1>4. /\ b \in Buffer /\ BoundedObject(b) /\ b.status \notin Final
      /\ b.status = "pending" /\ b.transfer = asked
      /\ mishaps' = {} => ExactObject(b) /\ b.size > 0
  <2> DEFINE w == q.len[1]
             r == q.len[2]
  <2>1. /\ q.op \in {"write", "read", "write_read"} /\ q.forced \in BOOLEAN /\ q.long \in BOOLEAN
        /\ q.len \in Nat \X Nat
        /\ q.op = "read" <=> w = 0
        /\ q.op = "write" <=> r = 0
    BY I2cBoundsAssumption DEF Requests
  <2>2. asked \in Nat /\ w \in Nat /\ r \in Nat
    BY <1>2, <2>1, I2cBoundsAssumption DEF I2cTypeOK
  <2>3. /\ Count(w) \in Nat /\ Count(w) <= w /\ (w < 256 => Count(w) = w)
        /\ Count(r) \in Nat /\ Count(r) <= r /\ (r < 256 => Count(r) = r)
    BY <2>2, CountIs
  <2>4. mishaps' = {} => w < 256 /\ r < 256
    BY <1>1 DEF Fits
  <2>5. /\ b.op = q.op /\ b.forced = q.forced /\ b.long = q.long /\ b.status = "pending"
        /\ b.size = IF q.op = "read" THEN Count(r) ELSE Count(w)
        /\ b.rsize = Count(r) /\ b.txBuffer = w /\ b.rxBuffer = r /\ b.transfer = asked
    BY DEF Filled
  <2>6. b \in Buffer
    BY <2>1, <2>2, <2>3 DEF Filled, Buffer, Final
  <2> HIDE DEF b, w, r
  <2>7. BoundedObject(b)
    BY <2>1, <2>2, <2>3, <2>5 DEF BoundedObject
  <2>8. mishaps' = {} => ExactObject(b) /\ b.size > 0
    BY <2>1, <2>2, <2>3, <2>4, <2>5 DEF ExactObject
  <2> QED
    BY <2>5, <2>6, <2>7, <2>8 DEF Final
<1>5. buffers' = [buffers EXCEPT ![call.buffer] = b]
  BY <1>1
<1> HIDE DEF b
<1>6. /\ buffers' \in [Index -> Buffer] /\ buffers'[call.buffer] = b
      /\ \A i \in Index : i # call.buffer => buffers'[i] = buffers[i]
  BY <1>2, <1>4, <1>5 DEF I2cTypeOK
<1>7. /\ (Busy' <=> Busy) /\ IsQueueEmpty' = IsQueueEmpty
      /\ \A i : (InQueue(i)' <=> InQueue(i)) /\ ~Unfilled(i)' /\ (Unfilled(i) <=> i = call.buffer)
  BY <1>2, <1>3 DEF Busy, IsQueueEmpty, InQueue, Unfilled
<1>8. Busy => current = queueOut /\ queueOut \in Index /\ queueOut # call.buffer /\ Object' = Object
  BY <1>2, <1>6, <1>7 DEF I2cInv, OldestTaken, Object, I2cTypeOK
<1>9. I2cTypeOK'
  <2>1. call' \in [step : {"fill", "look_at_bus", "look_at_flag"}, buffer : Index]
    BY <1>2
  <2> QED
    BY <1>2, <1>6, <2>1 DEF I2cTypeOK, hwVars, clientVars
<1>10. OldestTaken'
  BY <1>2, <1>7 DEF I2cInv, OldestTaken, Derailed
<1>11. Unfinished'
  BY <1>2, <1>4, <1>6, <1>7 DEF I2cInv, Unfinished
<1>12. Phase'
  BY <1>2, <1>8 DEF I2cInv, Phase, Busy
<1>13. Bounded'
  BY <1>4, <1>6 DEF I2cInv, Bounded
<1>14. mishaps' = {} => SomethingLeft'
  <2> SUFFICES ASSUME mishaps = {}, mishaps' = {} PROVE SomethingLeft'
    BY <1>2
  <2>1. \A i \in Index : InQueue(i) /\ ~Busy /\ buffers'[i].status \notin Final => buffers'[i].size > 0
    BY <1>4, <1>6, <1>7 DEF I2cInv, SomethingLeft
  <2>2. \A i \in Index : InQueue(i) /\ Busy /\ i # queueOut => buffers'[i].size > 0
    BY <1>4, <1>6, <1>7 DEF I2cInv, SomethingLeft
  <2>3. i2cState = "stop" => Busy
    BY DEF Busy
  <2> QED
    BY <1>2, <1>7, <1>8, <2>1, <2>2, <2>3 DEF I2cInv, SomethingLeft
<1>15. mishaps' = {} => BusAnswers' /\ OutcomeTrue'
  <2>1. mishaps' = {} => Truthful(b) /\ mishaps = {}
    BY <1>2, <1>4 DEF Truthful
  <2> QED
    BY <1>2, <1>6, <1>7, <2>1 DEF I2cInv, BusAnswers, OutcomeTrue, hwVars
<1>16. ~shared' => AloneInv'
  <2> SUFFICES ASSUME ~shared PROVE AloneInv'
    BY <1>2 DEF clientVars
  <2>1. AloneInv /\ Quiet /\ handles = {<<asked, call.buffer>>} /\ InQueue(call.buffer)
    BY <1>2 DEF I2cInv, AloneInv
  <2>2. Quiet'
    BY <1>2, <1>7, <2>1 DEF Quiet, hwVars
  <2>3. \A h \in handles' : buffers'[h[2]].transfer = h[1]
    BY <1>2, <1>4, <1>6, <2>1 DEF clientVars
  <2>4. i2cState' = "send_address" /\ busy' = "none" /\ ~inTail'
    BY <2>2 DEF Quiet, Busy
  <2>5. InQueue(call.buffer)'
    BY <1>3, <1>7, <2>1
  <2>6. /\ handles' = {<<asked', call'.buffer>>}
        /\ \A i \in Index : InQueue(i)' => \E h \in handles' : h[2] = i
    BY <1>2, <1>3, <1>7, <2>1 DEF AloneInv, clientVars
  <2>7. mishaps' \cap {"unfilled_object", "late_start"} = {}
    BY <1>2, <2>1 DEF AloneInv
  <2> QED
    BY <2>2, <2>3, <2>4, <2>5, <2>6, <2>7 DEF AloneInv, Quiet
<1> QED
  BY <1>9, <1>10, <1>11, <1>12, <1>13, <1>14, <1>15, <1>16 DEF I2cInv

\* The bus is looked at.
LEMMA LookAtBusKeeps ==
    ASSUME I2cInv, ~Derailed, LookAtBus
    PROVE  I2cInv'
<1>1. /\ I2cTypeOK /\ call.step = "look_at_bus" /\ ~inTail /\ call # NoCall
      /\ call \in [step : {"fill", "look_at_bus", "look_at_flag"}, buffer : Index]
      /\ call' \in {[call EXCEPT !.step = "look_at_flag"], NoCall}
      /\ UNCHANGED <<queueIn, queueOut, buffers, i2cState, current, hwVars, inTail, clientVars, mishaps>>
  <2>1. I2cTypeOK /\ call.step = "look_at_bus"
    BY DEF I2cInv, LookAtBus, MainRuns
  <2>2. call # NoCall
    BY <2>1 DEF NoCall
  <2> QED
    BY <2>1, <2>2 DEF I2cTypeOK, LookAtBus, MainRuns
<1>2. call' = NoCall \/ (call'.step = "look_at_flag" /\ call'.buffer = call.buffer)
  BY <1>1
<1>3. /\ (Busy' <=> Busy) /\ IsQueueEmpty' = IsQueueEmpty /\ Object' = Object
      /\ \A i : (InQueue(i)' <=> InQueue(i)) /\ ~Unfilled(i)' /\ ~Unfilled(i)
  BY <1>1, <1>2 DEF Busy, IsQueueEmpty, InQueue, Unfilled, Object, NoCall
<1>4. I2cTypeOK'
  <2>1. call' \in {NoCall} \cup [step : {"fill", "look_at_bus", "look_at_flag"}, buffer : Index]
    BY <1>1
  <2> QED
    BY <1>1, <2>1 DEF I2cTypeOK, hwVars, clientVars
<1>5. OldestTaken' /\ Unfinished'
  BY <1>1, <1>3 DEF I2cInv, OldestTaken, Unfinished
<1>6. Phase' /\ Bounded'
  BY <1>1, <1>3 DEF I2cInv, Phase, Bounded
<1>7. mishaps' = {} => SomethingLeft' /\ BusAnswers' /\ OutcomeTrue'
  BY <1>1, <1>3 DEF I2cInv, SomethingLeft, BusAnswers, OutcomeTrue, hwVars
<1>8. ~shared' => AloneInv'
  <2> SUFFICES ASSUME ~shared PROVE AloneInv'
    BY <1>1 DEF clientVars
  <2>1. AloneInv /\ Quiet /\ handles = {<<asked, call.buffer>>} /\ InQueue(call.buffer)
    BY <1>1 DEF I2cInv, AloneInv
  <2>2. Quiet'
    BY <1>1, <1>3, <2>1 DEF Quiet, hwVars
  <2>3. call' # NoCall => InQueue(call.buffer)' /\ handles' = {<<asked', call'.buffer>>}
    BY <1>1, <1>2, <1>3, <2>1 DEF clientVars
  <2> QED
    BY <1>1, <1>3, <2>1, <2>2, <2>3 DEF AloneInv, clientVars, hwVars
<1> QED
  BY <1>4, <1>5, <1>6, <1>7, <1>8 DEF I2cInv

\* A start that comes into a transfer, or with nothing to transfer, is late; to a client that is
\* alone that does not happen.
LEMMA StartIfQuietKeeps ==
    ASSUME I2cInv, ~Derailed, StartIfQuiet
    PROVE  I2cInv'
<1>1. /\ I2cTypeOK /\ ~inTail /\ call # NoCall /\ call.step = "look_at_flag" /\ call' = NoCall
      /\ UNCHANGED <<queueIn, queueOut, buffers, current, detected, acked, received, flag, inTail, clientVars>>
  <2>1. call.step = "look_at_flag"
    BY DEF StartIfQuiet, MainRuns
  <2> QED
    BY <2>1 DEF I2cInv, StartIfQuiet, MainRuns, NoCall
<1>2. /\ IsQueueEmpty' = IsQueueEmpty /\ Object' = Object
      /\ \A i : (InQueue(i)' <=> InQueue(i)) /\ ~Unfilled(i)' /\ ~Unfilled(i)
  BY <1>1 DEF IsQueueEmpty, InQueue, Unfilled, Object, NoCall
<1>3. ~shared => /\ AloneInv /\ Quiet /\ ~IsQueueEmpty
  BY <1>1, Ring DEF I2cInv, AloneInv, I2cTypeOK
<1>4. Bounded'
  BY <1>1 DEF I2cInv, Bounded
<1>5. CASE /\ ~flag \/ "collision" \in mishaps
           /\ i2cState' = "send_address" /\ busy' = Give(busy, "start") /\ mishaps' = mishaps \cup Late
  <2>1. ~Busy'
    BY <1>5 DEF Busy
  <2>2. I2cTypeOK'
    BY <1>1, <1>5 DEF I2cTypeOK, Give, Late, Commands, States, clientVars
  <2>3. OldestTaken' /\ Phase'
    BY <1>1, <1>5, <2>1 DEF OldestTaken, Phase
  <2>4. Unfinished'
    BY <1>1, <1>2 DEF I2cInv, Unfinished
  <2>5. mishaps' = {} => SomethingLeft' /\ BusAnswers' /\ OutcomeTrue'
    <3> SUFFICES ASSUME mishaps' = {} PROVE SomethingLeft' /\ BusAnswers' /\ OutcomeTrue'
      OBVIOUS
    <3>1. mishaps = {} /\ Late = {}
      BY <1>5
    <3>2. busy \in {"none", "start"}
      BY <3>1 DEF Late
    <3>3. ~Busy
      BY <1>5, <3>1, <3>2 DEF I2cInv, BusAnswers
    <3> QED
      BY <1>1, <1>2, <1>5, <2>1, <3>1, <3>3 DEF I2cInv, SomethingLeft, BusAnswers, OutcomeTrue
  <2>6. ~shared' => AloneInv'
    <3> SUFFICES ASSUME ~shared PROVE AloneInv'
      BY <1>1 DEF clientVars
    <3>1. busy' = "start" /\ mishaps' = mishaps
      BY <1>3, <1>5 DEF Quiet, Give, Late
    <3> QED
      BY <1>1, <1>2, <1>3, <1>5, <2>1, <3>1 DEF AloneInv, Quiet, clientVars
  <2> QED
    BY <1>4, <2>2, <2>3, <2>4, <2>5, <2>6 DEF I2cInv
<1>6. CASE flag /\ UNCHANGED <<i2cState, busy, mishaps>>
  <2>1. Busy' <=> Busy
    BY <1>6 DEF Busy
  <2>2. I2cTypeOK'
    BY <1>1, <1>6 DEF I2cTypeOK, clientVars
  <2>3. OldestTaken' /\ Unfinished' /\ Phase'
    BY <1>1, <1>2, <1>6, <2>1 DEF I2cInv, OldestTaken, Unfinished, Phase
  <2>4. mishaps' = {} => SomethingLeft' /\ BusAnswers' /\ OutcomeTrue'
    BY <1>1, <1>2, <1>6, <2>1 DEF I2cInv, SomethingLeft, BusAnswers, OutcomeTrue
  <2>5. shared'
    BY <1>1, <1>3, <1>6 DEF Quiet, clientVars
  <2> QED
    BY <1>4, <2>2, <2>3, <2>4, <2>5 DEF I2cInv
<1> QED
  BY <1>5, <1>6 DEF StartIfQuiet

\* A client that has seen its transfer finished leaves an empty ring, if it is alone.
LEMMA StatusGetKeeps ==
    ASSUME I2cInv, ~Derailed, TransferStatusGet
    PROVE  I2cInv'
<1>1. /\ I2cTypeOK /\ ~inTail /\ call = NoCall
      /\ UNCHANGED <<queueIn, queueOut, buffers, i2cState, current, hwVars, call, inTail, asked, shared, mishaps>>
  BY DEF I2cInv, I2cTypeOK, TransferStatusGet, MainRuns
<1>2. PICK h \in handles : buffers[h[2]].status \in Final /\ handles' = handles \ {h}
  BY DEF TransferStatusGet
<1>3. /\ (Busy' <=> Busy) /\ IsQueueEmpty' = IsQueueEmpty /\ Object' = Object
      /\ \A i : (InQueue(i)' <=> InQueue(i)) /\ ~Unfilled(i)' /\ ~Unfilled(i)
  BY <1>1 DEF Busy, IsQueueEmpty, InQueue, Unfilled, Object, NoCall
<1>4. I2cTypeOK'
  BY <1>1, <1>2 DEF I2cTypeOK, hwVars
<1>5. OldestTaken' /\ Unfinished' /\ Phase' /\ Bounded'
  BY <1>1, <1>3 DEF I2cInv, OldestTaken, Unfinished, Phase, Bounded
<1>6. mishaps' = {} => SomethingLeft' /\ BusAnswers' /\ OutcomeTrue'
  BY <1>1, <1>3 DEF I2cInv, SomethingLeft, BusAnswers, OutcomeTrue, hwVars
<1>7. ~shared' => AloneInv'
  <2> SUFFICES ASSUME ~shared PROVE AloneInv'
    BY <1>1
  <2>1. AloneInv
    BY DEF I2cInv
  <2>2. \A i \in Index : ~InQueue(i)
    <3> SUFFICES ASSUME NEW i \in Index, InQueue(i) PROVE FALSE
      OBVIOUS
    <3>1. i = h[2]
      BY <1>2, <2>1 DEF AloneInv
    <3> QED
      BY <1>1, <1>2, <1>3, <3>1 DEF I2cInv, Unfinished
  <2>3. handles' = {}
    BY <1>2, <2>1 DEF AloneInv
  <2> QED
    BY <1>1, <1>3, <2>1, <2>2, <2>3 DEF AloneInv, Quiet, hwVars
<1> QED
  BY <1>4, <1>5, <1>6, <1>7 DEF I2cInv

-----------------------------------------------------------------------------
(* The bus                                                                 *)

\* A command is carried out, or dropped: the bus is at rest and the routine is called.
LEMMA BusKeeps ==
    ASSUME I2cInv, ~Derailed, BusEvent \/ Collision
    PROVE  I2cInv'
<1>1. /\ I2cTypeOK /\ busy # "none" /\ busy' = "none" /\ flag' = TRUE
      /\ detected' \in {"none", "start", "stop"} /\ acked' \in BOOLEAN /\ received' \in BOOLEAN
      /\ \/ mishaps' = mishaps
         \/ mishaps' = mishaps \cup {"lost_event"}
         \/ mishaps' = mishaps \cup {"collision"}
         \/ mishaps' = mishaps \cup {"collision", "lost_event"}
      /\ UNCHANGED <<queueIn, queueOut, buffers, i2cState, current, call, inTail, asked, handles, shared>>
  BY DEF I2cInv, I2cTypeOK, BusEvent, Collision, clientVars
<1>2. /\ (Busy' <=> Busy) /\ IsQueueEmpty' = IsQueueEmpty /\ Object' = Object
      /\ \A i : (InQueue(i)' <=> InQueue(i)) /\ (Unfilled(i)' <=> Unfilled(i))
  BY <1>1 DEF Busy, IsQueueEmpty, InQueue, Unfilled, Object
<1>3. I2cTypeOK'
  BY <1>1 DEF I2cTypeOK
<1>4. OldestTaken' /\ Unfinished' /\ Phase' /\ Bounded'
  BY <1>1, <1>2 DEF I2cInv, OldestTaken, Unfinished, Phase, Bounded, Unfilled
<1>5. mishaps' = {} => SomethingLeft' /\ OutcomeTrue'
  BY <1>1, <1>2 DEF I2cInv, SomethingLeft, OutcomeTrue
<1>6. mishaps' = {} => BusAnswers'
  <2> SUFFICES ASSUME mishaps' = {} PROVE BusAnswers'
    OBVIOUS
  <2>1. BusEvent /\ ~inTail /\ mishaps = {}
    BY DEF BusEvent, Collision
  <2>2. ~flag
    BY <1>1, <2>1 DEF I2cInv, BusAnswers
  <2>3. /\ i2cState = "read" => busy = "receive"
        /\ i2cState = "stop" => busy = "stop"
    BY <2>1, <2>2 DEF I2cInv, BusAnswers, Busy
  <2>4. /\ busy = "receive" => received'
        /\ busy = "stop" => detected' = "stop"
    BY <2>1 DEF BusEvent
  <2> QED
    BY <1>1, <2>1, <2>3, <2>4 DEF BusAnswers
<1>7. ~shared' => AloneInv'
  <2> SUFFICES ASSUME ~shared PROVE AloneInv'
    BY <1>1
  <2>1. AloneInv /\ ~Quiet
    BY <1>1 DEF I2cInv, Quiet
  <2>2. busy = "stop" => i2cState = "stop"
    BY <2>1 DEF AloneInv
  <2>3. i2cState = "stop" => detected = "start"
    BY <1>1, <2>1 DEF AloneInv
  <2>4. /\ detected' \in {detected, "start", "stop"}
        /\ detected' = "stop" => detected = "stop" \/ busy = "stop"
    BY DEF BusEvent, Collision
  <2>5. Busy' /\ i2cState' # "stop" => detected' = "start"
    BY <1>1, <1>2, <2>1, <2>2, <2>4 DEF AloneInv
  <2>6. i2cState' = "stop" => detected' \in {"start", "stop"}
    BY <1>1, <2>3, <2>4
  <2>7. mishaps' \cap {"unfilled_object", "late_start"} = {}
    BY <1>1, <2>1 DEF AloneInv
  <2> QED
    BY <1>1, <1>2, <2>1, <2>5, <2>6, <2>7 DEF AloneInv
<1> QED
  BY <1>3, <1>4, <1>5, <1>6, <1>7 DEF I2cInv

-----------------------------------------------------------------------------
\* The invariant holds wherever bus events and the calls of the main loop meet.
THEOREM I2cInvariance == I2cSpec => []I2cInv
<1>1. I2cInv /\ [I2cNext]_i2cVars => I2cInv'
  <2> SUFFICES ASSUME I2cInv, [I2cNext]_i2cVars PROVE I2cInv'
    OBVIOUS
  <2>1. CASE UNCHANGED i2cVars
    BY <2>1 DEF i2cVars, I2cInv, I2cTypeOK, Derailed, OldestTaken, Unfinished, Phase, Bounded,
                SomethingLeft, BusAnswers, OutcomeTrue, AloneInv, Quiet, Busy, IsQueueEmpty,
                InQueue, Unfilled, Object
  <2>2. CASE I2cNext
    <3>1. ~Derailed
      BY <2>2 DEF I2cNext
    <3>2. CASE DRV_I2C0_Tasks
      BY <3>1, <3>2, SendDeviceAddressKeeps, AddressKeeps, TransferKeeps, BusSilentKeeps,
         ClockByteKeeps, StopKeeps DEF DRV_I2C0_Tasks
    <3>3. CASE Tail
      BY <3>1, <3>3, TailKeeps
    <3>4. CASE SlotGet \/ Enqueue \/ TransferStatusGet
      BY <3>1, <3>4, SlotGetKeeps, FillKeeps, LookAtBusKeeps, StartIfQuietKeeps, StatusGetKeeps
         DEF Enqueue
    <3>5. CASE BusEvent \/ Collision
      BY <3>1, <3>5, BusKeeps
    <3> QED
      BY <2>2, <3>2, <3>3, <3>4, <3>5 DEF I2cNext
  <2> QED
    BY <2>1, <2>2
<1> QED
  BY <1>1, I2cInitInv, PTL DEF I2cSpec

\* Type correctness of the driver.
THEOREM I2cTyping == I2cSpec => []I2cTypeOK
<1>1. I2cInv => I2cTypeOK
  BY DEF I2cInv
<1> QED
  BY <1>1, I2cInvariance, PTL

\* No buffer pointer of a client is moved past the end of its buffer.
THEOREM AlwaysWithinBuffers == I2cSpec => []WithinBuffers
<1>1. I2cInv => WithinBuffers
  <2> SUFFICES ASSUME I2cInv, NEW i \in Index
               PROVE  buffers[i].txBuffer >= 0 /\ buffers[i].rxBuffer >= 0
    BY DEF WithinBuffers
  <2>1. buffers[i] \in Buffer /\ BoundedObject(buffers[i])
    BY DEF I2cInv, I2cTypeOK, Bounded
  <2> QED
    BY <2>1 DEF Buffer, BoundedObject
<1> QED
  BY <1>1, I2cInvariance, PTL

\* A final status tells whether every byte was transferred, while nothing goes wrong.
THEOREM AlwaysStatusTellsOutcome == I2cSpec => []StatusTellsOutcome
<1>1. I2cInv => StatusTellsOutcome
  BY DEF I2cInv, StatusTellsOutcome, OutcomeTrue, Truthful
<1> QED
  BY <1>1, I2cInvariance, PTL

\* A client that waits for the end of a transfer before it asks for the next, as powerapp.c
\* does, never meets the races of the driver.
THEOREM AlwaysAloneIsSafe == I2cSpec => []AloneIsSafe
<1>1. I2cInv => AloneIsSafe
  BY DEF I2cInv, AloneIsSafe, AloneInv
<1> QED
  BY <1>1, I2cInvariance, PTL
=============================================================================
