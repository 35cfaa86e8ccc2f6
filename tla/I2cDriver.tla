------------------------------ MODULE I2cDriver ------------------------------
(***************************************************************************)
(* Instance 0 of the static I2C driver in master mode                      *)
(* (drv_i2c_static_buffer_model.c): a ring of buffer objects filled by the *)
(* main loop, and the interrupt routine that works off the oldest one, one *)
(* bus event at a time.  The I2C interrupt has the lowest priority: it     *)
(* preempts the main loop anywhere and is preempted by the laser's         *)
(* routines, so that bus events may fall into the routine itself.          *)
(*                                                                         *)
(* Data bytes are left out; txBuffer and rxBuffer are the bytes from the   *)
(* pointer to the end of the client's buffer.                              *)
(***************************************************************************)
EXTENDS Integers, FiniteSets

CONSTANTS
    BufferObjects,  \* DRV_I2C_NUM_OF_BUFFER_OBJECTS
    Lengths,        \* bound: <<bytes to write, bytes to read>> of a transfer
    TransferMax     \* bound: transfers asked for

ASSUME I2cBoundsAssumption ==
    BufferObjects \in Nat \ {0, 1} /\ TransferMax \in Nat /\ Lengths \subseteq Nat \X Nat

Index == 0 .. BufferObjects - 1
NoBuffer == -1

Commands == {"start", "restart", "stop", "send", "receive", "ack"}
Final == {"complete", "error"}

\* What a call asks for: operation, transmitForced, an address of two bytes (bound: only in the
\* operation that addresses the device twice), bytes to write and to read
Requests ==
    {q \in [op : {"write", "read", "write_read"}, forced : BOOLEAN, long : BOOLEAN, len : Lengths] :
       /\ q.op = "read" <=> q.len[1] = 0
       /\ q.op = "write" <=> q.len[2] = 0
       /\ q.forced => q.op = "write"
       /\ q.long => q.op = "write_read"}

\* A size_t in a field transfersize or readtransfersize, which is a uint8_t
Count(n) == n % 256

VARIABLES
    \* the driver
    queueIn, queueOut,  \* QueueIn_0, QueueOut_0
    buffers,            \* sDrvI2CBufferObj_0
    i2cState,           \* i2c0State
    current,            \* lBufferObj0
    \* the peripheral
    busy,               \* command on the bus, or "none"
    detected,           \* last condition seen: the S and P bits
    acked,              \* ACKSTAT: the byte sent was acknowledged
    received,           \* RBF: a received byte waits
    flag,               \* INT_SOURCE_I2C_2_MASTER or INT_SOURCE_I2C_2_ERROR
    \* who runs
    call,               \* the unfinished call of the main loop
    inTail,             \* the interrupt routine is past its switch
    \* clients and history
    asked,              \* transfers asked for
    handles,            \* <<transfer, buffer>> a client has not seen the end of
    shared,             \* two of them existed at the same time
    mishaps             \* what went wrong so far

i2cVars == <<queueIn, queueOut, buffers, i2cState, current, busy, detected, acked,
             received, flag, call, inTail, asked, handles, shared, mishaps>>
hwVars  == <<busy, detected, acked, received, flag>>
clientVars == <<asked, handles, shared>>

NoCall == [step |-> "none"]
EmptyBuffer == [op |-> "write", forced |-> FALSE, long |-> FALSE, size |-> 0, rsize |-> 0,
                status |-> "pending", txBuffer |-> 0, rxBuffer |-> 0, transfer |-> 0]

\* DRV_I2C0_Initialize; the array is zero at start-up
I2cInit ==
    /\ queueIn = 0 /\ queueOut = 0
    /\ buffers = [i \in Index |-> EmptyBuffer]
    /\ i2cState = "send_address" /\ current = NoBuffer
    /\ busy = "none" /\ detected = "none" /\ acked = FALSE /\ received = FALSE /\ flag = FALSE
    /\ call = NoCall /\ inTail = FALSE
    /\ asked = 0 /\ handles = {} /\ shared = FALSE /\ mishaps = {}

\* _DRV_I2C_Advance_Queue_0, and the same step in _DRV_I2C_QueueSlotGet_0
After(i) == IF i = BufferObjects - 1 THEN 0 ELSE i + 1
IsQueueEmpty == queueIn = queueOut
SlotsAvailable == IF queueIn >= queueOut THEN BufferObjects - (queueIn - queueOut) - 1
                  ELSE queueOut - queueIn - 1

\* A command given while another one runs has no effect
Give(running, command) == IF running = "none" THEN command ELSE running

-----------------------------------------------------------------------------
(* The main loop: DRV_I2C0_Transmit, Receive, TransmitThenReceive,         *)
(* TransmitForced.  The steps are those between which an interrupt matters *)

MainRuns(step) == call.step = step /\ ~inTail

\* _DRV_I2C_QueueSlotGet_0.  Without a slot the call returns NULL
SlotGet ==
    /\ MainRuns("none")
    /\ asked < TransferMax
    /\ asked' = asked + 1
    /\ \/ /\ SlotsAvailable > 0
          /\ queueIn' = After(queueIn)
          /\ call' = [step |-> "fill", buffer |-> queueIn]
          /\ handles' = handles \cup {<<asked + 1, queueIn>>}
          /\ shared' = (shared \/ handles # {})
       \/ SlotsAvailable = 0 /\ UNCHANGED <<queueIn, call, handles, shared>>
    /\ UNCHANGED <<queueOut, buffers, i2cState, current, hwVars, inTail, mishaps>>

\* The object of a request
Filled(q) ==
    LET w == q.len[1]
        r == q.len[2]
    IN [op |-> q.op, forced |-> q.forced, long |-> q.long,
        size |-> Count(IF q.op = "read" THEN r ELSE w), rsize |-> Count(r),
        status |-> "pending", txBuffer |-> w, rxBuffer |-> r, transfer |-> asked]

\* Its counts hold the lengths asked for
Fits(q) == q.len[1] < 256 /\ q.len[2] < 256

\* The fields of the object.  A request that does not fit is a mishap
Fill ==
    /\ MainRuns("fill")
    /\ \E q \in Requests :
         /\ buffers' = [buffers EXCEPT ![call.buffer] = Filled(q)]
         /\ mishaps' = mishaps \cup (IF Fits(q) THEN {} ELSE {"oversized"})
    /\ call' = [call EXCEPT !.step = "look_at_bus"]
    /\ UNCHANGED <<queueIn, queueOut, i2cState, current, hwVars, inTail, clientVars>>

\* The first condition and PLIB_I2C_BusIsIdle
LookAtBus ==
    /\ MainRuns("look_at_bus")
    /\ call' = IF detected \in {"none", "stop"} /\ busy = "none"
               THEN [call EXCEPT !.step = "look_at_flag"] ELSE NoCall
    /\ UNCHANGED <<queueIn, queueOut, buffers, i2cState, current, hwVars, inTail,
                   clientVars, mishaps>>

\* The main loop was away since it looked at the bus: the start comes into a transfer,
\* or has no object to go with
Late == IF busy \in {"none", "start"} /\ ~IsQueueEmpty THEN {} ELSE {"late_start"}

\* PLIB_INT_SourceFlagGet and PLIB_I2C_MasterStart.  The flag looked at is that of the
\* master interrupt: a collision raises the other one, which does not hold the start back
StartIfQuiet ==
    /\ MainRuns("look_at_flag")
    /\ \/ /\ ~flag \/ "collision" \in mishaps
          /\ i2cState' = "send_address"
          /\ busy' = Give(busy, "start")
          /\ mishaps' = mishaps \cup Late
       \/ flag /\ UNCHANGED <<i2cState, busy, mishaps>>
    /\ call' = NoCall
    /\ UNCHANGED <<queueIn, queueOut, buffers, current, detected, acked, received, flag, inTail,
                   clientVars>>

\* DRV_I2C0_TransferStatusGet by a client that waits for the end
TransferStatusGet ==
    /\ MainRuns("none")
    /\ \E h \in handles : buffers[h[2]].status \in Final /\ handles' = handles \ {h}
    /\ UNCHANGED <<queueIn, queueOut, buffers, i2cState, current, hwVars, call, inTail, asked,
                   shared, mishaps>>

-----------------------------------------------------------------------------
(* The interrupt routine DRV_I2C0_Tasks up to the end of the switch.  A    *)
(* case may change the current object, the state, and give a command.      *)

Enter(state) == flag /\ ~inTail /\ i2cState = state

Leave(state, command) ==
    /\ i2cState' = state
    /\ busy' = Give(busy, command)
    /\ inTail' = TRUE
    /\ UNCHANGED <<queueIn, queueOut, detected, acked, flag, call, clientVars>>

Object == buffers[current]
Update(b) == buffers' = [buffers EXCEPT ![current] = b]
Same == UNCHANGED <<buffers, current, received, mishaps>>

\* DRV_I2C_TASK_SEND_DEVICE_ADDRESS: the oldest object becomes the current one.
\* One that is not filled yet, or none at all, is a mishap
SendDeviceAddress ==
    /\ Enter("send_address")
    /\ IF IsQueueEmpty
       THEN /\ current' = NoBuffer /\ mishaps' = mishaps \cup {"null_object"}
            /\ UNCHANGED buffers /\ Leave("send_address", "none")
       ELSE /\ current' = queueOut
            /\ mishaps' = mishaps \cup (IF call.step = "fill" /\ call.buffer = queueOut
                                        THEN {"unfilled_object"} ELSE {})
            /\ LET b == buffers[queueOut]
                   Status(s) == buffers' = [buffers EXCEPT ![queueOut].status = s]
               IN \/ detected # "start" /\ UNCHANGED buffers /\ Leave("send_address", "none")
                  \/ /\ detected = "start" /\ b.op # "read" /\ b.long
                     /\ UNCHANGED buffers /\ Leave("send_address_2", "send")
                  \/ /\ detected = "start" /\ b.op # "read" /\ ~b.long
                     /\ Status("write_requested") /\ Leave("write", "send")
                  \/ /\ detected = "start" /\ b.op = "read"
                     /\ Status("read_requested") /\ Leave("clock_byte", "send")
    /\ UNCHANGED received

\* DRV_I2C_SEND_DEVICE_ADDRESS_BYTE_2
SendDeviceAddressByte2 ==
    /\ Enter("send_address_2")
    /\ Leave(IF Object.op = "read" THEN "clock_byte" ELSE "write", "send")
    /\ Same

\* DRV_I2C_SEND_RANDOM_READ_DEVICE_ADDRESS
SendRandomReadAddress ==
    /\ Enter("send_read_address")
    /\ Leave("clock_byte", "send")
    /\ Same

\* DRV_I2C_TASK_PROCESS_READ_ONLY: the last byte is not acknowledged
ProcessRead ==
    /\ Enter("read")
    /\ \/ /\ Object.size > 0 /\ received
          /\ Update([Object EXCEPT !.size = @ - 1, !.rxBuffer = @ - 1])
          /\ received' = FALSE
          /\ Leave(IF Object.size > 1 THEN "clock_byte" ELSE "bus_silent", "ack")
          /\ UNCHANGED <<current, mishaps>>
       \/ (Object.size = 0 \/ ~received) /\ Leave("read", "none") /\ Same

\* DRV_I2C_TASK_PROCESS_WRITE_ONLY
ProcessWrite ==
    /\ Enter("write")
    /\ \/ /\ Object.size > 0 /\ busy # "send" /\ (acked \/ Object.forced)
          /\ Update([Object EXCEPT !.size = @ - 1, !.txBuffer = @ - 1])
          /\ Leave(IF Object.size > 1 THEN "write" ELSE "bus_silent", "send")
          /\ UNCHANGED <<current, received, mishaps>>
       \/ Object.size > 0 /\ busy = "send" /\ Leave("write", "none") /\ Same
       \/ /\ Object.size = 0 \/ (busy # "send" /\ ~acked /\ ~Object.forced)
          /\ Leave("stop", "stop") /\ Same

\* Fault: the operation is not turned into a read
SilentKeepsOperation ==
    /\ Enter("bus_silent")
    /\ \/ ~acked /\ busy = "send" /\ Leave("bus_silent", "none") /\ Same
       \/ /\ acked \/ busy # "send"
          /\ Object.op = "write_read"
          /\ Update([Object EXCEPT !.size = Object.rsize])
          /\ Leave("send_read_address", "restart")
          /\ UNCHANGED <<current, received, mishaps>>
       \/ (acked \/ busy # "send") /\ Object.op # "write_read" /\ Leave("stop", "stop") /\ Same

\* Fault: the transfer is reported before the bus has stopped
SilentReports ==
    /\ Enter("bus_silent")
    /\ \/ ~acked /\ busy = "send" /\ Leave("bus_silent", "none") /\ Same
       \/ /\ acked \/ busy # "send"
          /\ Object.op = "write_read"
          /\ Update([Object EXCEPT !.size = Object.rsize, !.op = "read"])
          /\ Leave("send_read_address", "restart")
          /\ UNCHANGED <<current, received, mishaps>>
       \/ /\ acked \/ busy # "send"
          /\ Object.op # "write_read"
          /\ Update([Object EXCEPT !.status = "complete"])
          /\ Leave("stop", "stop")
          /\ UNCHANGED <<current, received, mishaps>>

\* DRV_I2C_BUS_SILENT: after the last byte, acknowledged or not
BusSilent ==
    /\ Enter("bus_silent")
    /\ \/ ~acked /\ busy = "send" /\ Leave("bus_silent", "none") /\ Same
       \/ /\ acked \/ busy # "send"
          /\ Object.op = "write_read"
          /\ Update([Object EXCEPT !.size = Object.rsize, !.op = "read"])
          /\ Leave("send_read_address", "restart")
          /\ UNCHANGED <<current, received, mishaps>>
       \/ (acked \/ busy # "send") /\ Object.op # "write_read" /\ Leave("stop", "stop") /\ Same

\* DRV_I2C_TASK_SET_RCEN_ONLY
ClockByte ==
    /\ Enter("clock_byte")
    /\ \/ busy \notin {"send", "ack"} /\ acked /\ Leave("read", "receive")
       \/ busy # "send" /\ ~acked /\ Leave("stop", "stop")
       \/ (busy = "send" \/ (busy = "ack" /\ acked)) /\ Leave("clock_byte", "none")
    /\ Same

\* Fault: an aborted transfer is reported as complete
StopReportsComplete ==
    /\ Enter("stop")
    /\ \/ /\ detected = "stop"
          /\ Update([Object EXCEPT !.status = "complete"])
          /\ Leave("send_address", "none")
          /\ UNCHANGED <<current, received, mishaps>>
       \/ detected # "stop" /\ Leave("stop", "none") /\ Same

\* DRV_I2C_TASK_PROCESS_STOP: what is left to transfer decides the outcome
ProcessStop ==
    /\ Enter("stop")
    /\ \/ /\ detected = "stop"
          /\ Update([Object EXCEPT !.status = IF Object.size > 0 THEN "error" ELSE "complete"])
          /\ Leave("send_address", "none")
          /\ UNCHANGED <<current, received, mishaps>>
       \/ detected # "stop" /\ Leave("stop", "none") /\ Same

-----------------------------------------------------------------------------
(* The rest of DRV_I2C0_Tasks: the interrupt flags are cleared, a finished *)
(* object leaves the queue, and the next one is started                    *)

\* Fault: the next transfer waits for the next call of a client
TailLeavesNext ==
    /\ inTail /\ current # NoBuffer
    /\ inTail' = FALSE /\ flag' = FALSE
    /\ queueOut' = IF Object.status \in Final THEN After(queueOut) ELSE queueOut
    /\ UNCHANGED <<queueIn, buffers, i2cState, current, busy, detected, acked, received, call,
                   clientVars, mishaps>>

\* A routine without an object has been stopped by the exception
Tail ==
    /\ inTail /\ current # NoBuffer
    /\ inTail' = FALSE /\ flag' = FALSE
    /\ \/ /\ Object.status \in Final
          /\ queueOut' = After(queueOut)
          /\ \/ After(queueOut) = queueIn /\ UNCHANGED <<i2cState, busy>>
             \/ /\ After(queueOut) # queueIn
                /\ i2cState' = "send_address" /\ busy' = Give(busy, "start")
       \/ Object.status \notin Final /\ UNCHANGED <<queueOut, i2cState, busy>>
    /\ UNCHANGED <<queueIn, buffers, current, detected, acked, received, call, clientVars,
                   mishaps>>

DRV_I2C0_Tasks ==
    \/ SendDeviceAddress \/ SendDeviceAddressByte2 \/ SendRandomReadAddress
    \/ ProcessRead \/ ProcessWrite \/ BusSilent \/ ClockByte \/ ProcessStop

-----------------------------------------------------------------------------
(* The bus.  Bound: one event is lost or one command disturbed, and no     *)
(* request has been too long                                               *)

\* A command is carried out.  Its interrupt is cleared unseen if the routine that
\* gave it has not cleared the flag yet
BusEvent ==
    /\ busy # "none"
    /\ inTail => mishaps = {}
    /\ busy' = "none" /\ flag' = TRUE
    /\ detected' = CASE busy \in {"start", "restart"} -> "start"
                     [] busy = "stop" -> "stop"
                     [] OTHER -> detected
    /\ acked' \in IF busy = "send" THEN BOOLEAN ELSE {acked}
    /\ received' = (received \/ busy = "receive")
    /\ mishaps' = mishaps \cup (IF inTail THEN {"lost_event"} ELSE {})
    /\ UNCHANGED <<queueIn, queueOut, buffers, i2cState, current, call, inTail, clientVars>>

\* A disturbed line: the peripheral drops the command and raises the error
\* interrupt
Collision ==
    /\ busy # "none" /\ mishaps = {}
    /\ busy' = "none" /\ flag' = TRUE
    /\ mishaps' = mishaps \cup {"collision"} \cup (IF inTail THEN {"lost_event"} ELSE {})
    /\ UNCHANGED <<queueIn, queueOut, buffers, i2cState, current, detected, acked, received,
                   call, inTail, clientVars>>

-----------------------------------------------------------------------------
Enqueue == Fill \/ LookAtBus \/ StartIfQuiet

\* Bound: what follows after the driver worked on the wrong object is not looked at
Derailed == mishaps \cap {"unfilled_object", "late_start", "null_object"} # {}

I2cNext ==
    /\ ~Derailed
    /\ SlotGet \/ Enqueue \/ TransferStatusGet \/ DRV_I2C0_Tasks \/ Tail \/ BusEvent \/ Collision

I2cSpec == I2cInit /\ [][I2cNext]_i2cVars

\* An interrupt is served, the routine and the call it interrupts go on, a command ends, a
\* client that waits asks again and again
FairI2cSpec ==
    /\ I2cSpec
    /\ WF_i2cVars(DRV_I2C0_Tasks) /\ WF_i2cVars(Tail) /\ WF_i2cVars(BusEvent)
    /\ SF_i2cVars(Enqueue) /\ SF_i2cVars(TransferStatusGet)
=============================================================================
