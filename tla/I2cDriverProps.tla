--------------------------- MODULE I2cDriverProps ---------------------------
(***************************************************************************)
(* Properties of the I2C driver.                                           *)
(***************************************************************************)
EXTENDS I2cDriver

Buffer == [op : {"write", "read", "write_read"}, forced : BOOLEAN, long : BOOLEAN,
           size : Nat, rsize : Nat,
           status : Final \cup {"pending", "write_requested", "read_requested"},
           txBuffer : Int, rxBuffer : Int, transfer : Nat]

States == {"send_address", "send_address_2", "send_read_address", "read", "write",
           "bus_silent", "clock_byte", "stop"}

I2cTypeOK ==
    /\ queueIn \in Index /\ queueOut \in Index
    /\ buffers \in [Index -> Buffer]
    /\ i2cState \in States /\ current \in Index \cup {NoBuffer}
    /\ busy \in Commands \cup {"none"} /\ detected \in {"none", "start", "stop"}
    /\ acked \in BOOLEAN /\ received \in BOOLEAN /\ flag \in BOOLEAN
    /\ call \in {NoCall} \cup [step : {"fill", "look_at_bus", "look_at_flag"}, buffer : Index]
    /\ inTail \in BOOLEAN
    /\ asked \in 0 .. TransferMax /\ handles \in SUBSET (Nat \X Index) /\ shared \in BOOLEAN
    /\ mishaps \subseteq {"oversized", "lost_event", "unfilled_object", "late_start", "null_object",
                    "collision"}

\* The object is being written by the main loop
Unfilled(i) == call.step = "fill" /\ call.buffer = i

\* A client that is alone and waits for the end of its transfer before it asks for
\* another one (powerapp.c) is safe from the driver's races: the routine never takes an
\* object that is not filled yet, no start is given while the bus works, and the handle
\* the client asks about is still its own transfer.
AloneIsSafe ==
    ~shared => /\ mishaps \cap {"unfilled_object", "late_start"} = {}
               /\ \A h \in handles : Unfilled(h[2]) \/ buffers[h[2]].transfer = h[1]

\* A final status tells the truth when nothing went wrong: a transfer is complete exactly when
\* every byte has been sent and received (drv_i2c_static_buffer_model.c:758).  To go wrong
\* includes a request of more than 255 bytes: its counts are cut to eight bits, so that a write
\* of 256 ends COMPLETE with nothing sent and a read of 256 never ends.
StatusTellsOutcome ==
    mishaps = {} => \A i \in Index : ~Unfilled(i) =>
        LET b == buffers[i] IN
        /\ b.status = "complete" => b.txBuffer = 0 /\ b.rxBuffer = 0
        /\ b.status = "error" => b.txBuffer + b.rxBuffer > 0

\* The routine never moves a buffer pointer past what the client handed over, lost
\* interrupts, collisions and counts cut to eight bits included, as long as it took filled
\* objects only.
WithinBuffers ==
    mishaps \cap {"unfilled_object", "late_start"} = {} =>
        \A i \in Index : buffers[i].txBuffer >= 0 /\ buffers[i].rxBuffer >= 0

\* Every transfer that got an object is finished and its client sees it, as long as nothing at
\* all goes wrong: no event is lost, the line is not disturbed, no request is longer than 255
\* bytes, and neither race of the driver itself is met - an object taken before it is filled, a
\* start given into another transfer - which only clients that are alone are safe from
\* (AloneIsSafe).  Nothing polls, so each command's interrupt has to start the next one, the
\* next transfer included.
TransfersEnd == [](mishaps = {}) => (handles # {} ~> handles = {})
=============================================================================
