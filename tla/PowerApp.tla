------------------------------ MODULE PowerApp ------------------------------
(***************************************************************************)
(* The battery gauge application (powerapp.c): a table of requests, of     *)
(* which the lowest pending one is served over the I2C bus, and the        *)
(* callback that answers the client.                                       *)
(*                                                                         *)
(* Requests are numbered in the order they are made; a slot keeps the      *)
(* number of its last request when it becomes free, as the structure keeps *)
(* its callback and user data.  A bus transfer is abstracted to its        *)
(* outcome (DRV_I2C_TransmitThenReceive, DRV_I2C_TransferStatusGet).       *)
(***************************************************************************)
EXTENDS Integers, FiniteSets

CONSTANTS
    MaxBqRequests,  \* MAX_BQ_REQUESTS (10)
    ReqMax,         \* bound: requests made
    BusOutcomes     \* what a transfer can come to

ASSUME PowerBoundsAssumption == MaxBqRequests \in Nat \ {0} /\ ReqMax \in Nat \ {0}
ASSUME BusOutcomesAssumption ==
    "complete" \in BusOutcomes /\ BusOutcomes \subseteq {"complete", "error", "refused"}

Slot == 1 .. MaxBqRequests
NoSlot == 0

VARIABLES
    \* POWERAPP_DATA
    state,      \* POWERAPP_STATES
    current,    \* currentRequest: its slot or NoSlot
    pending,    \* requests[].status is REQ_PENDING
    request,    \* number of the last request put in each slot
    \* the bus
    transfer,   \* transfer of the current request
    \* history
    made,       \* requests made so far
    accepted,   \* those that found a slot
    answers     \* callbacks each request got: "data" or "null", at most 2 kept

poVars == <<state, current, pending, request, transfer, made, accepted, answers>>

States == {"init", "idle", "get_data", "wait", "error"}

PoInit ==
    /\ state = "init" /\ current = NoSlot
    /\ pending = [s \in Slot |-> FALSE] /\ request = [s \in Slot |-> 0]
    /\ transfer = "none"
    /\ made = 0 /\ accepted = {} /\ answers = [n \in 0 .. ReqMax |-> {}]

LowestSlot(S) == CHOOSE s \in S : \A t \in S : s <= t

\* Fault: the slot being served counts as free
FreeOrCurrent == {s \in Slot : ~pending[s] \/ s = current}

\* getFreeRequest, getNextRequest
FreeRequests    == {s \in Slot : ~pending[s]}

\* Fault: the last slot is not looked at
PendingButLast == {s \in Slot : pending[s] /\ s < MaxBqRequests}

PendingRequests == {s \in Slot : pending[s]}

-----------------------------------------------------------------------------
\* BQ27441_GetData, from the handler of a received packet: false, which nobody
\* looks at, when the table is full
BQ27441_GetData ==
    /\ made < ReqMax
    /\ made' = made + 1
    /\ \/ /\ FreeRequests # {}
          /\ LET s == LowestSlot(FreeRequests) IN
               /\ pending' = [pending EXCEPT ![s] = TRUE]
               /\ request' = [request EXCEPT ![s] = made + 1]
          /\ accepted' = accepted \cup {made + 1}
       \/ /\ FreeRequests = {}
          /\ UNCHANGED <<pending, request, accepted>>
    /\ UNCHANGED <<state, current, transfer, answers>>

\* The callback of the current request.  A first callback is kept as <<1, kind>>,
\* later ones as <<2, kind>>.
Answer(kind) ==
    LET n == request[current] IN
    answers' = [answers EXCEPT ![n] = @ \cup {<<IF @ = {} THEN 1 ELSE 2, kind>>}]

\* POWERAPP_STATE_INIT
Open ==
    /\ state = "init"
    /\ state' = "idle"
    /\ UNCHANGED <<current, pending, request, transfer, made, accepted, answers>>

\* POWERAPP_STATE_IDLE
PickRequest ==
    /\ state = "idle"
    /\ \/ /\ PendingRequests # {}
          /\ current' = LowestSlot(PendingRequests) /\ state' = "get_data"
       \/ /\ PendingRequests = {}
          /\ current' = NoSlot /\ UNCHANGED state
    /\ UNCHANGED <<pending, request, transfer, made, accepted, answers>>

\* POWERAPP_STATE_GET_DATA
StartTransfer ==
    /\ state = "get_data"
    /\ \/ transfer' = "running" /\ state' = "wait"
       \/ "refused" \in BusOutcomes /\ state' = "error" /\ UNCHANGED transfer
    /\ UNCHANGED <<current, pending, request, made, accepted, answers>>

\* The I2C driver's interrupt ends the transfer
BusDone ==
    /\ transfer = "running"
    /\ transfer' \in BusOutcomes \ {"refused"}
    /\ UNCHANGED <<state, current, pending, request, made, accepted, answers>>

\* Fault: the request is served again
WaitKeepsPending ==
    /\ state = "wait" /\ transfer = "complete"
    /\ Answer("data")
    /\ state' = "idle" /\ transfer' = "none"
    /\ UNCHANGED <<current, pending, request, made, accepted>>

\* POWERAPP_STATE_WAIT: the answer, or the error state; nothing while it runs
Wait ==
    /\ state = "wait"
    /\ \/ /\ transfer = "complete"
          /\ Answer("data")
          /\ pending' = [pending EXCEPT ![current] = FALSE]
          /\ state' = "idle"
       \/ /\ transfer = "error"
          /\ state' = "error"
          /\ UNCHANGED <<answers, pending>>
    /\ transfer' = "none"
    /\ UNCHANGED <<current, request, made, accepted>>

\* Fault: nobody is told
ErrorSilent ==
    /\ state = "error"
    /\ pending' = [pending EXCEPT ![current] = FALSE]
    /\ UNCHANGED <<state, current, request, transfer, made, accepted, answers>>

\* Fault: the client of every slot is told, whether its request is pending or not
ErrorTellsAll ==
    /\ state = "error"
    /\ answers' = [n \in 0 .. ReqMax |->
         IF n \in {request[s] : s \in Slot}
         THEN answers[n] \cup {<<IF answers[n] = {} THEN 1 ELSE 2, "null">>} ELSE answers[n]]
    /\ pending' = [pending EXCEPT ![current] = FALSE]
    /\ UNCHANGED <<state, current, request, transfer, made, accepted>>

\* POWERAPP_STATE_ERROR, which is never left: at every pass the client of the
\* current slot, whoever that is by now, is answered with NULL
Error ==
    /\ state = "error"
    /\ Answer("null")
    /\ pending' = [pending EXCEPT ![current] = FALSE]
    /\ UNCHANGED <<state, current, request, transfer, made, accepted>>

-----------------------------------------------------------------------------
POWERAPP_Tasks == Open \/ PickRequest \/ StartTransfer \/ Wait \/ Error

PoNext == BQ27441_GetData \/ BusDone \/ POWERAPP_Tasks

PoSpec == PoInit /\ [][PoNext]_poVars

\* The main loop calls POWERAPP_Tasks again and again; a transfer ends.
FairPoSpec == PoSpec /\ WF_poVars(POWERAPP_Tasks) /\ WF_poVars(BusDone)
=============================================================================
