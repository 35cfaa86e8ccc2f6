------------------------------- MODULE BleOut -------------------------------
(***************************************************************************)
(* The sending half of BleApp: SendPacketToBle (mailbox.c) puts a packet   *)
(* in the message queue, bleOutgoingCallback copies it into a free slot of *)
(* out_queue and hands the copy to the UART driver, hm10EventHandler frees *)
(* the copy, from the UART interrupt, when it has been transmitted.        *)
(*                                                                         *)
(* This is the sender from the start until BleApp is restarted: one        *)
(* outgoing mailbox is open.  Every restart opens another one              *)
(* (bleapp.c:272), whose callback copies and sends each message once more; *)
(* those, and the packets freed twice, are in module Packets.              *)
(*                                                                         *)
(* A packet is [id, dst]: its number and whether it has a destination.     *)
(* The UART driver transmits its queue in order; handles are given in      *)
(* increasing order and the bound PostMax keeps them from wrapping.        *)
(***************************************************************************)
EXTENDS Integers, Sequences

CONSTANTS
    QueueMax,    \* messages SYS_MSG holds (64)
    Slots,       \* MAX_BLE_OUT_QUEUE (10)
    DriverMax,   \* DRV_USART_XMIT_QUEUE_SIZE_IDX0 (10)
    PostMax,     \* bound: packets posted
    LineFails    \* TRUE: a transmission may end in an error

ASSUME OutBoundsAssumption ==
    /\ QueueMax \in Nat \ {0} /\ PostMax \in Nat \ {0}
    /\ Slots \in Nat \ {0} /\ DriverMax \in Nat /\ DriverMax >= Slots
    /\ LineFails \in BOOLEAN

DRV_USART_BUFFER_HANDLE_INVALID == -1
NULL == 0

VARIABLES
    msgs,       \* the message queue
    out_queue,  \* [buff, handler] of each slot; buff: number of the packet copied
    claimed,    \* slot bleOutgoingCallback has put its copy in, not yet queued, or 0
    driver,     \* the driver's write queue: [handle, id]
    handles,    \* handles given so far
    posted,     \* packets posted so far
    heap,       \* packets allocated and not freed
    sentOut,    \* number of the last packet transmitted
    fate        \* what became of each packet

outVars == <<msgs, out_queue, claimed, driver, handles, posted, heap, sentOut, fate>>

OutInit ==
    /\ msgs = <<>> /\ driver = <<>>
    /\ out_queue = [i \in 1 .. Slots |-> [buff |-> NULL, handler |-> NULL]]
    /\ claimed = 0 /\ handles = 0 /\ posted = 0 /\ heap = {} /\ sentOut = 0
    /\ fate = [n \in 1 .. PostMax |-> "none"]

-----------------------------------------------------------------------------
\* SendPacketToBle with a packet just created.  If the queue is full it is only
\* logged: the packet stays allocated.
SendPacketToBle(dst) ==
    /\ posted < PostMax
    /\ posted' = posted + 1
    /\ heap' = heap \cup {posted + 1}
    /\ \/ /\ Len(msgs) < QueueMax
          /\ msgs' = Append(msgs, [id |-> posted + 1, dst |-> dst])
          /\ UNCHANGED fate
       \/ /\ Len(msgs) >= QueueMax
          /\ fate' = [fate EXCEPT ![posted + 1] = "refused"]
          /\ UNCHANGED msgs
    /\ UNCHANGED <<out_queue, claimed, driver, handles, sentOut>>

Free(i) == out_queue[i].buff = NULL

\* Fault: the slot is chosen by number alone
FreeSlotsAny == 1 .. Slots

FreeSlots == {i \in 1 .. Slots : Free(i)}

LowestOf(S) == CHOOSE i \in S : \A j \in S : i <= j

\* Fault: a packet that finds no free slot goes back to the end of the queue
CallbackRequeues ==
    /\ msgs # <<>> /\ claimed = 0
    /\ LET p == Head(msgs) IN
         \/ /\ FreeSlots # {}
            /\ claimed' = LowestOf(FreeSlots)
            /\ out_queue' = [out_queue EXCEPT ![claimed'].buff = p.id]
            /\ msgs' = Tail(msgs)
         \/ /\ FreeSlots = {}
            /\ msgs' = Append(Tail(msgs), p)
            /\ UNCHANGED <<out_queue, claimed>>
    /\ UNCHANGED <<heap, posted, sentOut, fate, driver, handles>>

\* bleOutgoingCallback of the only mailbox, from SYS_MSG_Tasks, for the first message: without a
\* destination it is discarded, without a free slot forgotten (not freed).
\* Otherwise it is copied into the first free slot.
bleOutgoingCallback ==
    /\ msgs # <<>> /\ claimed = 0
    /\ msgs' = Tail(msgs)
    /\ LET p == Head(msgs) IN
         \/ /\ ~p.dst
            /\ heap' = heap \ {p.id}
            /\ fate' = [fate EXCEPT ![p.id] = "discarded"]
            /\ UNCHANGED <<out_queue, claimed>>
         \/ /\ p.dst /\ FreeSlots # {}
            /\ claimed' = LowestOf(FreeSlots)
            /\ out_queue' = [out_queue EXCEPT ![claimed'].buff = p.id]
            /\ UNCHANGED <<heap, fate>>
         \/ /\ p.dst /\ FreeSlots = {}
            /\ fate' = [fate EXCEPT ![p.id] = "forgotten"]
            /\ UNCHANGED <<heap, out_queue, claimed>>
    /\ UNCHANGED <<posted, sentOut, driver, handles>>

\* Fault: the driver holds one write less than there are slots
AddWriteOneLess ==
    /\ claimed # 0
    /\ LET id == out_queue[claimed].buff IN
         /\ heap' = heap \ {id}
         /\ \/ /\ Len(driver) < DriverMax - 1
               /\ handles' = handles + 1
               /\ driver' = Append(driver, [handle |-> handles + 1, id |-> id])
               /\ out_queue' = [out_queue EXCEPT ![claimed].handler = handles + 1]
            \/ /\ Len(driver) >= DriverMax - 1
               /\ out_queue' = [out_queue EXCEPT
                      ![claimed].handler = DRV_USART_BUFFER_HANDLE_INVALID]
               /\ UNCHANGED <<handles, driver>>
    /\ claimed' = 0
    /\ UNCHANGED <<msgs, posted, sentOut, fate>>

\* The rest of bleOutgoingCallback: DRV_USART_BufferAddWrite, which may refuse;
\* the packet is freed in any case.  The UART interrupt can come in between.
AddWrite ==
    /\ claimed # 0
    /\ LET id == out_queue[claimed].buff IN
         /\ heap' = heap \ {id}
         /\ \/ /\ Len(driver) < DriverMax
               /\ handles' = handles + 1
               /\ driver' = Append(driver, [handle |-> handles + 1, id |-> id])
               /\ out_queue' = [out_queue EXCEPT ![claimed].handler = handles + 1]
            \/ /\ Len(driver) >= DriverMax
               /\ out_queue' = [out_queue EXCEPT
                      ![claimed].handler = DRV_USART_BUFFER_HANDLE_INVALID]
               /\ UNCHANGED <<handles, driver>>
    /\ claimed' = 0
    /\ UNCHANGED <<msgs, posted, sentOut, fate>>

\* Fault: the slot is released only when the transmission succeeded
HandlerOnSuccess(handle, result) ==
    LET hit == {i \in 1 .. Slots : out_queue[i].handler = handle} IN
    \/ /\ hit # {} /\ result = "sent"
       /\ out_queue' = [out_queue EXCEPT
              ![LowestOf(hit)].buff = NULL]
    \/ /\ hit = {} \/ result # "sent"
       /\ UNCHANGED out_queue

\* hm10EventHandler: the first slot with this handle loses its buffer, whatever
\* the event is; the handle stays in the slot
hm10EventHandler(handle, result) ==
    LET hit == {i \in 1 .. Slots : out_queue[i].handler = handle} IN
    \/ /\ hit # {}
       /\ out_queue' = [out_queue EXCEPT
              ![LowestOf(hit)].buff = NULL]
    \/ /\ hit = {}
       /\ UNCHANGED out_queue

\* The UART interrupt at the end of a transmission
Transmitted ==
    /\ driver # <<>>
    /\ driver' = Tail(driver)
    /\ \E result \in {"sent"} \cup (IF LineFails THEN {"failed"} ELSE {}) :
         /\ hm10EventHandler(Head(driver).handle, result)
         /\ fate' = [fate EXCEPT ![Head(driver).id] = result]
         /\ sentOut' = IF result = "sent" THEN Head(driver).id ELSE sentOut
    /\ UNCHANGED <<msgs, claimed, handles, posted, heap>>

-----------------------------------------------------------------------------
OutNext == (\E dst \in BOOLEAN : SendPacketToBle(dst)) \/ bleOutgoingCallback \/ AddWrite \/ Transmitted

OutSpec == OutInit /\ [][OutNext]_outVars

\* SYS_MSG_Tasks delivers again and again, the UART transmits
FairOutSpec ==
    /\ OutSpec
    /\ WF_outVars(bleOutgoingCallback) /\ WF_outVars(AddWrite) /\ WF_outVars(Transmitted)
=============================================================================
