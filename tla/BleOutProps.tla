----------------------------- MODULE BleOutProps -----------------------------
(***************************************************************************)
(* What the sender of BleApp must guarantee, and what the README says.     *)
(***************************************************************************)
EXTENDS BleOut

OutTypeOK ==
    /\ msgs \in Seq([id : 1 .. PostMax, dst : BOOLEAN]) /\ Len(msgs) <= QueueMax
    /\ out_queue \in [1 .. Slots -> [buff : 0 .. PostMax, handler : -1 .. PostMax]]
    /\ driver \in Seq([handle : 1 .. PostMax, id : 1 .. PostMax]) /\ Len(driver) <= DriverMax
    /\ claimed \in 0 .. Slots
    /\ handles \in 0 .. PostMax /\ posted \in 0 .. PostMax
    /\ heap \subseteq 1 .. PostMax /\ sentOut \in 0 .. PostMax
    /\ fate \in [1 .. PostMax ->
            {"none", "refused", "discarded", "forgotten", "sent", "failed"}]

\* A copy is not freed or reused while the UART still transmits it: each queued
\* write has a slot of its own that holds the copy under the write's handle,
\* although slots keep the handles of earlier writes (bleOutgoingCallback,
\* hm10EventHandler).
CopyAlive ==
    \A k \in 1 .. Len(driver) :
        /\ \E i \in 1 .. Slots :
              out_queue[i] = [buff |-> driver[k].id, handler |-> driver[k].handle]
        /\ \A m \in 1 .. Len(driver) : driver[k].handle = driver[m].handle => k = m

\* The driver never refuses a write, because it queues as many as there are
\* slots: no slot is occupied without a write that will release it.
SlotsReturn ==
    \A i \in 1 .. Slots \ {claimed} :
        ~Free(i) => \E k \in 1 .. Len(driver) : driver[k].handle = out_queue[i].handler

\* The only packets nobody will free are those a full queue refused and those
\* that found no free slot (SendPacketToBle, bleOutgoingCallback).
LeaksKnown ==
    \A n \in heap :
        \/ fate[n] \in {"refused", "forgotten"}
        \/ \E k \in 1 .. Len(msgs) : msgs[k].id = n
        \/ claimed # 0 /\ out_queue[claimed].buff = n

\* BleOut implements OutChannel: until BleApp is restarted, packets are transmitted
\* in the order they were posted, each at most once, whichever slots they pass
\* through.  After a restart a second mailbox is open (bleapp.c:272) and the claim
\* is false: each packet is copied and transmitted once for every mailbox.
Ids(s) == [k \in 1 .. Len(s) |-> s[k].id]
Copied == IF claimed = 0 THEN <<>> ELSE <<out_queue[claimed].buff>>
Channel == INSTANCE OutChannel WITH waiting <- Ids(driver) \o Copied \o Ids(msgs)
ImplementsChannel == Channel!Spec

\* Every posted packet meets its fate in the end: it does not sit in a slot or
\* in the queue for ever, errors on the line included.
EveryPacketSettled == \A n \in 1 .. PostMax : posted >= n ~> fate[n] # "none"
=============================================================================
