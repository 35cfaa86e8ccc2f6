---------------------------- MODULE BleOutProofs ----------------------------
(***************************************************************************)
(* BleOut: type correctness, CopyAlive, SlotsReturn and LeaksKnown, and    *)
(* that it implements OutChannel, for any number of packets and slots and  *)
(* any length of the queues.                                               *)
(***************************************************************************)
EXTENDS BleOutProps, WellFoundedInduction, FiniteSetTheorems, SequenceTheorems, TLAPS

Message == [id : 1 .. PostMax, dst : BOOLEAN]
Write == [handle : 1 .. PostMax, id : 1 .. PostMax]

\* Packets and handles are numbered as they are made: nothing bears a number still to come.
\* No handle is given but for a packet that has been posted.
Numbered ==
    /\ handles + (IF claimed = 0 THEN 0 ELSE 1) + Len(msgs) <= posted
    /\ \A k \in 1 .. Len(msgs) : msgs[k].id <= posted
    /\ \A k \in 1 .. Len(driver) : driver[k].id <= posted /\ driver[k].handle <= handles
    /\ \A i \in 1 .. Slots : out_queue[i].buff <= posted /\ out_queue[i].handler <= handles
    /\ \A n \in heap : n <= posted

\* A packet handed to the driver has been freed.
WrittenIsFree == \A k \in 1 .. Len(driver) : driver[k].id \notin heap

\* No two writes and no two slots have the same handle.
OneHandle ==
    /\ \A k, m \in 1 .. Len(driver) : driver[k].handle = driver[m].handle => k = m
    /\ \A i, j \in 1 .. Slots :
          out_queue[i].handler = out_queue[j].handler /\ out_queue[i].handler > 0 => i = j

\* Every write has a slot, which is not the one being filled.
Paired ==
    /\ \A k \in 1 .. Len(driver) : \E i \in 1 .. Slots :
          /\ i # claimed
          /\ out_queue[i].buff = driver[k].id /\ out_queue[i].handler = driver[k].handle
    /\ claimed # 0 => ~Free(claimed)

OutInv ==
    /\ OutTypeOK /\ Numbered /\ WrittenIsFree /\ OneHandle /\ Paired /\ SlotsReturn /\ LeaksKnown

-----------------------------------------------------------------------------
\* A non-empty set of numbers has a lowest one: the search for the first suitable slot finds one
\* if there is one.
LEMMA LowestExists ==
    ASSUME NEW S, S \subseteq Nat, S # {}
    PROVE  \E s \in S : \A t \in S : s <= t
<1>1. PICK s \in S : \A t \in S : ~ (<<t, s>> \in OpToRel(<, Nat))
  BY NatLessThanWellFounded, WFMin
<1>2. \A t \in S : <<t, s>> \in OpToRel(<, Nat) <=> t < s
  BY DEF OpToRel
<1>3. ASSUME NEW t \in S PROVE s <= t
  <2>1. ~ (t < s)
    BY <1>1, <1>2
  <2>2. s \in Nat /\ t \in Nat
    OBVIOUS
  <2> QED
    BY <2>1, <2>2
<1> QED
  BY <1>3

\* The first slot of those that suit is one of them.
LEMMA LowestOfIn ==
    ASSUME NEW S \in SUBSET (1 .. Slots), S # {}
    PROVE  LowestOf(S) \in S
<1>1. S \subseteq Nat
  BY OutBoundsAssumption
<1>2. \E s \in S : \A t \in S : s <= t
  BY <1>1, LowestExists
<1> QED
  BY <1>2 DEF LowestOf

\* The queues, as the steps change them.
LEMMA Queues ==
    ASSUME OutTypeOK
    PROVE  /\ msgs \in Seq(Message) /\ driver \in Seq(Write)
           /\ Len(msgs) \in Nat /\ Len(driver) \in Nat
           /\ \A k \in 1 .. Len(msgs) : msgs[k] \in Message
           /\ \A k \in 1 .. Len(driver) : driver[k] \in Write
BY LenProperties, ElementOfSeq DEF OutTypeOK, Message, Write

\* While a slot is being filled the driver has room: its writes are in other slots, and it queues
\* as many as there are slots.
LEMMA Room ==
    ASSUME OutInv, claimed # 0
    PROVE  Len(driver) < DriverMax
<1> DEFINE Holds(k, i) == /\ i # claimed
                          /\ out_queue[i].buff = driver[k].id
                          /\ out_queue[i].handler = driver[k].handle
           K == 1 .. Len(driver)
           S == (1 .. Slots) \ {claimed}
           f == [k \in K |-> CHOOSE i \in 1 .. Slots : Holds(k, i)]
<1>1. Len(driver) \in Nat /\ claimed \in 1 .. Slots
  BY Queues, OutBoundsAssumption DEF OutInv, OutTypeOK
<1>2. \A k \in K : f[k] \in 1 .. Slots /\ Holds(k, f[k])
  BY DEF OutInv, Paired
<1>3. f \in [K -> S]
  BY <1>2
<1>4. \A k, m \in K : f[k] = f[m] => k = m
  BY <1>2 DEF OutInv, OneHandle
<1>5. f \in Injection(K, S)
  <2> HIDE DEF f, K, S
  <2> QED
    BY <1>3, <1>4 DEF Injection, IsInjective
<1>6. IsFiniteSet(1 .. Slots) /\ Cardinality(1 .. Slots) = Slots
  BY FS_Interval, OutBoundsAssumption
<1>7. IsFiniteSet(S) /\ Cardinality(S) = Slots - 1
  BY <1>1, <1>6, FS_RemoveElement
<1>8. Cardinality(K) = Len(driver)
  <2> DEFINE n == Len(driver)
  <2>1. n \in Nat /\ n \in Int /\ 1 \in Int /\ K = 1 .. n
    BY <1>1
  <2> HIDE DEF n, f, K, S
  <2>2. Cardinality(1 .. n) = IF 1 > n THEN 0 ELSE n - 1 + 1
    BY <2>1, FS_Interval
  <2>3. Cardinality(K) = n
    BY <2>1, <2>2
  <2> QED
    BY <2>3 DEF n
<1>9. Cardinality(K) <= Cardinality(S)
  <2> HIDE DEF f, K, S
  <2> QED
    BY <1>5, <1>7, FS_Injection
<1> QED
  BY <1>1, <1>7, <1>8, <1>9, OutBoundsAssumption

\* What is true at the start.
LEMMA OutInitInv == OutInit => OutInv
<1> SUFFICES ASSUME OutInit PROVE OutInv
  OBVIOUS
<1> USE OutBoundsAssumption DEF OutInit, NULL
<1>1. 0 \in 0 .. PostMax /\ 0 \in -1 .. PostMax /\ 0 \in 0 .. Slots
  OBVIOUS
<1>2. Len(msgs) = 0 /\ Len(driver) = 0 /\ msgs \in Seq(Message) /\ driver \in Seq(Write)
  BY EmptySeq
<1>3. OutTypeOK
  BY <1>1, <1>2 DEF OutTypeOK, Message, Write
<1>4. Numbered /\ WrittenIsFree /\ OneHandle /\ Paired /\ SlotsReturn /\ LeaksKnown
  BY <1>2 DEF Numbered, WrittenIsFree, OneHandle, Paired, SlotsReturn, LeaksKnown, Free
<1> QED
  BY <1>3, <1>4 DEF OutInv

\* A new packet is queued, or stays allocated and is known as refused.
LEMMA PostKeeps ==
    ASSUME OutInv, NEW dst \in BOOLEAN, SendPacketToBle(dst)
    PROVE  OutInv'
<1> DEFINE n == posted + 1
<1> USE DEF OutInv
<1>1. /\ posted \in 0 .. PostMax /\ posted < PostMax /\ posted' = n /\ n \in 1 .. PostMax
      /\ heap' = heap \cup {n} /\ UNCHANGED <<out_queue, claimed, driver, handles, sentOut>>
  BY OutBoundsAssumption DEF SendPacketToBle, OutTypeOK
<1> HIDE DEF n
<1>2. n > posted /\ n = posted + 1
  BY <1>1 DEF n
<1>3. /\ Len(msgs) \in Nat /\ Len(driver) \in Nat /\ \A k \in 1 .. Len(msgs) : msgs[k] \in Message
      /\ \A k \in 1 .. Len(driver) : driver[k] \in Write
  BY Queues
<1>4. /\ WrittenIsFree' /\ OneHandle' /\ Paired' /\ SlotsReturn'
  <2>1. WrittenIsFree'
    BY <1>1, <1>2, <1>3 DEF WrittenIsFree, Numbered, Write
  <2>2. OneHandle' /\ Paired' /\ SlotsReturn'
    BY <1>1 DEF OneHandle, Paired, SlotsReturn, Free
  <2> QED
    BY <2>1, <2>2
<1>5. /\ \A k \in 1 .. Len(driver) : driver[k].id <= posted'
      /\ \A i \in 1 .. Slots : out_queue[i].buff <= posted'
      /\ \A m \in heap' : m <= posted'
  <2>1. \A k \in 1 .. Len(driver) : driver[k].id <= posted'
    BY <1>1, <1>2, <1>3 DEF Numbered, Write
  <2>2. \A i \in 1 .. Slots : out_queue[i].buff <= posted'
    <3>1. \A i \in 1 .. Slots : out_queue[i].buff \in Int
      BY DEF OutTypeOK
    <3> QED
      BY <1>1, <1>2, <3>1 DEF Numbered
  <2>3. \A m \in heap' : m <= posted'
    BY <1>1, <1>2 DEF Numbered, OutTypeOK
  <2> QED
    BY <2>1, <2>2, <2>3
<1>6. CASE Len(msgs) < QueueMax
  <2> DEFINE p == [id |-> n, dst |-> dst]
  <2>0. p \in Message /\ p.id = n
    BY <1>1 DEF Message
  <2>1. msgs' = Append(msgs, p) /\ UNCHANGED fate
    BY <1>3, <1>6, OutBoundsAssumption DEF SendPacketToBle, n
  <2> HIDE DEF p
  <2>2. /\ msgs' \in Seq(Message) /\ Len(msgs') = Len(msgs) + 1
        /\ \A k \in 1 .. Len(msgs) : msgs'[k] = msgs[k]
        /\ msgs'[Len(msgs) + 1] = p
    BY <2>0, <2>1, Queues, AppendProperties
  <2>3. Len(msgs') <= QueueMax
    BY <1>3, <1>6, <2>2, OutBoundsAssumption
  <2>4. OutTypeOK'
    BY <1>1, <2>1, <2>2, <2>3 DEF OutTypeOK, Message
  <2>5. Numbered'
    <3>1. \A k \in 1 .. Len(msgs') : msgs'[k].id <= posted'
      BY <1>1, <1>2, <1>3, <2>0, <2>1, <2>2 DEF Numbered, Message
    <3>2. handles' + (IF claimed' = 0 THEN 0 ELSE 1) + Len(msgs') <= posted'
      BY <1>1, <1>2, <1>3, <2>2 DEF Numbered, OutTypeOK
    <3> QED
      BY <1>1, <1>5, <3>1, <3>2 DEF Numbered
  <2>6. LeaksKnown'
    <3>1. ASSUME NEW m \in heap' PROVE m \in heap \/ m = n
      BY <1>1, <3>1
    <3>2. Len(msgs) + 1 \in 1 .. Len(msgs') /\ msgs'[Len(msgs) + 1].id = n
      BY <1>3, <2>0, <2>1, <2>2
    <3>3. \A k \in 1 .. Len(msgs) : k \in 1 .. Len(msgs') /\ msgs'[k].id = msgs[k].id
      BY <1>3, <2>2
    <3> QED
      BY <1>1, <2>1, <3>1, <3>2, <3>3 DEF LeaksKnown
  <2> QED
    BY <1>4, <2>4, <2>5, <2>6
<1>7. CASE Len(msgs) >= QueueMax
  <2>1. UNCHANGED msgs /\ fate' = [fate EXCEPT ![n] = "refused"]
    BY <1>1, <1>3, <1>7, OutBoundsAssumption DEF SendPacketToBle, n
  <2>2. OutTypeOK'
    BY <1>1, <2>1 DEF OutTypeOK
  <2>3. Numbered'
    <3>1. /\ \A k \in 1 .. Len(msgs) : msgs[k].id <= posted'
          /\ handles + (IF claimed = 0 THEN 0 ELSE 1) + Len(msgs) <= posted'
      BY <1>1, <1>2, <1>3 DEF Numbered, OutTypeOK, Message
    <3> QED
      BY <1>1, <1>5, <2>1, <3>1 DEF Numbered
  <2>4. LeaksKnown'
    BY <1>1, <2>1 DEF LeaksKnown, OutTypeOK
  <2> QED
    BY <1>4, <2>2, <2>3, <2>4
<1> QED
  BY <1>3, <1>6, <1>7, OutBoundsAssumption

\* A packet leaves the queue: freed, forgotten, or copied into a slot that was free.
LEMMA CallbackKeeps ==
    ASSUME OutInv, bleOutgoingCallback
    PROVE  OutInv'
<1> DEFINE p == Head(msgs)
<1> USE DEF OutInv
<1>1. /\ msgs # <<>> /\ claimed = 0 /\ msgs' = Tail(msgs)
      /\ UNCHANGED <<posted, sentOut, driver, handles>>
  BY DEF bleOutgoingCallback
<1>2. /\ msgs' \in Seq(Message) /\ Len(msgs') = Len(msgs) - 1 /\ Len(msgs) \in Nat
      /\ \A k \in 1 .. Len(msgs') : msgs'[k] = msgs[k + 1]
      /\ p \in Message /\ p = msgs[1] /\ Len(msgs) >= 1
  <2>1. msgs \in Seq(Message) /\ Len(msgs) \in Nat
    BY Queues
  <2>2. Len(msgs) >= 1
    BY <1>1, <2>1, EmptySeq
  <2>3. p = msgs[1]
    BY <2>1, <2>2
  <2> QED
    BY <1>1, <2>1, <2>2, <2>3, HeadTailProperties
<1>3. p.id \in 1 .. PostMax /\ p.id <= posted
  BY <1>2 DEF Message, Numbered
<1>4. ASSUME NEW k \in 1 .. Len(msgs), k # 1
      PROVE  k - 1 \in 1 .. Len(msgs') /\ msgs'[k - 1] = msgs[k]
  <2>1. k - 1 \in 1 .. Len(msgs') /\ (k - 1) + 1 = k
    BY <1>2, <1>4
  <2> QED
    BY <1>2, <2>1
<1>5. /\ \A k \in 1 .. Len(msgs') : msgs'[k].id <= posted
      /\ handles + 1 + Len(msgs') <= posted
  <2>1. \A k \in 1 .. Len(msgs') : k + 1 \in 1 .. Len(msgs)
    BY <1>2
  <2> QED
    BY <1>1, <1>2, <2>1 DEF Numbered, OutTypeOK
<1>6. /\ Len(driver) \in Nat /\ \A k \in 1 .. Len(driver) : driver[k] \in Write
  BY Queues
<1>7. Len(msgs') <= QueueMax
  BY <1>2, OutBoundsAssumption DEF OutTypeOK
<1> HIDE DEF p
<1>8. CASE heap' \subseteq heap /\ UNCHANGED <<out_queue, claimed>>
           /\ \E f \in {"discarded", "forgotten"} : fate' = [fate EXCEPT ![p.id] = f]
           /\ (p.id \in heap' => fate'[p.id] = "forgotten")
  <2>1. OutTypeOK'
    <3>1. fate' \in [1 .. PostMax ->
                {"none", "refused", "discarded", "forgotten", "sent", "failed"}]
      BY <1>8 DEF OutTypeOK
    <3> QED
      BY <1>1, <1>2, <1>8, <1>7, <3>1 DEF OutTypeOK, Message
  <2>2. Numbered'
    BY <1>1, <1>2, <1>5, <1>8 DEF Numbered, OutTypeOK
  <2>3. WrittenIsFree'
    BY <1>1, <1>8 DEF WrittenIsFree
  <2>4. OneHandle' /\ Paired' /\ SlotsReturn'
    BY <1>1, <1>8 DEF OneHandle, Paired, SlotsReturn, Free
  <2>5. LeaksKnown'
    <3>1. ASSUME NEW n \in heap', n # p.id
          PROVE  \/ fate'[n] \in {"refused", "forgotten"}
                 \/ \E k \in 1 .. Len(msgs') : msgs'[k].id = n
      <4>1. n \in heap /\ n \in 1 .. PostMax
        BY <1>8 DEF OutTypeOK
      <4>2. fate'[n] = fate[n]
        BY <1>8, <3>1, <4>1 DEF OutTypeOK
      <4>3. CASE fate[n] \in {"refused", "forgotten"}
        BY <4>2, <4>3
      <4>4. CASE \E k \in 1 .. Len(msgs) : msgs[k].id = n
        BY <1>2, <1>4, <3>1, <4>4
      <4> QED
        BY <1>1, <4>1, <4>3, <4>4 DEF LeaksKnown
    <3> QED
      BY <1>8, <3>1 DEF LeaksKnown
  <2> QED
    BY <2>1, <2>2, <2>3, <2>4, <2>5
<1>9. CASE /\ FreeSlots # {} /\ claimed' = LowestOf(FreeSlots)
           /\ out_queue' = [out_queue EXCEPT ![claimed'].buff = p.id]
           /\ UNCHANGED <<heap, fate>>
  <2>1. claimed' \in 1 .. Slots /\ Free(claimed') /\ claimed' # 0
    <3>1. FreeSlots \in SUBSET (1 .. Slots)
      BY DEF FreeSlots
    <3>2. claimed' \in FreeSlots
      BY <1>9, <3>1, LowestOfIn
    <3> QED
      BY <3>2, OutBoundsAssumption DEF FreeSlots
  <2>2. out_queue' \in [1 .. Slots -> [buff : 0 .. PostMax, handler : -1 .. PostMax]]
    <3>1. p.id \in 0 .. PostMax
      BY <1>3
    <3> QED
      BY <1>9, <2>1, <3>1 DEF OutTypeOK
  <2>3. /\ \A i \in 1 .. Slots : out_queue'[i].handler = out_queue[i].handler
        /\ \A i \in 1 .. Slots : i # claimed' => out_queue'[i].buff = out_queue[i].buff
        /\ out_queue'[claimed'].buff = p.id
    BY <1>9, <2>1 DEF OutTypeOK
  <2>4. OutTypeOK'
    BY <1>1, <1>2, <1>9, <1>7, <2>1, <2>2 DEF OutTypeOK, Message
  <2>5. Numbered'
    BY <1>1, <1>3, <1>5, <1>9, <2>1, <2>3 DEF Numbered
  <2>6. WrittenIsFree' /\ OneHandle'
    BY <1>1, <1>9, <2>3 DEF WrittenIsFree, OneHandle
  <2>7. Paired'
    <3>1. ASSUME NEW k \in 1 .. Len(driver), NEW i \in 1 .. Slots, out_queue[i].buff = driver[k].id
          PROVE  i # claimed'
      BY <1>6, <2>1, <3>1 DEF Free, NULL, Write
    <3>2. out_queue'[claimed'].buff # NULL
      BY <1>3, <2>3 DEF NULL
    <3>3. \A k \in 1 .. Len(driver) : \E i \in 1 .. Slots :
             /\ i # claimed'
             /\ out_queue'[i].buff = driver[k].id /\ out_queue'[i].handler = driver[k].handle
      BY <2>3, <3>1 DEF Paired
    <3> QED
      BY <1>1, <3>2, <3>3 DEF Paired, Free
  <2>8. SlotsReturn'
    BY <1>1, <2>3 DEF SlotsReturn, Free
  <2>9. LeaksKnown'
    <3> SUFFICES ASSUME NEW n \in heap, ~ (fate[n] \in {"refused", "forgotten"}), n # p.id
                 PROVE  \E k \in 1 .. Len(msgs') : msgs'[k].id = n
      BY <1>9, <2>1, <2>3 DEF LeaksKnown
    <3>1. PICK k \in 1 .. Len(msgs) : msgs[k].id = n
      BY <1>1 DEF LeaksKnown
    <3> QED
      BY <1>2, <1>4, <3>1
  <2> QED
    BY <2>4, <2>5, <2>6, <2>7, <2>8, <2>9
<1>10. \/ heap' = heap \ {p.id} /\ fate' = [fate EXCEPT ![p.id] = "discarded"]
          /\ UNCHANGED <<out_queue, claimed>>
       \/ /\ FreeSlots # {} /\ claimed' = LowestOf(FreeSlots)
          /\ out_queue' = [out_queue EXCEPT ![claimed'].buff = p.id]
          /\ UNCHANGED <<heap, fate>>
       \/ fate' = [fate EXCEPT ![p.id] = "forgotten"] /\ UNCHANGED <<heap, out_queue, claimed>>
  BY DEF bleOutgoingCallback, p
<1>11. fate' = [fate EXCEPT ![p.id] = "forgotten"] => fate'[p.id] = "forgotten"
  BY <1>3 DEF OutTypeOK
<1> QED
  BY <1>8, <1>9, <1>10, <1>11

\* The copy goes to the driver under a handle no slot has had.
LEMMA AddWriteKeeps ==
    ASSUME OutInv, AddWrite
    PROVE  OutInv'
<1> DEFINE id == out_queue[claimed].buff
           h == handles + 1
           w == [handle |-> h, id |-> id]
<1> USE DEF OutInv
<1>1. /\ claimed # 0 /\ claimed' = 0 /\ heap' = heap \ {id} /\ handles' = h
      /\ driver' = Append(driver, w) /\ out_queue' = [out_queue EXCEPT ![claimed].handler = h]
      /\ UNCHANGED <<msgs, posted, sentOut, fate>>
  <2>1. claimed # 0 /\ Len(driver) \in Nat
    BY Queues DEF AddWrite
  <2>2. ~ (Len(driver) >= DriverMax)
    BY <2>1, Room, OutBoundsAssumption
  <2> QED
    BY <2>1, <2>2 DEF AddWrite
<1>2. /\ claimed \in 1 .. Slots /\ id \in 1 .. PostMax /\ id <= posted
      /\ h \in 1 .. PostMax /\ handles \in Nat /\ Len(msgs) \in Nat /\ h + Len(msgs) <= posted
  <2>1. claimed \in 1 .. Slots /\ handles \in Nat /\ posted \in 0 .. PostMax /\ Len(msgs) \in Nat
    BY <1>1, Queues DEF OutTypeOK
  <2>2. id \in 1 .. PostMax /\ id <= posted
    BY <1>1, <2>1 DEF OutTypeOK, Paired, Free, NULL, Numbered
  <2>3. h + Len(msgs) <= posted
    BY <1>1, <2>1 DEF Numbered
  <2> QED
    BY <2>1, <2>2, <2>3, OutBoundsAssumption
<1>3. w \in Write /\ w.handle = h /\ w.id = id
  BY <1>2 DEF Write
<1>4. Len(driver) \in Nat /\ Len(driver) < DriverMax /\ \A k \in 1 .. Len(driver) : driver[k] \in Write
  BY <1>1, Room, Queues
<1> HIDE DEF w
<1>5. /\ driver' \in Seq(Write) /\ Len(driver') = Len(driver) + 1
      /\ \A k \in 1 .. Len(driver) : driver'[k] = driver[k]
      /\ driver'[Len(driver) + 1] = w
  BY <1>1, <1>3, Queues, AppendProperties
<1>6. \A k \in 1 .. Len(driver') : k \in 1 .. Len(driver) \/ k = Len(driver) + 1
  BY <1>4, <1>5
<1>7. /\ \A i \in 1 .. Slots : out_queue'[i].buff = out_queue[i].buff
      /\ \A i \in 1 .. Slots : i # claimed => out_queue'[i].handler = out_queue[i].handler
      /\ out_queue'[claimed].handler = h
  BY <1>1, <1>2 DEF OutTypeOK
<1>8. /\ \A k \in 1 .. Len(driver) : driver[k].handle < h
      /\ \A i \in 1 .. Slots : out_queue[i].handler < h /\ out_queue[i].handler \in Int
  <2>1. \A i \in 1 .. Slots : out_queue[i].handler \in Int
    BY DEF OutTypeOK
  <2> QED
    BY <1>2, <1>4, <2>1 DEF Numbered, Write
<1> HIDE DEF id, h
<1>9. OutTypeOK'
  <2>1. out_queue' \in [1 .. Slots -> [buff : 0 .. PostMax, handler : -1 .. PostMax]]
    <3>1. h \in -1 .. PostMax
      BY <1>2
    <3> QED
      BY <1>1, <1>2, <3>1 DEF OutTypeOK
  <2>2. Len(driver') <= DriverMax
    BY <1>4, <1>5, OutBoundsAssumption
  <2>3. heap' \subseteq 1 .. PostMax /\ 0 \in 0 .. Slots /\ h \in 0 .. PostMax
    BY <1>1, <1>2, OutBoundsAssumption DEF OutTypeOK
  <2> QED
    BY <1>1, <1>5, <2>1, <2>2, <2>3 DEF OutTypeOK, Write
<1>10. Numbered'
  <2>1. \A k \in 1 .. Len(driver') : driver'[k].id <= posted /\ driver'[k].handle <= h
    <3>1. \A k \in 1 .. Len(driver) : driver[k].id <= posted /\ driver[k].handle <= h
      BY <1>2, <1>4, <1>8 DEF Numbered, Write
    <3>2. w.id <= posted /\ w.handle <= h
      BY <1>2, <1>3
    <3> QED
      BY <1>5, <1>6, <3>1, <3>2
  <2>2. \A i \in 1 .. Slots : out_queue'[i].buff <= posted /\ out_queue'[i].handler <= h
    BY <1>2, <1>7, <1>8 DEF Numbered
  <2> QED
    BY <1>1, <1>2, <2>1, <2>2 DEF Numbered
<1>11. WrittenIsFree'
  BY <1>1, <1>3, <1>5, <1>6 DEF WrittenIsFree
<1>12. OneHandle'
  <2>1. \A k, m \in 1 .. Len(driver') : driver'[k].handle = driver'[m].handle => k = m
    <3>1. \A k \in 1 .. Len(driver) : driver[k].handle # w.handle
      BY <1>2, <1>3, <1>4, <1>8 DEF Write
    <3> QED
      BY <1>5, <1>6, <3>1 DEF OneHandle
  <2>2. ASSUME NEW i \in 1 .. Slots, NEW j \in 1 .. Slots,
               out_queue'[i].handler = out_queue'[j].handler, out_queue'[i].handler > 0
        PROVE  i = j
    BY <1>2, <1>7, <1>8, <2>2 DEF OneHandle
  <2> QED
    BY <2>1, <2>2 DEF OneHandle
<1>13. Paired'
  <2>1. ASSUME NEW k \in 1 .. Len(driver)
        PROVE  \E i \in 1 .. Slots : i # 0 /\ out_queue'[i].buff = driver'[k].id
                                   /\ out_queue'[i].handler = driver'[k].handle
    BY <1>2, <1>5, <1>7 DEF Paired
  <2>2. out_queue'[claimed].buff = w.id /\ out_queue'[claimed].handler = w.handle /\ claimed # 0
    BY <1>1, <1>2, <1>3, <1>7 DEF id
  <2> QED
    BY <1>1, <1>2, <1>5, <1>6, <2>1, <2>2 DEF Paired
<1>14. SlotsReturn'
  <2> SUFFICES ASSUME NEW i \in 1 .. Slots \ {claimed'}, ~Free(i)'
               PROVE  \E k \in 1 .. Len(driver') : driver'[k].handle = out_queue'[i].handler
    BY DEF SlotsReturn
  <2>1. CASE i = claimed
    BY <1>3, <1>4, <1>5, <1>7, <2>1
  <2>2. CASE i # claimed
    <3>1. ~Free(i)
      BY <1>7 DEF Free
    <3>2. PICK k \in 1 .. Len(driver) : driver[k].handle = out_queue[i].handler
      BY <2>2, <3>1 DEF SlotsReturn
    <3> QED
      BY <1>4, <1>5, <1>7, <2>2, <3>2
  <2> QED
    BY <2>1, <2>2
<1>15. LeaksKnown'
  BY <1>1 DEF LeaksKnown, id
<1> QED
  BY <1>9, <1>10, <1>11, <1>12, <1>13, <1>14, <1>15

\* The write that ends finds its slot, which is not the one being filled, and no other.
LEMMA SlotFound ==
    ASSUME OutInv, Transmitted
    PROVE  \E j \in 1 .. Slots :
              /\ out_queue' = [out_queue EXCEPT ![j].buff = NULL]
              /\ out_queue[j].handler = Head(driver).handle /\ j # claimed
              /\ \A i \in 1 .. Slots : out_queue[i].handler = Head(driver).handle => i = j
<1> DEFINE w == Head(driver)
           hit == {i \in 1 .. Slots : out_queue[i].handler = w.handle}
           j == LowestOf(hit)
<1>1. w = driver[1] /\ 1 \in 1 .. Len(driver) /\ w.handle > 0
  <2>1. driver # <<>> /\ driver \in Seq(Write) /\ Len(driver) \in Nat
    BY Queues DEF OutInv, Transmitted
  <2>2. Len(driver) >= 1
    BY <2>1, EmptySeq
  <2>3. w = driver[1] /\ 1 \in 1 .. Len(driver)
    BY <2>1, <2>2
  <2> QED
    BY <2>3, Queues DEF OutInv, Write
<1>2. PICK i \in 1 .. Slots : i # claimed /\ out_queue[i].handler = w.handle
  BY <1>1 DEF OutInv, Paired
<1>3. hit \in SUBSET (1 .. Slots) /\ i \in hit
  BY <1>2
<1>4. j \in hit
  <2> HIDE DEF hit
  <2> QED
    BY <1>3, LowestOfIn
<1>5. \A n \in 1 .. Slots : out_queue[n].handler = w.handle => n = i
  BY <1>1, <1>2 DEF OutInv, OneHandle
<1>6. j = i
  BY <1>4, <1>5
<1>7. out_queue' = [out_queue EXCEPT ![j].buff = NULL]
  BY <1>3 DEF Transmitted, hm10EventHandler
<1> HIDE DEF j
<1> QED
  BY <1>2, <1>5, <1>6, <1>7

\* The slot is free again, and nothing else changes.
LEMMA TransmittedKeeps ==
    ASSUME OutInv, Transmitted
    PROVE  OutInv'
<1> DEFINE w == Head(driver)
<1> USE DEF OutInv
<1>1. /\ driver # <<>> /\ driver' = Tail(driver) /\ UNCHANGED <<msgs, claimed, handles, posted, heap>>
      /\ \E result \in {"sent", "failed"} : fate' = [fate EXCEPT ![w.id] = result]
      /\ sentOut' \in {sentOut, w.id}
  BY DEF Transmitted
<1>2. /\ driver' \in Seq(Write) /\ Len(driver') = Len(driver) - 1 /\ Len(driver) \in Nat
      /\ \A k \in 1 .. Len(driver') : driver'[k] = driver[k + 1]
      /\ w \in Write /\ w = driver[1] /\ Len(driver) >= 1
  <2>1. driver \in Seq(Write) /\ Len(driver) \in Nat
    BY Queues
  <2>2. Len(driver) >= 1
    BY <1>1, <2>1, EmptySeq
  <2>3. w = driver[1]
    BY <2>1, <2>2
  <2> QED
    BY <1>1, <2>1, <2>2, <2>3, HeadTailProperties
<1>3. w.id \in 1 .. PostMax /\ w.handle \in 1 .. PostMax /\ 1 \in 1 .. Len(driver)
  BY <1>2 DEF Write
<1>4. ASSUME NEW k \in 1 .. Len(driver), k # 1
      PROVE  k - 1 \in 1 .. Len(driver') /\ driver'[k - 1] = driver[k]
  <2>1. k - 1 \in 1 .. Len(driver') /\ (k - 1) + 1 = k
    BY <1>2, <1>4
  <2> QED
    BY <1>2, <2>1
<1>5. ASSUME NEW k \in 1 .. Len(driver')
      PROVE  /\ k + 1 \in 1 .. Len(driver) /\ driver'[k] = driver[k + 1]
             /\ driver'[k].handle # w.handle
  <2>1. k + 1 \in 1 .. Len(driver) /\ k + 1 # 1
    BY <1>2, <1>5
  <2> QED
    BY <1>2, <1>3, <2>1 DEF OneHandle
<1>6. PICK j \in 1 .. Slots :
         /\ out_queue' = [out_queue EXCEPT ![j].buff = NULL]
         /\ out_queue[j].handler = w.handle /\ j # claimed
         /\ \A i \in 1 .. Slots : out_queue[i].handler = w.handle => i = j
  BY SlotFound
<1> HIDE DEF w
<1>7. /\ \A i \in 1 .. Slots : out_queue'[i].handler = out_queue[i].handler
      /\ \A i \in 1 .. Slots : i # j => out_queue'[i].buff = out_queue[i].buff
      /\ out_queue'[j].buff = NULL
  BY <1>6 DEF OutTypeOK
<1>8. OutTypeOK'
  <2>1. fate' \in [1 .. PostMax -> {"none", "refused", "discarded", "forgotten", "sent", "failed"}]
    BY <1>1, <1>3 DEF OutTypeOK
  <2>2. out_queue' \in [1 .. Slots -> [buff : 0 .. PostMax, handler : -1 .. PostMax]]
    <3>1. NULL \in 0 .. PostMax
      BY OutBoundsAssumption DEF NULL
    <3> QED
      BY <1>6, <3>1 DEF OutTypeOK
  <2>3. Len(driver') <= DriverMax /\ sentOut' \in 0 .. PostMax
    BY <1>1, <1>2, <1>3, OutBoundsAssumption DEF OutTypeOK
  <2> QED
    BY <1>1, <1>2, <2>1, <2>2, <2>3 DEF OutTypeOK, Write
<1>9. Numbered'
  <2>1. \A i \in 1 .. Slots : out_queue'[i].buff <= posted /\ out_queue'[i].handler <= handles
    <3>1. 0 <= posted
      BY OutBoundsAssumption DEF OutTypeOK
    <3> QED
      BY <1>7, <3>1 DEF Numbered, NULL
  <2> QED
    BY <1>1, <1>5, <2>1 DEF Numbered
<1>10. WrittenIsFree'
  BY <1>1, <1>5 DEF WrittenIsFree
<1>11. OneHandle'
  <2>1. ASSUME NEW k \in 1 .. Len(driver'), NEW m \in 1 .. Len(driver'),
               driver'[k].handle = driver'[m].handle
        PROVE  k = m
    <3>1. k + 1 = m + 1
      BY <1>5, <2>1 DEF OneHandle
    <3> QED
      BY <1>2, <3>1
  <2> QED
    BY <1>7, <2>1 DEF OneHandle
<1>12. Paired'
  <2>1. ASSUME NEW k \in 1 .. Len(driver')
        PROVE  \E i \in 1 .. Slots : /\ i # claimed /\ out_queue'[i].buff = driver'[k].id
                                   /\ out_queue'[i].handler = driver'[k].handle
    <3>1. PICK i \in 1 .. Slots : /\ i # claimed /\ out_queue[i].buff = driver[k + 1].id
                                  /\ out_queue[i].handler = driver[k + 1].handle
      BY <1>5 DEF Paired
    <3>2. i # j
      BY <1>5, <1>6, <3>1
    <3> QED
      BY <1>5, <1>7, <3>1, <3>2
  <2>2. claimed # 0 => out_queue'[claimed].buff # NULL
    BY <1>6, <1>7 DEF Paired, Free, OutTypeOK
  <2> QED
    BY <1>1, <2>1, <2>2 DEF Paired, Free
<1>13. SlotsReturn'
  <2> SUFFICES ASSUME NEW i \in 1 .. Slots \ {claimed}, out_queue'[i].buff # NULL
               PROVE  \E k \in 1 .. Len(driver') : driver'[k].handle = out_queue'[i].handler
    BY <1>1 DEF SlotsReturn, Free
  <2>1. i # j /\ out_queue[i].buff # NULL
    BY <1>7
  <2>2. PICK k \in 1 .. Len(driver) : driver[k].handle = out_queue[i].handler
    BY <2>1 DEF SlotsReturn, Free
  <2>3. k # 1
    BY <1>2, <1>6, <2>1, <2>2
  <2> QED
    BY <1>4, <1>7, <2>2, <2>3
<1>14. LeaksKnown'
  <2>1. w.id \notin heap
    BY <1>2, <1>3 DEF WrittenIsFree
  <2>2. \A n \in heap : fate'[n] = fate[n]
    BY <1>1, <2>1 DEF OutTypeOK
  <2>3. claimed # 0 => out_queue'[claimed].buff = out_queue[claimed].buff
    BY <1>6, <1>7 DEF OutTypeOK
  <2> QED
    BY <1>1, <2>2, <2>3 DEF LeaksKnown
<1> QED
  BY <1>8, <1>9, <1>10, <1>11, <1>12, <1>13, <1>14

-----------------------------------------------------------------------------
\* The invariant holds wherever the UART interrupt comes.
THEOREM OutInvariance == OutSpec => []OutInv
<1>1. OutInit => OutInv
  BY OutInitInv
<1>2. OutInv /\ [OutNext]_outVars => OutInv'
  <2> SUFFICES ASSUME OutInv, [OutNext]_outVars PROVE OutInv'
    OBVIOUS
  <2>1. CASE \E dst \in BOOLEAN : SendPacketToBle(dst)
    BY <2>1, PostKeeps
  <2>2. CASE bleOutgoingCallback
    BY <2>2, CallbackKeeps
  <2>3. CASE AddWrite
    BY <2>3, AddWriteKeeps
  <2>4. CASE Transmitted
    BY <2>4, TransmittedKeeps
  <2>5. CASE UNCHANGED outVars
    BY <2>5 DEF outVars, OutInv, OutTypeOK, Numbered, WrittenIsFree, OneHandle, Paired,
                SlotsReturn, LeaksKnown, Free
  <2> QED
    BY <2>1, <2>2, <2>3, <2>4, <2>5 DEF OutNext
<1> QED
  BY <1>1, <1>2, PTL DEF OutSpec

\* A copy lives in a slot of its own while it is transmitted.
THEOREM AlwaysCopyAlive == OutSpec => []CopyAlive
<1>1. OutInv => CopyAlive
  <2> SUFFICES ASSUME OutInv PROVE CopyAlive
    OBVIOUS
  <2>1. ASSUME NEW k \in 1 .. Len(driver)
        PROVE  \E i \in 1 .. Slots :
                  out_queue[i] = [buff |-> driver[k].id, handler |-> driver[k].handle]
    <3>1. PICK i \in 1 .. Slots :
             out_queue[i].buff = driver[k].id /\ out_queue[i].handler = driver[k].handle
      BY DEF OutInv, Paired
    <3>2. out_queue[i] \in [buff : 0 .. PostMax, handler : -1 .. PostMax]
      BY DEF OutInv, OutTypeOK
    <3>3. out_queue[i] = [buff |-> out_queue[i].buff, handler |-> out_queue[i].handler]
      BY <3>2
    <3> QED
      BY <3>1, <3>3
  <2> QED
    BY <2>1 DEF CopyAlive, OutInv, OneHandle
<1> QED
  BY <1>1, OutInvariance, PTL

\* No slot is lost, and the driver never refuses a write.
THEOREM AlwaysSlotsReturn == OutSpec => [](SlotsReturn /\ (claimed # 0 => Len(driver) < DriverMax))
<1>1. OutInv => SlotsReturn /\ (claimed # 0 => Len(driver) < DriverMax)
  BY Room DEF OutInv
<1> QED
  BY <1>1, OutInvariance, PTL

\* The packets nobody frees are those a full queue refused or that found no slot.
THEOREM AlwaysLeaksKnown == OutSpec => []LeaksKnown
<1>1. OutInv => LeaksKnown
  BY DEF OutInv
<1> QED
  BY <1>1, OutInvariance, PTL

-----------------------------------------------------------------------------
(***************************************************************************)
(* The sender implements OutChannel: what waits for the phone is the queue *)
(* of the driver, the copy being handed over, and the mailbox, in this     *)
(* order.  The lemmas on concatenation come first, then one per action.    *)
(***************************************************************************)

Number == 1 .. PostMax

\* Sequences of records with a number.
Numbering(S) == \A e \in S : e.id \in Number

\* The numbers of a queue are a sequence of its length.
LEMMA IdsSeq ==
    ASSUME NEW S, Numbering(S), NEW s \in Seq(S)
    PROVE  /\ Ids(s) \in Seq(Number) /\ Len(Ids(s)) = Len(s) /\ Len(s) \in Nat
           /\ \A k \in 1 .. Len(s) : Ids(s)[k] = s[k].id
<1>1. Len(s) \in Nat /\ \A k \in 1 .. Len(s) : s[k] \in S
  BY LenProperties, ElementOfSeq
<1>2. Ids(s) \in [1 .. Len(s) -> Number]
  BY <1>1 DEF Ids, Numbering
<1> QED
  BY <1>1, <1>2 DEF Ids

\* Concatenation, in the form the steps below use.
LEMMA Concat ==
    ASSUME NEW a \in Seq(Number), NEW b \in Seq(Number)
    PROVE  /\ a \o b \in Seq(Number) /\ Len(a \o b) = Len(a) + Len(b)
           /\ Len(a) \in Nat /\ Len(b) \in Nat
           /\ \A k \in 1 .. Len(a) : (a \o b)[k] = a[k]
           /\ \A k \in 1 .. Len(b) : (a \o b)[Len(a) + k] = b[k]
<1>1. /\ a \o b \in Seq(Number) /\ Len(a \o b) = Len(a) + Len(b)
      /\ \A i \in 1 .. Len(a) + Len(b) : (a \o b)[i] = IF i <= Len(a) THEN a[i] ELSE b[i - Len(a)]
  BY ConcatProperties, Zenon
<1>2. Len(a) \in Nat /\ Len(b) \in Nat
  BY LenProperties
<1>3. ASSUME NEW k \in 1 .. Len(a) PROVE (a \o b)[k] = a[k]
  <2>1. k \in 1 .. Len(a) + Len(b) /\ k <= Len(a)
    BY <1>2
  <2> QED
    BY <1>1, <2>1
<1>4. ASSUME NEW k \in 1 .. Len(b) PROVE (a \o b)[Len(a) + k] = b[k]
  <2> DEFINE i == Len(a) + k
  <2>1. i \in 1 .. Len(a) + Len(b) /\ ~ (i <= Len(a)) /\ i - Len(a) = k
    BY <1>2
  <2> HIDE DEF i
  <2>2. (a \o b)[i] = b[k]
    BY <1>1, <2>1
  <2> QED
    BY <2>2 DEF i
<1> QED
  BY <1>1, <1>2, <1>3, <1>4

\* Concatenation needs no parentheses.
LEMMA Assoc == \A a, b, c \in Seq(Number) : (a \o b) \o c = a \o (b \o c)
BY ConcatAssociative

\* One number.
LEMMA Singleton ==
    ASSUME NEW n \in Number
    PROVE  <<n>> \in Seq(Number) /\ Len(<<n>>) = 1 /\ <<n>>[1] = n
OBVIOUS

\* What is appended to a queue has its number at the end.
LEMMA IdsAppend ==
    ASSUME NEW S, Numbering(S), NEW s \in Seq(S), NEW e \in S
    PROVE  Ids(Append(s, e)) = Ids(s) \o <<e.id>>
<1> DEFINE t == Append(s, e)
           u == Ids(s) \o <<e.id>>
<1>1. /\ t \in Seq(S) /\ Len(t) = Len(s) + 1
      /\ \A k \in 1 .. Len(s) : t[k] = s[k]
      /\ t[Len(s) + 1] = e
  BY AppendProperties
<1> HIDE DEF t
<1>2. /\ Ids(s) \in Seq(Number) /\ Len(Ids(s)) = Len(s) /\ Len(s) \in Nat
      /\ \A k \in 1 .. Len(s) : Ids(s)[k] = s[k].id
  BY IdsSeq
<1>3. /\ Ids(t) \in Seq(Number) /\ Len(Ids(t)) = Len(t)
      /\ \A k \in 1 .. Len(t) : Ids(t)[k] = t[k].id
  BY <1>1, IdsSeq
<1>4. e.id \in Number /\ <<e.id>> \in Seq(Number) /\ Len(<<e.id>>) = 1 /\ <<e.id>>[1] = e.id
  BY Singleton DEF Numbering
<1>5. /\ u \in Seq(Number) /\ Len(u) = Len(s) + 1
      /\ \A k \in 1 .. Len(s) : u[k] = s[k].id
      /\ u[Len(s) + 1] = e.id
  <2>1. /\ u \in Seq(Number) /\ Len(u) = Len(Ids(s)) + Len(<<e.id>>)
        /\ \A k \in 1 .. Len(Ids(s)) : u[k] = Ids(s)[k]
        /\ \A k \in 1 .. Len(<<e.id>>) : u[Len(Ids(s)) + k] = <<e.id>>[k]
    BY <1>2, <1>4, Concat
  <2>2. 1 \in 1 .. Len(<<e.id>>)
    BY <1>4
  <2> HIDE DEF u
  <2> QED
    BY <1>2, <1>4, <2>1, <2>2
<1> HIDE DEF u
<1>6. ASSUME NEW k \in 1 .. Len(Ids(t)) PROVE Ids(t)[k] = u[k]
  <2>1. k \in 1 .. Len(t) /\ (k \in 1 .. Len(s) \/ k = Len(s) + 1)
    BY <1>1, <1>2, <1>3
  <2> QED
    BY <1>1, <1>3, <1>5, <2>1
<1>7. Len(Ids(t)) = Len(u)
  BY <1>1, <1>3, <1>5
<1>8. Ids(t) = u
  BY <1>3, <1>5, <1>6, <1>7, SeqEqual
<1> QED
  BY <1>8 DEF t, u

\* The number of the first comes first.
LEMMA IdsHeadTail ==
    ASSUME NEW S, Numbering(S), NEW s \in Seq(S), s # <<>>
    PROVE  /\ Ids(s) = <<Head(s).id>> \o Ids(Tail(s))
           /\ Head(s) \in S /\ Tail(s) \in Seq(S)
<1> DEFINE h == Head(s)
           t == Tail(s)
           u == <<h.id>> \o Ids(t)
<1>1. /\ h \in S /\ t \in Seq(S) /\ Len(t) = Len(s) - 1
      /\ \A k \in 1 .. Len(t) : t[k] = s[k + 1]
  BY HeadTailProperties
<1>2. Len(s) \in Nat /\ Len(s) >= 1 /\ h = s[1]
  <2>1. Len(s) \in Nat /\ Len(s) >= 1
    BY LenProperties, EmptySeq
  <2> QED
    BY <2>1
<1> HIDE DEF h, t
<1>3. /\ Ids(t) \in Seq(Number) /\ Len(Ids(t)) = Len(t) /\ Len(t) \in Nat
      /\ \A k \in 1 .. Len(t) : Ids(t)[k] = t[k].id
  BY <1>1, IdsSeq
<1>4. /\ Ids(s) \in Seq(Number) /\ Len(Ids(s)) = Len(s)
      /\ \A k \in 1 .. Len(s) : Ids(s)[k] = s[k].id
  BY IdsSeq
<1>5. h.id \in Number /\ <<h.id>> \in Seq(Number) /\ Len(<<h.id>>) = 1 /\ <<h.id>>[1] = h.id
  BY <1>1, Singleton DEF Numbering
<1>6. /\ u \in Seq(Number) /\ Len(u) = 1 + Len(t)
      /\ u[1] = h.id
      /\ \A k \in 1 .. Len(t) : u[1 + k] = t[k].id
  <2>1. /\ u \in Seq(Number) /\ Len(u) = Len(<<h.id>>) + Len(Ids(t))
        /\ \A k \in 1 .. Len(<<h.id>>) : u[k] = <<h.id>>[k]
        /\ \A k \in 1 .. Len(Ids(t)) : u[Len(<<h.id>>) + k] = Ids(t)[k]
    BY <1>3, <1>5, Concat
  <2>2. 1 \in 1 .. Len(<<h.id>>)
    BY <1>5
  <2> HIDE DEF u
  <2> QED
    BY <1>3, <1>5, <2>1, <2>2
<1> HIDE DEF u
<1>7. ASSUME NEW k \in 1 .. Len(Ids(s)) PROVE Ids(s)[k] = u[k]
  <2>1. CASE k = 1
    BY <1>2, <1>4, <1>6, <2>1
  <2>2. CASE k # 1
    <3>1. k - 1 \in 1 .. Len(t) /\ 1 + (k - 1) = k /\ (k - 1) + 1 = k /\ k \in 1 .. Len(s)
      BY <1>1, <1>2, <1>4, <2>2
    <3>2. u[k] = t[k - 1].id /\ t[k - 1] = s[k]
      BY <1>1, <1>6, <3>1
    <3> QED
      BY <1>4, <3>1, <3>2
  <2> QED
    BY <2>1, <2>2
<1>8. Len(Ids(s)) = Len(u)
  BY <1>1, <1>2, <1>4, <1>6
<1>9. Ids(s) = u
  BY <1>4, <1>6, <1>7, <1>8, SeqEqual
<1> QED
  BY <1>1, <1>9 DEF h, t, u

-----------------------------------------------------------------------------
\* r is s without one of its packets, as Drop of OutChannel writes it
OneLess(s, r) == \E i \in 1 .. Len(s) : r = SubSeq(s, 1, i - 1) \o SubSeq(s, i + 1, Len(s))

\* One packet taken from the middle.
LEMMA RemoveMiddle ==
    ASSUME NEW a \in Seq(Number), NEW n \in Number, NEW b \in Seq(Number),
           NEW s, s = (a \o <<n>>) \o b
    PROVE  OneLess(s, a \o b)
<1>1. /\ <<n>> \in Seq(Number) /\ Len(<<n>>) = 1
  BY Singleton
<1> DEFINE f == a \o <<n>>
<1>2. /\ f \in Seq(Number) /\ Len(f) = Len(a) + 1 /\ Len(a) \in Nat
      /\ \A k \in 1 .. Len(a) : f[k] = a[k]
  <2>1. /\ f \in Seq(Number) /\ Len(f) = Len(a) + Len(<<n>>) /\ Len(a) \in Nat
        /\ \A k \in 1 .. Len(a) : f[k] = a[k]
    BY <1>1, Concat
  <2> QED
    BY <1>1, <2>1
<1>3. s = f \o b
  OBVIOUS
<1> HIDE DEF f
<1>4. /\ s \in Seq(Number) /\ Len(s) = Len(f) + Len(b) /\ Len(b) \in Nat
      /\ \A k \in 1 .. Len(f) : s[k] = f[k]
      /\ \A k \in 1 .. Len(b) : s[Len(f) + k] = b[k]
  BY <1>2, <1>3, Concat
<1>5. \A k \in 1 .. Len(s) : s[k] \in Number
  BY <1>4, ElementOfSeq
<1> DEFINE p == SubSeq(s, 1, Len(a))
           q == SubSeq(s, Len(a) + 2, Len(s))
<1>6. p = a
  <2>1. \A i \in 1 .. Len(a) : s[i] \in Number
    BY <1>2, <1>4, <1>5
  <2>2. /\ p \in Seq(Number) /\ Len(p) = IF 1 <= Len(a) THEN Len(a) - 1 + 1 ELSE 0
        /\ \A i \in 1 .. Len(a) - 1 + 1 : p[i] = s[1 + i - 1]
    BY <1>2, <2>1, SubSeqProperties
  <2> HIDE DEF p
  <2>3. Len(p) = Len(a)
    BY <1>2, <2>2
  <2>4. ASSUME NEW i \in 1 .. Len(p) PROVE p[i] = a[i]
    <3>1. i \in 1 .. Len(a) - 1 + 1 /\ 1 + i - 1 = i /\ i \in 1 .. Len(a) /\ i \in 1 .. Len(f)
      BY <1>2, <2>3
    <3> QED
      BY <1>2, <1>4, <2>2, <3>1
  <2> QED
    BY <2>2, <2>3, <2>4, SeqEqual
<1>7. q = b
  <2>1. \A i \in Len(a) + 2 .. Len(s) : s[i] \in Number
    BY <1>2, <1>5
  <2>2. Len(a) + 2 \in Int /\ Len(s) \in Int /\ Len(s) = Len(a) + 1 + Len(b)
    BY <1>2, <1>4
  <2>3. /\ q \in Seq(Number)
        /\ Len(q) = IF Len(a) + 2 <= Len(s) THEN Len(s) - (Len(a) + 2) + 1 ELSE 0
        /\ \A i \in 1 .. Len(s) - (Len(a) + 2) + 1 : q[i] = s[Len(a) + 2 + i - 1]
    BY <2>1, <2>2, SubSeqProperties
  <2> HIDE DEF q
  <2>4. Len(q) = Len(b)
    BY <1>2, <1>4, <2>2, <2>3
  <2>5. ASSUME NEW i \in 1 .. Len(q) PROVE q[i] = b[i]
    <3>1. /\ i \in 1 .. Len(s) - (Len(a) + 2) + 1 /\ Len(a) + 2 + i - 1 = Len(f) + i
          /\ i \in 1 .. Len(b)
      BY <1>2, <1>4, <2>2, <2>4
    <3> QED
      BY <1>4, <2>3, <3>1
  <2> QED
    BY <2>3, <2>4, <2>5, SeqEqual
<1>8. Len(a) + 1 \in 1 .. Len(s) /\ Len(a) + 1 - 1 = Len(a) /\ Len(a) + 1 + 1 = Len(a) + 2
  BY <1>2, <1>4
<1>9. a \o b = SubSeq(s, 1, Len(a) + 1 - 1) \o SubSeq(s, Len(a) + 1 + 1, Len(s))
  BY <1>6, <1>7, <1>8
<1> QED
  <2> DEFINE j == Len(a) + 1
  <2>1. j \in 1 .. Len(s) /\ a \o b = SubSeq(s, 1, j - 1) \o SubSeq(s, j + 1, Len(s))
    BY <1>8, <1>9
  <2> HIDE DEF j
  <2> QED
    BY <2>1, Zenon DEF OneLess

\* A packet put in front is the head.
LEMMA HeadTailConcat ==
    ASSUME NEW n \in Number, NEW b \in Seq(Number)
    PROVE  /\ <<n>> \o b # <<>> /\ Head(<<n>> \o b) = n /\ Tail(<<n>> \o b) = b
<1> DEFINE s == <<n>> \o b
<1>1. /\ <<n>> \in Seq(Number) /\ Len(<<n>>) = 1 /\ <<n>>[1] = n
  BY Singleton
<1>2. /\ s \in Seq(Number) /\ Len(s) = 1 + Len(b) /\ Len(b) \in Nat
      /\ s[1] = n /\ \A k \in 1 .. Len(b) : s[1 + k] = b[k]
  <2>1. /\ s \in Seq(Number) /\ Len(s) = Len(<<n>>) + Len(b) /\ Len(b) \in Nat
        /\ \A k \in 1 .. Len(<<n>>) : s[k] = <<n>>[k]
        /\ \A k \in 1 .. Len(b) : s[Len(<<n>>) + k] = b[k]
    BY <1>1, Concat
  <2>2. 1 \in 1 .. Len(<<n>>)
    BY <1>1
  <2> HIDE DEF s
  <2> QED
    BY <1>1, <2>1, <2>2
<1> HIDE DEF s
<1>3. s # <<>>
  BY <1>2, EmptySeq
<1>4. Head(s) = n
  BY <1>2, <1>3
<1>5. /\ Tail(s) \in Seq(Number) /\ Len(Tail(s)) = Len(s) - 1
      /\ \A i \in 1 .. Len(Tail(s)) : Tail(s)[i] = s[i + 1]
  BY <1>2, <1>3, HeadTailProperties
<1>6. ASSUME NEW i \in 1 .. Len(Tail(s)) PROVE Tail(s)[i] = b[i]
  <2>1. i \in 1 .. Len(b) /\ 1 + i = i + 1
    BY <1>2, <1>5
  <2> QED
    BY <1>2, <1>5, <2>1
<1>7. Tail(s) = b
  <2>1. Len(Tail(s)) = Len(b)
    BY <1>2, <1>5
  <2> QED
    BY <1>5, <1>6, <2>1, SeqEqual
<1> QED
  BY <1>3, <1>4, <1>7 DEF s

-----------------------------------------------------------------------------
\* What OutChannel calls waiting.
Waiting == Ids(driver) \o Copied \o Ids(msgs)

\* The queues in the next state are those of the primed variables.
LEMMA Primed ==
    /\ Waiting' = (Ids(driver') \o Copied') \o Ids(msgs')
    /\ Copied' = IF claimed' = 0 THEN <<>> ELSE <<out_queue'[claimed'].buff>>
BY DEF Waiting, Ids, Copied

\* The three parts of what waits.
LEMMA WaitingParts ==
    ASSUME OutInv
    PROVE  /\ msgs \in Seq(Message) /\ driver \in Seq(Write)
           /\ Numbering(Message) /\ Numbering(Write)
           /\ Ids(driver) \in Seq(Number) /\ Ids(msgs) \in Seq(Number)
           /\ Copied \in Seq(Number) /\ <<>> \in Seq(Number)
           /\ Ids(driver) \o Copied \in Seq(Number)
           /\ claimed = 0 => Copied = <<>> /\ Waiting = Ids(driver) \o Ids(msgs)
<1>1. msgs \in Seq(Message) /\ driver \in Seq(Write)
  BY Queues DEF OutInv
<1>2. Numbering(Message) /\ Numbering(Write)
  BY DEF Numbering, Message, Write, Number
<1>3. Ids(driver) \in Seq(Number) /\ Ids(msgs) \in Seq(Number)
  BY <1>1, <1>2, IdsSeq
<1>4. Copied \in Seq(Number) /\ <<>> \in Seq(Number)
  <2>1. claimed # 0 => out_queue[claimed].buff \in Number
    BY DEF OutInv, OutTypeOK, Paired, Free, NULL, Number
  <2> QED
    BY <2>1, EmptySeq, Singleton DEF Copied
<1>5. Ids(driver) \o Copied \in Seq(Number)
  BY <1>3, <1>4, Concat
<1>6. claimed = 0 => Copied = <<>> /\ Waiting = Ids(driver) \o Ids(msgs)
  BY <1>3, ConcatEmptySeq DEF Copied, Waiting
<1> QED
  BY <1>1, <1>2, <1>3, <1>4, <1>5, <1>6

\* A posted packet waits behind all others, or was refused.
LEMMA PostImplements ==
    ASSUME OutInv, NEW dst \in BOOLEAN, SendPacketToBle(dst)
    PROVE  Channel!Post
<1>1. posted' = posted + 1 /\ UNCHANGED <<sentOut, driver, claimed, out_queue>>
  BY DEF SendPacketToBle
<1>2. Waiting' = (Ids(driver) \o Copied) \o Ids(msgs')
  BY <1>1, Primed DEF Copied
<1>3. CASE UNCHANGED msgs
  <2>1. Waiting' = Waiting
    BY <1>2, <1>3 DEF Waiting
  <2> QED
    BY <1>1, <2>1 DEF Channel!Post, Waiting
<1>4. CASE msgs' = Append(msgs, [id |-> posted + 1, dst |-> dst])
  <2> DEFINE e == [id |-> posted + 1, dst |-> dst]
  <2>1. e \in Message /\ e.id = posted + 1 /\ posted + 1 \in Number
    <3>1. posted + 1 \in 1 .. PostMax
      BY OutBoundsAssumption DEF SendPacketToBle, OutInv, OutTypeOK
    <3> QED
      BY <3>1 DEF Message, Number
  <2> HIDE DEF e
  <2>2. Ids(msgs') = Ids(msgs) \o <<posted + 1>>
    BY <1>4, <2>1, WaitingParts, IdsAppend DEF e
  <2>3. Waiting' = ((Ids(driver) \o Copied) \o Ids(msgs)) \o <<posted + 1>>
    BY <1>2, <2>1, <2>2, WaitingParts, Singleton, ConcatAssociative
  <2>4. Waiting \in Seq(Number)
    BY WaitingParts, Concat DEF Waiting
  <2>5. Waiting' = Append(Waiting, posted + 1)
    BY <2>1, <2>3, <2>4, AppendIsConcat DEF Waiting
  <2> QED
    BY <1>1, <2>5 DEF Channel!Post, Waiting
<1> QED
  BY <1>3, <1>4 DEF SendPacketToBle

\* The callback copies the packet, and nothing changes, or drops it.
LEMMA CallbackImplements ==
    ASSUME OutInv, OutInv', bleOutgoingCallback
    PROVE  Channel!Drop \/ UNCHANGED <<posted, Waiting, sentOut>>
<1>1. /\ msgs # <<>> /\ claimed = 0 /\ msgs' = Tail(msgs)
      /\ UNCHANGED <<posted, sentOut, driver, handles>>
  BY DEF bleOutgoingCallback
<1>2. /\ Ids(msgs) = <<Head(msgs).id>> \o Ids(msgs') /\ msgs' \in Seq(Message)
      /\ Head(msgs).id \in Number
  BY <1>1, WaitingParts, IdsHeadTail DEF Numbering
<1>3. Ids(msgs') \in Seq(Number)
  BY <1>2, WaitingParts, IdsSeq
<1> DEFINE n == Head(msgs).id
<1>4. Waiting = (Ids(driver) \o <<n>>) \o Ids(msgs')
  <2>1. Waiting = Ids(driver) \o (<<n>> \o Ids(msgs'))
    BY <1>1, <1>2, WaitingParts
  <2>2. Ids(driver) \in Seq(Number) /\ <<n>> \in Seq(Number)
    BY <1>2, WaitingParts, Singleton
  <2> HIDE DEF n
  <2>3. (Ids(driver) \o <<n>>) \o Ids(msgs') = Ids(driver) \o (<<n>> \o Ids(msgs'))
    BY <1>3, <2>2, Assoc, Zenon
  <2> QED
    BY <2>1, <2>3
<1>5. CASE claimed' = 0
  <2>1. Waiting' = Ids(driver) \o Ids(msgs')
    BY <1>1, <1>5, Primed, WaitingParts, ConcatEmptySeq
  <2>2. /\ Ids(driver) \in Seq(Number) /\ n \in Number
        /\ Waiting = (Ids(driver) \o <<n>>) \o Ids(msgs')
    BY <1>2, <1>4, WaitingParts
  <2> HIDE DEF n
  <2>3. OneLess(Waiting, Ids(driver) \o Ids(msgs'))
    BY <1>3, <2>2, RemoveMiddle
  <2>4. OneLess(Waiting, Waiting')
    BY <2>1, <2>3
  <2> QED
    BY <1>1, <2>4 DEF Channel!Drop, OneLess, Waiting
<1>6. CASE claimed' # 0
  <2>1. out_queue' = [out_queue EXCEPT ![claimed'].buff = n] /\ claimed' \in 1 .. Slots
    BY <1>1, <1>6 DEF bleOutgoingCallback, OutInv, OutTypeOK
  <2>2. out_queue'[claimed'].buff = n
    BY <2>1 DEF OutInv, OutTypeOK
  <2>3. Copied' = <<n>>
    BY <1>6, <2>2, Primed
  <2>4. Waiting' = Waiting
    BY <1>1, <1>4, <2>3, Primed
  <2> QED
    BY <1>1, <2>4
<1> QED
  BY <1>5, <1>6

\* A copy handed to the driver waits where it did.
LEMMA AddWriteImplements ==
    ASSUME OutInv, AddWrite
    PROVE  UNCHANGED <<posted, Waiting, sentOut>>
<1> DEFINE n == out_queue[claimed].buff
           w == [handle |-> handles + 1, id |-> n]
<1>1. claimed # 0 /\ claimed' = 0 /\ driver' = Append(driver, w) /\ UNCHANGED <<msgs, posted, sentOut>>
  <2>1. Len(driver) \in Nat /\ claimed # 0
    BY Queues DEF AddWrite, OutInv
  <2>2. ~ (Len(driver) >= DriverMax)
    BY <2>1, Room, OutBoundsAssumption
  <2> QED
    BY <2>1, <2>2 DEF AddWrite
<1>2. w \in Write /\ w.id = n /\ Copied = <<n>>
  <2>0. claimed \in 1 .. Slots
    BY <1>1, OutBoundsAssumption DEF OutInv, OutTypeOK
  <2>1. n \in 1 .. PostMax
    <3>1. out_queue[claimed].buff \in 0 .. PostMax /\ out_queue[claimed].buff # 0
      BY <2>0, <1>1 DEF OutInv, OutTypeOK, Paired, Free, NULL
    <3> QED
      BY <3>1
  <2>2. handles + 1 \in 1 .. PostMax
    <3>1. Len(msgs) \in Nat
      BY Queues DEF OutInv
    <3> QED
      BY <1>1, <3>1, OutBoundsAssumption DEF OutInv, OutTypeOK, Numbered
  <2> QED
    BY <1>1, <2>1, <2>2 DEF Write, Copied
<1> HIDE DEF w
<1>3. Ids(driver') = Ids(driver) \o Copied
  BY <1>1, <1>2, WaitingParts, IdsAppend
<1>4. Waiting' = (Ids(driver) \o Copied) \o Ids(msgs)
  BY <1>1, <1>3, Primed, WaitingParts, ConcatEmptySeq
<1> QED
  BY <1>1, <1>4 DEF Waiting

\* The first of those that wait is sent, or dropped when the line fails.
LEMMA TransmittedImplements ==
    ASSUME OutInv, Transmitted
    PROVE  Channel!Transmit \/ Channel!Drop
<1> DEFINE n == Head(driver).id
           R == Copied \o Ids(msgs)
           b == Ids(driver') \o R
<1>1. /\ driver # <<>> /\ driver' = Tail(driver) /\ UNCHANGED <<msgs, claimed, posted>>
      /\ sentOut' = n \/ sentOut' = sentOut
  BY DEF Transmitted
<1>2. /\ Ids(driver) = <<n>> \o Ids(driver') /\ driver' \in Seq(Write) /\ n \in Number
  BY <1>1, WaitingParts, IdsHeadTail DEF Numbering
<1>3. Ids(driver') \in Seq(Number) /\ R \in Seq(Number) /\ <<n>> \in Seq(Number)
  BY <1>2, WaitingParts, IdsSeq, Concat, Singleton
<1>4. Copied' = Copied
  <2>1. CASE claimed = 0
    BY <1>1, <2>1, Primed DEF Copied
  <2>2. CASE claimed # 0
    <3>1. out_queue'[claimed].buff = out_queue[claimed].buff
      <4>1. PICK j \in 1 .. Slots : /\ out_queue' = [out_queue EXCEPT ![j].buff = NULL]
                                    /\ j # claimed
        BY SlotFound
      <4>2. claimed \in 1 .. Slots
        BY <2>2, OutBoundsAssumption DEF OutInv, OutTypeOK
      <4> QED
        BY <4>1, <4>2 DEF OutInv, OutTypeOK
    <3> QED
      BY <1>1, <2>2, <3>1, Primed DEF Copied
  <2> QED
    BY <2>1, <2>2
<1>5. Waiting = <<n>> \o b /\ Waiting' = b /\ b \in Seq(Number)
  <2>1. b \in Seq(Number)
    BY <1>3, Concat
  <2>2. Waiting = ((<<n>> \o Ids(driver')) \o Copied) \o Ids(msgs)
    BY <1>2 DEF Waiting
  <2>3. Waiting' = (Ids(driver') \o Copied) \o Ids(msgs)
    BY <1>1, <1>4, Primed
  <2>4. Copied \in Seq(Number) /\ Ids(msgs) \in Seq(Number)
    BY WaitingParts
  <2> HIDE DEF n
  <2>5. <<n>> \o Ids(driver') \in Seq(Number)
    BY <1>3, Concat
  <2>6. ((<<n>> \o Ids(driver')) \o Copied) \o Ids(msgs) = (<<n>> \o Ids(driver')) \o R
    BY <2>4, <2>5, Assoc, Zenon
  <2>7. (<<n>> \o Ids(driver')) \o R = <<n>> \o b
    <3> HIDE DEF R
    <3> QED
      BY <1>3, Assoc, Zenon
  <2>8. (Ids(driver') \o Copied) \o Ids(msgs) = b
    BY <1>3, <2>4, Assoc, Zenon
  <2> QED
    BY <2>1, <2>2, <2>3, <2>6, <2>7, <2>8
<1> HIDE DEF b, n
<1>6. CASE sentOut' = n
  <2>1. Waiting # <<>> /\ Head(Waiting) = n /\ Tail(Waiting) = Waiting'
    BY <1>2, <1>5, HeadTailConcat
  <2> QED
    BY <1>1, <1>6, <2>1 DEF Channel!Transmit, Waiting
<1>7. CASE sentOut' = sentOut
  <2>1. <<>> \in Seq(Number)
    BY EmptySeq
  <2>2. Waiting = (<<>> \o <<n>>) \o b /\ <<>> \o b = b
    BY <1>3, <1>5, ConcatEmptySeq DEF n
  <2>3. OneLess(Waiting, <<>> \o b)
    BY <1>2, <1>5, <2>1, <2>2, RemoveMiddle
  <2>4. OneLess(Waiting, Waiting')
    BY <1>5, <2>2, <2>3
  <2> QED
    BY <1>1, <1>7, <2>4 DEF Channel!Drop, OneLess, Waiting
<1> QED
  BY <1>1, <1>6, <1>7 DEF n

-----------------------------------------------------------------------------
\* Until BleApp is restarted, while one outgoing mailbox is open, packets go to the phone in the
\* order they were posted in, each at most once, whichever slots they pass through: the sender
\* implements OutChannel.  A restart's second mailbox (bleapp.c:272) sends each packet once more.
THEOREM SenderImplementsChannel == OutSpec => ImplementsChannel
<1>1. OutInit => Channel!Init
  <2> SUFFICES ASSUME OutInit PROVE Channel!Init
    OBVIOUS
  <2>1. posted = 0 /\ sentOut = 0 /\ driver = <<>> /\ msgs = <<>> /\ Copied = <<>>
    BY DEF OutInit, Copied
  <2>2. Ids(<<>>) = <<>>
    BY DEF Ids
  <2>3. <<>> \o <<>> \o <<>> = <<>>
    BY EmptySeq, ConcatEmptySeq
  <2> QED
    BY <2>1, <2>2, <2>3 DEF Channel!Init
<1>2. OutInv /\ OutInv' /\ [OutNext]_outVars => [Channel!Next]_<<posted, Waiting, sentOut>>
  <2> SUFFICES ASSUME OutInv, OutInv', [OutNext]_outVars
               PROVE  Channel!Next \/ UNCHANGED <<posted, Waiting, sentOut>>
    OBVIOUS
  <2>1. CASE \E dst \in BOOLEAN : SendPacketToBle(dst)
    BY <2>1, PostImplements DEF Channel!Next
  <2>2. CASE bleOutgoingCallback
    BY <2>2, CallbackImplements DEF Channel!Next
  <2>3. CASE AddWrite
    BY <2>3, AddWriteImplements
  <2>4. CASE Transmitted
    BY <2>4, TransmittedImplements DEF Channel!Next
  <2>5. CASE UNCHANGED outVars
    BY <2>5 DEF outVars, Waiting, Ids, Copied
  <2> QED
    BY <2>1, <2>2, <2>3, <2>4, <2>5 DEF OutNext
<1> QED
  BY <1>1, <1>2, OutInvariance, PTL DEF OutSpec, ImplementsChannel, Channel!Spec, Channel!ocVars, Waiting
=============================================================================
