--------------------------- MODULE PowerAppProofs ---------------------------
(***************************************************************************)
(* PowerApp: type correctness, ServedIsUnanswered, DataOnce and            *)
(* NoneOverwritten, for any number of slots and requests and any bus.      *)
(***************************************************************************)
EXTENDS PowerAppProps, WellFoundedInduction, FiniteSetTheorems, TLAPS

\* Requests are numbered as they are made: no slot holds one that is still to come,
\* and none of those has been answered.
Numbered ==
    /\ \A s \in Slot : request[s] <= made
    /\ accepted \subseteq 1 .. made
    /\ \A n \in 0 .. ReqMax : n > made => answers[n] = {}

\* A pending request has not been answered, and is in one slot only.
PendingUnanswered ==
    /\ \A s \in Slot : pending[s] => request[s] # 0 /\ answers[request[s]] = {}
    /\ \A s, t \in Slot : request[s] # 0 /\ request[s] = request[t] => s = t

\* The states that use the current request have one, and it stays in the table as
\* long as it is served.
Current ==
    /\ state \in {"get_data", "wait"} => current # NoSlot /\ pending[current]
    /\ state = "error" => current # NoSlot

\* Data is the only answer; the error state never follows it up.
OnlyData ==
    /\ \A n \in 0 .. ReqMax : <<1, "data">> \in answers[n] => answers[n] = {<<1, "data">>}
    /\ state = "error" => <<1, "data">> \notin answers[request[current]]

PoInv == /\ PoTypeOK /\ Numbered /\ PendingUnanswered /\ Current /\ OnlyData /\ NoneOverwritten

-----------------------------------------------------------------------------
\* A non-empty set of numbers has a lowest one: the search for the first suitable slot finds one
\* if there is one.
LEMMA LowestExists ==
    ASSUME NEW S, S \subseteq Nat, S # {}
    PROVE  \E s \in S : \A t \in S : s <= t
<1>1. PICK s \in S : \A t \in S : ~ (<<t, s>> \in OpToRel(<, Nat))
  BY NatLessThanWellFounded, WFMin
<1>2. \A t \in S : <<t, s>> \in OpToRel(<, Nat) <=> t < s
  BY DEF OpToRel
<1>3. ASSUME NEW t \in S PROVE s <= t
  <2>1. ~ (t < s)
    BY <1>1, <1>2
  <2>2. s \in Nat /\ t \in Nat
    OBVIOUS
  <2> QED
    BY <2>1, <2>2
<1> QED
  BY <1>3

\* The tables are searched from the first slot on; what is found is in the table.
LEMMA LowestSlotIn ==
    ASSUME NEW S \in SUBSET Slot, S # {}
    PROVE  LowestSlot(S) \in S /\ LowestSlot(S) \in Slot
<1>1. \E s \in S : \A t \in S : s <= t
  <2>1. S \subseteq Nat
    BY PowerBoundsAssumption DEF Slot
  <2> QED
    BY <2>1, LowestExists
<1> QED
  BY <1>1 DEF LowestSlot

\* What is true at the start.
LEMMA PoInitInv == PoInit => PoInv
BY PowerBoundsAssumption
   DEF PoInit, PoInv, PoTypeOK, Numbered, PendingUnanswered, Current, OnlyData,
       NoneOverwritten, States, Slot, NoSlot

\* A new request takes a free slot and disturbs nobody.
LEMMA RequestKeeps ==
    ASSUME PoInv, BQ27441_GetData
    PROVE  PoInv'
<1> USE PowerBoundsAssumption DEF PoInv
<1>1. CASE FreeRequests = {}
  <2>1. /\ made' = made + 1 /\ made < ReqMax
        /\ UNCHANGED <<pending, request, accepted, state, current, transfer, answers>>
    BY <1>1 DEF BQ27441_GetData
  <2>2. PoTypeOK' /\ Numbered'
    BY <2>1 DEF PoTypeOK, Numbered
  <2>3. PendingUnanswered' /\ Current' /\ OnlyData' /\ NoneOverwritten'
    BY <2>1 DEF PendingUnanswered, Current, OnlyData, NoneOverwritten
  <2> QED
    BY <2>2, <2>3
<1>2. CASE FreeRequests # {}
  <2> DEFINE s == LowestSlot(FreeRequests)
  <2>1. s \in Slot /\ ~pending[s]
    BY <1>2, LowestSlotIn DEF FreeRequests
  <2>2. /\ made < ReqMax /\ made' = made + 1
        /\ pending' = [pending EXCEPT ![s] = TRUE]
        /\ request' = [request EXCEPT ![s] = made + 1]
        /\ accepted' = accepted \cup {made + 1}
        /\ UNCHANGED <<state, current, transfer, answers>>
    BY <1>2 DEF BQ27441_GetData
  <2> HIDE DEF s
  <2>3. PoTypeOK'
    BY <2>1, <2>2 DEF PoTypeOK
  <2>4. Numbered'
    BY <2>1, <2>2 DEF PoTypeOK, Numbered
  <2>5. answers[made + 1] = {}
    BY <2>2 DEF PoTypeOK, Numbered
  <2>6. PendingUnanswered'
    <3>1. ASSUME NEW t \in Slot, pending'[t] PROVE request'[t] # 0 /\ answers'[request'[t]] = {}
      BY <2>1, <2>2, <2>5, <3>1 DEF PoTypeOK, PendingUnanswered
    <3>2. ASSUME NEW t \in Slot, NEW u \in Slot, request'[t] # 0, request'[t] = request'[u]
          PROVE  t = u
      BY <2>1, <2>2, <3>2 DEF PoTypeOK, PendingUnanswered, Numbered
    <3> QED
      BY <3>1, <3>2 DEF PendingUnanswered
  <2>7. Current'
    BY <2>1, <2>2 DEF PoTypeOK, Current, NoSlot
  <2>8. OnlyData'
    BY <2>1, <2>2, <2>5 DEF PoTypeOK, OnlyData, Current, NoSlot
  <2>9. NoneOverwritten'
    BY <2>1, <2>2 DEF PoTypeOK, NoneOverwritten
  <2> QED
    BY <2>3, <2>4, <2>6, <2>7, <2>8, <2>9
<1> QED
  BY <1>1, <1>2

\* The steps that neither answer nor change the table.
LEMMA QuietStepKeeps ==
    ASSUME PoInv,
           Open \/ PickRequest \/ StartTransfer \/ BusDone \/ (Wait /\ transfer = "error")
                \/ UNCHANGED poVars
    PROVE  PoInv'
<1> USE DEF PoInv
<1>1. UNCHANGED <<pending, request, made, accepted, answers>>
  BY DEF Open, PickRequest, StartTransfer, BusDone, Wait, poVars
<1>2. PoTypeOK' /\ Current' /\ (state' = "error" => state = "error" \/ pending[current])
                /\ (state' = "error" => current' = current /\ current # NoSlot)
  <2>1. CASE PickRequest
    <3>1. PendingRequests # {} => LowestSlot(PendingRequests) \in Slot
                                  /\ pending[LowestSlot(PendingRequests)]
      BY LowestSlotIn DEF PendingRequests
    <3> QED
      BY <2>1, <3>1, PowerBoundsAssumption
         DEF PickRequest, PoTypeOK, Current, States, Slot, NoSlot
  <2>2. CASE Open \/ StartTransfer \/ UNCHANGED poVars
    BY <2>2 DEF Open, StartTransfer, poVars, PoTypeOK, Current, States
  <2>3. CASE BusDone
    BY <2>3, BusOutcomesAssumption DEF BusDone, PoTypeOK, Current
  <2>4. CASE Wait /\ transfer = "error"
    BY <2>4 DEF Wait, PoTypeOK, Current, States
  <2> QED
    BY <2>1, <2>2, <2>3, <2>4
<1>3. OnlyData'
  BY <1>1, <1>2 DEF OnlyData, PendingUnanswered, PoTypeOK
<1> QED
  BY <1>1, <1>2, <1>3 DEF Numbered, PendingUnanswered, NoneOverwritten

\* Answering the current request takes no other one out of the table.
LEMMA AnswerKeepsOthers ==
    ASSUME PoInv, current \in Slot, accepted' = accepted, request' = request,
           pending' = [pending EXCEPT ![current] = FALSE],
           NEW A, A # {}, answers' = [answers EXCEPT ![request[current]] = A]
    PROVE  NoneOverwritten'
<1> SUFFICES ASSUME NEW m \in accepted, answers'[m] = {}
             PROVE  \E s \in Slot : pending'[s] /\ request[s] = m
  BY DEF NoneOverwritten
<1> USE DEF PoInv, PoTypeOK
<1>1. m \in 0 .. ReqMax /\ m # request[current] /\ answers[m] = {}
  BY PowerBoundsAssumption
<1>2. PICK s \in Slot : pending[s] /\ request[s] = m
  BY <1>1 DEF NoneOverwritten
<1>3. s # current
  BY <1>1, <1>2
<1> QED
  BY <1>2, <1>3

\* The transfer succeeded: the request is answered and leaves the table.
LEMMA DataKeeps ==
    ASSUME PoInv, Wait, transfer = "complete"
    PROVE  PoInv'
<1> USE DEF PoInv
<1> DEFINE n == request[current]
<1>1. /\ current \in Slot /\ pending[current] /\ n \in 0 .. ReqMax /\ n <= made
      /\ answers[n] = {} /\ state = "wait"
  BY DEF Wait, Current, PoTypeOK, PendingUnanswered, Numbered
<1>2. /\ answers' = [answers EXCEPT ![n] = {<<1, "data">>}]
      /\ pending' = [pending EXCEPT ![current] = FALSE]
      /\ state' = "idle" /\ transfer' = "none"
      /\ UNCHANGED <<current, request, made, accepted>>
  BY <1>1 DEF Wait, Answer, PoTypeOK
<1> HIDE DEF n
<1>3. PoTypeOK'
  BY <1>1, <1>2 DEF PoTypeOK, States
<1>4. Numbered'
  BY <1>1, <1>2 DEF Numbered, PoTypeOK
<1>5. PendingUnanswered'
  BY <1>1, <1>2 DEF PendingUnanswered, PoTypeOK, n
<1>6. Current' /\ OnlyData'
  BY <1>1, <1>2 DEF Current, OnlyData, PoTypeOK
<1>7. NoneOverwritten'
  BY <1>1, <1>2, AnswerKeepsOthers DEF n
<1> QED
  BY <1>3, <1>4, <1>5, <1>6, <1>7

\* The error state: whoever is in the current slot is told that there is no data.
LEMMA ErrorKeeps ==
    ASSUME PoInv, Error
    PROVE  PoInv'
<1> USE DEF PoInv
<1> DEFINE n == request[current]
<1>1. current \in Slot /\ n \in 0 .. ReqMax /\ n <= made /\ state = "error"
  BY DEF Error, Current, PoTypeOK, Numbered
<1>2. PICK k \in {1, 2} :
        /\ answers' = [answers EXCEPT ![n] = @ \cup {<<k, "null">>}]
        /\ pending' = [pending EXCEPT ![current] = FALSE]
        /\ UNCHANGED <<state, current, request, transfer, made, accepted>>
  <2>1. CASE answers[n] = {}
    BY <2>1, <1>1 DEF Error, Answer, PoTypeOK
  <2>2. CASE answers[n] # {}
    BY <2>2, <1>1 DEF Error, Answer, PoTypeOK
  <2> QED
    BY <2>1, <2>2
<1> HIDE DEF n
<1>3. PoTypeOK'
  BY <1>1, <1>2 DEF PoTypeOK
<1>4. Numbered'
  BY <1>1, <1>2 DEF Numbered, PoTypeOK
<1>5. PendingUnanswered'
  BY <1>1, <1>2 DEF PendingUnanswered, PoTypeOK, n
<1>6. Current'
  BY <1>1, <1>2 DEF Current
<1>7. OnlyData'
  <2>1. <<1, "data">> \notin answers[n]
    BY <1>1 DEF OnlyData, n
  <2>2. ASSUME NEW i \in 0 .. ReqMax, <<1, "data">> \in answers'[i]
        PROVE  i # n /\ answers'[i] = {<<1, "data">>}
    BY <1>1, <1>2, <2>1, <2>2 DEF OnlyData, PoTypeOK
  <2> QED
    BY <1>1, <1>2, <2>2 DEF OnlyData, n
<1>8. NoneOverwritten'
  BY <1>1, <1>2, AnswerKeepsOthers DEF n
<1> QED
  BY <1>3, <1>4, <1>5, <1>6, <1>7, <1>8

-----------------------------------------------------------------------------
\* The inductive invariant of the battery gauge application.
THEOREM PoInvariance == PoSpec => []PoInv
<1>1. PoInv /\ [PoNext]_poVars => PoInv'
  <2> SUFFICES ASSUME PoInv, [PoNext]_poVars PROVE PoInv'
    OBVIOUS
  <2>1. Wait => transfer \in {"complete", "error"}
    BY DEF Wait
  <2> QED
    BY <2>1, RequestKeeps, QuietStepKeeps, DataKeeps, ErrorKeeps DEF PoNext, POWERAPP_Tasks
<1> QED
  BY <1>1, PoInitInv, PTL DEF PoSpec

\* Every variable keeps its type, in particular the current slot is in the table.
THEOREM PoTyping == PoSpec => []PoTypeOK
<1>1. PoInv => PoTypeOK
  BY DEF PoInv
<1> QED
  BY <1>1, PoInvariance, PTL

\* The request being served keeps its slot and has not been answered yet
\* (getFreeRequest, POWERAPP_Tasks).
THEOREM AlwaysServedIsUnanswered == PoSpec => []ServedIsUnanswered
<1>1. PoInv => ServedIsUnanswered
  BY DEF PoInv, PoTypeOK, Current, PendingUnanswered, ServedIsUnanswered, NoSlot
<1> QED
  BY <1>1, PoInvariance, PTL

\* A request answered with data is never answered again (POWERAPP_STATE_ERROR).
THEOREM AlwaysDataOnce == PoSpec => []DataOnce
<1>1. PoInv => DataOnce
  <2> SUFFICES ASSUME PoInv, NEW n \in 1 .. ReqMax, <<1, "data">> \in answers[n]
               PROVE  Cardinality(answers[n]) = 1
    BY DEF DataOnce
  <2>1. answers[n] = {<<1, "data">>}
    BY PowerBoundsAssumption DEF PoInv, OnlyData
  <2> QED
    BY <2>1, FS_Singleton
<1> QED
  BY <1>1, PoInvariance, PTL

\* No accepted request is overwritten in its slot before it is answered.
THEOREM NeverOverwritten == PoSpec => []NoneOverwritten
<1>1. PoInv => NoneOverwritten
  BY DEF PoInv
<1> QED
  BY <1>1, PoInvariance, PTL
=============================================================================
