--------------------------- MODULE PowerAppProps ---------------------------
(***************************************************************************)
(* What the battery gauge application must guarantee.                      *)
(***************************************************************************)
EXTENDS PowerApp

PoTypeOK ==
    /\ state \in States
    /\ current \in Slot \cup {NoSlot}
    /\ pending \in [Slot -> BOOLEAN]
    /\ request \in [Slot -> 0 .. ReqMax]
    /\ transfer \in {"none", "running", "complete", "error"}
    /\ made \in 0 .. ReqMax /\ accepted \subseteq 1 .. ReqMax
    /\ answers \in [0 .. ReqMax -> SUBSET ({1, 2} \X {"data", "null"})]

\* The request being served keeps its slot and has not been answered yet,
\* although new requests enter the table at any moment (getFreeRequest,
\* POWERAPP_Tasks).
ServedIsUnanswered ==
    state \in {"get_data", "wait"} =>
        /\ current # NoSlot /\ pending[current]
        /\ answers[request[current]] = {}

\* A request answered with data is never answered again, not even by the error
\* state, which answers the same slot for ever.
DataOnce == \A n \in 1 .. ReqMax : <<1, "data">> \in answers[n] => Cardinality(answers[n]) = 1

\* Every accepted request is in the table, unanswered, or has been answered: none
\* is overwritten in its slot.
NoneOverwritten ==
    \A n \in accepted :
        answers[n] # {} \/ \E s \in Slot : pending[s] /\ request[s] = n

\* On a bus that works every accepted request is answered in the end: lower slots
\* that are filled again delay it, but the requests made are bounded.
AllAnswered == [](state # "error") => \A n \in 1 .. ReqMax : n \in accepted ~> answers[n] # {}

\* On any bus the request being served is answered, with data or with NULL.
ServedIsAnswered == \A n \in 1 .. ReqMax :
    state \in {"get_data", "wait"} /\ request[current] = n ~> answers[n] # {}
=============================================================================
