----------------------------- MODULE OutChannel -----------------------------
(***************************************************************************)
(* What sending to BleApp promises: an abstract specification which BleOut *)
(* implements.  Packets go to the phone in the order they were accepted    *)
(* in, each at most once; a packet may be dropped before it is sent, with  *)
(* nobody told.  The promise is kept until BleApp is restarted.            *)
(***************************************************************************)
EXTENDS Naturals, Sequences

VARIABLES
    posted,  \* packets handed over so far, numbered in this order
    waiting, \* numbers of the packets accepted and neither sent nor dropped
    sentOut  \* number of the last packet sent

ocVars == <<posted, waiting, sentOut>>

Init == posted = 0 /\ waiting = <<>> /\ sentOut = 0

Post ==
    /\ posted' = posted + 1
    /\ waiting' \in {waiting, Append(waiting, posted + 1)}
    /\ UNCHANGED sentOut

Drop ==
    /\ \E i \in 1 .. Len(waiting) :
          waiting' = SubSeq(waiting, 1, i - 1) \o SubSeq(waiting, i + 1, Len(waiting))
    /\ UNCHANGED <<posted, sentOut>>

Transmit ==
    /\ waiting # <<>>
    /\ sentOut' = Head(waiting) /\ waiting' = Tail(waiting)
    /\ UNCHANGED posted

Next == Post \/ Drop \/ Transmit

Spec == Init /\ [][Next]_ocVars
=============================================================================
