----------------------------- MODULE PacketsProps -----------------------------
(***************************************************************************)
(* Properties of module Packets.                                           *)
(***************************************************************************)
EXTENDS Packets

(* Every variable stays within its type.                                   *)
PkTypeOK ==
    /\ heap.live \subseteq Blocks /\ DOMAIN heap.mem = Blocks
    /\ Len(msgs) <= QueueMax
    /\ \A i \in 1 .. Len(msgs) : msgs[i].to \in {"main", "ble"} /\ msgs[i].packet \in Blocks
    /\ \A i \in 1 .. Len(inbox) : inbox[i] \in Blocks
    /\ job.at \in {"none", "parse", "end", "again", "stale"} /\ {job.in, job.out} \subseteq Blocks \cup {NULL}
    /\ \A i \in 1 .. Slots : out_queue[i] \in Blocks \cup {NULL}
    /\ \A i \in 1 .. Len(line) : line[i] \in 1 .. Slots
    /\ Requested(requests) \cup lost \subseteq Blocks
    /\ \A i \in 1 .. Len(requests) : requests[i].cmd \in Byte
    /\ halted \in {"no", "trap", "astray", "double free"}

(* Who holds what: the message queue, the mailbox, MSG_Tasks between two   *)
(* steps, the slots; and what has been lost.                               *)
Holders ==
    LET Held(who, n, b) == {<<who, n, x>> : x \in IF b = NULL THEN {} ELSE Parts(heap, b)}
    IN (UNION {Held("queue", i, msgs[i].packet) : i \in 1 .. Len(msgs)})
       \cup (UNION {Held("mailbox", i, inbox[i]) : i \in 1 .. Len(inbox)})
       \cup Held("in", 0, job.in) \cup Held("out", 0, IF job.in = NULL THEN NULL ELSE job.out)
       \cup {<<"slot", i, out_queue[i]>> : i \in {j \in 1 .. Slots : out_queue[j] # NULL}}
       \cup {<<"lost", 0, b>> : b \in lost}

(* Every allocated block has exactly one owner, and what is owned is       *)
(* allocated, as long as the program runs: none leaks but the packets that *)
(* a full queue refused or that found no slot and the replies to gauge     *)
(* commands that powercb has no case for, none is used after it was freed, *)
(* except by powercb, and none is freed twice, except by an outgoing       *)
(* mailbox that a restart opened again, which ends the claim.              *)
(* mainapp.c:266, bleapp.c:134, 155, 208, 272, mailbox.c:11.               *)
OneOwner ==
    /\ Running => /\ {h[3] : h \in Holders} = heap.live
                  /\ Cardinality(Holders) = Cardinality(heap.live)
    /\ halted = "double free" => mailboxes > 1

(* What goes over the line is a packet: preamble, length and payload       *)
(* agree, it has source and destination, and a response carries its        *)
(* result.  In particular a payload that could not be allocated stops the  *)
(* program before the packet is sent.  The claim ends with the first       *)
(* packet that is freed twice: the mailbox that does so, after a restart,  *)
(* has copied whatever it found there (bleapp.c:143, 155).                 *)
(* somparser.c:50, bleapp.c:125.                                           *)
WellFormed ==
    Running => \A i \in 1 .. Slots : out_queue[i] # NULL =>
       LET raw == heap.mem[out_queue[i]].data
       IN /\ Len(raw) = PACKET_GetFullSize(PACKET_Get(raw))
          /\ raw[3] # 0 /\ raw[4] # 0
          /\ raw[14] = BLE_CMD_RESPONSE => PayloadOf(raw) # <<>>

(* Every answer of the main application is addressed to the phone, carries *)
(* the transaction of a command the phone is waiting for, byte by byte as  *)
(* the phone sent it, and is given once; but only until a packet is freed  *)
(* twice.  After a restart every message is delivered once more for each   *)
(* mailbox opened (bleapp.c:272), and the second copy is with the UART     *)
(* before the packet is freed again (bleapp.c:151, 155): that answer the   *)
(* phone gets twice.  mainapp.c:262, somparser.c:131.                      *)
AnswersMatch ==
    [][LET raw == heap.mem[out_queue[Head(line)]].data
       IN Running /\ Len(line') < Len(line) /\ IsAnswer(raw)
             => PACKET_Get(raw).tid \in asked /\ PACKET_Get(raw).dst = DEV_APPLICATION]_pkVars

(* A status answer names the lasers of its probe, although they are read   *)
(* 100 ms later, unless another probe or a MODE command came in between.   *)
(* Bits of the command that are no laser's are left out.                   *)
(* mainapp.c:26, 113.                                                      *)
ProbeNamed ==
    [][Len(probes') < Len(probes) /\ ~Head(probes).overtaken
          => \A b \in heap'.live \ heap.live :
                heap'.mem[b].data # <<>> => heap'.mem[b].data[1] = Head(probes).ch % 4]_pkVars
=============================================================================
