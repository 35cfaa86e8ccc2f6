----------------------------- MODULE LaserPanel -----------------------------
(***************************************************************************)
(* What the laser control promises to the main application: an abstract    *)
(* specification with neither hardware nor interrupt flags, which Channels *)
(* implements (ChannelsProps!Panel) and MainApp is built on.               *)
(*                                                                         *)
(* A call of enableLaser switches the right channel, then the left one,    *)
(* then returns.  Meanwhile, and between calls, the status of a channel    *)
(* may be reported as changed; a disabled channel cannot become active     *)
(* once the call that disabled it has returned.                            *)
(***************************************************************************)
EXTENDS ChannelCommon

VARIABLES
    attached,  \* channels initialised and given a callback
    enabled,   \* Channel.enabled
    status,    \* Channel.status
    phase,     \* progress of the call: which channel is switched next
    want,      \* what the call asks of each channel
    halted     \* the exception handler has taken over, or the program has lost its way

panelVars == <<attached, enabled, status, phase, want, halted>>

Init ==
    /\ attached = {}
    /\ enabled = [c \in ChannelIndex |-> FALSE]
    /\ status = [c \in ChannelIndex |-> "unknown"]
    /\ phase = "idle"
    /\ want = [c \in ChannelIndex |-> FALSE]
    /\ halted = FALSE

Attach(c) ==
    /\ ~halted /\ phase = "idle" /\ c \notin attached
    /\ attached' = attached \cup {c}
    /\ UNCHANGED <<enabled, status, phase, want, halted>>

enableLaser(which, power) ==
    /\ ~halted /\ phase = "idle" /\ attached = ChannelIndex
    /\ want' = [c \in ChannelIndex |-> c \in which /\ power]
    /\ phase' = "right"
    /\ UNCHANGED <<attached, enabled, status, halted>>

\* Channel_Enable of one channel.  Disabling may end in the exception handler.
Switch(c, from, to) ==
    /\ ~halted /\ phase = from
    /\ enabled' = [enabled EXCEPT ![c] = want[c]]
    /\ phase' = to
    /\ halted' \in {FALSE, ~want[c]}
    /\ UNCHANGED <<attached, status, want>>

Return ==
    /\ ~halted /\ phase = "returning"
    /\ phase' = "idle"
    /\ UNCHANGED <<attached, enabled, status, want, halted>>

CallStep == Switch(Right, "right", "left") \/ Switch(Left, "left", "returning") \/ Return

\* A status callback, from an interrupt routine
Report(c, s) ==
    /\ ~halted /\ c \in attached /\ s # status[c]
    /\ s = "active" => enabled[c] \/ phase # "idle"
    /\ status' = [status EXCEPT ![c] = s]
    /\ UNCHANGED <<attached, enabled, phase, want, halted>>

Next ==
    \/ \E c \in ChannelIndex : Attach(c)
    \/ \E which \in SUBSET ChannelIndex, power \in BOOLEAN : enableLaser(which, power)
    \/ CallStep
    \/ \E c \in ChannelIndex, s \in {"inactive", "active"} : Report(c, s)

Spec == Init /\ [][Next]_panelVars
=============================================================================
