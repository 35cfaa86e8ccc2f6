---------------------------- MODULE MainAppProps ----------------------------
(***************************************************************************)
(* What the main application must guarantee, and what its documentation    *)
(* says of it.                                                             *)
(***************************************************************************)
EXTENDS MainApp

Busy  == phase # "idle" \/ job # "none" \/ halted
AnyOn == \E c \in ChannelIndex : enabled[c]

MainTypeOK ==
    /\ attached \subseteq ChannelIndex
    /\ enabled \in [ChannelIndex -> BOOLEAN]
    /\ status \in [ChannelIndex -> ChannelStatus]
    /\ phase \in {"idle", "right", "left", "returning"}
    /\ want \in [ChannelIndex -> BOOLEAN]
    /\ halted \in BOOLEAN
    /\ runMode \in RunModes /\ activeChannels \subseteq ChannelIndex
    /\ job \in {"none", "MODE", "START_POS", "DONE_POS", "GET_CHANNEL_STS", "CH_STATUS"}
    /\ probes \in 0 .. TimerSlots /\ queued \in 0 .. QueueMax
    /\ lastCmd \in {"none", "MODE", "START_POS", "DONE_POS", "PROBE", "PROBE_FAILED"}
    /\ told \in [ChannelIndex -> {"none", "inactive", "active", "lost"}]

\* Lasers are never left on unattended: between handlers an enabled channel is
\* owed to a MODE command that entered positioning, to a START_POS, to a probe
\* whose callback is still to come (or came in positioning mode), or to a probe
\* answered FAIL because no timer was free (BLE_CMD_GET_CHANNEL_STS_Parser,
\* ChannelStatusCallback).
LitHasOwner ==
    ~Busy /\ AnyOn =>
        \/ lastCmd = "MODE" /\ runMode = "positioning"
        \/ lastCmd = "START_POS"
        \/ lastCmd = "PROBE" /\ (probes > 0 \/ runMode = "positioning")
        \/ lastCmd = "PROBE_FAILED"

\* Once a MODE command has entered positioning, exactly the channels it named
\* stay on until the next laser command, also when the callback of an earlier
\* probe comes in between (the check of ChannelStatusCallback, mainapp.c:40).
PositioningLit ==
    ~Busy /\ runMode = "positioning" /\ lastCmd = "MODE" =>
        \A c \in ChannelIndex : enabled[c] <=> c \in activeChannels

\* In positioning mode the last status the application was told of a channel is
\* its current one, unless that packet was lost to a full queue: no change is
\* skipped, wherever the interrupt preempts the handlers and whatever mode was
\* left and entered before (wdcb).
ToldCurrent ==
    runMode = "positioning" =>
        \A c \in ChannelIndex : told[c] \in {"inactive", "active"} => told[c] = status[c]

\* While a probe is pending the lasers are switched off in the end, unless
\* positioning mode wants them on (ChannelStatusCallback).
ProbeEnds == probes > 0 ~> ~AnyOn \/ runMode = "positioning" \/ halted

-----------------------------------------------------------------------------
(* What documentation and comments say                                     *)

\* mainapp.c:40 says of the check in the callback that it keeps "the already
\* turned on channels" from being shut off "while entering the Positioning
\* activity".  START_POS enters it too: its lasers stay on until a command.
StartPosKeepsLight ==
    [][\A c \in ChannelIndex :
          job = "CH_STATUS" /\ lastCmd = "START_POS" /\ enabled[c] => enabled'[c]]_vars
=============================================================================
