------------------------------ MODULE MainApp ------------------------------
(***************************************************************************)
(* The main application (mainapp.c) on top of the laser control it is      *)
(* promised by LaserPanel: command handlers, the delayed channel status    *)
(* answer, and the status callback that runs in the interrupt routines.    *)
(*                                                                         *)
(* A handler that calls enableLaser starts in one step, lets the steps of  *)
(* the panel run (reports preempt them), and ends in another step when the *)
(* call has returned.  Packets are abstracted to what they carry for the   *)
(* properties.  The message service (SYS_MSG), the timer service (SYS_TMR) *)
(* and the receiver of BleApp are outside: modelled by how mainapp.c and   *)
(* mailbox.c use them.                                                     *)
(***************************************************************************)
EXTENDS LaserPanel, Integers

CONSTANTS
    RunModes,      \* the run modes a MODE command may carry
    StrayParsers,  \* what the parser table yields for 0x14 .. 0xF1, past its end
    QueueMax,      \* packets that fit in the message queue (64 in the code)
    TimerSlots     \* timer objects left for status probes (5 in the code)

ASSUME RunModesAssumption == {"none", "positioning"} \subseteq RunModes
ASSUME StrayParsersAssumption ==
    StrayParsers # {} /\ StrayParsers \subseteq {"null", "trap"}
ASSUME BoundsAssumption == QueueMax \in Nat /\ TimerSlots \in Nat \ {0}

\* MODE needs 2 bytes of payload (mode, channels), the channel commands 1; each
\* is also received with one byte less, and with one more where that matters.
Command ==
    [cmd : {"MODE"}, mode : RunModes, ch : SUBSET ChannelIndex, pLen : {1, 2, 3}]
        \cup [cmd : {"START_POS"}, ch : SUBSET ChannelIndex, pLen : {0, 1}]
        \cup [cmd : {"GET_CHANNEL_STS"}, ch : SUBSET ChannelIndex, pLen : {0, 1, 2}]
        \cup [cmd : {"DONE_POS", "OTHER"}]

VARIABLES
    \* MAINAPP_DATA
    runMode, activeChannels,
    job,      \* the handler whose enableLaser call is in progress, or "none"
    \* services
    probes,   \* pending ChannelStatusCallback timers
    queued,   \* packets sent to BleApp and not yet delivered
    \* history
    lastCmd,  \* the last command that switched the lasers
    told      \* the last status of each channel sent in this positioning session

mainVars == <<runMode, activeChannels, job, probes, queued, lastCmd, told>>
vars == <<panelVars, mainVars>>

Idle == ~halted /\ phase = "idle" /\ attached = ChannelIndex /\ job = "none"
Nothing == [c \in ChannelIndex |-> "none"]

MainInit ==
    /\ Init
    /\ runMode = "none" /\ activeChannels = {}
    /\ job = "none" /\ probes = 0 /\ queued = 0
    /\ lastCmd = "none" /\ told = Nothing

-----------------------------------------------------------------------------
(* Services and callers                                                    *)

\* Fault: the size of the queue is not checked
SendPacketUnchecked == queued' = queued + 1

\* SendPacketToBle: a full queue refuses the message, which is only logged
SendPacketToBle == queued' = IF queued < QueueMax THEN queued + 1 ELSE queued

\* SYS_MSG_Tasks delivers one packet to BleApp
Deliver ==
    /\ Idle /\ queued > 0
    /\ queued' = queued - 1
    /\ UNCHANGED <<panelVars, runMode, activeChannels, job, probes, lastCmd, told>>

\* _general_exception_handler never returns; nor is anything said of a program
\* that has lost its way
Trap == halted' = TRUE /\ UNCHANGED <<attached, enabled, status, phase, want>>

-----------------------------------------------------------------------------
(* MSG_Tasks: a command m is waiting in the mailbox; its parser runs       *)

\* Fault: leaving positioning mode leaves the lasers as they are
ModeNoOff(m) ==
    /\ Idle /\ m.cmd = "MODE" /\ m.pLen >= 2 /\ job' = "MODE"
    /\ runMode' = m.mode /\ activeChannels' = m.ch
    /\ \/ runMode' = "positioning" /\ enableLaser(activeChannels', TRUE)
       \/ runMode' # "positioning" /\ UNCHANGED panelVars
    /\ lastCmd' = "MODE"
    /\ told' = IF runMode' = "positioning" THEN told ELSE Nothing
    /\ UNCHANGED <<probes, queued>>

\* BLE_CMD_MODE_Parser with PACKET_GetRunMode: a payload of less than 2 bytes
\* leaves mode and channels alone, the lasers are set all the same
Mode(m) ==
    /\ Idle /\ m.cmd = "MODE" /\ job' = "MODE"
    /\ \/ /\ m.pLen >= 2
          /\ runMode' = m.mode /\ activeChannels' = m.ch
       \/ /\ m.pLen < 2
          /\ UNCHANGED <<runMode, activeChannels>>
    /\ \/ runMode' = "positioning" /\ enableLaser(activeChannels', TRUE)
       \/ runMode' # "positioning" /\ enableLaser(ChannelIndex, FALSE)
    /\ lastCmd' = "MODE"
    /\ told' = IF runMode' = "positioning" THEN told ELSE Nothing
    /\ UNCHANGED <<probes, queued>>

\* BLE_CMD_START_POS_Parser (the phase it sets is never read).  Without a
\* payload it reads through a null pointer, which the processor traps.
StartPos(m) ==
    /\ Idle /\ m.cmd = "START_POS"
    /\ \/ /\ m.pLen > 0
          /\ enableLaser(m.ch, TRUE)
          /\ job' = "START_POS" /\ lastCmd' = "START_POS"
       \/ /\ m.pLen = 0
          /\ Trap
          /\ UNCHANGED <<job, lastCmd>>
    /\ UNCHANGED <<runMode, activeChannels, probes, queued, told>>

\* BLE_CMD_DONE_POS_Parser
DonePos(m) ==
    /\ Idle /\ m.cmd = "DONE_POS"
    /\ enableLaser(ChannelIndex, FALSE)
    /\ job' = "DONE_POS" /\ lastCmd' = "DONE_POS"
    /\ UNCHANGED <<runMode, activeChannels, probes, queued, told>>

\* BLE_CMD_GET_CHANNEL_STS_Parser up to the timer; a payload that is not one
\* byte is answered FAIL
GetChannelSts(m) ==
    /\ Idle /\ m.cmd = "GET_CHANNEL_STS"
    /\ \/ /\ m.pLen = 1
          /\ activeChannels' = m.ch
          /\ enableLaser(m.ch, TRUE)
          /\ job' = "GET_CHANNEL_STS" /\ lastCmd' = "PROBE"
          /\ UNCHANGED queued
       \/ /\ m.pLen # 1
          /\ SendPacketToBle
          /\ UNCHANGED <<panelVars, activeChannels, job, lastCmd>>
    /\ UNCHANGED <<runMode, probes, told>>

\* PACKET_GetPayload copies the whole payload over a local of 2 bytes, or 1: what
\* the program does with the rest of its stack, if it does not go on as above,
\* nobody knows, and it is not followed
Overrun(m) ==
    /\ Idle
    /\ \/ m.cmd = "MODE" /\ m.pLen > 2
       \/ m.cmd = "GET_CHANNEL_STS" /\ m.pLen > 1
    /\ Trap /\ UNCHANGED mainVars

\* No parser: NOT_SUPPORTED is sent, or the parser table is read past its end
\* and a stray pointer is called
Unsupported(m) ==
    /\ Idle /\ m.cmd = "OTHER"
    /\ \/ /\ "null" \in StrayParsers
          /\ SendPacketToBle
          /\ UNCHANGED panelVars
       \/ /\ "trap" \in StrayParsers
          /\ Trap
          /\ UNCHANGED queued
    /\ UNCHANGED <<runMode, activeChannels, job, probes, lastCmd, told>>

\* The rest of a laser command's handler, after enableLaser: its reply
Reply ==
    /\ ~halted /\ phase = "idle" /\ job \in {"MODE", "START_POS", "DONE_POS"}
    /\ SendPacketToBle
    /\ job' = "none"
    /\ UNCHANGED <<panelVars, runMode, activeChannels, probes, lastCmd, told>>

\* The rest of BLE_CMD_GET_CHANNEL_STS_Parser: SYS_TMR_CallbackSingle and the
\* reply.  The packet guard of BleApp may hold the last free timer object.
ProbeReply ==
    /\ ~halted /\ phase = "idle" /\ job = "GET_CHANNEL_STS"
    /\ \/ probes < TimerSlots /\ probes' = probes + 1 /\ UNCHANGED lastCmd
       \/ probes >= TimerSlots - 1 /\ lastCmd' = "PROBE_FAILED" /\ UNCHANGED probes
    /\ SendPacketToBle
    /\ job' = "none"
    /\ UNCHANGED <<panelVars, runMode, activeChannels, told>>

-----------------------------------------------------------------------------
(* ChannelStatusCallback, 100 ms after a probe, from SYS_TMR_Tasks         *)

\* Fault: the lasers are switched off in every mode
CallbackUnchecked ==
    /\ Idle /\ probes > 0
    /\ probes' = probes - 1
    /\ job' = "CH_STATUS"
    /\ enableLaser(ChannelIndex, FALSE)
    /\ UNCHANGED <<runMode, activeChannels, queued, lastCmd, told>>

\* Fault: a callback leaves the lasers on for the probe that follows
CallbackLeavesOn ==
    /\ Idle /\ probes > 0
    /\ probes' = probes - 1
    /\ job' = "CH_STATUS"
    /\ UNCHANGED <<panelVars, runMode, activeChannels, queued, lastCmd, told>>

ChannelStatusCallback ==
    /\ Idle /\ probes > 0
    /\ probes' = probes - 1
    /\ job' = "CH_STATUS"
    /\ \/ runMode # "positioning" /\ enableLaser(ChannelIndex, FALSE)
       \/ runMode = "positioning" /\ UNCHANGED panelVars
    /\ UNCHANGED <<runMode, activeChannels, queued, lastCmd, told>>

SendChStatus ==
    /\ ~halted /\ phase = "idle" /\ job = "CH_STATUS"
    /\ SendPacketToBle
    /\ job' = "none"
    /\ UNCHANGED <<panelVars, runMode, activeChannels, probes, lastCmd, told>>

-----------------------------------------------------------------------------
(* Interrupts                                                              *)

\* Fault: nothing is sent while a handler is switching the lasers
wdcbNotInCall(c, s) ==
    \/ /\ runMode = "positioning" /\ phase = "idle"
       /\ SendPacketToBle
       /\ told' = [told EXCEPT ![c] = IF queued < QueueMax THEN s ELSE "lost"]
    \/ /\ runMode # "positioning" \/ phase # "idle"
       /\ UNCHANGED <<queued, told>>

\* The status callback of mainapp.c, called inside the interrupt routine when
\* the status of channel c becomes s: POS_STATUS, in positioning mode only
wdcb(c, s) ==
    \/ /\ runMode = "positioning"
       /\ SendPacketToBle
       /\ told' = [told EXCEPT ![c] = IF queued < QueueMax THEN s ELSE "lost"]
    \/ /\ runMode # "positioning"
       /\ UNCHANGED <<queued, told>>

StatusIsr ==
    /\ \E c \in ChannelIndex, s \in {"inactive", "active"} : Report(c, s) /\ wdcb(c, s)
    /\ UNCHANGED <<runMode, activeChannels, job, probes, lastCmd>>

-----------------------------------------------------------------------------
MSG_Tasks ==
    \E m \in Command :
        Mode(m) \/ StartPos(m) \/ DonePos(m) \/ GetChannelSts(m) \/ Overrun(m) \/ Unsupported(m)
Endings == Reply \/ ProbeReply \/ SendChStatus
PanelStep ==
    /\ CallStep \/ \E c \in ChannelIndex : Attach(c)
    /\ UNCHANGED mainVars

MainNext ==
    MSG_Tasks \/ Endings \/ ChannelStatusCallback \/ Deliver \/ StatusIsr \/ PanelStep

MainSpec == MainInit /\ [][MainNext]_vars

\* The main loop calls MAINAPP_Tasks and SYS_TMR_Tasks again and again, and
\* enableLaser returns (ChannelsProps!CallsComplete).
MainFairness ==
    /\ WF_vars(PanelStep)
    /\ WF_vars(Endings)
    /\ SF_vars(ChannelStatusCallback)

FairMainSpec == MainSpec /\ MainFairness
=============================================================================
