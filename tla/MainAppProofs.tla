---------------------------- MODULE MainAppProofs ----------------------------
(***************************************************************************)
(* MainApp: type correctness, LitHasOwner, PositioningLit and ToldCurrent, *)
(* for any run modes, queue and timers, on the panel of LaserPanel.        *)
(***************************************************************************)
EXTENDS MainAppProps, TLAPS

\* The open handler has called enableLaser, whose steps run or have run.
Calling ==
    \/ job \in {"MODE", "START_POS", "DONE_POS", "GET_CHANNEL_STS"}
    \/ job = "CH_STATUS" /\ runMode # "positioning"

\* A call is made by an open handler, and has switched the channels behind it.
InCall ==
    /\ phase # "idle" => Calling
    /\ phase = "left" => enabled[Right] = want[Right]
    /\ phase = "returning" \/ (phase = "idle" /\ Calling) => enabled = want

\* What the call of each handler asks for.
Wanted ==
    /\ job = "MODE" =>
          /\ lastCmd = "MODE"
          /\ \A c \in ChannelIndex : want[c] <=> runMode = "positioning" /\ c \in activeChannels
    /\ job = "START_POS" => lastCmd = "START_POS"
    /\ job = "DONE_POS" => lastCmd = "DONE_POS" /\ \A c \in ChannelIndex : ~want[c]
    /\ job = "GET_CHANNEL_STS" => lastCmd = "PROBE"
    /\ job = "CH_STATUS" /\ runMode # "positioning" => \A c \in ChannelIndex : ~want[c]

\* LitHasOwner and PositioningLit, also in the middle of a callback that switches nothing.
Owned ==
    phase = "idle" /\ ~Calling =>
        /\ AnyOn =>
              \/ lastCmd = "MODE" /\ runMode = "positioning"
              \/ lastCmd = "START_POS"
              \/ lastCmd = "PROBE" /\ (probes > 0 \/ runMode = "positioning")
              \/ lastCmd = "PROBE_FAILED"
        /\ runMode = "positioning" /\ lastCmd = "MODE" =>
              \A c \in ChannelIndex : enabled[c] <=> c \in activeChannels

\* A positioning session begins with nothing told.
ToldFresh == runMode # "positioning" => told = Nothing

MainInv == MainTypeOK /\ InCall /\ Wanted /\ Owned /\ ToldFresh /\ ToldCurrent

-----------------------------------------------------------------------------
\* What is true at the start.
LEMMA MainInitInv == MainInit => MainInv
<1> SUFFICES ASSUME MainInit PROVE MainInv
  OBVIOUS
<1> USE DEF MainInit, Init
<1>1. MainTypeOK
  <2>1. "none" \in RunModes /\ 0 \in 0 .. TimerSlots /\ 0 \in 0 .. QueueMax
    BY RunModesAssumption, BoundsAssumption
  <2> QED
    BY <2>1 DEF MainTypeOK, Nothing, ChannelStatus
<1>2. InCall /\ Wanted
  BY DEF InCall, Calling, Wanted
<1>3. Owned
  BY DEF Owned, Calling, AnyOn
<1>4. ToldFresh /\ ToldCurrent
  BY DEF ToldFresh, ToldCurrent, Nothing
<1> QED
  BY <1>1, <1>2, <1>3, <1>4 DEF MainInv

\* Sending changes the number of queued packets only, within the queue.
LEMMA QueueBounded ==
    ASSUME queued \in 0 .. QueueMax, SendPacketToBle
    PROVE  queued' \in 0 .. QueueMax
BY BoundsAssumption DEF SendPacketToBle

\* No command changes what has been told, but one that leaves positioning mode.
LEMMA ToldKept ==
    ASSUME MainInv, UNCHANGED <<told, runMode, status>>
    PROVE  ToldFresh' /\ ToldCurrent'
BY DEF MainInv, ToldFresh, ToldCurrent, Nothing

\* A handler that only answers leaves lasers and mode alone.
LEMMA AnswerKeeps ==
    ASSUME MainInv, UNCHANGED <<panelVars, runMode, activeChannels, probes, job, lastCmd, told>>,
           queued' \in 0 .. QueueMax
    PROVE  MainInv'
<1>1. MainTypeOK'
  BY DEF MainInv, MainTypeOK, panelVars
<1>2. InCall' /\ Wanted' /\ Owned'
  BY DEF MainInv, InCall, Wanted, Owned, Calling, AnyOn, panelVars
<1> QED
  BY <1>1, <1>2, ToldKept DEF MainInv, panelVars

\* A handler that has made its call is in the middle of it; nothing is claimed of the lasers
\* until it has returned.
LEMMA CallBegins ==
    ASSUME MainInv, NEW S, NEW on \in BOOLEAN, enableLaser(S, on),
           job' \in {"MODE", "START_POS", "DONE_POS", "GET_CHANNEL_STS", "CH_STATUS"},
           job' = "CH_STATUS" => runMode' # "positioning"
    PROVE  /\ InCall' /\ Owned'
           /\ want' = [c \in ChannelIndex |-> c \in S /\ on] /\ want' \in [ChannelIndex -> BOOLEAN]
           /\ UNCHANGED <<attached, enabled, status, halted>> /\ phase' = "right"
<1>1. /\ UNCHANGED <<attached, enabled, status, halted>> /\ phase' = "right"
      /\ want' = [c \in ChannelIndex |-> c \in S /\ on]
  BY DEF enableLaser
<1>2. want' \in [ChannelIndex -> BOOLEAN]
  BY <1>1
<1>3. InCall' /\ Owned'
  BY <1>1 DEF InCall, Calling, Owned
<1> QED
  BY <1>1, <1>2, <1>3

\* The commands, up to their call.
LEMMA ModeKeeps ==
    ASSUME MainInv, NEW m \in Command, Mode(m)
    PROVE  MainInv'
<1>1. /\ job' = "MODE" /\ lastCmd' = "MODE" /\ UNCHANGED <<probes, queued>>
      /\ told' = IF runMode' = "positioning" THEN told ELSE Nothing
  BY DEF Mode
<1>2. runMode' \in RunModes /\ activeChannels' \subseteq ChannelIndex
  <2>1. m.cmd = "MODE" => m.mode \in RunModes /\ m.ch \subseteq ChannelIndex
    BY DEF Command
  <2> QED
    BY <2>1 DEF Mode, MainInv, MainTypeOK
<1>3. /\ InCall' /\ Owned' /\ Wanted' /\ MainTypeOK' /\ UNCHANGED status
  <2>1. CASE runMode' = "positioning" /\ enableLaser(activeChannels', TRUE)
    <3>1. /\ InCall' /\ Owned'
          /\ want' = [c \in ChannelIndex |-> c \in activeChannels' /\ TRUE]
          /\ want' \in [ChannelIndex -> BOOLEAN]
          /\ UNCHANGED <<attached, enabled, status, halted>> /\ phase' = "right"
      BY <2>1, <1>1, CallBegins
    <3>2. Wanted'
      BY <3>1, <1>1, <2>1 DEF Wanted
    <3>3. MainTypeOK'
      BY <3>1, <1>1, <1>2, <2>1 DEF MainInv, MainTypeOK
    <3> QED
      BY <3>1, <3>2, <3>3
  <2>2. CASE runMode' # "positioning" /\ enableLaser(ChannelIndex, FALSE)
    <3>1. /\ InCall' /\ Owned'
          /\ want' = [c \in ChannelIndex |-> c \in ChannelIndex /\ FALSE]
          /\ want' \in [ChannelIndex -> BOOLEAN]
          /\ UNCHANGED <<attached, enabled, status, halted>> /\ phase' = "right"
      BY <2>2, <1>1, CallBegins
    <3>2. Wanted'
      BY <3>1, <1>1, <2>2 DEF Wanted
    <3>3. MainTypeOK'
      BY <3>1, <1>1, <1>2, <2>2 DEF MainInv, MainTypeOK, Nothing
    <3> QED
      BY <3>1, <3>2, <3>3
  <2> QED
    BY <2>1, <2>2 DEF Mode
<1>4. ToldFresh' /\ ToldCurrent'
  BY <1>1, <1>3 DEF MainInv, ToldFresh, ToldCurrent, Nothing
<1> QED
  BY <1>3, <1>4 DEF MainInv

\* START_POS.
LEMMA StartPosKeeps ==
    ASSUME MainInv, NEW m \in Command, StartPos(m)
    PROVE  MainInv'
<1>1. UNCHANGED <<runMode, activeChannels, probes, queued, told>>
  BY DEF StartPos
<1>2. CASE m.pLen # 0
  <2>1. enableLaser(m.ch, TRUE) /\ job' = "START_POS" /\ lastCmd' = "START_POS"
    BY <1>2 DEF StartPos
  <2>2. /\ InCall' /\ Owned' /\ want' \in [ChannelIndex -> BOOLEAN]
        /\ UNCHANGED <<attached, enabled, status, halted>> /\ phase' = "right"
    BY <2>1, CallBegins
  <2>3. Wanted'
    BY <2>1 DEF Wanted
  <2>4. MainTypeOK'
    BY <1>1, <2>1, <2>2 DEF MainInv, MainTypeOK
  <2> QED
    BY <1>1, <2>2, <2>3, <2>4, ToldKept DEF MainInv
<1>3. CASE m.pLen = 0
  <2>0. ~ (m.pLen > 0)
    BY <1>3
  <2>1. /\ halted' = TRUE
        /\ UNCHANGED <<attached, enabled, status, phase, want, job, lastCmd>>
    BY <2>0 DEF StartPos, Trap
  <2>2. InCall' /\ Wanted' /\ Owned'
    BY <1>1, <2>1 DEF MainInv, InCall, Wanted, Owned, Calling, AnyOn
  <2>3. MainTypeOK'
    BY <1>1, <2>1 DEF MainInv, MainTypeOK
  <2> QED
    BY <1>1, <2>1, <2>2, <2>3, ToldKept DEF MainInv
<1> QED
  BY <1>2, <1>3

\* DONE_POS.
LEMMA DonePosKeeps ==
    ASSUME MainInv, NEW m \in Command, DonePos(m)
    PROVE  MainInv'
<1>1. /\ UNCHANGED <<runMode, activeChannels, probes, queued, told>>
      /\ enableLaser(ChannelIndex, FALSE) /\ job' = "DONE_POS" /\ lastCmd' = "DONE_POS"
  BY DEF DonePos
<1>2. /\ InCall' /\ Owned'
      /\ want' = [c \in ChannelIndex |-> c \in ChannelIndex /\ FALSE]
      /\ want' \in [ChannelIndex -> BOOLEAN]
      /\ UNCHANGED <<attached, enabled, status, halted>> /\ phase' = "right"
  BY <1>1, CallBegins
<1>3. Wanted'
  BY <1>1, <1>2 DEF Wanted
<1>4. MainTypeOK'
  BY <1>1, <1>2 DEF MainInv, MainTypeOK
<1> QED
  BY <1>1, <1>2, <1>3, <1>4, ToldKept DEF MainInv

\* GET_CHANNEL_STS, the probe.
LEMMA GetChannelStsKeeps ==
    ASSUME MainInv, NEW m \in Command, GetChannelSts(m)
    PROVE  MainInv'
<1>1. UNCHANGED <<runMode, probes, told>>
  BY DEF GetChannelSts
<1>2. CASE m.pLen = 1
  <2>1. /\ enableLaser(m.ch, TRUE) /\ job' = "GET_CHANNEL_STS" /\ lastCmd' = "PROBE"
        /\ activeChannels' = m.ch /\ UNCHANGED queued
    BY <1>2 DEF GetChannelSts
  <2>2. m.ch \subseteq ChannelIndex
    BY DEF GetChannelSts, Command
  <2>3. /\ InCall' /\ Owned' /\ want' \in [ChannelIndex -> BOOLEAN]
        /\ UNCHANGED <<attached, enabled, status, halted>> /\ phase' = "right"
    BY <2>1, CallBegins
  <2>4. Wanted'
    BY <2>1 DEF Wanted
  <2>5. MainTypeOK'
    BY <1>1, <2>1, <2>2, <2>3 DEF MainInv, MainTypeOK
  <2> QED
    BY <1>1, <2>3, <2>4, <2>5, ToldKept DEF MainInv
<1>3. CASE m.pLen # 1
  <2>1. queued' \in 0 .. QueueMax
    BY <1>3, QueueBounded DEF GetChannelSts, MainInv, MainTypeOK
  <2> QED
    BY <1>1, <1>3, <2>1, AnswerKeeps DEF GetChannelSts
<1> QED
  BY <1>2, <1>3

\* A program that stops, or loses its way, has left lasers and mode alone.
LEMMA TrapKeeps ==
    ASSUME MainInv, Trap, UNCHANGED <<runMode, activeChannels, job, probes, queued, lastCmd, told>>
    PROVE  MainInv'
<1>1. halted' = TRUE /\ UNCHANGED <<attached, enabled, status, phase, want, queued>>
  BY DEF Trap
<1>2. MainTypeOK'
  BY <1>1 DEF MainInv, MainTypeOK
<1>3. InCall' /\ Wanted' /\ Owned'
  BY <1>1 DEF MainInv, InCall, Wanted, Owned, Calling, AnyOn
<1> QED
  BY <1>1, <1>2, <1>3, ToldKept DEF MainInv

\* A command without a parser, one too long for its parser, and the delivery of a packet leave
\* lasers and mode alone.
LEMMA OthersKeep ==
    ASSUME MainInv, (\E m \in Command : Unsupported(m) \/ Overrun(m)) \/ Deliver
    PROVE  MainInv'
<1>1. CASE Deliver
  <2>1. queued' \in 0 .. QueueMax
    <3>1. queued > 0 /\ queued' = queued - 1
      BY <1>1 DEF Deliver
    <3> QED
      BY <3>1, BoundsAssumption DEF MainInv, MainTypeOK
  <2> QED
    BY <1>1, <2>1, AnswerKeeps DEF Deliver
<1>2. ASSUME NEW m \in Command, Unsupported(m) PROVE MainInv'
  <2>1. UNCHANGED <<runMode, activeChannels, job, probes, lastCmd, told>>
    BY <1>2 DEF Unsupported
  <2>2. CASE SendPacketToBle /\ UNCHANGED panelVars
    <3>1. queued' \in 0 .. QueueMax
      BY <2>2, QueueBounded DEF MainInv, MainTypeOK
    <3> QED
      BY <2>1, <2>2, <3>1, AnswerKeeps
  <2>3. CASE Trap /\ UNCHANGED queued
    BY <2>1, <2>3, TrapKeeps
  <2> QED
    BY <1>2, <2>2, <2>3 DEF Unsupported
<1>3. ASSUME NEW m \in Command, Overrun(m) PROVE MainInv'
  BY <1>3, TrapKeeps DEF Overrun, mainVars
<1> QED
  BY <1>1, <1>2, <1>3

\* The callback of a probe switches everything off, or nothing in positioning mode: there the
\* mode is what the lasers are owed to.
LEMMA CallbackKeeps ==
    ASSUME MainInv, ChannelStatusCallback
    PROVE  MainInv'
<1>1. /\ UNCHANGED <<runMode, activeChannels, queued, lastCmd, told>>
      /\ job' = "CH_STATUS" /\ job = "none" /\ phase = "idle"
  BY DEF ChannelStatusCallback, Idle
<1>2. probes' \in 0 .. TimerSlots
  <2>1. probes > 0 /\ probes' = probes - 1
    BY DEF ChannelStatusCallback
  <2> QED
    BY <2>1, BoundsAssumption DEF MainInv, MainTypeOK
<1>3. CASE runMode # "positioning" /\ enableLaser(ChannelIndex, FALSE)
  <2>1. /\ InCall' /\ Owned'
        /\ want' = [c \in ChannelIndex |-> c \in ChannelIndex /\ FALSE]
        /\ want' \in [ChannelIndex -> BOOLEAN]
        /\ UNCHANGED <<attached, enabled, status, halted>> /\ phase' = "right"
    BY <1>1, <1>3, CallBegins
  <2>2. Wanted'
    BY <1>1, <2>1 DEF Wanted
  <2>3. MainTypeOK'
    BY <1>1, <1>2, <2>1 DEF MainInv, MainTypeOK
  <2> QED
    BY <1>1, <2>1, <2>2, <2>3, ToldKept DEF MainInv
<1>4. CASE runMode = "positioning" /\ UNCHANGED panelVars
  <2>1. UNCHANGED <<attached, enabled, status, phase, want, halted>>
    BY <1>4 DEF panelVars
  <2>2. MainTypeOK'
    BY <1>1, <1>2, <2>1 DEF MainInv, MainTypeOK
  <2>3. InCall' /\ Wanted'
    BY <1>1, <1>4, <2>1 DEF MainInv, InCall, Wanted, Calling
  <2>4. Owned'
    BY <1>1, <1>4, <2>1 DEF MainInv, Owned, Calling, AnyOn
  <2> QED
    BY <1>1, <2>1, <2>2, <2>3, <2>4, ToldKept DEF MainInv
<1> QED
  BY <1>3, <1>4 DEF ChannelStatusCallback

\* When the call has returned the lasers are as the handler wanted them, and it ends.
LEMMA EndingKeeps ==
    ASSUME MainInv, Endings
    PROVE  MainInv'
<1>1. /\ UNCHANGED <<panelVars, runMode, activeChannels, told>> /\ job' = "none"
      /\ phase = "idle" /\ ~halted /\ SendPacketToBle
  BY DEF Endings, Reply, ProbeReply, SendChStatus
<1>2. UNCHANGED <<attached, enabled, status, phase, want, halted>> /\ queued' \in 0 .. QueueMax
  BY <1>1, QueueBounded DEF panelVars, MainInv, MainTypeOK
<1>3. CASE Reply
  <2>1. /\ job \in {"MODE", "START_POS", "DONE_POS"} /\ UNCHANGED <<probes, lastCmd>>
    BY <1>3 DEF Reply
  <2>2. MainTypeOK'
    BY <1>1, <1>2, <2>1 DEF MainInv, MainTypeOK
  <2>3. InCall' /\ Wanted'
    BY <1>1, <1>2, <2>1 DEF InCall, Wanted, Calling
  <2>4. enabled = want
    BY <1>1, <2>1 DEF MainInv, InCall, Calling
  <2>5. Owned'
    BY <1>1, <1>2, <2>1, <2>4 DEF MainInv, Wanted, Owned, Calling, AnyOn
  <2> QED
    BY <1>1, <1>2, <2>2, <2>3, <2>5, ToldKept DEF MainInv
<1>4. CASE ProbeReply
  <2>1. /\ job = "GET_CHANNEL_STS" /\ lastCmd = "PROBE"
        /\ \/ probes' \in 1 .. TimerSlots /\ UNCHANGED lastCmd
           \/ probes' = probes /\ lastCmd' = "PROBE_FAILED"
    <3>1. job = "GET_CHANNEL_STS" /\ lastCmd = "PROBE"
      BY <1>4 DEF ProbeReply, MainInv, Wanted
    <3>2. \/ probes < TimerSlots /\ probes' = probes + 1 /\ UNCHANGED lastCmd
          \/ probes' = probes /\ lastCmd' = "PROBE_FAILED"
      BY <1>4 DEF ProbeReply
    <3>3. probes < TimerSlots => probes + 1 \in 1 .. TimerSlots
      BY BoundsAssumption DEF MainInv, MainTypeOK
    <3> QED
      BY <3>1, <3>2, <3>3
  <2>2. MainTypeOK'
    BY <1>1, <1>2, <2>1 DEF MainInv, MainTypeOK
  <2>3. InCall' /\ Wanted'
    BY <1>1, <1>2, <2>1 DEF InCall, Wanted, Calling
  <2>4. Owned'
    BY <1>1, <1>2, <2>1 DEF Owned, Calling, AnyOn
  <2> QED
    BY <1>1, <1>2, <2>2, <2>3, <2>4, ToldKept DEF MainInv
<1>5. CASE SendChStatus
  <2>1. /\ job = "CH_STATUS" /\ UNCHANGED <<probes, lastCmd>>
    BY <1>5 DEF SendChStatus
  <2>2. MainTypeOK'
    BY <1>1, <1>2, <2>1 DEF MainInv, MainTypeOK
  <2>3. InCall' /\ Wanted'
    BY <1>1, <1>2, <2>1 DEF InCall, Wanted, Calling
  <2>4. Owned'
    <3>1. CASE runMode = "positioning"
      BY <1>1, <1>2, <2>1, <3>1 DEF MainInv, Owned, Calling, AnyOn
    <3>2. CASE runMode # "positioning"
      BY <1>1, <1>2, <2>1, <3>2 DEF MainInv, InCall, Wanted, Owned, Calling, AnyOn
    <3> QED
      BY <3>1, <3>2
  <2> QED
    BY <1>1, <1>2, <2>2, <2>3, <2>4, ToldKept DEF MainInv
<1> QED
  BY <1>3, <1>4, <1>5 DEF Endings

\* A report is told in positioning mode, and only then.
LEMMA ReportKeeps ==
    ASSUME MainInv, StatusIsr
    PROVE  MainInv'
<1>1. PICK c \in ChannelIndex, s \in {"inactive", "active"} : Report(c, s) /\ wdcb(c, s)
  BY DEF StatusIsr
<1>2. /\ UNCHANGED <<runMode, activeChannels, job, probes, lastCmd>>
      /\ UNCHANGED <<attached, enabled, phase, want, halted>>
      /\ status' = [status EXCEPT ![c] = s]
  BY <1>1 DEF StatusIsr, Report
<1>3. queued' \in 0 .. QueueMax
  BY <1>1, QueueBounded DEF wdcb, MainInv, MainTypeOK
<1>4. \/ runMode = "positioning" /\ \E r \in {s, "lost"} : told' = [told EXCEPT ![c] = r]
      \/ runMode # "positioning" /\ UNCHANGED told
  BY <1>1 DEF wdcb
<1>5. MainTypeOK'
  <2>1. status' \in [ChannelIndex -> ChannelStatus]
    BY <1>2 DEF MainInv, MainTypeOK, ChannelStatus
  <2>2. told' \in [ChannelIndex -> {"none", "inactive", "active", "lost"}]
    BY <1>4 DEF MainInv, MainTypeOK
  <2> QED
    BY <1>2, <1>3, <2>1, <2>2 DEF MainInv, MainTypeOK
<1>6. InCall' /\ Wanted' /\ Owned'
  BY <1>2 DEF MainInv, InCall, Wanted, Owned, Calling, AnyOn
<1>7. ToldFresh'
  BY <1>2, <1>4 DEF MainInv, ToldFresh, Nothing
<1>8. ToldCurrent'
  BY <1>2, <1>4 DEF MainInv, MainTypeOK, ToldCurrent
<1> QED
  BY <1>5, <1>6, <1>7, <1>8 DEF MainInv

\* The steps of the panel bring the channels to what the open handler wants.
LEMMA PanelKeeps ==
    ASSUME MainInv, PanelStep
    PROVE  MainInv'
<1>1. /\ UNCHANGED <<runMode, activeChannels, job, probes, queued, lastCmd, told>>
      /\ UNCHANGED <<status, want>>
  BY DEF PanelStep, mainVars, CallStep, Switch, Return, Attach
<1>2. CASE \E c \in ChannelIndex : Attach(c)
  <2>1. UNCHANGED <<enabled, phase, halted>> /\ attached' \subseteq ChannelIndex
    BY <1>2 DEF Attach, MainInv, MainTypeOK
  <2>2. MainTypeOK'
    BY <1>1, <2>1 DEF MainInv, MainTypeOK
  <2>3. InCall' /\ Wanted' /\ Owned'
    BY <1>1, <2>1 DEF MainInv, InCall, Wanted, Owned, Calling, AnyOn
  <2> QED
    BY <1>1, <2>2, <2>3, ToldKept DEF MainInv
<1>3. CASE Switch(Right, "right", "left")
  <2>1. /\ phase = "right" /\ phase' = "left" /\ attached' = attached
        /\ enabled' = [enabled EXCEPT ![Right] = want[Right]] /\ halted' \in {FALSE, ~want[Right]}
    BY <1>3 DEF Switch
  <2>2. MainTypeOK'
    BY <1>1, <2>1 DEF MainInv, MainTypeOK, ChannelIndex
  <2>3. InCall' /\ Wanted' /\ Owned'
    BY <1>1, <2>1 DEF MainInv, MainTypeOK, InCall, Wanted, Owned, Calling, ChannelIndex
  <2> QED
    BY <1>1, <2>2, <2>3, ToldKept DEF MainInv
<1>4. CASE Switch(Left, "left", "returning")
  <2>1. /\ phase = "left" /\ phase' = "returning" /\ attached' = attached
        /\ enabled' = [enabled EXCEPT ![Left] = want[Left]] /\ halted' \in {FALSE, ~want[Left]}
    BY <1>4 DEF Switch
  <2>2. MainTypeOK'
    BY <1>1, <2>1 DEF MainInv, MainTypeOK, ChannelIndex
  <2>3. enabled' = want
    BY <2>1 DEF MainInv, MainTypeOK, InCall, ChannelIndex
  <2>4. InCall' /\ Wanted' /\ Owned'
    BY <1>1, <2>1, <2>3 DEF MainInv, InCall, Wanted, Owned, Calling
  <2> QED
    BY <1>1, <2>2, <2>4, ToldKept DEF MainInv
<1>5. CASE Return
  <2>1. /\ phase = "returning" /\ phase' = "idle" /\ UNCHANGED <<attached, enabled, halted>>
    BY <1>5 DEF Return
  <2>2. MainTypeOK'
    BY <1>1, <2>1 DEF MainInv, MainTypeOK
  <2>3. InCall' /\ Wanted' /\ Owned'
    BY <1>1, <2>1 DEF MainInv, InCall, Wanted, Owned, Calling
  <2> QED
    BY <1>1, <2>2, <2>3, ToldKept DEF MainInv
<1> QED
  BY <1>2, <1>3, <1>4, <1>5 DEF PanelStep, CallStep

-----------------------------------------------------------------------------
\* The invariant holds in every state: whatever order commands, timers, reports and the steps
\* of the panel come in.
THEOREM MainInvariance == MainSpec => []MainInv
<1>1. MainInit => MainInv
  BY MainInitInv
<1>2. MainInv /\ [MainNext]_vars => MainInv'
  <2> SUFFICES ASSUME MainInv, [MainNext]_vars PROVE MainInv'
    OBVIOUS
  <2>1. CASE MSG_Tasks
    BY <2>1, ModeKeeps, StartPosKeeps, DonePosKeeps, GetChannelStsKeeps, OthersKeep DEF MSG_Tasks
  <2>2. CASE Endings
    BY <2>2, EndingKeeps
  <2>3. CASE ChannelStatusCallback
    BY <2>3, CallbackKeeps
  <2>4. CASE Deliver
    BY <2>4, OthersKeep
  <2>5. CASE StatusIsr
    BY <2>5, ReportKeeps
  <2>6. CASE PanelStep
    BY <2>6, PanelKeeps
  <2>7. CASE UNCHANGED vars
    <3>1. /\ UNCHANGED <<panelVars, runMode, activeChannels, probes, job, lastCmd, told>>
          /\ queued' = queued
      BY <2>7 DEF vars, mainVars
    <3> QED
      BY <3>1, AnswerKeeps DEF MainInv, MainTypeOK
  <2> QED
    BY <2>1, <2>2, <2>3, <2>4, <2>5, <2>6, <2>7 DEF MainNext
<1> QED
  BY <1>1, <1>2, PTL DEF MainSpec

\* Type correctness of the main application.
THEOREM MainTyping == MainSpec => []MainTypeOK
<1>1. MainInv => MainTypeOK
  BY DEF MainInv
<1> QED
  BY <1>1, MainInvariance, PTL

\* Between handlers an enabled laser is owed to a command that wanted it on.
THEOREM AlwaysLitHasOwner == MainSpec => []LitHasOwner
<1>1. MainInv => LitHasOwner
  BY DEF MainInv, Owned, Calling, LitHasOwner, Busy
<1> QED
  BY <1>1, MainInvariance, PTL

\* Positioning mode keeps the channels of its command lit, and no others.
THEOREM AlwaysPositioningLit == MainSpec => []PositioningLit
<1>1. MainInv => PositioningLit
  BY DEF MainInv, Owned, Calling, PositioningLit, Busy
<1> QED
  BY <1>1, MainInvariance, PTL

\* What the application was told last of a channel is its status.
THEOREM AlwaysToldCurrent == MainSpec => []ToldCurrent
<1>1. MainInv => ToldCurrent
  BY DEF MainInv
<1> QED
  BY <1>1, MainInvariance, PTL
=============================================================================
