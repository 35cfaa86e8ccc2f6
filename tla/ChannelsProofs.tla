--------------------------- MODULE ChannelsProofs ---------------------------
(***************************************************************************)
(* Channels: type correctness, Settled, CarrierOff and NoStrayLight, for   *)
(* every watchdog period and every outcome of the stray read.              *)
(***************************************************************************)
EXTENDS ChannelsProps, TLAPS

\* Nothing is enabled before both channels are attached.
Attached ==
    attached # ChannelIndex =>
        step = "idle" /\ \A c \in ChannelIndex : ~enabled[c]

\* How far Channel_Enable has brought the hardware of each channel in line with
\* its enabled flag: only the channel of the call in progress may lag, and only
\* in the parts the call has not reached yet.
InLine ==
    /\ halted => \A c \in ChannelIndex : ~pin[c]
    /\ ~halted =>
        /\ step \notin {"idle", "modulator"} => enabled[cur] = want[cur]
        /\ \A c \in ChannelIndex :
            /\ ~(c = cur /\ step = "enabler") => pin[c] = enabled[c]
            /\ ~(c = cur /\ step \in {"enabler", "watchdog"}) => wdRunning[c] = enabled[c]
            /\ ~(c = cur /\ step \in {"enabler", "watchdog", "input"}) => inputOn[c] = enabled[c]

\* The right channel is served first: it has what the call wants while the left
\* one is served, and a left channel that is on keeps the carrier running until
\* the right one has been served.
RightFirst ==
    ~halted =>
        /\ step = "idle" => cur = Right
        /\ cur = Left => enabled[Right] = want[Right]
        /\ enabled[Left] => \/ cur = Right /\ step \notin {"idle", "modulator"}
                            \/ cur = Left /\ step = "modulator"
                            \/ modulating

IInv == TypeOK /\ Attached /\ InLine /\ RightFirst /\ CarrierOff

USE DEF ChannelIndex, Right, Left, Steps, ChannelStatus

-----------------------------------------------------------------------------
\* Every variable keeps its type: the watchdog counters stay below the period
\* and the call and interrupt bookkeeping stays in range.
THEOREM Typing == Spec => []TypeOK
<1>1. Init => TypeOK
  <2> SUFFICES ASSUME Init PROVE TypeOK
    OBVIOUS
  <2>1. 0 \in 0 .. WdPeriod - 1
    BY WdPeriodAssumption
  <2> QED
    BY <2>1 DEF Init, TypeOK
<1>2. TypeOK /\ [Next]_chVars => TypeOK'
  <2> SUFFICES ASSUME TypeOK, [Next]_chVars PROVE TypeOK'
    OBVIOUS
  <2> USE WdPeriodAssumption DEF TypeOK, swVars, outVars, wdVars, flagVars,
                                 callVars, isrVars
  <2>1. ASSUME NEW c \in ChannelIndex, Attach(c) PROVE TypeOK'
    BY <2>1 DEF Attach
  <2>2. ASSUME NEW which \in SUBSET ChannelIndex, NEW power \in BOOLEAN,
               enableLaser(which, power)
        PROVE TypeOK'
    BY <2>2 DEF enableLaser
  <2>3. CASE SetModulator
    BY <2>3 DEF SetModulator, StopCarrier, Trap
  <2>4. CASE SetEnabler
    BY <2>4 DEF SetEnabler
  <2>5. CASE SetWatchdog
    BY <2>5 DEF SetWatchdog
  <2>6. CASE SetInput
    BY <2>6 DEF SetInput
  <2>7. CASE IsrReturn
    BY <2>7 DEF IsrReturn
  <2>8. ASSUME NEW c \in ChannelIndex, fakewd(c) PROVE TypeOK'
    BY <2>8 DEF fakewd
  <2>9. ASSUME NEW c \in ChannelIndex, laserInput(c) PROVE TypeOK'
    BY <2>9 DEF laserInput
  <2>10. CASE Tick
    <3>1. wdCount' \in [ChannelIndex -> 0 .. WdPeriod - 1]
      BY <2>10 DEF Tick
    <3>2. wdFlag' \in [ChannelIndex -> BOOLEAN] /\ inFlag' \in [ChannelIndex -> BOOLEAN]
      BY <2>10 DEF Tick
    <3> QED BY <2>10, <3>1, <3>2 DEF Tick
  <2>11. CASE UNCHANGED chVars
    BY <2>11 DEF chVars
  <2> QED
    BY <2>1, <2>2, <2>3, <2>4, <2>5, <2>6, <2>7, <2>8, <2>9, <2>10, <2>11
       DEF Next, MainStep, Isr
<1> QED
  BY <1>1, <1>2, PTL DEF Spec

-----------------------------------------------------------------------------
\* The steps that leave alone everything Attached, InLine, RightFirst and
\* CarrierOff speak of: interrupts and hardware ticks.
LEMMA Elsewhere ==
    ASSUME IInv,
           Isr \/ Tick \/ UNCHANGED chVars
    PROVE  (Attached /\ InLine /\ RightFirst /\ CarrierOff)'
<1>1. UNCHANGED <<attached, enabled, modulating, pin, wdRunning, inputOn,
                  step, cur, want, halted>>
  BY DEF Isr, IsrReturn, fakewd, laserInput, Tick,
         chVars, swVars, outVars, wdVars, flagVars, callVars, isrVars
<1> QED
  BY <1>1 DEF IInv, Attached, InLine, RightFirst, CarrierOff

\* The inductive invariant.
THEOREM Invariance == Spec => []IInv
<1>1. Init => IInv
  <2> SUFFICES ASSUME Init PROVE IInv
    OBVIOUS
  <2>1. 0 \in 0 .. WdPeriod - 1
    BY WdPeriodAssumption
  <2>2. TypeOK
    BY <2>1 DEF Init, TypeOK
  <2> QED
    BY <2>2 DEF Init, IInv, Attached, InLine, RightFirst, CarrierOff
<1>2. TypeOK /\ TypeOK' /\ IInv /\ [Next]_chVars => IInv'
  <2> SUFFICES ASSUME TypeOK, TypeOK', IInv, [Next]_chVars
               PROVE  (Attached /\ InLine /\ RightFirst /\ CarrierOff)'
    BY DEF IInv
  <2>1. ASSUME NEW c \in ChannelIndex, Attach(c)
        PROVE  (Attached /\ InLine /\ RightFirst /\ CarrierOff)'
    BY <2>1 DEF Attach, TypeOK, IInv, Attached, InLine, RightFirst, CarrierOff,
                outVars, callVars, isrVars
  <2>2. ASSUME NEW which \in SUBSET ChannelIndex, NEW power \in BOOLEAN,
               enableLaser(which, power)
        PROVE  (Attached /\ InLine /\ RightFirst /\ CarrierOff)'
    BY <2>2 DEF enableLaser, TypeOK, IInv, Attached, InLine, RightFirst, CarrierOff,
                swVars, outVars, wdVars, isrVars, MainRuns
  <2>3. CASE SetModulator
    <3>1. Attached'
      BY <2>3 DEF SetModulator, StopCarrier, Trap, wdVars, isrVars, MainRuns, TypeOK, IInv, Attached
    <3>2. InLine'
      BY <2>3 DEF SetModulator, StopCarrier, Trap, wdVars, isrVars, MainRuns, TypeOK, IInv, InLine
    <3>3. RightFirst'
      BY <2>3 DEF SetModulator, StopCarrier, Trap, wdVars, isrVars, MainRuns, TypeOK, IInv, InLine, RightFirst
    <3>4. CarrierOff'
      BY <2>3 DEF SetModulator, StopCarrier, Trap, wdVars, isrVars, MainRuns, TypeOK, IInv, CarrierOff
    <3> QED
      BY <3>1, <3>2, <3>3, <3>4
  <2>4. CASE SetEnabler
    <3>1. Attached'
      BY <2>4 DEF SetEnabler, swVars, wdVars, isrVars, MainRuns, TypeOK, IInv, Attached
    <3>2. InLine'
      BY <2>4 DEF SetEnabler, swVars, wdVars, isrVars, MainRuns, TypeOK, IInv, InLine
    <3>3. RightFirst'
      BY <2>4 DEF SetEnabler, swVars, wdVars, isrVars, MainRuns, TypeOK, IInv, InLine, RightFirst
    <3>4. CarrierOff'
      BY <2>4 DEF SetEnabler, swVars, wdVars, isrVars, MainRuns, TypeOK, IInv, CarrierOff
    <3> QED
      BY <3>1, <3>2, <3>3, <3>4
  <2>5. CASE SetWatchdog
    <3>1. Attached'
      BY <2>5 DEF SetWatchdog, swVars, outVars, isrVars, MainRuns, TypeOK, IInv, Attached
    <3>2. InLine'
      BY <2>5 DEF SetWatchdog, swVars, outVars, isrVars, MainRuns, TypeOK, IInv, InLine
    <3>3. RightFirst'
      BY <2>5 DEF SetWatchdog, swVars, outVars, isrVars, MainRuns, TypeOK, IInv, InLine, RightFirst
    <3>4. CarrierOff'
      BY <2>5 DEF SetWatchdog, swVars, outVars, isrVars, MainRuns, TypeOK, IInv, CarrierOff
    <3> QED
      BY <3>1, <3>2, <3>3, <3>4
  <2>6. CASE SetInput
    <3>1. Attached'
      BY <2>6 DEF SetInput, swVars, outVars, wdVars, isrVars, MainRuns, TypeOK, IInv, Attached
    <3>2. InLine'
      BY <2>6 DEF SetInput, swVars, outVars, wdVars, isrVars, MainRuns, TypeOK, IInv, InLine
    <3>3. RightFirst'
      BY <2>6 DEF SetInput, swVars, outVars, wdVars, isrVars, MainRuns, TypeOK, IInv, InLine, RightFirst
    <3>4. CarrierOff'
      BY <2>6 DEF SetInput, swVars, outVars, wdVars, isrVars, MainRuns, TypeOK, IInv, CarrierOff
    <3> QED
      BY <3>1, <3>2, <3>3, <3>4
  <2>7. CASE Isr \/ Tick \/ UNCHANGED chVars
    BY <2>7, Elsewhere
  <2> QED
    BY <2>1, <2>2, <2>3, <2>4, <2>5, <2>6, <2>7 DEF Next, MainStep
<1> QED
  BY <1>1, <1>2, Typing, PTL DEF Spec

\* Output enable, watchdog timer and input source agree with Channel.enabled
\* between calls, and are off after an exception, for every preemption.
THEOREM AlwaysSettled == Spec => []Settled
<1>1. IInv => Settled
  BY DEF IInv, InLine, Settled
<1> QED
  BY <1>1, Invariance, PTL

\* The carrier never outlives the last enabled channel, for every result of the
\* read past the client array.
THEOREM AlwaysCarrierOff == Spec => []CarrierOff
<1>1. IInv => CarrierOff
  BY DEF IInv
<1> QED
  BY <1>1, Invariance, PTL

\* No call lights a laser it was not asked for, not even between two of its
\* hardware accesses.
THEOREM NeverStrayLight == Spec => NoStrayLight
<1> DEFINE A == \A c \in ChannelIndex : ~Emitting(c) /\ Emitting(c)' => want'[c]
<1>1. IInv /\ [Next]_chVars => [A]_chVars
  <2> SUFFICES ASSUME IInv, Next, NEW c \in ChannelIndex, ~Emitting(c), Emitting(c)'
               PROVE  want'[c]
    BY DEF A
  <2> USE DEF IInv, TypeOK, Emitting
  <2>1. CASE SetModulator
    BY <2>1 DEF SetModulator, StopCarrier, Trap, InLine, RightFirst, MainRuns
  <2>2. CASE SetEnabler
    BY <2>2 DEF SetEnabler
  <2>3. CASE ~SetModulator /\ ~SetEnabler
    <3>1. UNCHANGED outVars
      BY <2>3 DEF Next, MainStep, Isr, Attach, enableLaser, SetWatchdog, SetInput,
                  IsrReturn, fakewd, laserInput, Tick
    <3> QED
      BY <3>1 DEF outVars
  <2> QED
    BY <2>1, <2>2, <2>3
<1> QED
  BY <1>1, Invariance, PTL DEF Spec, NoStrayLight

-----------------------------------------------------------------------------
\* What Progress says in the states of a call.
LEMMA ProgressIs ==
    ASSUME TypeOK
    PROVE  /\ step = "idle" <=> Progress = "idle"
           /\ step = "modulator" /\ cur = Right => Progress = "right"
           /\ step \in {"enabler", "watchdog", "input"} /\ cur = Right => Progress = "left"
           /\ step = "modulator" /\ cur = Left => Progress = "left"
           /\ step \in {"enabler", "watchdog", "input"} /\ cur = Left => Progress = "returning"
BY DEF TypeOK, Progress

\* Steps of the call: the enabled flag is set in the step that switches the carrier, and the
\* call moves on when the input has been switched.
LEMMA MainStepImplements ==
    ASSUME IInv, TypeOK', MainStep
    PROVE  Panel!CallStep \/ UNCHANGED <<attached, enabled, status, Progress, want, halted>>
<1>1. TypeOK /\ ~halted
  BY DEF IInv, MainStep, SetModulator, SetEnabler, SetWatchdog, SetInput, MainRuns
<1>2. /\ step' = "idle" <=> Progress' = "idle"
      /\ step' = "modulator" /\ cur' = Right => Progress' = "right"
      /\ step' \in {"enabler", "watchdog", "input"} /\ cur' = Right => Progress' = "left"
      /\ step' = "modulator" /\ cur' = Left => Progress' = "left"
      /\ step' \in {"enabler", "watchdog", "input"} /\ cur' = Left => Progress' = "returning"
  BY DEF TypeOK, Progress
<1>3. CASE SetModulator
  <2>1. /\ step = "modulator" /\ step' = "enabler" /\ cur' = cur
        /\ enabled' = [enabled EXCEPT ![cur] = want[cur]]
        /\ UNCHANGED <<attached, status, want>>
    BY <1>3 DEF SetModulator
  <2>2. halted' \in {FALSE, ~want[cur]}
    BY <1>1, <1>3 DEF SetModulator, StopCarrier, Trap, TypeOK
  <2>3. CASE cur = Right
    <3>1. Progress = "right" /\ Progress' = "left"
      BY <1>1, <1>2, <2>1, <2>3, ProgressIs
    <3> QED
      BY <1>1, <2>1, <2>2, <2>3, <3>1 DEF Panel!CallStep, Panel!Switch, Panel!Right, Panel!Left, Panel!ChannelIndex, Right, Left, ChannelIndex
  <2>4. CASE cur = Left
    <3>1. Progress = "left" /\ Progress' = "returning"
      BY <1>1, <1>2, <2>1, <2>4, ProgressIs
    <3> QED
      BY <1>1, <2>1, <2>2, <2>4, <3>1 DEF Panel!CallStep, Panel!Switch, Panel!Right, Panel!Left, Panel!ChannelIndex, Right, Left, ChannelIndex
  <2> QED
    BY <1>1, <2>3, <2>4 DEF TypeOK
<1>4. CASE SetEnabler \/ SetWatchdog
  <2>1. /\ step \in {"enabler", "watchdog"} /\ step' \in {"watchdog", "input"} /\ cur' = cur
        /\ UNCHANGED <<attached, enabled, status, want, halted>>
    BY <1>4 DEF SetEnabler, SetWatchdog, swVars
  <2>2. Progress' = Progress
    BY <1>1, <1>2, <2>1, ProgressIs DEF TypeOK
  <2> QED
    BY <2>1, <2>2
<1>5. CASE SetInput
  <2>1. step = "input" /\ UNCHANGED <<attached, enabled, status, want, halted>>
    BY <1>5 DEF SetInput, swVars
  <2>2. CASE cur = Right
    <3>1. Progress = "left" /\ Progress' = "left"
      BY <1>1, <1>2, <1>5, <2>1, <2>2, ProgressIs DEF SetInput
    <3> QED
      BY <2>1, <3>1
  <2>3. CASE cur = Left
    <3>1. Progress = "returning" /\ Progress' = "idle"
      BY <1>1, <1>2, <1>5, <2>1, <2>3, ProgressIs DEF SetInput
    <3> QED
      BY <1>1, <2>1, <3>1 DEF Panel!CallStep, Panel!Return, Panel!Right, Panel!Left, Panel!ChannelIndex, Right, Left, ChannelIndex
  <2> QED
    BY <1>1, <2>2, <2>3 DEF TypeOK
<1> QED
  BY <1>3, <1>4, <1>5 DEF MainStep

\* An interrupt routine reports a status, or tells nobody; between calls the input of a disabled
\* channel is off, so that it cannot become active.
LEMMA IsrImplements ==
    ASSUME IInv, Isr
    PROVE  \/ \E c \in ChannelIndex, s \in {"inactive", "active"} : Panel!Report(c, s)
           \/ UNCHANGED <<attached, enabled, status, Progress, want, halted>>
<1>1. UNCHANGED <<attached, enabled, want, halted, step, cur>>
  BY DEF Isr, IsrReturn, fakewd, laserInput, swVars, callVars
<1>2. Progress' = Progress
  BY <1>1 DEF Progress
<1>3. CASE IsrReturn
  BY <1>1, <1>2, <1>3 DEF IsrReturn, swVars
<1>4. ASSUME NEW c \in ChannelIndex, NEW s \in {"inactive", "active"}, ~halted,
             status' = [status EXCEPT ![c] = IF c \in attached THEN s ELSE @],
             s = "active" => enabled[c] \/ step # "idle"
      PROVE  Panel!Report(c, s) \/ status' = status
  <2>1. CASE c \in attached /\ s # status[c]
    <3>1. enabled[c] \/ step # "idle" => enabled[c] \/ Progress # "idle"
      BY ProgressIs DEF IInv
    <3> QED
      BY <1>1, <1>2, <1>4, <2>1, <3>1 DEF Panel!Report, Panel!Right, Panel!Left, Panel!ChannelIndex, Right, Left, ChannelIndex
  <2>2. CASE c \notin attached \/ s = status[c]
    BY <1>4, <2>2 DEF IInv, TypeOK
  <2> QED
    BY <2>1, <2>2
<1>5. ASSUME NEW c \in ChannelIndex, fakewd(c)
      PROVE  Panel!Report(c, "inactive") \/ status' = status
  BY <1>4, <1>5 DEF fakewd, MainRuns
<1>6. ASSUME NEW c \in ChannelIndex, laserInput(c)
      PROVE  Panel!Report(c, "active") \/ status' = status
  <2>1. ~halted /\ inputOn[c] /\ status' = [status EXCEPT ![c] = IF c \in attached THEN "active" ELSE @]
    BY <1>6 DEF laserInput, MainRuns
  <2>2. step = "idle" => enabled[c]
    BY <2>1 DEF IInv, InLine
  <2> QED
    BY <1>4, <2>1, <2>2
<1> QED
  BY <1>1, <1>2, <1>3, <1>5, <1>6 DEF Isr

\* Hardware accesses, interrupt flags and ticks are invisible: the laser control implements
\* LaserPanel, the contract the main application is built on.
THEOREM ChannelsImplementPanel == Spec => ImplementsPanel
<1>1. Init => Panel!Init
  BY DEF Init, Panel!Init, Progress, Panel!ChannelIndex, ChannelIndex, Panel!Right, Panel!Left, Right, Left
<1>2. IInv /\ TypeOK' /\ [Next]_chVars
        => [Panel!Next]_<<attached, enabled, status, Progress, want, halted>>
  <2> SUFFICES ASSUME IInv, TypeOK', [Next]_chVars
               PROVE  Panel!Next \/ UNCHANGED <<attached, enabled, status, Progress, want, halted>>
    OBVIOUS
  <2>1. ASSUME NEW c \in ChannelIndex, Attach(c) PROVE Panel!Attach(c)
    <3>1. /\ ~halted /\ step = "idle" /\ c \notin attached /\ attached' = attached \cup {c}
          /\ UNCHANGED <<enabled, status, step, cur, want, halted>>
      BY <2>1 DEF Attach, MainRuns, callVars
    <3>2. Progress = "idle" /\ Progress' = Progress
      BY <3>1 DEF Progress
    <3> QED
      BY <3>1, <3>2 DEF Panel!Attach, Panel!Right, Panel!Left, Panel!ChannelIndex, Right, Left, ChannelIndex
  <2>2. ASSUME NEW which \in SUBSET ChannelIndex, NEW power \in BOOLEAN, enableLaser(which, power)
        PROVE  Panel!enableLaser(which, power)
    <3>1. /\ ~halted /\ step = "idle" /\ attached = ChannelIndex
          /\ want' = [c \in ChannelIndex |-> c \in which /\ power]
          /\ step' = "modulator" /\ cur' = Right
          /\ UNCHANGED <<attached, enabled, status, halted>>
      BY <2>2 DEF enableLaser, MainRuns, swVars
    <3>2. Progress = "idle" /\ Progress' = "right"
      BY <3>1 DEF Progress
    <3> QED
      BY <3>1, <3>2 DEF Panel!enableLaser, Panel!Right, Panel!Left, Panel!ChannelIndex, Right, Left, ChannelIndex
  <2>3. CASE MainStep
    BY <2>3, MainStepImplements DEF Panel!Next
  <2>4. CASE Isr
    BY <2>4, IsrImplements DEF Panel!Next, Panel!ChannelIndex, ChannelIndex, Panel!Right, Panel!Left, Right, Left
  <2>5. CASE Tick \/ UNCHANGED chVars
    BY <2>5 DEF Tick, chVars, swVars, callVars, Progress
  <2> QED
    BY <2>1, <2>2, <2>3, <2>4, <2>5 DEF Next, Panel!Next, Panel!ChannelIndex, ChannelIndex, Panel!Right, Panel!Left, Right, Left
<1> QED
  BY <1>1, <1>2, Invariance, Typing, PTL
     DEF Spec, ImplementsPanel, Panel!Spec, Panel!panelVars
=============================================================================
