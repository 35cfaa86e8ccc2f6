------------------------------ MODULE Channels ------------------------------
(***************************************************************************)
(* The laser control of the speedometer: firmware/src/channels.c and the   *)
(* three components a channel is made of, modulator.c, fake_watchdog.c and *)
(* LaserInput.c, driven by enableLaser() of mainapp.c.                     *)
(*                                                                         *)
(* Main loop, interrupts and hardware interleave:                          *)
(*   - the main loop runs enableLaser(), one hardware access per step;     *)
(*   - the interrupt routines (fakewd, laserInput) have priority 7,        *)
(*     preempt the main loop anywhere and do not nest;                     *)
(*   - the hardware (timers 4 and 5, the two receivers) raises interrupt   *)
(*     flags whatever the processor is doing.                              *)
(* Time is counted in ticks of one period of the laser carrier: about 1 ms *)
(* at the 8 MHz of the peripheral bus (ChannelSetUp).                      *)
(***************************************************************************)
EXTENDS ChannelCommon, Integers

CONSTANTS
    WdPeriod,   \* ticks after which an unkicked watchdog timer matches (2.75 ms: 3)
    StrayReads  \* what modulator.clients[1]->enabled can yield, see LaserModulator_Enable

ASSUME WdPeriodAssumption == WdPeriod \in Nat /\ WdPeriod >= 2
ASSUME StrayReadsAssumption ==
    StrayReads # {} /\ StrayReads \subseteq {"set", "clear", "trap"}

Steps == {"idle", "modulator", "enabler", "watchdog", "input"}

VARIABLES
    \* Channel and LaserModulatorIfc (channels.h, modulator.h)
    attached,   \* channels initialised and given a callback
    enabled,    \* Channel.enabled and LaserModulatorIfc.enabled, always set together
    status,     \* Channel.status
    \* hardware
    modulating, \* timer 2 and output compare 1 run: the carrier is generated
    pin,        \* output enable of each laser, ANDed with the carrier
    wdRunning,  \* timer 4 / 5 runs
    wdCount,    \* its counter, in ticks
    wdFlag,     \* its interrupt flag
    inputOn,    \* external interrupt source 2 / 3 enabled
    inFlag,     \* its interrupt flag
    \* processor
    step, cur, want,  \* the enableLaser() call in progress: next step, channel, goals
    isr, isrCh,       \* the interrupt routine being served
    halted            \* _general_exception_handler has been entered

swVars   == <<attached, enabled, status>>
outVars  == <<modulating, pin>>
wdVars   == <<wdRunning, wdCount>>
flagVars == <<wdFlag, inFlag>>
callVars == <<step, cur, want>>
isrVars  == <<isr, isrCh>>
chVars   == <<swVars, outVars, wdVars, flagVars, inputOn,
              callVars, isrVars, halted>>

Emitting(c) == modulating /\ pin[c]
MainRuns    == isr = "none" /\ ~halted

Init ==
    /\ attached = {}
    /\ enabled = [c \in ChannelIndex |-> FALSE]
    /\ status = [c \in ChannelIndex |-> "unknown"]
    /\ modulating = FALSE
    /\ pin = [c \in ChannelIndex |-> FALSE]
    /\ wdRunning = [c \in ChannelIndex |-> FALSE]
    /\ wdCount = [c \in ChannelIndex |-> 0]
    /\ wdFlag = [c \in ChannelIndex |-> FALSE]
    /\ inputOn = [c \in ChannelIndex |-> FALSE]
    /\ inFlag = [c \in ChannelIndex |-> FALSE]
    /\ step = "idle" /\ cur = Right
    /\ want = [c \in ChannelIndex |-> FALSE]
    /\ isr = "none" /\ isrCh = Right
    /\ halted = FALSE

-----------------------------------------------------------------------------
(* Main loop                                                               *)

\* Channel_Get and Channel_SetCallback, as MAINAPP_Tasks calls them in its
\* initial state.  The timer is stopped, the input source disabled, both flags
\* cleared: no interrupt of the channel can come in between.
Attach(c) ==
    /\ MainRuns /\ step = "idle" /\ c \notin attached
    /\ attached' = attached \cup {c}
    /\ wdRunning' = [wdRunning EXCEPT ![c] = FALSE]
    /\ wdFlag' = [wdFlag EXCEPT ![c] = FALSE]
    /\ inputOn' = [inputOn EXCEPT ![c] = FALSE]
    /\ inFlag' = [inFlag EXCEPT ![c] = FALSE]
    /\ UNCHANGED <<enabled, status, outVars, wdCount, callVars,
                   isrVars, halted>>

\* enableLaser(which, power): the goal of each channel; Channel_Enable is then
\* run for the right one and for the left one, in this order.
enableLaser(which, power) ==
    /\ MainRuns /\ step = "idle" /\ attached = ChannelIndex
    /\ want' = [c \in ChannelIndex |-> c \in which /\ power]
    /\ step' = "modulator" /\ cur' = Right
    /\ UNCHANGED <<swVars, outVars, wdVars, flagVars, inputOn,
                   isrVars, halted>>

\* _general_exception_handler: both output pins cleared, then a loop for ever.
Trap ==
    /\ halted' = TRUE
    /\ pin' = [c \in ChannelIndex |-> FALSE]
    /\ UNCHANGED modulating

\* Fault: the loop over the clients starts at 1
StopCarrierSkipsFirst ==
    \E stray \in StrayReads :
        \/ stray = "trap" /\ Trap
        \/ stray # "trap" /\ modulating' = (modulating /\ stray = "set") /\ UNCHANGED <<pin, halted>>

\* The disabling half of LaserModulator_Enable.  Only clients[0] is initialised
\* (".clients = modulatorIfc" fills one element of the flexible array), so the
\* loop ANDs the right channel's flag with a read past the object.
StopCarrier ==
    \E stray \in StrayReads :
        \/ /\ stray = "trap"
           /\ Trap
        \/ /\ stray # "trap"
           /\ modulating' = (modulating /\ enabled'[Right] /\ stray = "set")
           /\ UNCHANGED <<pin, halted>>

\* Channel_Enable: the flags and LaserModulator_Enable
SetModulator ==
    /\ MainRuns /\ step = "modulator"
    /\ enabled' = [enabled EXCEPT ![cur] = want[cur]]
    /\ \/ want[cur] /\ modulating' = TRUE /\ UNCHANGED <<pin, halted>>
       \/ ~want[cur] /\ StopCarrier
    /\ step' = "enabler"
    /\ UNCHANGED <<attached, status, wdVars, flagVars, inputOn,
                   cur, want, isrVars>>

\* Fault: the output enable is only ever written to turn it on
SetEnablerOnlyOn ==
    /\ MainRuns /\ step = "enabler"
    /\ pin' = [pin EXCEPT ![cur] = @ \/ want[cur]]
    /\ step' = "watchdog"
    /\ UNCHANGED <<swVars, modulating, wdVars, flagVars, inputOn,
                   cur, want, isrVars, halted>>

\* ChannelEnabler_Enable
SetEnabler ==
    /\ MainRuns /\ step = "enabler"
    /\ pin' = [pin EXCEPT ![cur] = want[cur]]
    /\ step' = "watchdog"
    /\ UNCHANGED <<swVars, modulating, wdVars, flagVars, inputOn,
                   cur, want, isrVars, halted>>

\* FakeWD_Enable: starts or stops the timer; counter and flag are left alone
SetWatchdog ==
    /\ MainRuns /\ step = "watchdog"
    /\ wdRunning' = [wdRunning EXCEPT ![cur] = want[cur]]
    /\ step' = "input"
    /\ UNCHANGED <<swVars, outVars, wdCount, flagVars, inputOn,
                   cur, want, isrVars, halted>>

\* Fault: the input source is never disabled again
SetInputOnlyOn ==
    /\ MainRuns /\ step = "input"
    /\ inputOn' = [inputOn EXCEPT ![cur] = @ \/ want[cur]]
    /\ \/ cur = Right /\ cur' = Left /\ step' = "modulator"
       \/ cur = Left /\ cur' = Right /\ step' = "idle"
    /\ UNCHANGED <<swVars, outVars, wdVars, flagVars, want,
                   isrVars, halted>>

\* LaserInput_Enable: the source only; an edge latched meanwhile stays latched
SetInput ==
    /\ MainRuns /\ step = "input"
    /\ inputOn' = [inputOn EXCEPT ![cur] = want[cur]]
    /\ \/ cur = Right /\ cur' = Left /\ step' = "modulator"
       \/ cur = Left /\ cur' = Right /\ step' = "idle"
    /\ UNCHANGED <<swVars, outVars, wdVars, flagVars, want,
                   isrVars, halted>>

MainStep == SetModulator \/ SetEnabler \/ SetWatchdog \/ SetInput

-----------------------------------------------------------------------------
(* Interrupt routines: the callback, then IsrReturn clears the flag        *)

\* Fault: only an active channel is declared inactive
fakewdOnlyActive(c) ==
    /\ MainRuns /\ wdFlag[c]
    /\ isr' = "watchdog" /\ isrCh' = c
    /\ status' = [status EXCEPT ![c] = IF c \in attached /\ @ = "active" THEN "inactive" ELSE @]
    /\ UNCHANGED <<attached, enabled, outVars, wdVars, flagVars, inputOn, callVars, halted>>

\* fakewd_right / fakewd_left with Channel_FakeWDCallback
fakewd(c) ==
    /\ MainRuns /\ wdFlag[c]
    /\ isr' = "watchdog" /\ isrCh' = c
    /\ status' = [status EXCEPT ![c] = IF c \in attached THEN "inactive" ELSE @]
    /\ UNCHANGED <<attached, enabled, outVars, wdVars, flagVars, inputOn, callVars, halted>>

\* Fault: the watchdog is not kicked
laserInputNoKick(c) ==
    /\ MainRuns /\ inFlag[c] /\ inputOn[c]
    /\ isr' = "input" /\ isrCh' = c
    /\ status' = [status EXCEPT ![c] = IF c \in attached THEN "active" ELSE @]
    /\ UNCHANGED <<attached, enabled, outVars, wdVars, flagVars, inputOn, callVars, halted>>

\* Fault: a latched edge is served although the source is disabled
laserInputLatched(c) ==
    /\ MainRuns /\ inFlag[c]
    /\ isr' = "input" /\ isrCh' = c
    /\ wdCount' = [wdCount EXCEPT ![c] = 0]
    /\ status' = [status EXCEPT ![c] = IF c \in attached THEN "active" ELSE @]
    /\ UNCHANGED <<attached, enabled, outVars, wdRunning, flagVars, inputOn, callVars, halted>>

\* laserInputRight / laserInputLeft with Channel_LaserInputCallback: the
\* watchdog is kicked, then the status becomes active
laserInput(c) ==
    /\ MainRuns /\ inFlag[c] /\ inputOn[c]
    /\ isr' = "input" /\ isrCh' = c
    /\ wdCount' = [wdCount EXCEPT ![c] = 0]
    /\ status' = [status EXCEPT ![c] = IF c \in attached THEN "active" ELSE @]
    /\ UNCHANGED <<attached, enabled, outVars, wdRunning, flagVars, inputOn, callVars, halted>>

\* PLIB_INT_SourceFlagClear at the end of the routine: an event that came
\* while the callback ran is lost
IsrReturn ==
    /\ isr # "none"
    /\ isr' = "none" /\ isrCh' = Right
    /\ \/ /\ isr = "watchdog"
          /\ wdFlag' = [wdFlag EXCEPT ![isrCh] = FALSE]
          /\ UNCHANGED inFlag
       \/ /\ isr = "input"
          /\ inFlag' = [inFlag EXCEPT ![isrCh] = FALSE]
          /\ UNCHANGED wdFlag
    /\ UNCHANGED <<swVars, outVars, wdVars, inputOn, callVars, halted>>

-----------------------------------------------------------------------------
(* Hardware                                                                *)

\* Fault: the timers do not restart at the match
TickNoRestart ==
    /\ wdCount' = [c \in ChannelIndex |->
                      IF wdRunning[c] THEN wdCount[c] + 1 ELSE wdCount[c]]
    /\ wdFlag' = [c \in ChannelIndex |->
                      wdFlag[c] \/ (wdRunning[c] /\ wdCount[c] + 1 = WdPeriod)]
    /\ \E seen \in SUBSET {c \in ChannelIndex : Emitting(c)} :
          inFlag' = [c \in ChannelIndex |-> inFlag[c] \/ c \in seen]
    /\ UNCHANGED <<swVars, outVars, wdRunning, inputOn, callVars,
                   isrVars, halted>>

\* One carrier period: the running watchdog timers count (a match restarts
\* them at 0 and raises the flag), and the receiver of a laser that emits sees
\* an edge unless something covers it.
Tick ==
    /\ wdCount' = [c \in ChannelIndex |->
                      IF wdRunning[c] THEN (wdCount[c] + 1) % WdPeriod ELSE wdCount[c]]
    /\ wdFlag' = [c \in ChannelIndex |->
                      wdFlag[c] \/ (wdRunning[c] /\ wdCount[c] + 1 = WdPeriod)]
    /\ \E seen \in SUBSET {c \in ChannelIndex : Emitting(c)} :
          inFlag' = [c \in ChannelIndex |-> inFlag[c] \/ c \in seen]
    /\ UNCHANGED <<swVars, outVars, wdRunning, inputOn, callVars,
                   isrVars, halted>>

-----------------------------------------------------------------------------
Isr == IsrReturn \/ \E c \in ChannelIndex : fakewd(c) \/ laserInput(c)

Next ==
    \/ \E c \in ChannelIndex : Attach(c)
    \/ \E which \in SUBSET ChannelIndex, power \in BOOLEAN : enableLaser(which, power)
    \/ MainStep
    \/ Isr
    \/ Tick

Spec == Init /\ [][Next]_chVars

\* Interrupts are served and time passes.  The main loop is only preempted, so
\* it makes progress whenever it can run again and again.
Fairness ==
    /\ WF_chVars(Tick)
    /\ WF_chVars(IsrReturn)
    /\ \A c \in ChannelIndex : WF_chVars(fakewd(c)) /\ WF_chVars(laserInput(c))
    /\ SF_chVars(MainStep)

FairSpec == Spec /\ Fairness
=============================================================================
