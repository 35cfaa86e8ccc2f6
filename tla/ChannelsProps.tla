---------------------------- MODULE ChannelsProps ----------------------------
(***************************************************************************)
(* What the laser control of Channels must guarantee.                      *)
(***************************************************************************)
EXTENDS Channels

TypeOK ==
    /\ attached \subseteq ChannelIndex
    /\ enabled \in [ChannelIndex -> BOOLEAN]
    /\ status \in [ChannelIndex -> ChannelStatus]
    /\ modulating \in BOOLEAN
    /\ pin \in [ChannelIndex -> BOOLEAN]
    /\ wdRunning \in [ChannelIndex -> BOOLEAN]
    /\ wdCount \in [ChannelIndex -> 0 .. WdPeriod - 1]
    /\ wdFlag \in [ChannelIndex -> BOOLEAN]
    /\ inputOn \in [ChannelIndex -> BOOLEAN]
    /\ inFlag \in [ChannelIndex -> BOOLEAN]
    /\ step \in Steps /\ cur \in ChannelIndex
    /\ want \in [ChannelIndex -> BOOLEAN]
    /\ isr \in {"none", "watchdog", "input"} /\ isrCh \in ChannelIndex
    /\ halted \in BOOLEAN

\* Between two calls of enableLaser, output enable, watchdog timer and input
\* source of a channel agree with Channel.enabled, however often the call was
\* preempted; once the exception handler runs, both outputs are off
\* (Channel_Enable, channels.c; _general_exception_handler, system_exceptions.c).
Settled ==
    /\ step = "idle" /\ ~halted =>
        \A c \in ChannelIndex :
            pin[c] = enabled[c] /\ wdRunning[c] = enabled[c] /\ inputOn[c] = enabled[c]
    /\ halted => \A c \in ChannelIndex : ~pin[c]

\* The carrier generator runs only while some channel is enabled, at every
\* moment of every call and whatever the read past the client array returned:
\* disabling both channels always stops it (LaserModulator_Enable, modulator.c).
CarrierOff == modulating /\ ~halted => \E c \in ChannelIndex : enabled[c]

\* A laser starts to emit only in a call that asked for it: no step of
\* enableLaser lights the other laser, not even for an instant while outputs
\* and carrier are switched one after the other (Channel_Enable's order).
NoStrayLight ==
    [][\A c \in ChannelIndex : ~Emitting(c) /\ Emitting(c)' => want'[c]]_chVars

\* From some moment on every interrupt is served before the next tick: a routine
\* of a few instructions within 1 ms.
Quiet == isr = "none" /\ \A c \in ChannelIndex : ~wdFlag[c] /\ ~(inFlag[c] /\ inputOn[c])
PromptIsrs == <>[][Tick => Quiet]_chVars

\* The status of a channel whose receiver keeps seeing the beam settles on active
\* although its watchdog keeps running: each edge is served and kicks the timer in
\* time (Channel_LaserInputCallback).
BeamSeen ==
    \A c \in ChannelIndex :
        /\ PromptIsrs
        /\ <>[](step = "idle" /\ Emitting(c)) /\ <>[][Tick => inFlag'[c]]_chVars
        => <>[](status[c] = "active")

\* The status of an enabled channel whose receiver stays dark settles on
\* inactive, also when its last edge was latched before the input was enabled
\* (Channel_FakeWDCallback).
BeamLost ==
    \A c \in ChannelIndex :
        /\ PromptIsrs
        /\ <>[](step = "idle" /\ enabled[c]) /\ <>[][Tick => ~inFlag'[c]]_chVars
        => <>[](status[c] = "inactive")

\* Channels implements LaserPanel: hardware accesses, interrupt flags and ticks
\* are invisible, a call switches right before left, and a channel that a
\* finished call has disabled never becomes active (its input is off by then).
Progress ==  \* of the call, as LaserPanel sees it
    CASE step = "idle" -> "idle"
      [] step = "modulator" /\ cur = Right -> "right"
      [] (step # "modulator" /\ step # "idle" /\ cur = Right)
            \/ (step = "modulator" /\ cur = Left) -> "left"
      [] OTHER -> "returning"
Panel == INSTANCE LaserPanel WITH phase <- Progress
ImplementsPanel == Panel!Spec

\* mainapp.c:5 says of enableLaser "Power on or off the given laser(s)": when
\* no call is in progress an enabled laser emits.
PoweredOnEmits ==
    step = "idle" /\ ~halted => \A c \in ChannelIndex : enabled[c] => Emitting(c)
=============================================================================
