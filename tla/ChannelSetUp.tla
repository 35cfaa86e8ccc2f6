---------------------------- MODULE ChannelSetUp ----------------------------
(***************************************************************************)
(* How the channels' hardware is set up: Channel_Get with what it calls in *)
(* modulator.c, fake_watchdog.c and LaserInput.c, as the sequence of       *)
(* accesses it makes, in the manner of DeviceControl.  Module StartUp runs *)
(* it in the first pass of the loop; module Channels starts from the       *)
(* result.                                                                 *)
(***************************************************************************)
EXTENDS DeviceControl, ChannelCommon

\* The watchdog timer and the external interrupt of each channel; the carrier comes from timer 2
\* and compare unit 1
wdTimer == [idx \in ChannelIndex |-> IF idx = Right THEN "T4" ELSE "T5"]
inputInt == [idx \in ChannelIndex |-> IF idx = Right THEN "INT2" ELSE "INT3"]

Parts == {"T2", "OC1", "T4", "T5", "INT2", "INT3"}
Fields == {"on", "prescale", "period", "width", "priority"}
\* After reset everything is off; the other values matter to nobody before they are written
ResetConfig == [p \in Parts |-> [f \in Fields |-> 0]]

Configure(p, f, v) == <<[do |-> "configure", part |-> p, field |-> f, value |-> v]>>
Clear(source) == <<[do |-> "clearFlag", source |-> source]>>
Enable(source) == <<[do |-> "source", source |-> source]>>
Disable(source) == <<[do |-> "noSource", source |-> source]>>

-----------------------------------------------------------------------------
Timer(t, prescale, period) ==
    Configure(t, "on", 0) \o Configure(t, "prescale", prescale) \o Configure(t, "period", period)

LaserModulator_Intiialize ==
    Timer("T2", 16, 500) \o Configure("OC1", "on", 0) \o Configure("OC1", "width", 250)

\* The first channel to be attached initialises the modulator, which both use
LaserModulatorIfc_Get(idx) == IF idx = Right THEN LaserModulator_Intiialize ELSE <<>>

\* Fault: the prescaler of the modulator
FakeWDPrescale16(idx) ==
    Timer(wdTimer[idx], 16, 2750) \o Clear(wdTimer[idx]) \o Enable(wdTimer[idx])
        \o Configure(wdTimer[idx], "priority", 7)

FakeWD_Initialize(idx) ==
    Timer(wdTimer[idx], 8, 2750) \o Clear(wdTimer[idx]) \o Enable(wdTimer[idx])
        \o Configure(wdTimer[idx], "priority", 7)

LaserInput_Get(idx) ==
    Clear(inputInt[idx]) \o Disable(inputInt[idx]) \o Configure(inputInt[idx], "priority", 7)

\* FakeWD_SetCallback, LaserInput_SetCallback
SetCallbacks(idx) ==
    <<[do |-> "ready", object |-> wdTimer[idx]]>> \o <<[do |-> "ready", object |-> inputInt[idx]]>>

Channel_Get(idx) ==
    LaserModulatorIfc_Get(idx) \o FakeWD_Initialize(idx) \o LaserInput_Get(idx)
        \o SetCallbacks(idx)

\* MAINAPP_Tasks in its initial state
AttachChannels == Channel_Get(Right) \o Channel_Get(Left)

-----------------------------------------------------------------------------
(* Time                                                                    *)

SYS_CLK_PeripheralFrequencyGet == 8

\* Microseconds from one match of a timer to the next, for the divisor of the peripheral bus
PeriodUs(config, t, divisor) ==
    ((config[t].period + 1) * config[t].prescale * divisor) \div SYS_CLK_SystemFrequencyGet
=============================================================================
