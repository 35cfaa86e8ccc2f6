---------------------------- MODULE StartUpProps ----------------------------
(***************************************************************************)
(* Properties of module StartUp.                                           *)
(***************************************************************************)
EXTENDS StartUp

(* Every register holds what the services wrote to it, but for remapped    *)
(* pins, whose service takes the key with interrupts on: clock registers   *)
(* were unlocked when they were written (an interrupt during the key       *)
(* sequence would leave them locked), the cache was configured with        *)
(* interrupts disabled.  sys_devcon.c:239, sys_clk_pic32mx.c:90,           *)
(* sys_devcon_pic32mx.c:114.                                               *)
WritesLand == \A r \in Registers \ RemapRegisters : reg[r] = asked[r]

(* Services that disable interrupts leave them as they were: off until     *)
(* SYS_INT_Enable, on whenever the loop begins a pass or the processor     *)
(* waits for an interrupt.  sys_devcon.c:243.                              *)
InterruptsAsBefore ==
    /\ ~opened => ~ie
    /\ opened /\ (todo = <<>> \/ Waiting) => ie

(* An interrupt routine never runs before the object it works on, and the  *)
(* services its callbacks use, are initialised, although the sources are   *)
(* enabled before the handles are stored.  system_init.c:282, 328.         *)
IsrFindsObjects == isr.source # "none" => {Uses[isr.source], "services"} \subseteq ready

(* From reset on, a laser or the Bluetooth reset is never driven to any    *)
(* level but its configured one, and the open-drain pin never drives high: *)
(* the latch is written before the pin becomes an output, which it is not  *)
(* until then although latches are undefined.  sys_ports_static.c:75.      *)
OutputsQuiet ==
    /\ \A p \in {"ControlLeft", "ControlRight", "BT_Reset"} \cap port.output :
         p \in port.lat <=> p \in LAT
    /\ port.output \cap ODC \subseteq port.odc

(* Once a notice has been served and none is pending or was lost, the LED  *)
(* is on exactly when the charger is there, whatever calls are made        *)
(* meanwhile.  system_interrupt.c:121.                                     *)
LedShowsPower ==
    served /\ isr.source = "none" /\ "cn" \notin flags /\ ~unseen
        => ("LedStatus" \in port.lat <=> ~pgood)

(* When the first pass is over the channels are as module Channels takes   *)
(* them: nothing runs, only the watchdogs may interrupt, the four routines *)
(* have one priority and so never preempt each other, and for the bus      *)
(* clock that SYS_CLK_Initialize has chosen, and the drivers reckon with,  *)
(* a watchdog outlasts two periods of the carrier and not three.           *)
(* fake_watchdog.c:60, modulator.c:49, sys_clk_pic32mx.c:100.              *)
ChannelsAsModelled ==
    "channels" \in ready =>
        /\ reg["busDivisor"] * SYS_CLK_PeripheralFrequencyGet = SYS_CLK_SystemFrequencyGet
        /\ \A p \in Parts : config[p].on = 0
        /\ \A c \in ChannelIndex :
              /\ wdTimer[c] \in sources /\ inputInt[c] \notin sources
              /\ config[wdTimer[c]].priority = 7 /\ config[inputInt[c]].priority = 7
              /\ LET watchdog == PeriodUs(config, wdTimer[c], reg["busDivisor"])
                     carrier == PeriodUs(config, "T2", reg["busDivisor"])
                 IN 2 * carrier < watchdog /\ watchdog < 3 * carrier

(* fake_watchdog.c:59 says of the watchdog "Period set to 550 uS".         *)
PeriodAsStated ==
    "channels" \in ready =>
        \A c \in ChannelIndex : PeriodUs(config, wdTimer[c], reg["busDivisor"]) = 550
=============================================================================
