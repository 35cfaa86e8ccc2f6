------------------------------- MODULE StartUp -------------------------------
(***************************************************************************)
(* From reset to the super loop: main, SYS_Initialize and the interrupt    *)
(* routines of system_interrupt.c.  The main program is the sequence of    *)
(* accesses it still has to make; an interrupt may come before each, once  *)
(* interrupts are enabled.  In the loop an application may call any        *)
(* service of modules DeviceControl and Ports on a pin of its own.         *)
(*                                                                         *)
(* The drivers' own work is modelled in their modules: a driver's routine  *)
(* is entered and left, and needs the objects it works on.                 *)
(***************************************************************************)
EXTENDS Ports, ChannelSetUp, FiniteSets

CONSTANT CallMax    \* bound: service calls of the applications

ASSUME StartUpBoundAssumption == CallMax \in Nat

Drivers == {"i2c", "timer", "uart1", "uart2"}
Sources == Drivers \cup {"cn"}

\* The object an interrupt routine uses
Uses == [i2c |-> "drvI2C0", timer |-> "drvTmr0", uart1 |-> "drvUsart0", uart2 |-> "drvUsart1",
         cn |-> "ports"]

\* The pin an application has for itself
Own == {"StatusRight"}

VARIABLES
    \* the main program
    todo,       \* accesses still to be made before the next pass of the loop
    saved,      \* int_flag of the service that runs
    calls,      \* calls the applications have made
    ready,      \* objects initialised
    \* the hardware
    ie,         \* interrupts are enabled
    unlocked,   \* SYSKEY
    reg,        \* registers of DeviceControl
    port,       \* registers of Ports
    config,     \* timers, compare unit and interrupts of the channels (ChannelSetUp)
    flags,      \* interrupt flags
    sources,    \* interrupt sources enabled
    pgood,      \* the power-good pin is high: no charger
    lastRead,   \* its level when port C was last read
    \* the interrupt routines
    isr,        \* the routine that runs and its next step
    seen,       \* the level the change notice routine read
    \* history
    asked,      \* registers as the services meant to write them
    opened,     \* SYS_INT_Enable has been called
    served,     \* a change notice has been served
    unseen      \* the pin changed and no notice will tell

suVars == <<todo, saved, calls, ready, ie, unlocked, reg, port, config, flags, sources, pgood, lastRead,
            isr, seen, asked, opened, served, unseen>>
cpuVars == <<ie, unlocked, saved>>
isrVars == <<isr, seen, served>>
pinVars == <<pgood, lastRead, unseen>>
historyVars == <<opened>>

Initialized(object) == <<[do |-> "ready", object |-> object]>>
EnableSource(source) ==
    <<[do |-> "clearFlag", source |-> source]>> \o <<[do |-> "source", source |-> source]>>

\* The interrupt source is enabled before the handle is stored in sysObj
DriverInitialize(source) == EnableSource(source) \o Initialized(Uses[source])

\* Console, debug, interrupt, message, random and timer services are one object here, as are the
\* three applications
SYS_Initialize ==
    SYS_CLK_Initialize \o SYS_DEVCON_Initialize
        \o SYS_DEVCON_PerformanceConfig(SYS_CLK_SystemFrequencyGet)
        \o DriverInitialize("i2c") \o DriverInitialize("timer")
        \o DriverInitialize("uart1") \o DriverInitialize("uart2")
        \o SYS_PORTS_Initialize \o Initialized("services")
        \o Do("enable") \o Initialized("applications")

\* Latches are undefined after reset, everything else is an analog input
SuInit ==
    /\ todo = SYS_Initialize /\ saved = FALSE /\ calls = 0 /\ ready = {}
    /\ ie = FALSE /\ unlocked = FALSE /\ reg = ResetRegisters /\ asked = ResetRegisters
    /\ \E undefined \in SUBSET Pins :
         port = [lat |-> undefined, output |-> {}, odc |-> {}, digital |-> {}, cnen |-> {},
                 cnOn |-> {}, cnIdle |-> {}, pullUp |-> {}]
    /\ config = ResetConfig
    /\ flags = {} /\ sources = {} /\ pgood \in BOOLEAN /\ lastRead = FALSE
    /\ isr = [source |-> "none", step |-> "none"] /\ seen = FALSE
    /\ opened = FALSE /\ served = FALSE /\ unseen = FALSE

-----------------------------------------------------------------------------
(* The main program: one action per kind of access                         *)

Next1(access) == /\ isr.source = "none"
                 /\ todo # <<>> /\ Head(todo).do = access
                 /\ todo' = Tail(todo)

Mask ==
    /\ Next1("mask")
    /\ saved' = ie /\ ie' = FALSE
    /\ UNCHANGED <<calls, ready, unlocked, reg, port, config, flags, sources, pinVars, isrVars, asked,
                   historyVars>>

\* Enable if the flag says so
Restore ==
    /\ Next1("restore")
    /\ ie' = (ie \/ saved)
    /\ UNCHANGED <<calls, ready, unlocked, saved, reg, port, config, flags, sources, pinVars, isrVars,
                   asked, historyVars>>

\* The key sequence of PLIB_DEVCON_SystemUnlock, which an interrupt between its writes breaks
Unlock ==
    /\ Next1("unlock")
    /\ unlocked' \in (IF ie THEN {unlocked, TRUE} ELSE {TRUE})
    /\ UNCHANGED <<calls, ready, ie, saved, reg, port, config, flags, sources, pinVars, isrVars, asked,
                   historyVars>>

Lock ==
    /\ Next1("lock")
    /\ unlocked' = FALSE
    /\ UNCHANGED <<calls, ready, ie, saved, reg, port, config, flags, sources, pinVars, isrVars, asked,
                   historyVars>>

Lands(register) == /\ register \in KeyRegisters => unlocked
                   /\ register \in MaskedRegisters => ~ie
                   /\ register \in RemapRegisters \ {"remapLock"} => reg["remapLock"] = "off"
Write ==
    /\ Next1("write")
    /\ LET a == Head(todo)
       IN /\ asked' = [asked EXCEPT ![a.reg] = a.value]
          /\ reg' = IF Lands(a.reg) THEN [reg EXCEPT ![a.reg] = a.value] ELSE reg
    /\ UNCHANGED <<calls, ready, cpuVars, port, config, flags, sources, pinVars, isrVars, historyVars>>

PortAccess ==
    /\ Next1("port")
    /\ LET a == Head(todo)
           Flip(bits) == (bits \ a.flip) \cup (a.flip \ bits)
       IN port' = [port EXCEPT ![a.reg] = Flip((@ \ a.clear) \cup a.set)]
    /\ UNCHANGED <<calls, ready, cpuVars, reg, config, flags, sources, pinVars, isrVars, asked,
                   historyVars>>

ReadPort ==
    /\ Next1("readPort")
    /\ lastRead' = pgood
    /\ UNCHANGED <<calls, ready, cpuVars, reg, port, config, flags, sources, pgood, unseen, isrVars, asked,
                   historyVars>>

ClearFlag ==
    /\ Next1("clearFlag")
    /\ flags' = flags \ {Head(todo).source}
    /\ UNCHANGED <<calls, ready, cpuVars, reg, port, config, sources, pinVars, isrVars, asked, historyVars>>

SourceEnable ==
    /\ Next1("source")
    /\ sources' = sources \cup {Head(todo).source}
    /\ UNCHANGED <<calls, ready, cpuVars, reg, port, config, flags, pinVars, isrVars, asked, historyVars>>

SourceDisable ==
    /\ Next1("noSource")
    /\ sources' = sources \ {Head(todo).source}
    /\ UNCHANGED <<calls, ready, cpuVars, reg, port, config, flags, pinVars, isrVars, asked,
                   historyVars>>

\* A write to a timer, the compare unit or an interrupt priority
Set ==
    /\ Next1("configure")
    /\ config' = [config EXCEPT ![Head(todo).part][Head(todo).field] = Head(todo).value]
    /\ UNCHANGED <<calls, ready, cpuVars, reg, port, flags, sources, pinVars, isrVars, asked,
                   historyVars>>

Ready ==
    /\ Next1("ready")
    /\ ready' = ready \cup {Head(todo).object}
    /\ UNCHANGED <<calls, cpuVars, reg, port, config, flags, sources, pinVars, isrVars, asked, historyVars>>

\* SYS_INT_Enable
IntEnable ==
    /\ Next1("enable")
    /\ ie' = TRUE /\ opened' = TRUE
    /\ UNCHANGED <<calls, ready, unlocked, saved, reg, port, config, flags, sources, pinVars, isrVars,
                   asked>>

\* SYS_ASSERT(false): the framework's build decides whether the program goes on
Assert ==
    /\ isr.source = "none" /\ todo # <<>> /\ Head(todo).do = "assert"
    /\ todo' \in {Tail(todo), Do("stopped")}
    /\ UNCHANGED <<calls, ready, cpuVars, reg, port, config, flags, sources, pinVars, isrVars, asked,
                   historyVars>>

\* The "wait" instruction ends with an interrupt; in sleep mode only the change notice comes
Wait ==
    /\ Next1("wait")
    /\ flags \cap sources # {}
    /\ UNCHANGED <<calls, ready, cpuVars, reg, port, config, flags, sources, pinVars, isrVars, asked,
                   historyVars>>

Waiting == todo # <<>> /\ Head(todo).do = "wait"

-----------------------------------------------------------------------------
(* The super loop                                                          *)

ServiceCalls ==
    LET p == CHOOSE q \in Own : TRUE
        modes == {"idle", "sleep"}
    IN {SYS_DEVCON_Reinitialize, SYS_DEVCON_Deinitialize, SYS_DEVCON_JTAGEnable,
        SYS_DEVCON_JTAGDisable, SYS_DEVCON_TraceEnable, SYS_DEVCON_TraceDisable,
        SYS_DEVCON_PerformanceConfig(SYS_CLK_SystemFrequencyGet),
        SYS_CLK_SecondaryOscillatorEnable(reg["secondary"]),
        SYS_CLK_SecondaryOscillatorDisable(reg["secondary"]),
        SYS_PORTS_Read, SYS_PORTS_PinRead, SYS_PORTS_Toggle(Own), SYS_PORTS_Clear(Own),
        SYS_PORTS_Set(Own, Own), SYS_PORTS_OpenDrainEnable(Own), SYS_PORTS_OpenDrainDisable(Own),
        SYS_PORTS_ChangeNotificationGlobalEnable, SYS_PORTS_ChangeNotificationGlobalDisable,
        SYS_PORTS_GlobalChangeNotificationDisable, SYS_PORTS_ChangeNotificationDisable(p),
        SYS_PORTS_ChangeNotificationInIdleModeEnable,
        SYS_PORTS_ChangeNotificationInIdleModeDisable,
        SYS_PORTS_ChangeNotificationPullUpEnable(p), SYS_PORTS_ChangeNotificationPullUpDisable(p),
        SYS_PORTS_PinToggle(p), SYS_PORTS_PinSet(p), SYS_PORTS_PinClear(p),
        SYS_PORTS_PinOpenDrainEnable(p), SYS_PORTS_PinOpenDrainDisable(p), Unsupported,
        SYS_PORTS_RemapInput, SYS_PORTS_RemapOutput}
       \cup {SYS_DEVCON_PowerModeEnter(m) : m \in modes}
       \cup {SYS_PORTS_Write("C", ((port.lat \cap On("C")) \ Own) \cup own) : own \in SUBSET Own}
       \cup {SYS_PORTS_DirectionSelect(d, Own) : d \in {"input", "output"}}
       \cup {SYS_PORTS_PinDirectionSelect(d, p) : d \in {"input", "output"}}
       \cup {SYS_PORTS_ChangeNotificationEnable(p, v) : v \in {"enable", "disable"}}
       \cup {SYS_PORTS_PinModeSelect(p, m) : m \in {"analog", "digital"}}
       \cup {SYS_PORTS_PinWrite(p, v) : v \in BOOLEAN}

LedHeartbeatToggle == FlipBits("lat", {"LedHeartbeat"})

\* The tasks, of which the main application attaches the channels in the first pass and each may
\* call a service later, and the heartbeat
SYS_Tasks ==
    /\ isr.source = "none" /\ todo = <<>>
    /\ \/ /\ "channels" \notin ready
          /\ todo' = AttachChannels \o Initialized("channels") \o LedHeartbeatToggle
          /\ calls' = calls
       \/ "channels" \in ready /\ todo' = LedHeartbeatToggle /\ calls' = calls
       \/ /\ "channels" \in ready /\ calls < CallMax /\ calls' = calls + 1
          /\ \E call \in ServiceCalls : todo' = call \o LedHeartbeatToggle
    /\ UNCHANGED <<ready, cpuVars, reg, port, config, flags, sources, pinVars, isrVars, asked, historyVars>>

Main == \/ Mask \/ Restore \/ Unlock \/ Lock \/ Write \/ PortAccess \/ ReadPort \/ ClearFlag
        \/ SourceEnable \/ SourceDisable \/ Set \/ Ready \/ IntEnable \/ Assert \/ Wait \/ SYS_Tasks

-----------------------------------------------------------------------------
(* Interrupts: all of priority 1, so that none preempts another            *)

\* A device wants attention.  Bound: one driver at a time.  In sleep mode the devices' clocks stop
Raise(s) ==
    /\ s \in Drivers /\ s \in sources /\ flags \cap Drivers = {}
    /\ ~(Waiting /\ reg["onWait"] = "sleep")
    /\ flags' = flags \cup {s}
    /\ UNCHANGED <<todo, calls, ready, cpuVars, reg, port, config, sources, pinVars, isrVars, asked,
                   historyVars>>

\* The power-good pin changes.  A notice is raised when port and pin have it enabled and the level
\* is not the one last read
PGoodChange ==
    /\ pgood' = ~pgood
    /\ LET raised == "C" \in port.cnOn /\ "BQ_PGood" \in port.cnen /\ pgood' # lastRead
       IN /\ flags' = IF raised THEN flags \cup {"cn"} ELSE flags
          /\ unseen' = (unseen \/ (pgood' # lastRead /\ "cn" \notin flags'))
    /\ UNCHANGED <<todo, calls, ready, cpuVars, reg, port, config, sources, lastRead, isrVars, asked,
                   historyVars>>

\* The "wait" instruction ends before the routine begins
Interruptible == isr.source = "none" /\ ie /\ ~Waiting

\* The drivers' routines
Enter(s) ==
    /\ Interruptible /\ s \in flags \cap sources \cap Drivers
    /\ isr' = [source |-> s, step |-> "return"]
    /\ UNCHANGED <<todo, calls, ready, cpuVars, reg, port, config, flags, sources, pinVars, seen, served,
                   asked, historyVars>>

\* BQ_PGoodStateGet.  An analog pin reads as low
ChangeNotification ==
    /\ Interruptible /\ "cn" \in flags \cap sources
    /\ isr' = [source |-> "cn", step |-> "led"]
    /\ seen' = (pgood /\ "BQ_PGood" \in port.digital)
    /\ lastRead' = pgood /\ unseen' = FALSE
    /\ UNCHANGED <<todo, calls, ready, cpuVars, reg, port, config, flags, sources, pgood, served, asked,
                   historyVars>>

\* Fault: the LED shows the charger only when it comes
SetLedOnly ==
    /\ isr = [source |-> "cn", step |-> "led"]
    /\ port' = IF seen THEN port ELSE [port EXCEPT !.lat = @ \cup {"LedStatus"}]
    /\ isr' = [isr EXCEPT !.step = "return"] /\ served' = TRUE
    /\ UNCHANGED <<todo, calls, ready, cpuVars, reg, config, flags, sources, pinVars, seen, asked,
                   historyVars>>

\* LedStatusOff, LedStatusOn
SetLed ==
    /\ isr = [source |-> "cn", step |-> "led"]
    /\ port' = [port EXCEPT !.lat = IF seen THEN @ \ {"LedStatus"} ELSE @ \cup {"LedStatus"}]
    /\ isr' = [isr EXCEPT !.step = "return"] /\ served' = TRUE
    /\ UNCHANGED <<todo, calls, ready, cpuVars, reg, config, flags, sources, pinVars, seen, asked,
                   historyVars>>

\* The flag is cleared last.  If the pin has changed since it was read, the peripheral may raise it
\* again or not
Return ==
    /\ isr.step = "return"
    /\ isr' = [source |-> "none", step |-> "none"]
    /\ \/ flags' = flags \ {isr.source}
          /\ unseen' = (unseen \/ (isr.source = "cn" /\ pgood # lastRead))
       \/ isr.source = "cn" /\ pgood # lastRead /\ UNCHANGED <<flags, unseen>>
    /\ UNCHANGED <<todo, calls, ready, cpuVars, reg, port, config, sources, pgood, lastRead, seen, served,
                   asked, historyVars>>

Isr == (\E s \in Drivers : Enter(s)) \/ ChangeNotification \/ SetLed \/ Return

SuNext == Main \/ Isr \/ PGoodChange \/ \E s \in Drivers : Raise(s)

SuSpec == SuInit /\ [][SuNext]_suVars
=============================================================================
