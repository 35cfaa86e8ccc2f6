-------------------------------- MODULE Ports --------------------------------
(***************************************************************************)
(* The ports service (sys_ports_static.c) and the pins of system_config.h. *)
(* A register is the set of pins whose bit is set; a service is the        *)
(* sequence of accesses it makes.  Set, clear and toggle are single        *)
(* accesses (PLIB writes LATxSET, LATxCLR, LATxINV), so that no interrupt  *)
(* comes between reading and writing a register.                           *)
(***************************************************************************)
EXTENDS DeviceControl

\* The pins the firmware names, one of each kind, and the ports they are on
PortOf == [ControlLeft |-> "A", LedStatus |-> "B", LedHeartbeat |-> "B", ControlRight |-> "C",
           StatusRight |-> "C", BT_Reset |-> "C", BQ_PGood |-> "C"]
Pins == DOMAIN PortOf
PortIds == {"A", "B", "C"}
On(channel) == {p \in Pins : PortOf[p] = channel}

\* SYS_PORT_x_LAT, TRIS, ODC, ANSEL, CNEN; no pull-ups are configured
LAT == {"BT_Reset"}
Outputs == Pins \ {"BQ_PGood"}
ODC == {"BT_Reset", "BQ_PGood"}
Digital == Pins \ {"ControlLeft"}
CNEN == {"BQ_PGood"}

\* An access that clears, sets and flips bits of a register; "cnOn" holds ports
Bits(register, c, s, f) == <<[do |-> "port", reg |-> register, clear |-> c, set |-> s, flip |-> f]>>
SetBits(register, m) == Bits(register, {}, m, {})
ClearBits(register, m) == Bits(register, m, {}, {})
FlipBits(register, m) == Bits(register, {}, {}, m)

-----------------------------------------------------------------------------
\* Fault: the direction is set before the latch
LatchAfterDirection(channel) ==
    SetBits("odc", ODC \cap On(channel)) \o SetBits("output", Outputs \cap On(channel))
        \o Bits("lat", On(channel), LAT \cap On(channel), {})
        \o SetBits("cnOn", {channel}) \o SetBits("digital", Digital \cap On(channel))
        \o SetBits("cnen", CNEN \cap On(channel))

\* Open drain, latch, direction, change notice, analog or digital, notice of the pins
InitializePort(channel) ==
    SetBits("odc", ODC \cap On(channel)) \o Bits("lat", On(channel), LAT \cap On(channel), {})
        \o SetBits("output", Outputs \cap On(channel)) \o SetBits("cnOn", {channel})
        \o SetBits("digital", Digital \cap On(channel)) \o SetBits("cnen", CNEN \cap On(channel))

\* The ports, the change notice interrupt, and the peripheral pins: U2RX, U1RX, INT2, INT3, U2TX,
\* U1TX, OC1.  The pin selection is not locked after reset (IOLOCK)
SYS_PORTS_Initialize ==
    InitializePort("A") \o InitializePort("B") \o InitializePort("C")
        \o Do("readPort") \o <<[do |-> "clearFlag", source |-> "cn"]>>
        \o <<[do |-> "source", source |-> "cn"]>> \o <<[do |-> "ready", object |-> "ports"]>>

-----------------------------------------------------------------------------
(* Services on a mask of pins, or on one pin                               *)
SYS_PORTS_Read == Do("readPort")
SYS_PORTS_Write(channel, value) == Bits("lat", On(channel), value, {})
SYS_PORTS_Set(value, mask) == SetBits("lat", value \cap mask)
SYS_PORTS_Clear(clearMask) == ClearBits("lat", clearMask)
SYS_PORTS_Toggle(toggleMask) == FlipBits("lat", toggleMask)
SYS_PORTS_DirectionSelect(pinDir, mask) ==
    IF pinDir = "input" THEN ClearBits("output", mask) ELSE SetBits("output", mask)
SYS_PORTS_OpenDrainEnable(mask) == SetBits("odc", mask)
SYS_PORTS_OpenDrainDisable(mask) == ClearBits("odc", mask)

\* Change notice of all ports, of a pin with its pull-up
SYS_PORTS_ChangeNotificationGlobalEnable == SetBits("cnOn", PortIds)
SYS_PORTS_ChangeNotificationGlobalDisable == ClearBits("cnOn", PortIds)
SYS_PORTS_GlobalChangeNotificationDisable == ClearBits("cnOn", PortIds)
SYS_PORTS_ChangeNotificationEnable(pin, value) ==
    (IF value = "disable" THEN ClearBits("pullUp", {pin}) ELSE SetBits("pullUp", {pin}))
        \o SetBits("cnen", {pin})
SYS_PORTS_ChangeNotificationDisable(pin) == ClearBits("cnen", {pin})
SYS_PORTS_ChangeNotificationInIdleModeEnable == SetBits("cnIdle", PortIds)
SYS_PORTS_ChangeNotificationInIdleModeDisable == ClearBits("cnIdle", PortIds)
SYS_PORTS_ChangeNotificationPullUpEnable(pin) == SetBits("pullUp", {pin})
SYS_PORTS_ChangeNotificationPullUpDisable(pin) == ClearBits("pullUp", {pin})

SYS_PORTS_PinModeSelect(pin, mode) ==
    IF mode = "digital" THEN SetBits("digital", {pin}) ELSE ClearBits("digital", {pin})
SYS_PORTS_PinWrite(pin, value) == IF value THEN SetBits("lat", {pin}) ELSE ClearBits("lat", {pin})
SYS_PORTS_PinRead == Do("readPort")
SYS_PORTS_PinToggle(pin) == FlipBits("lat", {pin})
SYS_PORTS_PinSet(pin) == SetBits("lat", {pin})
SYS_PORTS_PinClear(pin) == ClearBits("lat", {pin})
SYS_PORTS_PinDirectionSelect(pinDir, pin) ==
    IF pinDir = "output" THEN SetBits("output", {pin}) ELSE ClearBits("output", {pin})
SYS_PORTS_PinOpenDrainEnable(pin) == SetBits("odc", {pin})
SYS_PORTS_PinOpenDrainDisable(pin) == ClearBits("odc", {pin})

\* The device has no latch read and no pull-ups per pin: the assertion, and nothing else
Unsupported == Do("assert")

\* The key is written with interrupts as they are, and the system stays unlocked
RemapUnlock == Do("unlock") \o WriteReg("remapLock", "off")
SYS_PORTS_RemapInput == RemapUnlock \o WriteReg("remapInput", "remapped")
SYS_PORTS_RemapOutput == RemapUnlock \o WriteReg("remapOutput", "remapped")
=============================================================================
