---------------------------- MODULE DeviceControl ----------------------------
(***************************************************************************)
(* The device control and clock services (sys_devcon.c,                    *)
(* sys_devcon_pic32mx.c, sys_clk_pic32mx.c): each service is the sequence  *)
(* of hardware accesses it makes.  Module StartUp runs them, with the      *)
(* interrupt routines between any two.                                     *)
(***************************************************************************)
EXTENDS Integers, Sequences

Do(access) == <<[do |-> access]>>
WriteReg(register, v) == <<[do |-> "write", reg |-> register, value |-> v]>>

\* The lock that PLIB_DEVCON_DeviceRegistersUnlock opens, and the pin selections behind it
RemapRegisters == {"remapLock", "remapInput", "remapOutput"}

\* Registers that take a write only while the system is unlocked, and those that must be written
\* with interrupts disabled
KeyRegisters == {"frcDivisor", "busDivisor", "busOutput", "refOscillator", "refOutput",
                 "secondary", "onWait"} \cup RemapRegisters
MaskedRegisters == {"waitStates", "prefetch"}
OpenRegisters == {"devcon", "jtag", "trace"}
Registers == KeyRegisters \cup MaskedRegisters \cup OpenRegisters

\* After reset: the secondary oscillator is on by configuration bit (FSOSCEN), the rest has values
\* no service writes
ResetRegisters ==
    [r \in Registers |-> IF r \in {"frcDivisor", "busDivisor", "waitStates"} THEN -1
                         ELSE IF r = "secondary" THEN "on" ELSE "reset"]

-----------------------------------------------------------------------------
\* Fault: interrupts are enabled afterwards, whatever they were before
UnlockEnables == Do("mask") \o Do("unlock") \o Do("enable")
\* Fault: the key is written with interrupts as they are
UnlockUnmasked == Do("unlock")

\* GetStateAndDisable, the key, Enable if int_flag
SYS_DEVCON_SystemUnlock == Do("mask") \o Do("unlock") \o Do("restore")

\* Fault: interrupts stay disabled
LockStaysMasked == Do("mask") \o Do("lock")

SYS_DEVCON_SystemLock == Do("mask") \o Do("lock") \o Do("restore")

SYS_DEVCON_Initialize == WriteReg("devcon", "ready")
SYS_DEVCON_Reinitialize == WriteReg("devcon", "ready")
SYS_DEVCON_Deinitialize == WriteReg("devcon", "uninitialized")

SYS_DEVCON_JTAGEnable == WriteReg("jtag", "on")
SYS_DEVCON_JTAGDisable == WriteReg("jtag", "off")
SYS_DEVCON_TraceEnable == WriteReg("trace", "on")
SYS_DEVCON_TraceDisable == WriteReg("trace", "off")

\* SYS_POWER_MODE to OSC_OPERATION_ON_WAIT
OnWait(pwrMode) == pwrMode

SYS_DEVCON_PowerModeEnter(pwrMode) ==
    SYS_DEVCON_SystemUnlock \o WriteReg("onWait", OnWait(pwrMode)) \o SYS_DEVCON_SystemLock
        \o <<[do |-> "wait", mode |-> pwrMode]>>

\* Flash wait states for a system clock in MHz
WaitStates(sysclk) ==
    IF sysclk <= 18 THEN 0 ELSE IF sysclk <= 36 THEN 1 ELSE IF sysclk <= 54 THEN 2 ELSE 3

SYS_DEVCON_PerformanceConfig(sysclk) ==
    Do("mask") \o WriteReg("waitStates", WaitStates(sysclk)) \o Do("restore")
        \o Do("mask") \o WriteReg("prefetch", "on") \o Do("restore")

-----------------------------------------------------------------------------
SYS_CLK_SystemFrequencyGet == 72

SYS_CLK_Initialize ==
    SYS_DEVCON_SystemUnlock
        \o WriteReg("frcDivisor", 2) \o WriteReg("busDivisor", 9) \o WriteReg("busOutput", "on")
        \o WriteReg("refOscillator", "off") \o WriteReg("refOutput", "off")
        \o SYS_DEVCON_SystemLock

\* secondary: what PLIB_OSC_SecondaryIsEnabled returns when the call begins
SYS_CLK_SecondaryOscillatorEnable(secondary) ==
    IF secondary = "on" THEN <<>>
    ELSE SYS_DEVCON_SystemUnlock \o WriteReg("secondary", "on") \o SYS_DEVCON_SystemLock

SYS_CLK_SecondaryOscillatorDisable(secondary) ==
    IF secondary # "on" THEN <<>>
    ELSE SYS_DEVCON_SystemUnlock \o WriteReg("secondary", "off") \o SYS_DEVCON_SystemLock
=============================================================================
