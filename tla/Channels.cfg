\* Interrupts may be late: ticks come at any moment.
SPECIFICATION FairSpec
CONSTANTS
    WdPeriod = 3
    StrayReads = {"set", "clear", "trap"}
INVARIANTS
    TypeOK
    Settled
    CarrierOff
PROPERTIES
    NoStrayLight
    ImplementsPanel
    BeamSeen
    BeamLost
