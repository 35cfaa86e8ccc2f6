SPECIFICATION Spec
CONSTANTS
    WdPeriod = 3
    StrayReads = {"clear"}
INVARIANT PoweredOnEmits
