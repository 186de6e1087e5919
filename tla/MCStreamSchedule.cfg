SPECIFICATION Spec
CONSTANTS
    N = 4
    SMs = 6
    WidthCap = 3
    Cells <- MCCells
    Slots <- MCSlots
    Programs <- MCPrograms
INVARIANTS SameAsSequential LanesApart NeedsFit
PROPERTY ReplayFinishes
CHECK_DEADLOCK FALSE
