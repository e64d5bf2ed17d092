CONSTANTS
    CountReg = 2
    CountSpilled = 1
    NodeCount = 4
    Temps = {2, 4}
    Inputs <- MCInputs
    MaxQuads = 5
SPECIFICATION MCSpec
INVARIANTS TypeOK RangesAreLiveRanges LifetimeHasLastSlot OverlapDistinct PoolMatchesActive NoNeedlessSpill
PROPERTIES NoSpuriousFailure ImplementsSlotAssignment
