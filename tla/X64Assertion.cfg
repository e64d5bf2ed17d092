CONSTANTS
    CountReg = 2
    CountSpilled = 0
    NodeCount = 2
    Temps = {}
    Inputs <- MCInputs
    MaxQuads = 2
    SavedCaller <- MCSavedCaller2
    ParamCount = 1
SPECIFICATION XSpec
INVARIANTS NeverAborts
