CONSTANTS
    CountReg = 3
    CountSpilled = 0
    NodeCount = 4
    Temps = {3, 4}
    Inputs <- MCInputs
    MaxQuads = 5
    SavedCaller <- MCSavedCaller
    ParamCount = 1
SPECIFICATION MCSpec
INVARIANTS XTypeOK OperandsHoldValues ArgumentsArrive
CHECK_DEADLOCK FALSE
