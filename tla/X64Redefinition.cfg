CONSTANTS
    CountReg = 2
    CountSpilled = 0
    NodeCount = 3
    Temps = {3}
    Inputs <- MCFewInputs
    MaxQuads = 5
    SavedCaller <- MCSavedCaller2
    ParamCount = 1
SPECIFICATION XFairSpec
PROPERTIES LiveAcrossCall
