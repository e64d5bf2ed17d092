CONSTANTS
    Texts <- MCTexts
    ScopePrefixes = {"scope"}
    Sources <- MCSources
    Blanks = 1
    StackSize = 4
SPECIFICATION MCSpec
INVARIANTS TypeOK AcceptedForest EveryTokenOnce AbortsOnlyAtComma FeedsQuadruples
PROPERTIES Terminates
