CONSTANTS
    Texts <- MCTexts
    ScopePrefixes = {"scope"}
    Sources <- MCSources
    Blanks = 1
    StackSize = 16
SPECIFICATION MCSpec
INVARIANTS ParsesItself
