CONSTANTS
    Texts <- MCTexts
    ScopePrefixes = {"scope"}
    Sources <- MCPrototypes
    Blanks = 0
    StackSize = 4
SPECIFICATION Spec
INVARIANTS AbortsOnlyAtComma
