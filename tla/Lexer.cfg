CONSTANTS
    Names <- MCNames
    Numbers = {"1", "2"}
    HexWords <- MCHexWords
    Underscored = {"_", "_x"}
    Junk = {"$"}
    WordLength <- MCWordLength
    Sources <- MCSources
SPECIFICATION MCSpec
INVARIANTS TypeOK TokensCoverText UnwrittenOnlyBehindModifiers UndefinedOnlyUnclosed
           SameComments ParenthesesBalanced AbortsOnlyDense LexesItself
PROPERTIES Terminates
