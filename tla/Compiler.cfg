CONSTANTS
    Names <- MCNames
    Numbers <- MCNumbers
    HexWords <- MCHexWords
    Underscored = {}
    Junk = {}
    WordLength <- MCWordLength
    Characters <- MCCharacters
    Sources <- MCSources
    MaxNodes = 122
    CountSpilled = 3
SPECIFICATION FairSpec
INVARIANTS StatusTellsBinary BinaryExits HeaderDescribesFile EncodingsDecode
PROPERTIES Terminates
