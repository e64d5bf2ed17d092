CONSTANT
    Forests <- MCForests
SPECIFICATION MCSpec
INVARIANTS TypeOK NothingDropped ScopesNest FeedsAllocator DoesWhatItMeans AbortsOnlyUndeclared StartsAtPlainEntry
PROPERTIES Terminates
