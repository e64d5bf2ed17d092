CONSTANT
    Forests <- MCForests
SPECIFICATION MCSpec
INVARIANTS NamesFound
