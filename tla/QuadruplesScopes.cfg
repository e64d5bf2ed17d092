CONSTANT
    Forests <- MCForests
SPECIFICATION MCSpec
INVARIANTS ScopeToClose
