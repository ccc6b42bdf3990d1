SPECIFICATION Spec
CONSTANTS
    Id = {a, b, c}
    Call = {k}
    MaxVersion = 3
    Root = Root
INVARIANT NoStoredCycle
CHECK_DEADLOCK FALSE
