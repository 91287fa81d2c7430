CONSTANTS
    HandlerMax = 1
    Kinds = {"native", "operator", "build"}
    Blocks = {"try"}
    MaxFrames = 2
    MaxNest = 2
    MaxDepth = 2
    MaxStack = 2
    MaxDispose = 0
SPECIFICATION Spec
INVARIANTS
    TypeOK
    UnwindHasTarget
    StackCoversDepth
PROPERTIES
    ExceptionsCaughtByInnermost
