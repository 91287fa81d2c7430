CONSTANTS
    HandlerMax = 1
    Kinds = {"operator"}
    Blocks = {"try"}
    MaxFrames = 1
    MaxNest = 1
    MaxDepth = 2
    MaxStack = 2
    MaxDispose = 0
SPECIFICATION Spec
INVARIANTS
    ImplicitReturnFindsEmptyStack
