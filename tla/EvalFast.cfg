CONSTANTS
    HandlerMax = 1
    Kinds = {"build"}
    Blocks = {"try"}
    MaxFrames = 1
    MaxNest = 1
    MaxDepth = 2
    MaxStack = 2
    MaxDispose = 0
SPECIFICATION Spec
INVARIANTS
    FastInstructionsDoNotRaise
