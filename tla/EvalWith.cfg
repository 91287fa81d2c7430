CONSTANTS
    HandlerMax = 1
    Kinds = {"enter", "exit"}
    Blocks = {"with", "loop"}
    MaxFrames = 1
    MaxNest = 3
    MaxDepth = 1
    MaxStack = 1
    MaxDispose = 2
SPECIFICATION Spec
INVARIANTS
    EndOfWithDisposesItsObject
