CONSTANTS
    HandlerMax = 2
    Kinds = {"invoke", "enter", "exit"}
    Blocks = {"try", "with", "loop"}
    MaxFrames = 2
    MaxNest = 2
    MaxDepth = 1
    MaxStack = 1
    MaxDispose = 1
SPECIFICATION Spec
INVARIANTS
    TriesMatchHandlers
    WithsMatchDisposables
    OneExceptionAtATime
