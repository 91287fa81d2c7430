CONSTANTS
    HandlerMax = 1
    Kinds = {"invoke", "truth", "store"}
    Blocks = {"try"}
    MaxFrames = 3
    MaxNest = 1
    MaxDepth = 1
    MaxStack = 1
    MaxDispose = 0
SPECIFICATION FairSpec
PROPERTIES
    ExceptionsSettle
