SPECIFICATION Spec
CONSTANTS
    IntMax = 999
    Sources <- MCSources
INVARIANTS
    TypeOK
    TokensAreWhereWritten
    RoundTrip
    AcceptedIsWhole
    RejectedWithReason
PROPERTY
    ParsingEnds
CHECK_DEADLOCK FALSE
