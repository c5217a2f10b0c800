CONSTANTS
    q1 = q1
    q2 = q2
    f1 = f1
    f2 = f2
    Ppts <- TwoPpts
    Values <- TwoValues
    Refusals = TRUE
    MaxChanges = 2
SPECIFICATION FairSpec
INVARIANTS
    TypeOK
    FramesAgree
PROPERTIES
    AdoptsOperators
    ComesToRest
CHECK_DEADLOCK FALSE
