CONSTANTS
    QueueSize = 1
    Timeouts = 2
    Levels = {0, 3}
    Modes = {0, 2}
    MaxWire = 3
SPECIFICATION FairSpec
INVARIANTS
    RowsWhole
    NeverStranded
    ModeFollows
PROPERTIES
    RepliesMatch
    LossNoticed
CHECK_DEADLOCK FALSE
