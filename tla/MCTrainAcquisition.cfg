SPECIFICATION FairSpec
CONSTANTS
    Acquisitions <- Measurements
    Tries = 2
    Late = TRUE
    MaxFailures = 1
    MaxWrites = 1
    MaxTrains = 3
    MaxMail = 1
INVARIANTS
    TypeOK
    FilterCurrent
    Fresh
    RightKind
PROPERTY Ends
CHECK_DEADLOCK FALSE
