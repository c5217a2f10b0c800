CONSTANTS
    q1 = q1
    q2 = q2
    Ppts <- TwoPpts
    PptVisited <- Continuous
    PowVisited = {"ON", "CHANGING"}
    ExpertMode = FALSE
    SlotsCalled = {"startAllChannelsDummyData", "stopDataSending",
                   "initPPTdevices"}
    Others <- TwoPpts
    PromptLocks <- TwoPpts
SPECIFICATION Spec
SYMMETRY Quadrants
INVARIANTS
    TypeOK
    InterlockArmed
    ClearsOwnLocks
PROPERTY OthersRespected
CHECK_DEADLOCK FALSE
