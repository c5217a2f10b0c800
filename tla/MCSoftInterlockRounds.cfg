CONSTANTS
    q1 = q1
    q2 = q2
    Ppts <- TwoPpts
    PptVisited <- Acquiring
    PowVisited = {"PASSIVE", "CHANGING", "ON", "ERROR"}
    ExpertMode = FALSE
    SlotsCalled = {"startAllChannelsDummyData"}
    Others = {}
    PromptLocks <- TwoPpts
SPECIFICATION RSpec
SYMMETRY Quadrants
INVARIANTS
    StateFollows
    LocksFollow
CHECK_DEADLOCK FALSE
