CONSTANTS
    q1 = q1
    q2 = q2
    Ppts <- TwoPpts
    PptVisited <- Acquiring
    PowVisited = {"ON", "ERROR"}
    ExpertMode = FALSE
    SlotsCalled = {"startDataSending", "stopDataSending"}
    Others = {}
    PromptLocks <- AllProxies
SPECIFICATION FairRSpec
PROPERTY Converges
CHECK_DEADLOCK FALSE
