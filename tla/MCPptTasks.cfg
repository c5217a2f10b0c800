CONSTANTS
    Threads = {"slot", "w1", "w2"}
    Slots <- Tasks
    RegTypes = {}
    Faults = {}
    Hamburg = {TRUE, FALSE}
    MaxPosts = 2
SPECIFICATION FairSpec
INVARIANT NeverStuck
PROPERTY BurstReturns
CHECK_DEADLOCK FALSE
