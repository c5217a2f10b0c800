CONSTANTS
    Threads = {"slot"}
    Slots <- Operation
    RegTypes = {}
    Faults = {"connect", "disconnect"}
    Hamburg = {TRUE, FALSE}
    MaxPosts = 0
SPECIFICATION Spec
INVARIANTS
    TypeOK
    StateTellsMode
    PollingFollows
    NoTerminate
PROPERTY StateChain
