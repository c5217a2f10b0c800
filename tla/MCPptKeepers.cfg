CONSTANTS
    Threads = {"slot", "data", "w1"}
    Slots <- Shapes
    RegTypes = {"none", "register"}
    Faults = {"config", "call"}
    Hamburg = {TRUE}
    MaxPosts = 1
SPECIFICATION Spec
INVARIANT KeepersUnwind
CHECK_DEADLOCK FALSE
