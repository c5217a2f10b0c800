SPECIFICATION FairSpec
CONSTANTS
    Ppts = {"Q1", "Q2"}
    Known = {"c1", "c2"}
    Unknown = {"odd"}
    NameOf <- MCNameOf
    Default <- MCDefault
    MaxOps = 2
INVARIANT ShowsFiles
PROPERTY RestartedOnTarget
PROPERTY ApplyEnds
CHECK_DEADLOCK FALSE
