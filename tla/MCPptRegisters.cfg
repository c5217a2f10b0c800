CONSTANTS
    Modules = {1, 2}
    Values = {0, 1}
    Files <- OneFile
    MaxOps = 3
SPECIFICATION Spec
INVARIANTS
    RightModule
    BaselineTrue
CHECK_DEADLOCK FALSE
