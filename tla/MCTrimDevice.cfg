SPECIFICATION FairSpec
CONSTANTS
    Slots <- Shapes
    Settings = 1
    Tries = 2
    MaxFaults = 1
INVARIANTS
    StateReturns
    TrimmerInScope
    RawDataEnds
    InjectionTold
    AcquiresAgain
PROPERTY SlotEnds
