CONSTANTS
    Kinds <- MixedKinds
    Garbled <- NotForUs
    Events <- OneEvent
    ChipRoom = 2
    FifoRoom = 1
    MaxReads = 1
    CheckEvery = 1
    Burst = 2
SPECIFICATION FairSpec
INVARIANTS
    DeafHasCause
PROPERTIES
    ResetsOnlyWhenDeaf
    Recovers
    ServesBoth
