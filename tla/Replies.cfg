SPECIFICATION Spec
CONSTANTS
    StepperCount = 2
    Vendor = 12
    ClearedTo = 1000
    U8 <- MCU8
    I32 <- MCI32
    EchoLengths <- MCEchoLengths
    Packets <- MCPackets
    Behind <- MCBehind
INVARIANTS
    ChecksumsRight
    
    NothingStale
    DoesAsAsked
