CONSTANTS
    Size = 8
    ByteBase = 3
    Packets <- MCPackets
SPECIFICATION FairSpec
INVARIANTS
    TypeOK
    RingHoldsStream
    RefusesOnlyWhenFull
PROPERTIES
    ImplementsQueue
