CONSTANTS
    MemSize = 4
    tx_buff_start = 1
    Packets <- MCPackets
    Handlers = 3
    Junk <- MCJunk
SPECIFICATION FairSpec
INVARIANTS
    SendsThePacket
PROPERTIES
    FrameIsStable
    NeverCancelled
    WaitEnds
