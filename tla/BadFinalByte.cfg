CONSTANTS
    MemSize = 4
    tx_buff_start = 1
    Packets <- MCPackets
    Handlers = 2
    Junk <- MCJunk
SPECIFICATION Spec
INVARIANT EndIsFinalByte
