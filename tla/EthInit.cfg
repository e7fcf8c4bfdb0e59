CONSTANTS
    rx_buff_end = 6688
    tx_buff_start = 6692
    max_frame_length = 512
    mac <- MCmac
    NextPointers = {6}
    Junk <- MCJunk
    Runs = 2
SPECIFICATION FairSpec
INVARIANTS
    ConfigKept
PROPERTIES
    ProgramsEnd
