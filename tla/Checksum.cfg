SPECIFICATION Spec
CONSTANTS
    ByteBase = 4
    UdpProto = 2
    Room <- MCRoom
    Datagrams <- MCDatagrams
INVARIANTS
    SumIsResidue
    PeersAccept
    VerdictRight
