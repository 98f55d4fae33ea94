\* Expected violation: a FIN that arrives with data, or a reset, is never acted on.
CONSTANTS
    c1 = c1
    c2 = c2
    p1 = p1
    Conns <- MCConns
    Peers <- MCPeers
    Kinds <- MCLiveKinds
    MaxFds = 1
    RecvMax = 1
    RcvCap = 1
    UdpCap = 1
    MaxSends = 1
SPECIFICATION FairSpec
PROPERTIES
    ClosedIsReleased
CHECK_DEADLOCK FALSE
