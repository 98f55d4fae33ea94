\* One descriptor for two clients, so that accept can fail; one chunk each; and
\* room for two datagrams, of which an event reads one.
CONSTANTS
    c1 = c1
    c2 = c2
    p1 = p1
    Conns <- MCConns
    Peers <- MCPeers
    Kinds <- MCLiveKinds
    MaxFds = 1
    RecvMax = 1
    RcvCap = 1
    UdpCap = 2
    MaxSends = 1
SPECIFICATION FairSpec
PROPERTIES
    QueuedIsAccepted
    QuietCloseIsReleased
    FullUdpIsRead
    
CHECK_DEADLOCK FALSE
