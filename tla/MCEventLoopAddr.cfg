\* Expected violation: the shared client_addr holds the last client accepted or heard.
CONSTANTS
    c1 = c1
    c2 = c2
    p1 = p1
    Conns <- MCConns
    Peers <- MCPeers
    Kinds <- MCLiveKinds
    MaxFds = 2
    RecvMax = 1
    RcvCap = 1
    UdpCap = 1
    MaxSends = 1
SPECIFICATION Spec
PROPERTIES
    HandlerSeesItsClient
CHECK_DEADLOCK FALSE
