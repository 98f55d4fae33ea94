\* Both connections can be open at once; each sends up to three chunks, of which
\* its window holds two and a recv takes one, so that windows fill, are read in
\* part and fill again; and the UDP buffer holds two datagrams.
CONSTANTS
    c1 = c1
    c2 = c2
    p1 = p1
    Conns <- MCConns
    Peers <- MCPeers
    Kinds <- MCKinds
    MaxFds = 2
    RecvMax = 1
    RcvCap = 2
    UdpCap = 2
    MaxSends = 3
SPECIFICATION Spec
SYMMETRY MCSymmetry
INVARIANTS
    TypeOK
    EventsStayTrue
    FullUdpIsAnnounced
    
\* Once the clients are done the loop waits in epoll_wait, or has ended.
CHECK_DEADLOCK FALSE
