\* Eight descriptors: room for everything a session holds, little enough for
\* the server thread's connections to fill the table.
CONSTANTS
    MaxFd = 7
    MAXERRACCEPT = 1
    MaxSessions = 3
    MaxPeers = 3
SPECIFICATION Spec
INVARIANTS
    TypeOK
    HeldDescriptorsAreOwn
    DescriptorsBalance
    FirstSessionRestoresStdout
PROPERTIES
    PeersAreLeftAlone
CHECK_DEADLOCK FALSE
