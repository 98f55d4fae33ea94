\* Two rounds each, so that the timeouts set in the first are in force in the
\* second; a timeout of zero expires with the first tick of the clock, and a
\* limit of zero lets every newcomer find the registry over its limit.
CONSTANTS
    k1 = k1
    k2 = k2
    Clients <- MCClients
    MaxUsers = 0
    Timeout = 0
    ClientTimeout = 0
    Wanted = 0
    MaxClock = 1
    MaxRounds = 2
    MaxFaults = 1
SPECIFICATION Spec
SYMMETRY MCSymmetry
INVARIANTS
    TypeOK
    UntimedReadIsAnswered
    MappedPeersAnnounced
PROPERTIES
    CleanRoundReadsList
CHECK_DEADLOCK FALSE
