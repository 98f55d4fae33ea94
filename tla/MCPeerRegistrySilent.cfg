\* Expected violation: a peer that keeps sending is erased all the same.
CONSTANTS
    a1 = a1
    a2 = a2
    a3 = a3
    Addr <- MCAddr
    MaxUsers = 1
    Timeout = 2
    MaxClock = 6
SPECIFICATION Spec
PROPERTIES TimeoutErasesSilentPeers
