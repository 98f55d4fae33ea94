\* Capacity 2 with three addresses: the third newcomer empties the registry.
\* The clock runs past twice the timeout, so entries expire and come back.
CONSTANTS
    a1 = a1
    a2 = a2
    a3 = a3
    Addr <- MCAddr
    MaxUsers = 1
    Timeout = 2
    MaxClock = 6
SPECIFICATION Spec
INVARIANTS
    TypeOK
    OneEntryPerAddress
    ReplyMatchesRegistry
    ListedWereHeard
PROPERTIES
    EntryLeavesForAReason
    ImplementsDirectory
