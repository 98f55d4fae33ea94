SPECIFICATION Spec
CONSTANTS
    Inis <- MCInis
    Wanted = {0, 1}
    MaxChunks = 2
CONSTRAINT Apart
INVARIANTS
    TypeOK
    UndisturbedRuns
    RpcAnswerIsOwn
    LookupFinds
CHECK_DEADLOCK FALSE
