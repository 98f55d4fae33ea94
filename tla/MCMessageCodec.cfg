\* Tables of up to five entries: the arrays have their second size and are
\* full to the last place.
CONSTANTS
    Letters <- MCLetters
    Keys <- MCKeys
    Values <- MCValues
    Texts <- MCTexts
    MaxPieces = 4
    MaxEntries = 5
    MaxJoined = 3
SPECIFICATION Spec
INVARIANTS
    TypeOK
    PackingIsSafe
    RoundTrip
    FirstValueCounts
    SplitCoversText
    SplitUndoesJoin
CHECK_DEADLOCK FALSE
