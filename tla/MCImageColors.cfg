SPECIFICATION Spec
CONSTANTS
    Objs = {o1}
    Names = {"a", "z", "zz1"}
    Code <- MCCode
    Long = {"zz1"}
    Stem <- MCStem
    Rest <- MCRest
    UIntMod = 5
    RandMax = 2
    Counts <- MCCounts
    MAXCOLORS = 2
    Palette = 2
    Files <- MCFiles
    MaxImages = 2
    Ranges <- MCRanges
INVARIANTS
    TypeOK
    FoundIsLatest
PROPERTY
    DrawingEnds
CHECK_DEADLOCK FALSE
