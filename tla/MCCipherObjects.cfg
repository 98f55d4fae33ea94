SPECIFICATION Spec
CONSTANTS
    Vars = {k1, k2}
    Objs = {a, b}
    MaxKeys = 2
    MaxFaults = 1
    MaxOps = 7
    Messages = {0, 24}
    Ivs = {iv, short}
    ShortIvs = {short}
    ZeroSecrets <- MCZeroSecrets
    TextLens <- MCTextLens
    Types <- MCTypes
    ZeroAt = {16}
    Sizes = {33}
SYMMETRY MCSymmetry
INVARIANTS
    TypeOK
    TerminatorFits
    PartnerReadsMessage
    TextIsPrefix
CHECK_DEADLOCK FALSE
