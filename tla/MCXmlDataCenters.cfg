\* Storage domains of several data centers.
CONSTANTS
    MaxPort = 1
    MaxUint = 2
    MaxUint64 = 4
    PoolTexts <- NoTexts
    d1 = d1
    d2 = d2
    Ids = {d1, d2}
    Kinds = {"domain"}
    Errnos = {"ok"}
SYMMETRY Symmetry
SPECIFICATION Spec
INVARIANTS AllIdsListed
