\* Pools, storage domains and VMs, in a process where other calls overflow.
CONSTANTS
    MaxPort = 1
    MaxUint = 2
    MaxUint64 = 4
    PoolTexts <- AtTheLimits
    d1 = d1
    d2 = d2
    Ids = {d1, d2}
    Kinds = {"pool", "domain", "vm"}
    Errnos = {"ok", "ERANGE"}
SYMMETRY Symmetry
SPECIFICATION Spec
INVARIANTS TypeOK GoodCountsTaken
PROPERTIES CountsAreSaid
