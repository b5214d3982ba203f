\* Two resources of the engine, under two names, one of which a CD-ROM has.
CONSTANTS
    i1 = i1
    i2 = i2
    n1 = n1
    n2 = n2
    t1 = t1
    t2 = t2
    t3 = t3
    o1 = o1
    o2 = o2
    o3 = o3
    o4 = o4
    Names = {n1, n2}
    Ids = {i1, i2}
    Documents <- MCDocuments
    FakeName = n1
    Tables = {t1, t2, t3}
    Objs = {o1, o2, o3, o4}
    MaxHeld = 1
    None = None
SYMMETRY Symmetry
SPECIFICATION Spec
INVARIANTS TypeOK CountExact
PROPERTIES KeepsListing
