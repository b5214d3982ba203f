\* Two images, of which one has a name that breaks XML.
CONSTANTS
    f1 = f1
    f2 = f2
    o1 = o1
    o2 = o2
    c1 = c1
    c2 = c2
    Files = {f1, f2}
    Odd = {f2}
    Objs = {o1, o2}
    Calls = {c1, c2}
    Empty = Empty
    None = None
SYMMETRY Symmetry
SPECIFICATION Spec
INVARIANTS TypeOK SettledAgrees
