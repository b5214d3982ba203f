\* An engine that gives the href of an owner with its id.
CONSTANTS
    o1 = o1
    o2 = o2
    Owners = {o1, o2}
    Kinds <- AllKinds
    Tells = {"both", "nothing"}
    SearchRels = {"search"}
    None = None
SYMMETRY Symmetry
SPECIFICATION Spec
INVARIANTS TypeOK HandedCoherent SearchReaches
