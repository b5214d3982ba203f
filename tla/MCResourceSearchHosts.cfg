\* The search of hosts, which goes through the link to the collection.
CONSTANTS
    o1 = o1
    o2 = o2
    Owners = {o1, o2}
    Kinds <- JustApi
    Tells = {"nothing"}
    SearchRels = {"search", "sub"}
    None = None
SYMMETRY Symmetry
SPECIFICATION Spec
INVARIANTS SearchReaches
