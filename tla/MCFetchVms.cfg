\* Calls that overlap, apis with and without a link to the VMs.
CONSTANTS
    c1 = c1
    c2 = c2
    c3 = c3
    VmsCalls = {c1, c2, c3}
    l1 = l1
    l2 = l2
    Lists = {l1, l2}
    Apis = {"linked", "unlinked"}
SPECIFICATION FairSpec
INVARIANTS VmsTypeOK ToldItsReply
PROPERTIES ToldUnlessUnlinked
