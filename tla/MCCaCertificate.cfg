\* One emission at a time: no handler calls back into the proxy.
CONSTANTS
    c1 = c1
    c2 = c2
    t1 = t1
    t2 = t2
    t3 = t3
    Certs = {c1, c2}
    XmlCerts = {x1}
    UserFiles = {u1, u2}
    TmpFiles = {t1, t2, t3}
    Vms = {v1, v2}
    MaxLoading = 1
    MaxDepth = 1
    None = None
    Partial = Partial
    NoVm = NoVm
SYMMETRY Symmetry
SPECIFICATION Spec
CHECK_DEADLOCK FALSE
INVARIANTS TypeOK FlagDrained NoOrphan CaCertReadBack DisplaysHaveCa
PROPERTIES UserFilesIntact NamedFileKept KeepsXmlCa
