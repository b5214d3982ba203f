\* A proxy that is pointed to another server, with a token and a session.
CONSTANTS
    t1 = t1
    s1 = s1
    s2 = s2
    host1 = host1
    host2 = host2
    None = None
    Tokens = {t1}
    Sessions = {s1, s2}
    Urls <- TwoServers
    Asks = {"Authorization", "All-Content", "Filter"}
    Forms = {"other", "refresh_async"}
SPECIFICATION Spec
INVARIANTS TypeOK JarHoldsSession
PROPERTIES CarriesAsked SessionSent
