\* Two calls in flight on one object: safety, the refinement and liveness.
CONSTANTS
    c1 = c1
    c2 = c2
    o1 = o1
    Calls = {c1, c2}
    Objs = {o1}
    Proxy = Proxy
    MaxVersion = 3
    NoCall = NoCall
SPECIFICATION FairSpec
CHECK_DEADLOCK FALSE
INVARIANTS TypeOK AliveWhilePending NothingLeaked FreshWhenTold
PROPERTIES BackOnlyWhenOverlapped KeepsPromise EveryCallEnds
