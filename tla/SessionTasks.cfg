\* Two instances, one cluster, one request of each kind.
CONSTANTS
    Instances = {i1, i2}
    ItemKeys = {i1, i2, g1}
    i1 = i1
    i2 = i2
    g1 = g1
    NoKey = NoKey
    RunCancels = {c1}
    c1 = c1
    Thread = Thread
    SessionCancels = {s1}
    s1 = s1
    MayRaise = TRUE
    MayDie = TRUE
SPECIFICATION FairSpec
INVARIANT ClosedRunAgrees
INVARIANT SessionAgrees
PROPERTY RunAndSessionEnd
PROPERTY KeepsPromise
