\* Two subjects, a subject for single sources, two stages, one request.
CONSTANTS
    Subjects = {a, b, only}
    Only = only
    a = a
    b = b
    only = only
    LastStage = 2
    ItemKeys <- Keys
    NoKey = NoKey
    RunCancels = {c1}
    c1 = c1
    Thread = Thread
    MayRaise = TRUE
    MayDie = TRUE
SPECIFICATION FairSpec
INVARIANT ClosedRunAccounts
INVARIANT EffectBacksItem
INVARIANT StatusTellsEffects
PROPERTY RunEnds
PROPERTY KeepsPromise
