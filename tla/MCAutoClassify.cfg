SPECIFICATION FairSpec
CONSTANTS
    r1 = r1
    r2 = r2
    a1 = a1
    a2 = a2
    k1 = k1
    c1 = c1
    c2 = c2
    Rules <- MCRules
    Accounts <- MCAccounts
    Classes <- MCClasses
    Class <- MCClass
    Match <- MCMatch
    Cancellers <- MCCancellers
    Worker = Worker
    NoOne = NoOne
    MayDie = TRUE
    MayLoseWrite = FALSE
INVARIANTS
    EndedRunIsTrue
    CompletedIsClassified
PROPERTIES
    ClosedRunIsFrozen
    RunEnds
    KeepsPromise
