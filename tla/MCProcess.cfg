\* Two tasks of the configuration, one job of an earlier version, two requests
\* and one restart; two threads that log, on a queue of two.
CONSTANTS
    Jobs = {j1, j2, old}
    Builtin = {j1, j2}
    Enabled = {j1, j2}
    j1 = j1
    j2 = j2
    old = old
    NoJob = NoJob
    Absent = Absent
    Requests = {c1, c2}
    c1 = c1
    c2 = c2
    MaxRestarts = 2
    MayFail = TRUE
    Loggers = {l1, l2}
    l1 = l1
    l2 = l2
    QueueSize = 2
    BatchSize = 2
    MaxEntries = 4
SPECIFICATION MCSpec
CHECK_DEADLOCK FALSE
INVARIANTS
    NoJobLostSilently
    StoredOnceInOrder
PROPERTIES
    RestartRepairs
    RequestsEnd
    EntriesSettle
