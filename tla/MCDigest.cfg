\* A scheduled and a manual digest; two instances with backups and one cluster,
\* whose events may be withdrawn and reported again; at most one thing that is
\* unusual in a behaviour.
SPECIFICATION FairSpec
CONSTANTS
    b1 = b1
    b2 = b2
    k1 = k1
    d1 = d1
    d2 = d2
    BackupKeys = {b1, b2}
    IdOf <- MCIds
    TaskKeys = {k1}
    ClusterKeys = {k1}
    Digests = {d1, d2}
    MaxReports = 1
    None = None
    Same = Same
    Reported = {b1, b2, k1}
    MaxUnusual = 1
INVARIANTS
    DeliveriesAreHonest
    ReportedOnce
PROPERTIES
    EmailedIsKept
    DigestsEnd
