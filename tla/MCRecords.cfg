\* Three requests on two users, two clusters and a few other records; two runs of
\* the backup synchronisation and one change on the Veeam server; any call; two
\* SQL Server instances on one host and two MySQL instances; two instances with
\* accounts and databases.
SPECIFICATION RecordsSpec
CONSTANTS
    Parts = {"requests", "snapshots", "calls", "risks", "ledgers"}
    Requests = {r1, r2, r3}
    r1 = r1 r2 = r2 r3 = r3
    Users = {u1, u2}
    u1 = u1 u2 = u2
    Instances = {i1}
    Credentials = {k1}
    NoCredential = NoCredential
    Tags = {t1}
    Classifications = {cl1}
    Names = {n1, n2}
    Expressions = {e1, e2}
    MaxRules = 3
    Clusters = {s1, s2}
    s1 = s1 s2 = s2
    Ags = {a1}
    Nodes = {d1}
    Workers = {w1, w2}
    Inventory <- MCInventory
    Domain <- MCDomain
    Addresses <- MCAddresses
    FirstObjects <- MCObjects
    Files <- MCFiles
    PageLimit = 2
    MaxTime = 2
    MaxChanges = 1
    MaxSyncs = 2
    All = All
    Nothing = Nothing
    Monitored = {1, 2, 3, 4}
    DbType <- MCDbType
    Cluster <- MCCluster
    Named <- MCNamed
    CardLimit = 2
    Severities = {"high", "low"}
    MaxEvents = 2
    Hosts = {1, 2}
    HostType <- MCHostType
    Logins = {1, 2, 3, 4}
    LoginHost <- MCLoginHost
    LoginGroup <- MCLoginGroup
    LoginName <- MCLoginName
    Keys = {"key", "spare"}
    KeyOf <- MCKeyOf
    MySqlRoles = {4}
    Schemas = {1, 2, 3}
    SchemaHost <- MCSchemaHost
    Labels = {single, cluster}
    single = single cluster = cluster
    Standalone = {single}
    Listeners = {1}
    Kinds = {kind1, kind2}
    kind1 = kind1 kind2 = kind2
    PageSize = 2
    MaxEdits = 3
SYMMETRY Symmetry
CHECK_DEADLOCK FALSE
INVARIANTS
    CallsHold
    RisksTell
    LedgersTell
    BackupsAreTold
PROPERTIES
    WeakerRulesCalm
    AloneKeepsRecords
    CountedRulesAreHistory
