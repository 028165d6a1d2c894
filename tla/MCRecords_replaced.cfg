\* One run of the backup synchronisation after another, and one change on the
\* Veeam server between them.
SPECIFICATION RecordsSpec
CONSTANTS
    Parts = {"snapshots"}
    Requests = {r1, r2, r3}
    r1 = r1 r2 = r2 r3 = r3
    Users = {u1, u2}
    u1 = u1 u2 = u2
    Instances = {i1}
    Credentials = {k1}
    NoCredential = NoCredential
    Tags = {t1}
    Classifications = {cl1}
    Names = {n1, n2}
    Expressions = {e1, e2}
    MaxRules = 3
    Clusters = {s1, s2}
    s1 = s1 s2 = s2
    Ags = {a1}
    Nodes = {d1}
    Workers = {w1}
    Inventory <- MCInventory
    Domain <- MCDomain
    Addresses <- MCAddresses
    FirstObjects <- MCObjects
    Files <- MCFiles
    PageLimit = 2
    MaxTime = 2
    MaxChanges = 1
    MaxSyncs = 2
    All = All
    Nothing = Nothing
    Monitored = {1, 2, 3, 4}
    DbType <- MCDbType
    Cluster <- MCCluster
    Named <- MCNamed
    CardLimit = 2
    Severities = {"high", "low"}
    MaxEvents = 2
    Hosts = {1, 2}
    HostType <- MCHostType
    Logins = {1, 2, 3, 4}
    LoginHost <- MCLoginHost
    LoginGroup <- MCLoginGroup
    LoginName <- MCLoginName
    Keys = {"key", "spare"}
    KeyOf <- MCKeyOf
    MySqlRoles = {4}
    Schemas = {1, 2, 3}
    SchemaHost <- MCSchemaHost
    Labels = {single, cluster}
    single = single cluster = cluster
    Standalone = {single}
    Listeners = {1}
    Kinds = {kind1, kind2}
    kind1 = kind1 kind2 = kind2
    PageSize = 2
    MaxEdits = 3
SYMMETRY Symmetry
CHECK_DEADLOCK FALSE
INVARIANT ReplacedByResult
