\* The states of an account of SQL Server only.
CONSTANTS
    Instance = inst
    AGs = {ag}
    Users = {u1, u2}
    Syncs = {s1, s2}
    DbTypes = {"mysql", "postgresql", "oracle", "sqlserver"}
    MaxChanges = 1
    Nobody = Nobody
    Servers <- SQLServerOnly
    Upper <- MCUpper
    Expanded <- MCExpanded
    Exprs <- MCExprs
    Depth <- MCDepth
    NoRow = NoRow
    LastRule = 3
    RuleClass <- MCRuleClass
    RuleType <- MCRuleType
    RuleHits <- MCRuleHits
    Unsound = {3}
    Subjects = {1, 2, 3}
    SubjectType <- MCSubjectType
    Asleep = {2}
    OwnerScopes = {{1}}
    NoRules = NoRules
    MaxLoads = 2
    Logins = {"a", "b", "sa"}
    Excluded = {"sa"}
    Bases = {x1, x2}
    ServerStates <- MCServerStates
    BaseStates <- MCBaseStates
    BatchSize = 1
    Unread = 0
    MaxAlters = 1
SPECIFICATION MCSpec
CHECK_DEADLOCK FALSE
INVARIANT DatabaseGrantsMatch
