SPECIFICATION AreaSpec
CONSTANTS
    Requests = {r1, r2}
    r1 = r1 r2 = r2
    Users = {u1, u2}
    u1 = u1 u2 = u2
    Instances = {i1}
    Credentials = {k1}
    NoCredential = NoCredential
    Tags = {t1}
    Classifications = {cl1}
    Names = {n1}
    Expressions = {e1}
    MaxRules = 1
    Clusters = {s1}
    Ags = {a1}
    Nodes = {d1}
CHECK_DEADLOCK FALSE
INVARIANT LastAdmin
