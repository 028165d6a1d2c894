--------------------------- MODULE ClusterRecords ---------------------------
(* SQL Server clusters, the instances bound to them, their availability     *)
(* groups and the status rows: SQLServerClusterManagementService, the part  *)
(* of MySQLClusterManagementService that binds instances, and               *)
(* ClusterStatusSyncService.sync_sqlserver_cluster.  What the servers       *)
(* answer is chosen when they are asked.                                    *)
EXTENDS RequestTx

CONSTANTS Clusters, Ags, Nodes      \* clusters, names of groups, instances

\* domain: the clusters with a domain name.  checked: last_status_sync_status.
\* bindings: the rows cluster-instance.  ags: <<cluster, name>> -> row.
\* states: <<cluster, name, replica>> -> is_abnormal; a foreign key refers to
\* the group.  owned: the groups that accounts were collected for.
VARIABLES domain, checked, bindings, ags, states, owned

clusterVars == <<domain, checked, bindings, ags, states, owned>>

AgRows == [contained : BOOLEAN, account : BOOLEAN, enabled : BOOLEAN]

ClusterInit ==
    /\ domain = Clusters /\ checked = [c \in Clusters |-> "never"]
    /\ bindings \in {{<<c, n>>} : c \in Clusters, n \in Nodes}
    /\ ags = << >> /\ states = << >> /\ owned = {}

Bound(c) == {n \in Nodes : <<c, n>> \in bindings}
Groups(c) == {a \in Ags : <<c, a>> \in DOMAIN ags}

\* _ensure_ag_collection_allowed; a listener is there.
CollectionAllowed(c, row) == row.enabled => row.contained /\ row.account /\ c \in domain

DomainUpdate(r, c, on) ==
    /\ Accept(r, "cluster_update", c, ags, [domain |-> on, seen |-> c \in domain])
    /\ UNCHANGED clusterVars

\* replace_instances, of MySQL clusters too.
BindInstances(r, c, ns) ==
    /\ \A b \in bindings : b[2] \in ns => b[1] = c
    /\ Accept(r, "cluster_bind", c, ags, ns)
    /\ UNCHANGED clusterVars

AgCreate(r, c, a, row) ==
    /\ <<c, a>> \notin DOMAIN ags
    /\ CollectionAllowed(c, row)
    /\ Accept(r, "ag_create", <<c, a>>, ags, row)
    /\ UNCHANGED clusterVars

\* Checked on the values as they will be; what is not sent stays as loaded.
AgUpdate(r, c, a, row) ==
    /\ <<c, a>> \in DOMAIN ags
    /\ CollectionAllowed(c, row)
    /\ Accept(r, "ag_update", <<c, a>>, ags, row)
    /\ UNCHANGED clusterVars

\* sync_availability_groups: the first bound instance that answers lists the
\* groups `found`; a group that is not contained, or has no credential, loses
\* its flag.
AgSync(r, c, found) ==
    /\ Bound(c) # {}
    /\ Accept(r, "ag_sync", c, ags,
              [a \in DOMAIN found |->
                 [contained |-> found[a],
                  enabled |-> /\ <<c, a>> \in DOMAIN ags
                              /\ ags[<<c, a>>].enabled /\ ags[<<c, a>>].account /\ found[a]]])
    /\ UNCHANGED clusterVars

\* sync_sqlserver_cluster: the rows of all instances that answer, of the groups
\* that are known; none answering is a failure.
StatusSync(r, c, answered, rows) ==
    /\ answered \subseteq Bound(c)
    /\ (answered = {} \/ Groups(c) = {}) => rows = << >>
    /\ Accept(r, "status_sync", c, ags,
              [status |-> IF Bound(c) # {} /\ (Groups(c) = {} \/ answered # {})
                          THEN "completed" ELSE "failed",
               rows |-> [k \in {<<c, x[1], x[2]>> : x \in DOMAIN rows} |-> rows[<<k[2], k[3]>>]]])
    /\ UNCHANGED clusterVars

ClusterOps == {"cluster_update", "cluster_bind", "ag_create", "ag_update", "ag_sync", "status_sync"}

----------------------------------------------------------------------------
\* The delete of the old rows and the insert of the new ones; an instance bound
\* elsewhere meanwhile breaks the unique index on instance_id.
BindingWritten(tx) ==
    LET others == {b \in bindings : b[1] # tx.key}
    IN IF \A b \in others : b[2] \notin tx.new THEN others \cup ({tx.key} \X tx.new) ELSE bindings

\* Groups that were not found are deleted with their accounts.  A status row
\* still refers to its group, and its foreign key fails the request.
SyncWrite(tx) ==
    LET c == tx.key
        found == DOMAIN tx.new
        stale == Groups(c) \ found
        fresh == {a \in found : <<c, a>> \notin DOMAIN tx.seen}
        changed == found \ fresh
        refused == \/ \E k \in DOMAIN states : k[1] = c /\ k[2] \in stale
                   \/ \E a \in fresh : <<c, a>> \in DOMAIN ags
                   \/ \E a \in changed : <<c, a>> \notin DOMAIN ags
        row(a) == IF a \in fresh
                  THEN [contained |-> tx.new[a].contained, account |-> FALSE, enabled |-> FALSE]
                  ELSE Merged(ags[<<c, a>>], tx.seen[<<c, a>>], tx.new[a])
    IN IF refused THEN UNCHANGED <<ags, owned>>
       ELSE /\ ags' = [k \in (DOMAIN ags \ ({c} \X stale)) \cup ({c} \X fresh) |->
                         IF k[1] = c /\ k[2] \in found THEN row(k[2]) ELSE ags[k]]
            /\ owned' = owned \ ({c} \X stale)

\* A status row of a group that was deleted meanwhile has no group to refer to.
StatusWrite(tx) ==
    IF \A k \in DOMAIN tx.new.rows : <<k[1], k[2]>> \in DOMAIN ags
    THEN /\ checked' = [checked EXCEPT ![tx.key] = tx.new.status]
         /\ states' = [k \in DOMAIN states \cup DOMAIN tx.new.rows |->
                         IF k \in DOMAIN tx.new.rows THEN tx.new.rows[k] ELSE states[k]]
    ELSE UNCHANGED <<checked, states>>

ClusterWrite(r) ==
    LET tx == req[r] IN
    /\ \/ /\ tx.op = "cluster_update"
          /\ domain' = IF tx.new.domain = tx.new.seen THEN domain
                       ELSE IF tx.new.domain THEN domain \cup {tx.key} ELSE domain \ {tx.key}
          /\ UNCHANGED <<checked, bindings, ags, states, owned>>
       \/ /\ tx.op = "cluster_bind"
          /\ bindings' = BindingWritten(tx)
          /\ UNCHANGED <<domain, checked, ags, states, owned>>
       \/ /\ tx.op = "ag_create"
          /\ ags' = IF tx.key \in DOMAIN ags THEN ags ELSE With(ags, tx.key, tx.new)
          /\ UNCHANGED <<domain, checked, bindings, states, owned>>
       \/ /\ tx.op = "ag_update"
          /\ ags' = IF tx.key \notin DOMAIN ags THEN ags
                    ELSE [ags EXCEPT ![tx.key] = Merged(@, tx.seen[tx.key], tx.new)]
          /\ UNCHANGED <<domain, checked, bindings, states, owned>>
       \/ /\ tx.op = "ag_sync" /\ SyncWrite(tx)
          /\ UNCHANGED <<domain, checked, bindings, states>>
       \/ /\ tx.op = "status_sync" /\ StatusWrite(tx)
          /\ UNCHANGED <<domain, bindings, ags, owned>>
    /\ Answer(r)

\* The account task stores accounts for an enabled group.
CollectAccounts ==
    /\ \E k \in DOMAIN ags \ owned : ags[k].enabled /\ owned' = owned \cup {k}
    /\ UNCHANGED <<req, domain, checked, bindings, ags, states>>

ClusterCheck(r) ==
    \E c \in Clusters :
        \/ \E on \in BOOLEAN : DomainUpdate(r, c, on)
        \/ \E ns \in SUBSET Nodes : BindInstances(r, c, ns)
        \/ \E a \in Ags, row \in AgRows : AgCreate(r, c, a, row) \/ AgUpdate(r, c, a, row)
        \/ \E as \in SUBSET Ags : \E found \in [as -> BOOLEAN] : AgSync(r, c, found)
        \/ \E answered \in SUBSET Bound(c), ks \in SUBSET (Groups(c) \X Nodes) :
              \E rows \in [ks -> BOOLEAN] : StatusSync(r, c, answered, rows)

ClusterTypeOK ==
    /\ \A k \in DOMAIN ags : ags[k] \in AgRows
    /\ \A k \in DOMAIN states : <<k[1], k[2]>> \in DOMAIN ags
    /\ owned \subseteq DOMAIN ags
=============================================================================
