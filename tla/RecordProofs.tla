---------------------------- MODULE RecordProofs ----------------------------
(***************************************************************************)
(* Proofs about the records that requests write: a request that was not    *)
(* overtaken breaks none of the rules its checks are for, and the rules    *)
(* that statistics refer to are history, whatever overtakes what.  About   *)
(* the calls of the API that carry them, for all of its handlers.  And     *)
(* about the risk center that is built from what the parts have stored,    *)
(* and the backup snapshots of a Veeam source.                             *)
(***************************************************************************)
EXTENDS AdminRecords, ApiCalls, RiskCenter, VeeamSnapshots, SequenceTheorems, FiniteSetTheorems, WellFoundedInduction, TLAPS

\* What a request under way has read and will write, by the table it is about.
UserTx(tx) ==
    /\ tx.op \in {"user_create", "user_update"} => tx.key \in Users /\ tx.new \in UserRows
    /\ tx.op = "user_update" =>
          \/ tx.key \notin Admins(tx.seen)
          \/ tx.new = Row("admin", TRUE)
          \/ ActiveAdmins(tx.seen) \ {tx.key} # {}
    /\ tx.op = "user_delete" => ActiveAdmins(tx.seen) \ {tx.key} # {}

InstanceTx(tx) ==
    /\ tx.op = "instance_update" =>
          /\ tx.new = [active |-> tx.new.active, credential |-> tx.new.credential, tags |-> tx.new.tags]
          /\ tx.new.active \in BOOLEAN /\ tx.new.credential \in Credentials \cup {NoCredential}
          /\ ~tx.seen.instances[tx.key].recycled
    /\ tx.op = "instance_write" =>
          tx.new \in {[active |-> FALSE, recycled |-> TRUE], [active |-> TRUE, recycled |-> FALSE]}
    /\ tx.op = "tag_delete" => \A l \in tx.seen.links : l[2] # tx.key

IsRule(row) == row = RuleRow(row.class, row.name, row.expr, row.group, row.version, row.active, row.archived)
RuleTx(tx) ==
    /\ tx.op = "rule_create" => IsRule(tx.new)
    /\ tx.op = "rule_edit" => tx.new = [name |-> tx.new.name, active |-> tx.new.active]
    /\ tx.op = "rule_version" => IsRule(tx.new.row)

ClusterTx(tx) ==
    /\ tx.op \in {"ag_create", "ag_update"} =>
          /\ tx.key \in Clusters \X Ags /\ tx.new \in AgRows
          /\ tx.new.enabled => tx.new.contained /\ tx.new.account
    /\ tx.op = "ag_sync" =>
          /\ tx.key \in Clusters /\ DOMAIN tx.new \subseteq Ags
          /\ \A a \in DOMAIN tx.new :
                /\ tx.new[a] = [contained |-> tx.new[a].contained, enabled |-> tx.new[a].enabled]
                /\ tx.new[a].contained \in BOOLEAN /\ tx.new[a].enabled \in BOOLEAN
                /\ tx.new[a].enabled => tx.new[a].contained /\ tx.seen[<<tx.key, a>>].account

IsTx(tx) == UserTx(tx) /\ InstanceTx(tx) /\ RuleTx(tx) /\ ClusterTx(tx)
Pending == DOMAIN req = Requests /\ \A r \in Requests : IsTx(req[r])

\* The ids that were handed out and not used yet: no two requests have one in common.
Creates(tx) == tx.op \in {"rule_create", "rule_version"}
NewId(tx) == IF tx.op = "rule_create" THEN tx.key ELSE tx.new.id
FreshIds ==
    \A r \in Requests : Creates(req[r]) =>
        /\ NewId(req[r]) \in (1 .. (nextId - 1)) \ DOMAIN rules
        /\ \A q \in Requests \ {r} : Creates(req[q]) => NewId(req[q]) # NewId(req[r])

RulesInv ==
    /\ RuleTypeOK /\ \A id \in DOMAIN rules : IsRule(rules[id])
    /\ nextId \in 1 .. (MaxRules + 1) /\ DOMAIN rules \subseteq 1 .. (nextId - 1)
    /\ FreshIds

Linked == links \subseteq ((DOMAIN instances) \X tags)
GroupKeys == DOMAIN ags \subseteq Clusters \X Ags

RecordsInv ==
    Pending /\ UserTypeOK /\ InstanceTypeOK /\ Linked /\ RulesInv /\ ClusterTypeOK /\ GroupKeys

----------------------------------------------------------------------------
\* One request moves at a time.
LEMMA OneMoves ==
    ASSUME DOMAIN req = Requests, NEW r \in Requests, NEW tx, req' = [req EXCEPT ![r] = tx]
    PROVE  DOMAIN req' = Requests /\ req'[r] = tx /\ \A q \in Requests \ {r} : req'[q] = req[q]
  OBVIOUS

Accepted(r, ops) == Unsent(r) /\ \E tx : IsTx(tx) /\ tx.op \in ops /\ req' = [req EXCEPT ![r] = tx]

LEMMA UserAccepts ==
    ASSUME NEW r \in Requests, UserCheck(r) PROVE Accepted(r, UserOps) /\ UNCHANGED users
<1>1. PICK by \in Users, u \in Users :
         \/ \E row \in UserRows : UserCreate(r, by, u, row) \/ UserUpdate(r, by, u, row)
         \/ UserDelete(r, by, u)
  BY DEF UserCheck
<1>2. CASE UserDelete(r, by, u)
  <2>1. by \in ActiveAdmins(users) \ {u}
    BY <1>2 DEF UserDelete, AdminOperator, Operator, Admins, ActiveAdmins
  <2>2. IsTx([op |-> "user_delete", key |-> u, seen |-> users, new |-> << >>])
    BY <2>1 DEF IsTx, UserTx, InstanceTx, RuleTx, ClusterTx
  <2> QED BY <1>2, <2>2 DEF UserDelete, Accept, Accepted, UserOps
<1>3. ASSUME NEW row \in UserRows, UserCreate(r, by, u, row) PROVE Accepted(r, UserOps) /\ UNCHANGED users
  <2>1. IsTx([op |-> "user_create", key |-> u, seen |-> users, new |-> row])
    BY DEF IsTx, UserTx, InstanceTx, RuleTx, ClusterTx
  <2> QED BY <1>3, <2>1 DEF UserCreate, Accept, Accepted, UserOps
<1>4. ASSUME NEW row \in UserRows, UserUpdate(r, by, u, row) PROVE Accepted(r, UserOps) /\ UNCHANGED users
  <2>1. IsTx([op |-> "user_update", key |-> u, seen |-> users, new |-> row])
    BY <1>4 DEF UserUpdate, LastAdminKept, IsTx, UserTx, InstanceTx, RuleTx, ClusterTx
  <2> QED BY <1>4, <2>1 DEF UserUpdate, Accept, Accepted, UserOps
<1> QED BY <1>1, <1>2, <1>3, <1>4

LEMMA InstanceAccepts ==
    ASSUME NEW r \in Requests, InstanceCheck(r) PROVE Accepted(r, InstanceOps) /\ UNCHANGED recordVars
<1>1. ASSUME NEW i, NEW active \in BOOLEAN, NEW cred \in Credentials \cup {NoCredential}, NEW ts,
             InstanceUpdate(r, i, active, cred, ts)
      PROVE  Accepted(r, InstanceOps) /\ UNCHANGED recordVars
  <2>1. IsTx([op |-> "instance_update", key |-> i, seen |-> Tables,
              new |-> [active |-> active, credential |-> cred, tags |-> ts]])
    BY <1>1 DEF InstanceUpdate, Tables, IsTx, UserTx, InstanceTx, RuleTx, ClusterTx
  <2> QED BY <1>1, <2>1 DEF InstanceUpdate, Accept, Accepted, InstanceOps
<1>2. ASSUME NEW i, SoftDelete(r, i) \/ Restore(r, i) PROVE Accepted(r, InstanceOps) /\ UNCHANGED recordVars
  <2>1. \A new \in {[active |-> FALSE, recycled |-> TRUE], [active |-> TRUE, recycled |-> FALSE]} :
           IsTx([op |-> "instance_write", key |-> i, seen |-> Tables, new |-> new])
    BY DEF IsTx, UserTx, InstanceTx, RuleTx, ClusterTx
  <2> QED BY <1>2, <2>1 DEF SoftDelete, Restore, Accept, Accepted, InstanceOps
<1>3. ASSUME NEW i, HardDelete(r, i) PROVE Accepted(r, InstanceOps) /\ UNCHANGED recordVars
  <2>1. IsTx([op |-> "instance_delete", key |-> i, seen |-> Tables, new |-> << >>])
    BY DEF IsTx, UserTx, InstanceTx, RuleTx, ClusterTx
  <2> QED BY <1>3, <2>1 DEF HardDelete, Accept, Accepted, InstanceOps
<1>4. ASSUME NEW k, CredentialDelete(r, k) PROVE Accepted(r, InstanceOps) /\ UNCHANGED recordVars
  <2>1. \A new : IsTx([op |-> "credential_delete", key |-> k, seen |-> Tables, new |-> new])
    BY DEF IsTx, UserTx, InstanceTx, RuleTx, ClusterTx
  <2> QED BY <1>4, <2>1 DEF CredentialDelete, Accept, Accepted, InstanceOps
<1>5. ASSUME NEW t, TagDelete(r, t) PROVE Accepted(r, InstanceOps) /\ UNCHANGED recordVars
  <2>1. IsTx([op |-> "tag_delete", key |-> t, seen |-> Tables, new |-> << >>])
    BY <1>5 DEF TagDelete, Tables, IsTx, UserTx, InstanceTx, RuleTx, ClusterTx
  <2> QED BY <1>5, <2>1 DEF TagDelete, Accept, Accepted, InstanceOps
<1>6. ASSUME NEW is, NEW ts, TagAssign(r, is, ts) \/ TagRemove(r, is, ts)
      PROVE  Accepted(r, InstanceOps) /\ UNCHANGED recordVars
  <2>1. ASSUME NEW op \in {"tag_assign", "tag_remove"}, NEW new
        PROVE  IsTx([op |-> op, key |-> is, seen |-> Tables, new |-> new])
    BY DEF IsTx, UserTx, InstanceTx, RuleTx, ClusterTx
  <2> QED BY <1>6, <2>1 DEF TagAssign, TagRemove, Accept, Accepted, InstanceOps
<1> QED BY <1>1, <1>2, <1>3, <1>4, <1>5, <1>6 DEF InstanceCheck

LEMMA RuleAccepts ==
    ASSUME RulesInv, Pending, NEW r \in Requests, RuleCheck(r)
    PROVE  /\ Accepted(r, RuleOps) /\ UNCHANGED <<classifications, rules, counted>>
           /\ nextId' \in {nextId, nextId + 1} /\ nextId' \in 1 .. (MaxRules + 1)
           /\ Creates(req'[r]) => NewId(req'[r]) = nextId /\ nextId' = nextId + 1
<1> DEFINE Goal == /\ Accepted(r, RuleOps) /\ UNCHANGED <<classifications, rules, counted>>
                   /\ nextId' \in {nextId, nextId + 1} /\ nextId' \in 1 .. (MaxRules + 1)
                   /\ Creates(req'[r]) => NewId(req'[r]) = nextId /\ nextId' = nextId + 1
<1>1. ASSUME NEW tx, IsTx(tx), tx.op \in RuleOps, Unsent(r), req' = [req EXCEPT ![r] = tx], UNCHANGED <<classifications, rules, counted>>,
             \/ ~Creates(tx) /\ nextId' = nextId
             \/ NewId(tx) = nextId /\ nextId' = nextId + 1 /\ nextId <= MaxRules
      PROVE  Goal
  <2>1. req'[r] = tx
    BY <1>1 DEF Pending
  <2>2. nextId' \in {nextId, nextId + 1} /\ nextId' \in 1 .. (MaxRules + 1)
    BY <1>1, RuleAssumption DEF RulesInv
  <2>3. Accepted(r, RuleOps)
    BY <1>1 DEF Accepted, RuleOps
  <2> QED BY <1>1, <2>1, <2>2, <2>3
<1> HIDE DEF Goal
<1>2. ASSUME NEW c, NEW name, NEW expr, NEW active, RuleCreate(r, c, name, expr, active) PROVE Goal
  <2> DEFINE tx == [op |-> "rule_create", key |-> nextId, seen |-> rules,
                    new |-> RuleRow(c, name, expr, nextId, 1, active, FALSE)]
  <2>1. IsTx(tx)
    BY DEF IsTx, UserTx, InstanceTx, RuleTx, ClusterTx, IsRule, RuleRow
  <2>2. NewId(tx) = nextId /\ tx.op \in RuleOps
    BY DEF NewId, RuleOps
  <2> HIDE DEF tx
  <2>3. /\ Unsent(r) /\ req' = [req EXCEPT ![r] = tx] /\ UNCHANGED <<classifications, rules, counted>>
        /\ nextId' = nextId + 1 /\ nextId <= MaxRules
    BY <1>2 DEF RuleCreate, Accept, tx
  <2> QED BY <1>1, <2>1, <2>2, <2>3
<1>3. ASSUME NEW id, NEW name, NEW active, RuleEdit(r, id, name, active) PROVE Goal
  <2> DEFINE tx == [op |-> "rule_edit", key |-> id, seen |-> rules, new |-> [name |-> name, active |-> active]]
  <2>1. IsTx(tx) /\ ~Creates(tx) /\ tx.op \in RuleOps
    BY DEF IsTx, UserTx, InstanceTx, RuleTx, ClusterTx, Creates, RuleOps
  <2> HIDE DEF tx
  <2>2. /\ Unsent(r) /\ req' = [req EXCEPT ![r] = tx] /\ UNCHANGED <<classifications, rules, counted>>
        /\ nextId' = nextId
    BY <1>3 DEF RuleEdit, Accept, tx, ruleVars
  <2> QED BY <1>1, <2>1, <2>2
<1>4. ASSUME NEW id, NEW name, NEW expr, NEW active, RuleVersion(r, id, name, expr, active) PROVE Goal
  <2> DEFINE row == RuleRow(rules[id].class, name, expr, rules[id].group, rules[id].version + 1, active, FALSE)
             tx == [op |-> "rule_version", key |-> id, seen |-> rules, new |-> [row |-> row, id |-> nextId]]
  <2>1. IsRule(row)
    BY DEF IsRule, RuleRow
  <2> HIDE DEF row
  <2>2. IsTx(tx) /\ NewId(tx) = nextId /\ tx.op \in RuleOps
    BY <2>1 DEF IsTx, UserTx, InstanceTx, RuleTx, ClusterTx, NewId, RuleOps
  <2> HIDE DEF tx
  <2>3. /\ Unsent(r) /\ req' = [req EXCEPT ![r] = tx] /\ UNCHANGED <<classifications, rules, counted>>
        /\ nextId' = nextId + 1 /\ nextId <= MaxRules
    BY <1>4 DEF RuleVersion, Accept, tx, row
  <2> QED BY <1>1, <2>2, <2>3
<1>5. ASSUME NEW key, RuleDelete(r, key) \/ ClassificationDelete(r, key) PROVE Goal
  <2>1. PICK op \in {"rule_delete", "class_delete"} :
           /\ Unsent(r) /\ req' = [req EXCEPT ![r] = [op |-> op, key |-> key, seen |-> rules, new |-> << >>]]
           /\ UNCHANGED <<classifications, rules, counted>> /\ nextId' = nextId
    BY <1>5 DEF RuleDelete, ClassificationDelete, Accept, ruleVars
  <2>2. IsTx([op |-> op, key |-> key, seen |-> rules, new |-> << >>])
    BY DEF IsTx, UserTx, InstanceTx, RuleTx, ClusterTx
  <2>3. ~Creates([op |-> op, key |-> key, seen |-> rules, new |-> << >>]) /\ op \in RuleOps
    BY DEF Creates, RuleOps
  <2> QED BY <1>1, <2>1, <2>2, <2>3
<1> QED BY <1>2, <1>3, <1>4, <1>5 DEF RuleCheck, Goal

LEMMA ClusterAccepts ==
    ASSUME ClusterTypeOK, NEW r \in Requests, ClusterCheck(r) PROVE Accepted(r, ClusterOps) /\ UNCHANGED clusterVars
<1>1. PICK c \in Clusters :
        \/ \E on \in BOOLEAN : DomainUpdate(r, c, on)
        \/ \E ns \in SUBSET Nodes : BindInstances(r, c, ns)
        \/ \E a \in Ags, row \in AgRows : AgCreate(r, c, a, row) \/ AgUpdate(r, c, a, row)
        \/ \E as \in SUBSET Ags : \E groups \in [as -> BOOLEAN] : AgSync(r, c, groups)
        \/ \E answered \in SUBSET Bound(c), ks \in SUBSET (Groups(c) \X Nodes) :
              \E rows \in [ks -> BOOLEAN] : StatusSync(r, c, answered, rows)
  BY DEF ClusterCheck
<1>2. ASSUME NEW op \in {"cluster_update", "cluster_bind", "status_sync"}, NEW new,
             Accept(r, op, c, ags, new)
      PROVE  Accepted(r, ClusterOps)
  <2>1. IsTx([op |-> op, key |-> c, seen |-> ags, new |-> new])
    BY DEF IsTx, UserTx, InstanceTx, RuleTx, ClusterTx
  <2> QED BY <1>2, <2>1 DEF Accept, Accepted, ClusterOps
<1>3. CASE \E on \in BOOLEAN : DomainUpdate(r, c, on)
  BY <1>2, <1>3 DEF DomainUpdate
<1>4. CASE \E ns \in SUBSET Nodes : BindInstances(r, c, ns)
  BY <1>2, <1>4 DEF BindInstances
<1>5. ASSUME NEW answered, NEW rows, StatusSync(r, c, answered, rows) PROVE Accepted(r, ClusterOps) /\ UNCHANGED clusterVars
  BY <1>2, <1>5 DEF StatusSync
<1>6. ASSUME NEW a \in Ags, NEW row \in AgRows, AgCreate(r, c, a, row) \/ AgUpdate(r, c, a, row)
      PROVE  Accepted(r, ClusterOps) /\ UNCHANGED clusterVars
  <2>1. PICK op \in {"ag_create", "ag_update"} : Accept(r, op, <<c, a>>, ags, row)
    BY <1>6 DEF AgCreate, AgUpdate
  <2>2. row.enabled => row.contained /\ row.account
    BY <1>6 DEF AgCreate, AgUpdate, CollectionAllowed
  <2>3. IsTx([op |-> op, key |-> <<c, a>>, seen |-> ags, new |-> row])
    BY <2>2 DEF IsTx, UserTx, InstanceTx, RuleTx, ClusterTx
  <2> QED BY <1>6, <2>1, <2>3 DEF AgCreate, AgUpdate, Accept, Accepted, ClusterOps
<1>7. ASSUME NEW as \in SUBSET Ags, NEW groups \in [as -> BOOLEAN], AgSync(r, c, groups)
      PROVE  Accepted(r, ClusterOps) /\ UNCHANGED clusterVars
  <2> DEFINE on(a) == /\ <<c, a>> \in DOMAIN ags
                      /\ ags[<<c, a>>].enabled /\ ags[<<c, a>>].account /\ groups[a]
             new == [a \in DOMAIN groups |-> [contained |-> groups[a], enabled |-> on(a)]]
  <2>1. Accept(r, "ag_sync", c, ags, new) /\ UNCHANGED clusterVars
    BY <1>7 DEF AgSync
  <2>2. \A a \in DOMAIN groups : groups[a] \in BOOLEAN /\ on(a) \in BOOLEAN /\ (on(a) => groups[a] /\ ags[<<c, a>>].account)
    BY <1>7
  <2> HIDE DEF on
  <2>3. \A a \in DOMAIN new :
           /\ new[a] = [contained |-> new[a].contained, enabled |-> new[a].enabled]
           /\ new[a].contained \in BOOLEAN /\ new[a].enabled \in BOOLEAN
           /\ new[a].enabled => new[a].contained /\ ags[<<c, a>>].account
    BY <2>2
  <2>4. DOMAIN new \subseteq Ags
    BY <1>7
  <2> HIDE DEF new
  <2>5. IsTx([op |-> "ag_sync", key |-> c, seen |-> ags, new |-> new])
    BY <2>3, <2>4 DEF IsTx, UserTx, InstanceTx, RuleTx, ClusterTx
  <2> QED BY <2>1, <2>5 DEF Accept, Accepted, ClusterOps
<1> QED BY <1>1, <1>3, <1>4, <1>5, <1>6, <1>7

----------------------------------------------------------------------------
\* What is written, users first.
LEMMA MergedUser ==
    ASSUME NEW row \in UserRows, NEW seen, NEW new \in UserRows
    PROVE  Merged(row, seen, new) \in UserRows /\ (seen = row => Merged(row, seen, new) = new)
  BY DEF Merged, UserRows

LEMMA UserWrites ==
    ASSUME UserTypeOK, NEW tx, UserTx(tx), tx.op \in UserOps, users' = UserWritten(tx)
    PROVE  UserTypeOK' /\ (tx.seen = users /\ ActiveAdmins(users) # {} => ActiveAdmins(users') # {})
<1>1. CASE tx.op = "user_create"
  <2>1. CASE tx.key \in DOMAIN users
    BY <1>1, <2>1 DEF UserWritten, UserTypeOK
  <2>2. CASE tx.key \notin DOMAIN users
    <3>1. users' = With(users, tx.key, tx.new) /\ tx.key \in Users /\ tx.new \in UserRows
      BY <1>1, <2>2 DEF UserWritten, UserTx
    <3>2. /\ DOMAIN users' = DOMAIN users \cup {tx.key} /\ users'[tx.key] = tx.new
          /\ \A u \in DOMAIN users : users'[u] = users[u]
      BY <2>2, <3>1 DEF With
    <3> QED BY <3>1, <3>2 DEF UserTypeOK, ActiveAdmins, Admins
  <2> QED BY <2>1, <2>2
<1>2. CASE tx.op = "user_update"
  <2>1. CASE tx.key \notin DOMAIN users
    BY <1>2, <2>1 DEF UserWritten, UserTypeOK
  <2>2. CASE tx.key \in DOMAIN users
    <3> DEFINE row == Merged(users[tx.key], tx.seen[tx.key], tx.new)
    <3>1. users' = [users EXCEPT ![tx.key] = row] /\ tx.new \in UserRows
      BY <1>2, <2>2 DEF UserWritten, UserTx
    <3>2. row \in UserRows /\ (tx.seen = users => row = tx.new)
      BY <2>2, <3>1, MergedUser DEF UserTypeOK
    <3> HIDE DEF row
    <3>3. /\ DOMAIN users' = DOMAIN users /\ users'[tx.key] = row
          /\ \A u \in DOMAIN users \ {tx.key} : users'[u] = users[u]
      BY <2>2, <3>1
    <3>4. UserTypeOK'
      BY <3>2, <3>3 DEF UserTypeOK
    <3>5. ASSUME tx.seen = users, ActiveAdmins(users) # {} PROVE ActiveAdmins(users') # {}
      <4>1. CASE row = Row("admin", TRUE)
        BY <2>2, <3>3, <4>1 DEF ActiveAdmins, Admins, Row
      <4>2. CASE row # Row("admin", TRUE)
        <5>1. ActiveAdmins(users) \ {tx.key} # {}
          BY <1>2, <3>2, <3>5, <4>2 DEF UserTx, ActiveAdmins
        <5> QED BY <3>3, <5>1 DEF ActiveAdmins, Admins
      <4> QED BY <4>1, <4>2
    <3> QED BY <3>4, <3>5
  <2> QED BY <2>1, <2>2
<1>3. CASE tx.op = "user_delete"
  <2>1. users' = Without(users, {tx.key})
    BY <1>3 DEF UserWritten
  <2>2. DOMAIN users' = DOMAIN users \ {tx.key} /\ \A u \in DOMAIN users \ {tx.key} : users'[u] = users[u]
    BY <2>1 DEF Without
  <2>3. tx.seen = users => ActiveAdmins(users) \ {tx.key} # {}
    BY <1>3 DEF UserTx
  <2> QED BY <2>2, <2>3 DEF UserTypeOK, ActiveAdmins, Admins
<1> QED BY <1>1, <1>2, <1>3 DEF UserOps

\* Instances, credentials, tags and links.
LEMMA MergedInstance ==
    ASSUME NEW row \in InstanceRows, NEW seen, NEW new,
           \/ new \in {[active |-> FALSE, recycled |-> TRUE], [active |-> TRUE, recycled |-> FALSE]}
           \/ /\ new = [active |-> new.active, credential |-> new.credential, tags |-> new.tags]
              /\ new.active \in BOOLEAN /\ new.credential \in Credentials \cup {NoCredential}
    PROVE  /\ Merged(row, seen, new) \in InstanceRows
           /\ new = [active |-> new.active, credential |-> new.credential, tags |-> new.tags] =>
                 Merged(row, seen, new).recycled = row.recycled
           /\ new \in {[active |-> FALSE, recycled |-> TRUE], [active |-> TRUE, recycled |-> FALSE]} /\ seen = row =>
                 ~(Merged(row, seen, new).recycled /\ Merged(row, seen, new).active)
<1>1. CASE new = [active |-> FALSE, recycled |-> TRUE]
  BY <1>1 DEF Merged, InstanceRows
<1>2. CASE new = [active |-> TRUE, recycled |-> FALSE]
  BY <1>2 DEF Merged, InstanceRows
<1>3. CASE /\ new = [active |-> new.active, credential |-> new.credential, tags |-> new.tags]
           /\ new.active \in BOOLEAN /\ new.credential \in Credentials \cup {NoCredential}
  BY <1>3 DEF Merged, InstanceRows
<1> QED BY <1>1, <1>2, <1>3

InstanceTables == InstanceTypeOK /\ Linked
LEMMA InstanceWrites ==
    ASSUME InstanceTables, NEW r \in Requests, InstanceTx(req[r]), InstanceWrite(r)
    PROVE  /\ InstanceTables' /\ req[r].op \in InstanceOps
           /\ req[r].seen = Tables =>
                 /\ Recycled(instances) = {} => Recycled(instances') = {}
                 /\ \A l \in links : l[2] \in tags'
<1> DEFINE tx == req[r]
           i == tx.key
           Goal == /\ InstanceTables' /\ req[r].op \in InstanceOps
                   /\ req[r].seen = Tables =>
                         /\ Recycled(instances) = {} => Recycled(instances') = {}
                         /\ \A l \in links : l[2] \in tags'
<1>1. \A l \in links : l[2] \in tags
  BY DEF InstanceTables, Linked
\* A row that is changed in place.
<1>2. ASSUME NEW row \in InstanceRows, NEW key \in DOMAIN instances, instances' = [instances EXCEPT ![key] = row],
             UNCHANGED <<credentials, tags>>, links' \subseteq (DOMAIN instances) \X tags, tx.op \in InstanceOps,
             tx.seen = Tables /\ Recycled(instances) = {} => ~(row.recycled /\ row.active)
      PROVE  Goal
  <2>1. DOMAIN instances' = DOMAIN instances /\ instances'[key] = row
        /\ \A j \in DOMAIN instances \ {key} : instances'[j] = instances[j]
    BY <1>2
  <2>2. InstanceTables'
    BY <1>2, <2>1 DEF InstanceTables, InstanceTypeOK, Linked
  <2>3. tx.seen = Tables /\ Recycled(instances) = {} => Recycled(instances') = {}
    BY <1>2, <2>1 DEF Recycled
  <2> QED BY <1>1, <1>2, <2>2, <2>3
<1>3. CASE UNCHANGED <<instances, credentials, tags>> /\ links' \subseteq (DOMAIN instances) \X tags /\ tx.op \in InstanceOps
  BY <1>1, <1>3 DEF InstanceTables, InstanceTypeOK, Linked
<1>4. CASE tx.op = "instance_update" /\ UpdateWrite(tx)
  <2>1. CASE i \in DOMAIN instances /\ instances' # instances
    <3> DEFINE row == Merged(instances[i], tx.seen.instances[i], tx.new)
    <3>1. /\ instances' = [instances EXCEPT ![i] = row] /\ UNCHANGED <<credentials, tags>>
          /\ links' = {l \in links : l[1] # i} \cup ({i} \X (tx.new.tags \cap tags))
      BY <1>4, <2>1 DEF UpdateWrite
    <3>2. row \in InstanceRows /\ row.recycled = instances[i].recycled
      BY <1>4, <2>1, MergedInstance DEF InstanceTables, InstanceTypeOK, InstanceTx
    <3>3. tx.seen = Tables => ~instances[i].recycled
      BY <1>4 DEF InstanceTx, Tables
    <3> HIDE DEF row
    <3>4. links' \subseteq (DOMAIN instances) \X tags
      BY <2>1, <3>1 DEF InstanceTables, Linked
    <3>5. tx.op \in InstanceOps
      BY <1>4 DEF InstanceOps
    <3> QED BY <1>2, <2>1, <3>1, <3>2, <3>3, <3>4, <3>5
  <2>2. CASE ~(i \in DOMAIN instances /\ instances' # instances)
    <3>1. UNCHANGED <<instances, credentials, tags>> /\ links' \subseteq (DOMAIN instances) \X tags
      BY <1>4, <2>2 DEF UpdateWrite, InstanceTables, Linked
    <3> QED BY <1>3, <1>4, <3>1 DEF InstanceOps
  <2> QED BY <2>1, <2>2
<1>5. CASE tx.op = "instance_write" /\ RowWrite(tx)
  <2>1. UNCHANGED <<credentials, tags, links>> /\ tx.op \in InstanceOps
    BY <1>5 DEF RowWrite, InstanceOps
  <2>2. CASE i \in DOMAIN instances
    <3> DEFINE row == Merged(instances[i], tx.seen.instances[i], tx.new)
    <3>1. instances' = [instances EXCEPT ![i] = row]
      BY <1>5, <2>2 DEF RowWrite
    <3>2. row \in InstanceRows /\ (tx.seen.instances[i] = instances[i] => ~(row.recycled /\ row.active))
      BY <1>5, <2>2, MergedInstance DEF InstanceTables, InstanceTypeOK, InstanceTx
    <3>3. tx.seen = Tables => tx.seen.instances[i] = instances[i]
      BY DEF Tables
    <3> HIDE DEF row
    <3>4. links' \subseteq (DOMAIN instances) \X tags
      BY <2>1 DEF InstanceTables, Linked
    <3>5. tx.seen = Tables /\ Recycled(instances) = {} => ~(row.recycled /\ row.active)
      BY <3>2, <3>3
    <3> QED BY <1>2, <2>1, <2>2, <3>1, <3>2, <3>4, <3>5
  <2>3. CASE i \notin DOMAIN instances
    BY <1>3, <1>5, <2>1, <2>3 DEF RowWrite, InstanceTables, Linked
  <2> QED BY <2>2, <2>3
<1>6. CASE tx.op = "instance_delete" /\ HardDeleteWrite(tx)
  <2>1. UNCHANGED <<credentials, tags>> /\ tx.op \in InstanceOps
    BY <1>6 DEF HardDeleteWrite, InstanceOps
  <2>2. CASE i \in DOMAIN instances /\ i \notin bound
    <3>1. instances' = Without(instances, {i}) /\ links' = {l \in links : l[1] # i}
      BY <1>6, <2>2 DEF HardDeleteWrite
    <3>2. DOMAIN instances' = DOMAIN instances \ {i} /\ \A j \in DOMAIN instances \ {i} : instances'[j] = instances[j]
      BY <3>1 DEF Without
    <3>3. InstanceTables'
      BY <2>1, <3>1, <3>2 DEF InstanceTables, InstanceTypeOK, Linked
    <3>4. Recycled(instances') \subseteq Recycled(instances)
      BY <3>2 DEF Recycled
    <3> QED BY <1>1, <2>1, <3>3, <3>4
  <2>3. CASE ~(i \in DOMAIN instances /\ i \notin bound)
    BY <1>3, <1>6, <2>1, <2>3 DEF HardDeleteWrite, InstanceTables, Linked
  <2> QED BY <2>2, <2>3
<1>7. CASE tx.op = "credential_delete" /\ CredentialWrite(tx)
  <2>1. UNCHANGED <<tags, links>> /\ tx.op \in InstanceOps /\ credentials' \subseteq credentials
    BY <1>7 DEF CredentialWrite, InstanceOps
  <2>2. CASE UNCHANGED instances
    BY <1>1, <2>1, <2>2 DEF InstanceTables, InstanceTypeOK, Linked
  <2>3. CASE instances' = [j \in DOMAIN instances |-> IF j \in tx.new THEN [instances[j] EXCEPT !.credential = NoCredential]
                                                     ELSE instances[j]]
    <3>1. ASSUME NEW j \in DOMAIN instances
          PROVE  /\ instances'[j] \in InstanceRows /\ instances'[j].active = instances[j].active
                 /\ instances'[j].recycled = instances[j].recycled
      BY <2>3, <3>1 DEF InstanceTables, InstanceTypeOK, InstanceRows
    <3>2. DOMAIN instances' = DOMAIN instances
      BY <2>3
    <3>3. InstanceTables'
      BY <2>1, <3>1, <3>2 DEF InstanceTables, InstanceTypeOK, Linked
    <3>4. Recycled(instances') \subseteq Recycled(instances)
      BY <3>1, <3>2 DEF Recycled
    <3> QED BY <1>1, <2>1, <3>3, <3>4
  <2> QED BY <1>7, <2>2, <2>3 DEF CredentialWrite
<1>8. CASE tx.op = "tag_delete" /\ TagDeleteWrite(tx)
  <2>1. /\ UNCHANGED <<instances, credentials>> /\ tags' = tags \ {i} /\ links' = {l \in links : l[2] # i}
        /\ tx.op \in InstanceOps
    BY <1>8 DEF TagDeleteWrite, InstanceOps
  <2>2. tx.seen = Tables => \A l \in links : l[2] # i
    BY <1>8 DEF InstanceTx, Tables
  <2>3. InstanceTables'
    BY <2>1 DEF InstanceTables, InstanceTypeOK, Linked
  <2> QED BY <1>1, <2>1, <2>2, <2>3
<1>9. CASE tx.op \in {"tag_assign", "tag_remove"} /\ LinkWrite(tx)
  <2>1. UNCHANGED <<instances, credentials, tags>> /\ links' \subseteq (DOMAIN instances) \X tags
    BY <1>9 DEF LinkWrite, InstanceTables, Linked
  <2> QED BY <1>3, <1>9, <2>1 DEF InstanceOps
<1> QED BY <1>4, <1>5, <1>6, <1>7, <1>8, <1>9 DEF InstanceWrite

\* Rules: their ids come from those handed out, and what is counted stays as it is.
Same(new, old) == \A f \in {"class", "expr", "group", "version"} : new[f] = old[f]

LEMMA MergedRule ==
    ASSUME NEW row, IsRule(row), NEW seen, NEW new,
           \/ new = [name |-> new.name, active |-> new.active]
           \/ new = [active |-> FALSE, archived |-> TRUE]
    PROVE  LET kept == Merged(row, seen, new) IN IsRule(kept) /\ Same(kept, row)
<1>1. CASE new = [active |-> FALSE, archived |-> TRUE]
  BY <1>1 DEF Merged, IsRule, RuleRow, Same
<1>2. CASE new = [name |-> new.name, active |-> new.active]
  BY <1>2 DEF Merged, IsRule, RuleRow, Same
<1> QED BY <1>1, <1>2

LEMMA RuleWrites ==
    ASSUME RulesInv, Pending, NEW r \in Requests, RuleWrite(r)
    PROVE  /\ DOMAIN rules' \subseteq DOMAIN rules \cup (IF Creates(req[r]) THEN {NewId(req[r])} ELSE {})
           /\ \A id \in DOMAIN rules' : IsRule(rules'[id]) /\ rules'[id].class \in classifications'
           /\ \A id \in counted : id \in DOMAIN rules' /\ Same(rules'[id], rules[id])
           /\ UNCHANGED <<nextId, counted>>
<1> DEFINE tx == req[r]
           Goal == /\ DOMAIN rules' \subseteq DOMAIN rules \cup (IF Creates(req[r]) THEN {NewId(req[r])} ELSE {})
                   /\ \A id \in DOMAIN rules' : IsRule(rules'[id]) /\ rules'[id].class \in classifications'
                   /\ \A id \in counted : id \in DOMAIN rules' /\ Same(rules'[id], rules[id])
<1>1. UNCHANGED <<nextId, counted>> /\ tx.op \in RuleOps /\ rules' = RuleWritten(tx) /\ RuleTx(tx)
  BY DEF RuleWrite, Pending, IsTx
<1>2. /\ counted \subseteq DOMAIN rules
      /\ \A id \in DOMAIN rules : IsRule(rules[id]) /\ rules[id].class \in classifications
  BY DEF RulesInv, RuleTypeOK
<1>3. \A id \in DOMAIN rules : Same(rules[id], rules[id])
  BY DEF Same
<1>4. ASSUME rules' = rules, classifications' = classifications PROVE Goal
  BY <1>2, <1>3, <1>4
\* Rows change in place.
<1>5. ASSUME NEW key \in DOMAIN rules, NEW row, IsRule(row), Same(row, rules[key]),
             NEW edited, edited = [rules EXCEPT ![key] = row]
      PROVE  /\ DOMAIN edited = DOMAIN rules
             /\ \A id \in DOMAIN rules : /\ IsRule(edited[id]) /\ Same(edited[id], rules[id])
                                         /\ edited[id].class \in classifications
  <2>1. DOMAIN edited = DOMAIN rules /\ edited[key] = row /\ \A id \in DOMAIN rules \ {key} : edited[id] = rules[id]
    BY <1>5
  <2>2. row.class = rules[key].class
    BY <1>5 DEF Same
  <2> QED BY <1>2, <1>3, <1>5, <2>1, <2>2
\* A row is added.
<1>6. ASSUME NEW new, NEW row, IsRule(row), row.class \in classifications, new \notin DOMAIN rules,
             Creates(tx), NewId(tx) = new, classifications' = classifications,
             NEW edited, DOMAIN edited = DOMAIN rules, rules' = With(edited, new, row),
             \A id \in DOMAIN rules : /\ IsRule(edited[id]) /\ Same(edited[id], rules[id])
                                      /\ edited[id].class \in classifications
      PROVE  Goal
  <2>1. DOMAIN rules' = DOMAIN rules \cup {new} /\ rules'[new] = row /\ \A id \in DOMAIN rules : rules'[id] = edited[id]
    BY <1>6 DEF With
  <2> QED BY <1>2, <1>6, <2>1
\* Rows are deleted.
<1>7. ASSUME NEW S, S \cap counted = {}, rules' = Without(rules, S),
             \A id \in DOMAIN rules \ S : rules[id].class \in classifications'
      PROVE  Goal
  <2>1. DOMAIN rules' = DOMAIN rules \ S /\ \A id \in DOMAIN rules \ S : rules'[id] = rules[id]
    BY <1>7 DEF Without
  <2> QED BY <1>2, <1>3, <1>7, <2>1
<1> SUFFICES Goal
  BY <1>1
<1> HIDE DEF Goal
<1>8. tx.op # "class_delete" => classifications' = classifications
  BY DEF RuleWrite
<1>9. Creates(tx) => NewId(tx) \notin DOMAIN rules
  BY DEF RulesInv, FreshIds
<1>10. CASE tx.op = "rule_create"
  <2>1. CASE tx.new.class \in classifications
    <3>1. rules' = With(rules, tx.key, tx.new) /\ IsRule(tx.new) /\ Creates(tx) /\ NewId(tx) = tx.key
      BY <1>1, <1>10, <2>1 DEF RuleWritten, RuleTx, Creates, NewId
    <3> QED BY <1>2, <1>3, <1>6, <1>8, <1>9, <1>10, <2>1, <3>1
  <2>2. CASE tx.new.class \notin classifications
    BY <1>1, <1>4, <1>8, <1>10, <2>2 DEF RuleWritten
  <2> QED BY <2>1, <2>2
<1>11. CASE tx.op = "rule_edit"
  <2>1. CASE tx.key \in DOMAIN rules
    <3> DEFINE row == Merged(rules[tx.key], tx.seen[tx.key], tx.new)
    <3>1. rules' = [rules EXCEPT ![tx.key] = row]
      BY <1>1, <1>11, <2>1 DEF RuleWritten
    <3>2. IsRule(row) /\ Same(row, rules[tx.key])
      BY <1>1, <1>2, <1>11, <2>1, MergedRule DEF RuleTx
    <3> HIDE DEF row
    <3>3. /\ DOMAIN rules' = DOMAIN rules
          /\ \A id \in DOMAIN rules : /\ IsRule(rules'[id]) /\ Same(rules'[id], rules[id])
                                      /\ rules'[id].class \in classifications
      BY <1>5, <2>1, <3>1, <3>2
    <3> QED BY <1>2, <1>8, <1>11, <3>3 DEF Goal
  <2>2. CASE tx.key \notin DOMAIN rules
    BY <1>1, <1>4, <1>8, <1>11, <2>2 DEF RuleWritten
  <2> QED BY <2>1, <2>2
<1>12. CASE tx.op = "rule_version"
  <2>1. CASE tx.key \in DOMAIN rules /\ tx.new.row.class \in classifications /\ VersionFree(tx.new.row)
    <3> DEFINE row == Merged(rules[tx.key], tx.seen[tx.key], [active |-> FALSE, archived |-> TRUE])
               edited == [rules EXCEPT ![tx.key] = row]
    <3>1. rules' = With(edited, tx.new.id, tx.new.row)
      BY <1>1, <1>12, <2>1 DEF RuleWritten
    <3>2. IsRule(row) /\ Same(row, rules[tx.key])
      BY <1>2, <2>1, MergedRule
    <3> HIDE DEF row
    <3>3. /\ DOMAIN edited = DOMAIN rules
          /\ \A id \in DOMAIN rules : /\ IsRule(edited[id]) /\ Same(edited[id], rules[id])
                                      /\ edited[id].class \in classifications
      BY <1>5, <2>1, <3>2
    <3> HIDE DEF edited
    <3>4. IsRule(tx.new.row) /\ Creates(tx) /\ NewId(tx) = tx.new.id
      BY <1>1, <1>12 DEF RuleTx, Creates, NewId
    <3> QED BY <1>6, <1>8, <1>9, <1>12, <2>1, <3>1, <3>3, <3>4
  <2>2. CASE ~(tx.key \in DOMAIN rules /\ tx.new.row.class \in classifications /\ VersionFree(tx.new.row))
    BY <1>1, <1>4, <1>8, <1>12, <2>2 DEF RuleWritten
  <2> QED BY <2>1, <2>2
<1>13. CASE tx.op = "rule_delete"
  <2>1. CASE tx.key \in counted
    BY <1>1, <1>4, <1>8, <1>13, <2>1 DEF RuleWritten
  <2>2. CASE tx.key \notin counted
    <3>1. rules' = Without(rules, {tx.key})
      BY <1>1, <1>13, <2>2 DEF RuleWritten
    <3> QED BY <1>2, <1>7, <1>8, <1>13, <2>2, <3>1
  <2> QED BY <2>1, <2>2
<1>14. CASE tx.op = "class_delete"
  <2>1. CASE \E id \in counted : rules[id].class = tx.key
    <3>1. rules' = rules
      BY <1>1, <1>14, <2>1 DEF RuleWritten
    <3>2. classifications' = classifications
      BY <2>1 DEF RuleWrite
    <3> QED BY <1>4, <3>1, <3>2
  <2>2. CASE \A id \in counted : rules[id].class # tx.key
    <3>1. rules' = Without(rules, {id \in DOMAIN rules : rules[id].class = tx.key})
      BY <1>1, <1>14, <2>2 DEF RuleWritten
    <3>2. classifications' = classifications \ {tx.key}
      BY <1>14, <2>2 DEF RuleWrite
    <3> QED BY <1>2, <1>7, <2>2, <3>1, <3>2
  <2> QED BY <2>1, <2>2
<1> QED BY <1>1, <1>10, <1>11, <1>12, <1>13, <1>14 DEF RuleOps

\* Clusters and availability groups.
GroupTables == ClusterTypeOK /\ GroupKeys

LEMMA MergedGroup ==
    ASSUME NEW row \in AgRows, NEW seen, NEW new,
           \/ new \in AgRows
           \/ new = [contained |-> new.contained, enabled |-> new.enabled] /\ new.contained \in BOOLEAN /\ new.enabled \in BOOLEAN
    PROVE  /\ Merged(row, seen, new) \in AgRows
           /\ new \in AgRows /\ seen = row => Merged(row, seen, new) = new
           /\ new = [contained |-> new.contained, enabled |-> new.enabled] /\ seen = row =>
                 Merged(row, seen, new) = [contained |-> new.contained, account |-> row.account, enabled |-> new.enabled]
<1>1. CASE new \in AgRows
  BY <1>1 DEF Merged, AgRows
<1>2. CASE new = [contained |-> new.contained, enabled |-> new.enabled] /\ new.contained \in BOOLEAN /\ new.enabled \in BOOLEAN
  BY <1>2 DEF Merged, AgRows
<1> QED BY <1>1, <1>2

Collectable(row) == row.enabled => row.contained /\ row.account

\* A discovery: what it lists is changed or added, what it does not list goes.
LEMMA SyncWrites ==
    ASSUME GroupTables, NEW tx, ClusterTx(tx), tx.op = "ag_sync", SyncWrite(tx), UNCHANGED states
    PROVE  /\ GroupTables'
           /\ tx.seen = ags /\ Uncollectable(ags) = {} => Uncollectable(ags') = {}
<1> DEFINE c == tx.key
           groups == DOMAIN tx.new
           stale == Groups(c) \ groups
           fresh == {a \in groups : <<c, a>> \notin DOMAIN tx.seen}
           changed == groups \ fresh
           refused == \/ \E k \in DOMAIN states : k[1] = c /\ k[2] \in stale
                      \/ \E a \in fresh : <<c, a>> \in DOMAIN ags
                      \/ \E a \in changed : <<c, a>> \notin DOMAIN ags
           row(a) == IF a \in fresh
                     THEN [contained |-> tx.new[a].contained, account |-> FALSE, enabled |-> FALSE]
                     ELSE Merged(ags[<<c, a>>], tx.seen[<<c, a>>], tx.new[a])
<1>1. CASE UNCHANGED <<ags, owned>>
  BY <1>1 DEF GroupTables, ClusterTypeOK, GroupKeys
<1>2. CASE /\ ~refused
           /\ ags' = [k \in (DOMAIN ags \ ({c} \X stale)) \cup ({c} \X fresh) |->
                        IF k[1] = c /\ k[2] \in groups THEN row(k[2]) ELSE ags[k]]
           /\ owned' = owned \ ({c} \X stale)
  <2>1. ASSUME NEW a \in groups
        PROVE  /\ row(a) \in AgRows
               /\ tx.seen = ags => Collectable(row(a))
    <3>1. /\ tx.new[a] = [contained |-> tx.new[a].contained, enabled |-> tx.new[a].enabled]
          /\ tx.new[a].contained \in BOOLEAN /\ tx.new[a].enabled \in BOOLEAN
          /\ tx.new[a].enabled => tx.new[a].contained /\ tx.seen[<<tx.key, a>>].account
      BY <2>1 DEF ClusterTx
    <3>2. CASE a \in fresh
      BY <3>1, <3>2 DEF AgRows, Collectable
    <3>3. CASE a \notin fresh
      <4>1. <<c, a>> \in DOMAIN ags /\ ags[<<c, a>>] \in AgRows
        BY <1>2, <2>1, <3>3 DEF GroupTables, ClusterTypeOK
      <4>2. row(a) = Merged(ags[<<c, a>>], tx.seen[<<c, a>>], tx.new[a])
        BY <3>3
      <4>3. row(a) \in AgRows
        BY <3>1, <4>1, <4>2, MergedGroup
      <4>4. tx.seen = ags => row(a) = [contained |-> tx.new[a].contained, account |-> ags[<<c, a>>].account,
                                      enabled |-> tx.new[a].enabled]
        BY <3>1, <4>1, <4>2, MergedGroup
      <4> QED BY <3>1, <4>3, <4>4 DEF Collectable
    <3> QED BY <3>2, <3>3
  <2>2. DOMAIN ags' = (DOMAIN ags \ ({c} \X stale)) \cup ({c} \X fresh)
    BY <1>2
  <2>3. ASSUME NEW k \in DOMAIN ags'
        PROVE  /\ ags'[k] \in AgRows /\ k \in Clusters \X Ags
               /\ tx.seen = ags /\ Uncollectable(ags) = {} => Collectable(ags'[k])
    <3>1. ags'[k] = IF k[1] = c /\ k[2] \in groups THEN row(k[2]) ELSE ags[k]
      BY <1>2, <2>3
    <3> HIDE DEF row
    <3>2. CASE k[1] = c /\ k[2] \in groups
      <4>1. k \in Clusters \X Ags
        BY <2>2, <2>3 DEF GroupTables, GroupKeys, ClusterTx
      <4> QED BY <2>1, <3>1, <3>2, <4>1
    <3>3. CASE ~(k[1] = c /\ k[2] \in groups)
      <4>1. k \in DOMAIN ags
        BY <2>2, <2>3, <3>3
      <4>2. Uncollectable(ags) = {} => Collectable(ags[k])
        BY <4>1 DEF Uncollectable, Collectable
      <4> QED BY <3>1, <3>3, <4>1, <4>2 DEF GroupTables, ClusterTypeOK, GroupKeys
    <3> QED BY <3>2, <3>3
  <2>4. ASSUME NEW k \in DOMAIN states PROVE <<k[1], k[2]>> \in DOMAIN ags'
    BY <1>2, <2>2, <2>4 DEF GroupTables, ClusterTypeOK
  <2>5. owned' \subseteq DOMAIN ags'
    BY <1>2, <2>2 DEF GroupTables, ClusterTypeOK
  <2>6. GroupTables'
    BY <2>3, <2>4, <2>5 DEF GroupTables, ClusterTypeOK, GroupKeys
  <2>7. tx.seen = ags /\ Uncollectable(ags) = {} => Uncollectable(ags') = {}
    BY <2>3 DEF Uncollectable, Collectable
  <2> QED BY <2>6, <2>7
<1> QED BY <1>1, <1>2 DEF SyncWrite

LEMMA ClusterWrites ==
    ASSUME GroupTables, NEW r \in Requests, ClusterTx(req[r]), ClusterWrite(r)
    PROVE  /\ GroupTables' /\ req[r].op \in ClusterOps
           /\ req[r].seen = ags /\ Uncollectable(ags) = {} => Uncollectable(ags') = {}
<1> DEFINE tx == req[r]
           Goal == /\ GroupTables' /\ req[r].op \in ClusterOps
                   /\ req[r].seen = ags /\ Uncollectable(ags) = {} => Uncollectable(ags') = {}
<1> SUFFICES Goal
  OBVIOUS
<1>1. ASSUME NEW key \in Clusters \X Ags, NEW row \in AgRows, tx.op \in ClusterOps,
             UNCHANGED <<states, owned>>, DOMAIN ags' = DOMAIN ags \cup {key}, ags'[key] = row,
             \A k \in DOMAIN ags \ {key} : ags'[k] = ags[k],
             tx.seen = ags => Collectable(row)
      PROVE  Goal
  <2>1. GroupTables'
    BY <1>1 DEF GroupTables, ClusterTypeOK, GroupKeys
  <2>2. tx.seen = ags /\ Uncollectable(ags) = {} => Uncollectable(ags') = {}
    BY <1>1 DEF Uncollectable, Collectable
  <2> QED BY <1>1, <2>1, <2>2
<1>2. ASSUME UNCHANGED <<ags, states, owned>>, tx.op \in ClusterOps PROVE Goal
  BY <1>2 DEF GroupTables, ClusterTypeOK, GroupKeys
<1> HIDE DEF Goal
<1>3. CASE tx.op \in {"cluster_update", "cluster_bind"} /\ UNCHANGED <<ags, states, owned>>
  BY <1>2, <1>3 DEF ClusterOps
<1>4. CASE tx.op = "ag_create" /\ ags' = (IF tx.key \in DOMAIN ags THEN ags ELSE With(ags, tx.key, tx.new))
           /\ UNCHANGED <<states, owned>>
  <2>1. tx.op \in ClusterOps /\ tx.key \in Clusters \X Ags /\ tx.new \in AgRows /\ Collectable(tx.new)
    BY <1>4 DEF ClusterOps, ClusterTx, Collectable
  <2>2. CASE tx.key \notin DOMAIN ags
    <3>1. /\ DOMAIN ags' = DOMAIN ags \cup {tx.key} /\ ags'[tx.key] = tx.new
          /\ \A k \in DOMAIN ags \ {tx.key} : ags'[k] = ags[k]
      BY <1>4, <2>2 DEF With
    <3> QED BY <1>1, <1>4, <2>1, <3>1
  <2>3. CASE tx.key \in DOMAIN ags
    BY <1>2, <1>4, <2>1, <2>3
  <2> QED BY <2>2, <2>3
<1>5. CASE tx.op = "ag_update" /\ UNCHANGED <<states, owned>>
           /\ ags' = (IF tx.key \notin DOMAIN ags THEN ags
                      ELSE [ags EXCEPT ![tx.key] = Merged(@, tx.seen[tx.key], tx.new)])
  <2>1. tx.op \in ClusterOps /\ tx.key \in Clusters \X Ags /\ tx.new \in AgRows /\ Collectable(tx.new)
    BY <1>5 DEF ClusterOps, ClusterTx, Collectable
  <2>2. CASE tx.key \in DOMAIN ags
    <3> DEFINE row == Merged(ags[tx.key], tx.seen[tx.key], tx.new)
    <3>1. /\ DOMAIN ags' = DOMAIN ags \cup {tx.key} /\ ags'[tx.key] = row
          /\ \A k \in DOMAIN ags \ {tx.key} : ags'[k] = ags[k]
      BY <1>5, <2>2
    <3>2. row \in AgRows /\ (tx.seen = ags => row = tx.new)
      BY <2>1, <2>2, MergedGroup DEF GroupTables, ClusterTypeOK
    <3> HIDE DEF row
    <3> QED BY <1>1, <1>5, <2>1, <3>1, <3>2
  <2>3. CASE tx.key \notin DOMAIN ags
    BY <1>2, <1>5, <2>1, <2>3
  <2> QED BY <2>2, <2>3
<1>6. CASE tx.op = "ag_sync" /\ SyncWrite(tx) /\ UNCHANGED states
  BY <1>6, SyncWrites DEF Goal, ClusterOps
<1>7. CASE tx.op = "status_sync" /\ StatusWrite(tx) /\ UNCHANGED <<ags, owned>>
  <2>1. ASSUME NEW k \in DOMAIN states' PROVE <<k[1], k[2]>> \in DOMAIN ags
    BY <1>7, <2>1 DEF StatusWrite, GroupTables, ClusterTypeOK
  <2> QED BY <1>7, <2>1 DEF Goal, GroupTables, ClusterTypeOK, GroupKeys, ClusterOps
<1> QED BY <1>3, <1>4, <1>5, <1>6, <1>7 DEF ClusterWrite

----------------------------------------------------------------------------
\* The steps, each of one request.
LEMMA FreshKept ==
    ASSUME RulesInv, Pending, NEW r \in Requests, DOMAIN req' = Requests,
           \A q \in Requests \ {r} : req'[q] = req[q],
           nextId' \in {nextId, nextId + 1},
           Creates(req'[r]) => NewId(req'[r]) = nextId /\ nextId' = nextId + 1,
           DOMAIN rules' \subseteq DOMAIN rules \cup (IF Creates(req[r]) THEN {NewId(req[r])} ELSE {})
    PROVE  FreshIds'
<1>1. nextId \in Nat \ {0} /\ DOMAIN rules \subseteq 1 .. (nextId - 1)
  BY RuleAssumption DEF RulesInv
<1>2. ASSUME NEW q \in Requests, Creates(req[q])
      PROVE  /\ NewId(req[q]) \in (1 .. (nextId - 1)) \ DOMAIN rules
             /\ \A p \in Requests \ {q} : Creates(req[p]) => NewId(req[p]) # NewId(req[q])
  BY <1>2 DEF RulesInv, FreshIds
<1>3. ASSUME NEW q \in Requests, Creates(req'[q])
      PROVE  /\ NewId(req'[q]) \in (1 .. (nextId' - 1)) \ DOMAIN rules'
             /\ \A p \in Requests \ {q} : Creates(req'[p]) => NewId(req'[p]) # NewId(req'[q])
  <2>1. CASE q = r
    <3>1. NewId(req'[q]) = nextId /\ nextId' = nextId + 1
      BY <1>3, <2>1
    <3>2. nextId \notin DOMAIN rules'
      BY <1>1, <1>2
    <3>3. ASSUME NEW p \in Requests \ {q}, Creates(req'[p]) PROVE NewId(req'[p]) # nextId
      BY <1>1, <1>2, <2>1, <3>3
    <3> QED BY <1>1, <3>1, <3>2, <3>3
  <2>2. CASE q # r
    <3>1. req'[q] = req[q] /\ Creates(req[q])
      BY <1>3, <2>2
    <3>2. NewId(req[q]) \in (1 .. (nextId' - 1)) \ DOMAIN rules'
      BY <1>1, <1>2, <2>2, <3>1
    <3>3. ASSUME NEW p \in Requests \ {q}, Creates(req'[p]) PROVE NewId(req'[p]) # NewId(req[q])
      <4>1. CASE p = r
        BY <1>1, <1>2, <3>1, <3>3, <4>1
      <4>2. CASE p # r
        BY <1>2, <3>1, <3>3, <4>2
      <4> QED BY <4>1, <4>2
    <3> QED BY <3>1, <3>2, <3>3
  <2> QED BY <2>1, <2>2
<1> QED BY <1>3 DEF FreshIds

\* A request that accepts or answers.
LEMMA RequestMoves ==
    ASSUME Pending, NEW r \in Requests, NEW ops, Accepted(r, ops) \/ Answer(r)
    PROVE  /\ Pending' /\ DOMAIN req' = Requests /\ \A q \in Requests \ {r} : req'[q] = req[q]
           /\ req'[r].op \in ops \cup {"ended"}
<1>1. PICK tx : IsTx(tx) /\ tx.op \in ops \cup {"ended"} /\ req' = [req EXCEPT ![r] = tx]
  BY DEF Accepted, Answer, IsTx, UserTx, InstanceTx, RuleTx, ClusterTx
<1>2. DOMAIN req' = Requests /\ req'[r] = tx /\ \A q \in Requests \ {r} : req'[q] = req[q]
  BY <1>1, OneMoves DEF Pending
<1>3. \A q \in Requests : IsTx(req'[q])
  BY <1>1, <1>2 DEF Pending
<1> QED BY <1>1, <1>2, <1>3 DEF Pending

\* Requests about other tables hand out no id.
LEMMA RulesApart ==
    ASSUME RulesInv, Pending, NEW r \in Requests, DOMAIN req' = Requests,
           \A q \in Requests \ {r} : req'[q] = req[q],
           req'[r].op \notin {"rule_create", "rule_version"}, UNCHANGED ruleVars
    PROVE  RulesInv'
<1>1. FreshIds'
  BY FreshKept DEF Creates, ruleVars
<1> QED BY <1>1 DEF RulesInv, RuleTypeOK, ruleVars

LEMMA UserKept == ASSUME RecordsInv, UserStep PROVE RecordsInv'
<1>1. PICK r \in Requests : UserCheck(r) \/ UserWrite(r)
  BY DEF UserStep
<1>2. UNCHANGED <<recordVars, ruleVars, clusterVars>>
  BY DEF UserStep
<1>3. Accepted(r, UserOps) \/ Answer(r)
  BY <1>1, UserAccepts DEF UserWrite
<1>4. UserTypeOK'
  <2>1. CASE UserCheck(r)
    BY <2>1, UserAccepts DEF RecordsInv, UserTypeOK
  <2>2. CASE UserWrite(r)
    BY <2>2, UserWrites DEF UserWrite, RecordsInv, Pending, IsTx
  <2> QED BY <1>1, <2>1, <2>2
<1>5. /\ Pending' /\ DOMAIN req' = Requests /\ \A q \in Requests \ {r} : req'[q] = req[q]
      /\ req'[r].op \in UserOps \cup {"ended"}
  BY <1>3, RequestMoves DEF RecordsInv
<1>6. RulesInv'
  BY <1>2, <1>5, RulesApart DEF RecordsInv, UserOps
<1> QED BY <1>2, <1>4, <1>5, <1>6
      DEF RecordsInv, InstanceTypeOK, Linked, ClusterTypeOK, GroupKeys, recordVars, clusterVars

LEMMA InstanceKept == ASSUME RecordsInv, InstanceStep PROVE RecordsInv'
<1>1. PICK r \in Requests : InstanceCheck(r) \/ InstanceWrite(r)
  BY DEF InstanceStep
<1>2. UNCHANGED <<users, ruleVars, clusterVars>>
  BY DEF InstanceStep
<1>3. Accepted(r, InstanceOps) \/ Answer(r)
  BY <1>1, InstanceAccepts DEF InstanceWrite
<1>4. InstanceTypeOK' /\ Linked'
  <2>1. CASE InstanceCheck(r)
    BY <2>1, InstanceAccepts DEF RecordsInv, InstanceTypeOK, Linked, recordVars
  <2>2. CASE InstanceWrite(r)
    BY <2>2, InstanceWrites DEF RecordsInv, Pending, IsTx, InstanceTables
  <2> QED BY <1>1, <2>1, <2>2
<1>5. /\ Pending' /\ DOMAIN req' = Requests /\ \A q \in Requests \ {r} : req'[q] = req[q]
      /\ req'[r].op \in InstanceOps \cup {"ended"}
  BY <1>3, RequestMoves DEF RecordsInv
<1>6. RulesInv'
  BY <1>2, <1>5, RulesApart DEF RecordsInv, InstanceOps
<1> QED BY <1>2, <1>4, <1>5, <1>6 DEF RecordsInv, UserTypeOK, ClusterTypeOK, GroupKeys, clusterVars

LEMMA RuleKept == ASSUME RecordsInv, RuleStep PROVE RecordsInv'
<1>1. UNCHANGED <<users, recordVars, clusterVars>>
  BY DEF RuleStep
<1>2. CASE CountRules
  <2>1. /\ UNCHANGED <<req, classifications, rules, nextId>> /\ counted' \subseteq DOMAIN rules
    BY <1>2 DEF CountRules, ActiveRules, RecordsInv, RulesInv, RuleTypeOK
  <2>2. RulesInv'
    BY <2>1 DEF RecordsInv, RulesInv, RuleTypeOK, FreshIds
  <2> QED BY <1>1, <2>1, <2>2
        DEF RecordsInv, Pending, UserTypeOK, InstanceTypeOK, Linked, ClusterTypeOK, GroupKeys, recordVars, clusterVars
<1>3. ASSUME NEW r \in Requests, RuleCheck(r) \/ RuleWrite(r) PROVE RecordsInv'
  <2>1. Accepted(r, RuleOps) \/ Answer(r)
    BY <1>3, RuleAccepts DEF RuleWrite, RecordsInv
  <2>2. /\ Pending' /\ DOMAIN req' = Requests /\ \A q \in Requests \ {r} : req'[q] = req[q]
    BY <2>1, RequestMoves DEF RecordsInv
  <2>3. RulesInv'
    <3>1. CASE RuleCheck(r)
      <4>1. /\ UNCHANGED <<classifications, rules, counted>>
            /\ nextId' \in {nextId, nextId + 1} /\ nextId' \in 1 .. (MaxRules + 1)
            /\ Creates(req'[r]) => NewId(req'[r]) = nextId /\ nextId' = nextId + 1
        BY <3>1, RuleAccepts DEF RecordsInv
      <4>2. FreshIds'
        BY <2>2, <4>1, FreshKept DEF RecordsInv
      <4>3. DOMAIN rules \subseteq 1 .. (nextId' - 1)
        BY <4>1, RuleAssumption DEF RecordsInv, RulesInv
      <4> QED BY <4>1, <4>2, <4>3 DEF RecordsInv, RulesInv, RuleTypeOK
    <3>2. CASE RuleWrite(r)
      <4>1. /\ DOMAIN rules' \subseteq DOMAIN rules \cup (IF Creates(req[r]) THEN {NewId(req[r])} ELSE {})
            /\ \A id \in DOMAIN rules' : IsRule(rules'[id]) /\ rules'[id].class \in classifications'
            /\ \A id \in counted : id \in DOMAIN rules'
            /\ UNCHANGED <<nextId, counted>>
        BY <3>2, RuleWrites DEF RecordsInv
      <4>2. ~Creates(req'[r])
        BY <3>2 DEF RuleWrite, Answer, RecordsInv, Pending, Creates
      <4>3. FreshIds'
        BY <2>2, <4>1, <4>2, FreshKept DEF RecordsInv
      <4>4. DOMAIN rules' \subseteq 1 .. (nextId - 1) /\ DOMAIN rules' \subseteq 1 .. MaxRules
        BY <4>1, RuleAssumption DEF RecordsInv, RulesInv, FreshIds, RuleTypeOK
      <4> QED BY <4>1, <4>3, <4>4 DEF RecordsInv, RulesInv, RuleTypeOK
    <3> QED BY <1>3, <3>1, <3>2
  <2> QED BY <1>1, <2>2, <2>3
        DEF RecordsInv, UserTypeOK, InstanceTypeOK, Linked, ClusterTypeOK, GroupKeys, recordVars, clusterVars
<1> QED BY <1>2, <1>3 DEF RuleStep

LEMMA ClusterKept == ASSUME RecordsInv, ClusterStep PROVE RecordsInv'
<1>1. UNCHANGED <<users, recordVars, ruleVars>>
  BY DEF ClusterStep
<1>2. CASE CollectAccounts
  <2>1. UNCHANGED <<req, ags, states>> /\ owned' \subseteq DOMAIN ags
    BY <1>2 DEF CollectAccounts, RecordsInv, ClusterTypeOK
  <2>2. RulesInv'
    BY <1>1, <2>1 DEF RecordsInv, RulesInv, RuleTypeOK, FreshIds, ruleVars
  <2> QED BY <1>1, <2>1, <2>2
        DEF RecordsInv, Pending, UserTypeOK, InstanceTypeOK, Linked, ClusterTypeOK, GroupKeys, recordVars
<1>3. ASSUME NEW r \in Requests, ClusterCheck(r) \/ ClusterWrite(r) PROVE RecordsInv'
  <2>1. Accepted(r, ClusterOps) \/ Answer(r)
    BY <1>3, ClusterAccepts DEF ClusterWrite, RecordsInv
  <2>2. /\ Pending' /\ DOMAIN req' = Requests /\ \A q \in Requests \ {r} : req'[q] = req[q]
        /\ req'[r].op \in ClusterOps \cup {"ended"}
    BY <2>1, RequestMoves DEF RecordsInv
  <2>3. ClusterTypeOK' /\ GroupKeys'
    <3>1. CASE ClusterCheck(r)
      BY <3>1, ClusterAccepts DEF RecordsInv, ClusterTypeOK, GroupKeys, clusterVars
    <3>2. CASE ClusterWrite(r)
      BY <3>2, ClusterWrites DEF RecordsInv, Pending, IsTx, GroupTables
    <3> QED BY <1>3, <3>1, <3>2
  <2>4. RulesInv'
    BY <1>1, <2>2, RulesApart DEF RecordsInv, ClusterOps
  <2> QED BY <1>1, <2>2, <2>3, <2>4 DEF RecordsInv, UserTypeOK, InstanceTypeOK, Linked, recordVars
<1> QED BY <1>2, <1>3 DEF ClusterStep

LEMMA RecordsInvInit == Init => RecordsInv
<1> SUFFICES ASSUME Init PROVE RecordsInv
  OBVIOUS
<1>1. Pending
  BY DEF Init, RequestInit, Pending, IsTx, UserTx, InstanceTx, RuleTx, ClusterTx
<1>2. UserTypeOK
  BY DEF Init, UserInit, UserTypeOK
<1>3. InstanceTypeOK /\ Linked
  BY DEF Init, InstanceInit, InstanceTypeOK, Linked, InstanceRows
<1>4. RulesInv
  BY RuleAssumption DEF Init, RequestInit, RuleInit, RulesInv, RuleTypeOK, FreshIds, Creates
<1>5. ClusterTypeOK /\ GroupKeys
  BY DEF Init, ClusterInit, ClusterTypeOK, GroupKeys
<1> QED BY <1>1, <1>2, <1>3, <1>4, <1>5 DEF RecordsInv

LEMMA RecordsInvKept == RecordsInv /\ [Next]_vars => RecordsInv'
<1>1. ASSUME RecordsInv, UNCHANGED vars PROVE RecordsInv'
  <2>1. UNCHANGED <<req, users>> /\ UNCHANGED recordVars /\ UNCHANGED ruleVars /\ UNCHANGED clusterVars
    BY <1>1 DEF vars
  <2>2. RulesInv'
    BY <1>1, <2>1 DEF RecordsInv, RulesInv, RuleTypeOK, FreshIds, ruleVars
  <2> QED BY <1>1, <2>1, <2>2 DEF RecordsInv, Pending, UserTypeOK, InstanceTypeOK, Linked, ClusterTypeOK, GroupKeys,
                                 recordVars, clusterVars
<1> QED BY <1>1, UserKept, InstanceKept, RuleKept, ClusterKept DEF Next

----------------------------------------------------------------------------
\* Type correctness: users, instances, rules, groups and their status rows are rows of their tables, and
\* every link, counted rule, status row and collected group refers to a row that is there.
THEOREM RecordsTyped == Spec => []TypeOK
<1>1. RecordsInv => TypeOK
  BY DEF RecordsInv, RulesInv, Linked, TypeOK
<1> QED BY <1>1, RecordsInvInit, RecordsInvKept, PTL DEF Spec

\* Who commits: the request itself, in the write of its kind.
LEMMA Committing ==
    ASSUME RecordsInv, Next, NEW r \in Requests, Commits(r)
    PROVE  \/ UserWrite(r)
           \/ InstanceWrite(r)
           \/ RuleWrite(r)
           \/ ClusterWrite(r)
<1>1. ASSUME NEW q \in Requests, NEW ops, Accepted(q, ops), "ended" \notin ops PROVE FALSE
  <2>1. PICK tx : tx.op \in ops /\ req' = [req EXCEPT ![q] = tx] /\ Unsent(q)
    BY <1>1 DEF Accepted
  <2>2. CASE q = r
    BY <2>1, <2>2 DEF Commits
  <2>3. CASE q # r
    BY <2>1, <2>3 DEF Commits, RecordsInv, Pending
  <2> QED BY <2>2, <2>3
<1>2. ASSUME NEW q \in Requests, Answer(q) PROVE q = r
  BY <1>2 DEF Answer, Commits, RecordsInv, Pending
<1>3. ~UNCHANGED req
  BY DEF Commits
<1>4. CASE UserStep
  BY <1>1, <1>2, <1>4, UserAccepts DEF UserStep, UserWrite, UserOps
<1>5. CASE InstanceStep
  BY <1>1, <1>2, <1>5, InstanceAccepts DEF InstanceStep, InstanceWrite, InstanceOps
<1>6. CASE RuleStep
  BY <1>1, <1>2, <1>3, <1>6, RuleAccepts DEF RuleStep, RuleWrite, RuleOps, CountRules, RecordsInv
<1>7. CASE ClusterStep
  BY <1>1, <1>2, <1>3, <1>7, ClusterAccepts DEF ClusterStep, ClusterWrite, ClusterOps, CollectAccounts, RecordsInv
<1> QED BY <1>4, <1>5, <1>6, <1>7 DEF Next

\* What an operation is of.
LEMMA Apart ==
    ASSUME RecordsInv, NEW r \in Requests
    PROVE  /\ UserWrite(r) => req[r].op \in UserOps
           /\ InstanceWrite(r) => req[r].op \in InstanceOps
           /\ RuleWrite(r) => req[r].op \in RuleOps
           /\ ClusterWrite(r) => req[r].op \in ClusterOps
  BY DEF UserWrite, InstanceWrite, InstanceOps, RuleWrite, ClusterWrite, ClusterOps

\* A request that was not overtaken between its reads and its commit breaks none of the rules its checks
\* are for: it leaves an active admin, no recycled instance that is active, no tag that is carried without its
\* row, and no collection from a group that cannot be collected from.
THEOREM AloneKeeps == Spec => AloneKeepsRecords
<1>1. ASSUME RecordsInv, Next, NEW r \in Requests, Commits(r), Current(r, UserOps, users), ActiveAdmins(users) # {}
      PROVE  ActiveAdmins(users') # {}
  <2>1. UserWrite(r)
    BY <1>1, Committing, Apart DEF Current, UserOps, InstanceOps, RuleOps, ClusterOps
  <2> QED BY <1>1, <2>1, UserWrites DEF UserWrite, Current, RecordsInv, Pending, IsTx
<1>2. ASSUME RecordsInv, Next, NEW r \in Requests, Commits(r), Current(r, InstanceOps, Tables)
      PROVE  /\ Recycled(instances) = {} => Recycled(instances') = {}
             /\ \A l \in links : l[2] \in tags'
  <2>1. InstanceWrite(r)
    BY <1>2, Committing, Apart DEF Current, UserOps, InstanceOps, RuleOps, ClusterOps
  <2> QED BY <1>2, <2>1, InstanceWrites DEF Current, RecordsInv, InstanceTables, Pending, IsTx
<1>3. ASSUME RecordsInv, Next, NEW r \in Requests, Commits(r), Current(r, ClusterOps, ags), Uncollectable(ags) = {}
      PROVE  Uncollectable(ags') = {}
  <2>1. ClusterWrite(r)
    BY <1>3, Committing, Apart DEF Current, UserOps, InstanceOps, RuleOps, ClusterOps
  <2> QED BY <1>3, <2>1, ClusterWrites DEF Current, RecordsInv, GroupTables, Pending, IsTx
<1>4. RecordsInv /\ [Next]_vars =>
        [\A r \in Requests :
            Commits(r) /\ Current(r, UserOps, users) /\ ActiveAdmins(users) # {} => ActiveAdmins(users') # {}]_vars
  BY <1>1
<1>5. RecordsInv /\ [Next]_vars =>
        [\A r \in Requests :
            Commits(r) /\ Current(r, InstanceOps, Tables) /\ Recycled(instances) = {} => Recycled(instances') = {}]_vars
  BY <1>2
<1>6. RecordsInv /\ [Next]_vars =>
        [\A r \in Requests :
            Commits(r) /\ Current(r, InstanceOps, Tables) => \A l \in links : l[2] \in tags']_vars
  BY <1>2
<1>7. RecordsInv /\ [Next]_vars =>
        [\A r \in Requests :
            Commits(r) /\ Current(r, ClusterOps, ags) /\ Uncollectable(ags) = {} => Uncollectable(ags') = {}]_vars
  BY <1>3
<1> QED BY <1>4, <1>5, <1>6, <1>7, RecordsInvInit, RecordsInvKept, PTL
        DEF Spec, AloneKeepsRecords, AloneKeepsAdmin, AloneKeepsRecycled, AloneKeepsTags, AloneKeepsCollectable

\* A rule that statistics refer to is never deleted and keeps its expression, group and version, however
\* edits, new versions, deletions and the daily count overtake each other.
THEOREM CountedRulesStay == Spec => CountedRulesAreHistory
<1>1. ASSUME RecordsInv, Next, NEW id \in counted
      PROVE  id \in DOMAIN rules' /\ \A f \in {"class", "expr", "group", "version"} : rules'[id][f] = rules[id][f]
  <2>1. id \in DOMAIN rules
    BY <1>1 DEF RecordsInv, RulesInv, RuleTypeOK
  <2>2. CASE rules' = rules
    BY <2>1, <2>2
  <2>3. ASSUME NEW r \in Requests, RuleWrite(r)
        PROVE  id \in DOMAIN rules' /\ Same(rules'[id], rules[id])
    BY <1>1, <2>3, RuleWrites DEF RecordsInv
  <2>4. rules' = rules \/ \E r \in Requests : RuleWrite(r)
    BY <1>1, RuleAccepts DEF RecordsInv, Next, UserStep, InstanceStep, ClusterStep, RuleStep, CountRules, ruleVars
  <2> QED BY <2>2, <2>3, <2>4 DEF Same
<1>2. RecordsInv /\ [Next]_vars =>
        [\A id \in counted :
            /\ id \in DOMAIN rules'
            /\ \A f \in {"class", "expr", "group", "version"} : rules'[id][f] = rules[id][f]]_vars
  BY <1>1
<1> QED BY <1>2, RecordsInvInit, RecordsInvKept, PTL DEF Spec, CountedRulesAreHistory

----------------------------------------------------------------------------
(* The table of the handlers                                               *)

\* Steps that change nothing.
Quiet(b) == Len(b) \in Nat /\ \A k \in 1 .. Len(b) : b[k] \in {"check", "read", "ask", "refuse", "done"}

\* A thread is started behind the transaction that wrote its run, which the
\* handler cannot leave before, or inside of it when the run is committed.
WritesRun(b) == /\ \A k \in 1 .. Len(b) : b[k] # "done"
                /\ \E k \in 1 .. Len(b) : b[k] = "write"
CommitsRun(b) == \A k \in 1 .. Len(b) : b[k] = "launch" =>
                    \E w, c \in 1 .. (k - 1) : w < c /\ b[w] = "write" /\ b[c] = "commit"

\* What holds of a handler for a method.
Sound(h, m) ==
    /\ Len(h.body) \in Nat
    /\ m = "get" => Quiet(h.body) /\ h.after = <<>>
    /\ m # "get" => h.csrf
    /\ h.after # <<>> => WritesRun(h.body)

Guarded(res)  == \A m \in DOMAIN res : Sound(res[m], m)
Prepared(res) == \A m \in DOMAIN res : CommitsRun(res[m].body)
Good(res) == Guarded(res) /\ Prepared(res)

\* The bodies of queries, and those of commands that start no thread.
Steady(b) == Len(b) \in Nat /\ \A k \in 1 .. Len(b) : b[k] # "launch"

LEMMA QuietBodies ==
    /\ Quiet(Look)
    /\ Quiet(List)
    /\ Quiet(<<>>)
    /\ Quiet(<<"ask">>)
    /\ Quiet(<<"read", "done", "read">>)
    /\ Quiet(<<"check", "read", "read">>)
    /\ Quiet(<<"check", "read", "read", "read">>)
    /\ Quiet(<<"check", "read", "check", "read">>)
  BY DEF Quiet, Look, List

LEMMA SteadyBodies ==
    /\ Steady(<<"act">>)
    /\ Steady(<<"check">>)
    /\ Steady(<<"read", "ask">>)
    /\ Steady(<<"check", "act">>)
    /\ Steady(<<"check", "read">>)
    /\ Steady(<<"read", "write">>)
    /\ Steady(<<"check", "write">>)
    /\ Steady(<<"check", "act", "act">>)
    /\ Steady(<<"read", "ask", "write">>)
    /\ Steady(<<"check", "read", "try">>)
    /\ Steady(<<"check", "read", "act">>)
    /\ Steady(<<"check", "try", "check">>)
    /\ Steady(<<"read", "check", "write">>)
    /\ Steady(<<"check", "read", "write">>)
    /\ Steady(<<"check", "clear", "check">>)
    /\ Steady(<<"check", "read", "ask", "write">>)
    /\ Steady(<<"check", "read", "check", "act">>)
    /\ Steady(<<"read", "check", "ask", "write">>)
    /\ Steady(<<"read", "check", "read", "write">>)
    /\ Steady(<<"check", "read", "check", "write">>)
    /\ Steady(<<"check", "read", "write", "clear">>)
    /\ Steady(<<"read", "write", "commit", "read">>)
    /\ Steady(<<"check", "write", "commit", "read">>)
    /\ Steady(<<"read", "check", "done", "ask", "try">>)
    /\ Steady(<<"check", "read", "ask", "write", "refuse">>)
    /\ Steady(<<"check", "read", "write", "commit", "read">>)
    /\ Steady(<<"check", "read", "check", "write", "commit", "read">>)
    /\ Steady(<<"check", "read", "write", "check", "commit", "read">>)
    /\ Steady(<<"read", "check", "ask", "done", "ask", "write", "read">>)
    /\ Steady(<<"read", "refuse", "write", "write", "ask", "refuse", "write", "write">>)
    /\ Steady(<<"check", "read", "check", "ask", "refuse", "ask", "refuse", "write", "read">>)
    /\ Steady(<<"read", "ask", "refuse", "write", "ask", "refuse", "try", "refuse", "write">>)
    /\ Steady(<<"read", "ask", "refuse", "write", "done", "ask", "refuse", "write", "write", "try">>)
<1>1. /\ Steady(<<"act">>)
      /\ Steady(<<"check">>)
      /\ Steady(<<"read", "ask">>)
      /\ Steady(<<"check", "act">>)
      /\ Steady(<<"check", "read">>)
      /\ Steady(<<"read", "write">>)
  BY DEF Steady
<1>2. /\ Steady(<<"check", "write">>)
      /\ Steady(<<"check", "act", "act">>)
      /\ Steady(<<"read", "ask", "write">>)
      /\ Steady(<<"check", "read", "try">>)
      /\ Steady(<<"check", "read", "act">>)
      /\ Steady(<<"check", "try", "check">>)
  BY DEF Steady
<1>3. /\ Steady(<<"read", "check", "write">>)
      /\ Steady(<<"check", "read", "write">>)
      /\ Steady(<<"check", "clear", "check">>)
      /\ Steady(<<"check", "read", "ask", "write">>)
      /\ Steady(<<"check", "read", "check", "act">>)
      /\ Steady(<<"read", "check", "ask", "write">>)
  BY DEF Steady
<1>4. /\ Steady(<<"read", "check", "read", "write">>)
      /\ Steady(<<"check", "read", "check", "write">>)
      /\ Steady(<<"check", "read", "write", "clear">>)
      /\ Steady(<<"read", "write", "commit", "read">>)
      /\ Steady(<<"check", "write", "commit", "read">>)
      /\ Steady(<<"read", "check", "done", "ask", "try">>)
  BY DEF Steady
<1>5. /\ Steady(<<"check", "read", "ask", "write", "refuse">>)
      /\ Steady(<<"check", "read", "write", "commit", "read">>)
      /\ Steady(<<"check", "read", "check", "write", "commit", "read">>)
      /\ Steady(<<"check", "read", "write", "check", "commit", "read">>)
      /\ Steady(<<"read", "check", "ask", "done", "ask", "write", "read">>)
      /\ Steady(<<"read", "refuse", "write", "write", "ask", "refuse", "write", "write">>)
  BY DEF Steady
<1>6. /\ Steady(<<"check", "read", "check", "ask", "refuse", "ask", "refuse", "write", "read">>)
      /\ Steady(<<"read", "ask", "refuse", "write", "ask", "refuse", "try", "refuse", "write">>)
      /\ Steady(<<"read", "ask", "refuse", "write", "done", "ask", "refuse", "write", "write", "try">>)
  BY DEF Steady
<1> QED BY <1>1, <1>2, <1>3, <1>4, <1>5, <1>6

LEMMA SoundQuery ==
    ASSUME NEW need, NEW b, Quiet(b)
    PROVE  Sound(Query(need, b), "get") /\ CommitsRun(Query(need, b).body)
  BY DEF Quiet, Sound, CommitsRun, Query, Handler

LEMMA SoundCommand ==
    ASSUME NEW need, NEW b, Steady(b), NEW m, m # "get"
    PROVE  Sound(Command(need, b), m) /\ CommitsRun(Command(need, b).body)
  BY DEF Steady, Sound, CommitsRun, Command, Handler

LEMMA OneMore ==
    ASSUME NEW S, NEW s \in Seq(S), NEW x \in S
    PROVE  /\ Len(s \o <<x>>) = Len(s) + 1 /\ (s \o <<x>>)[Len(s) + 1] = x
           /\ \A k \in 1 .. Len(s) : (s \o <<x>>)[k] = s[k]
  OBVIOUS

LEMMA SoundBackground ==
    ASSUME NEW need, NEW b \in {<<"check">>, <<"read">>}
    PROVE  Sound(Background(need, b), "post") /\ CommitsRun(Background(need, b).body)
<1> DEFINE c == b \o <<"write">>
           S == {"check", "read", "write"}
<1>0. \A x \in S : <<x>> \in Seq(S) /\ Len(<<x>>) = 1 /\ <<x>>[1] = x
  <2> HIDE DEF S
  <2> QED OBVIOUS
<1>1. b \in Seq(S) /\ Len(b) = 1 /\ b[1] \in {"check", "read"}
  BY <1>0
<1>2. Len(c) = 2 /\ c[1] = b[1] /\ c[2] = "write"
  <2>1. ASSUME NEW s \in Seq(S), Len(s) = 1
        PROVE  Len(s \o <<"write">>) = 2 /\ (s \o <<"write">>)[1] = s[1] /\ (s \o <<"write">>)[2] = "write"
    <3> DEFINE e == s \o <<"write">>
    <3>1. "write" \in S
      OBVIOUS
    <3> HIDE DEF S
    <3>2. Len(e) = Len(s) + 1 /\ e[Len(s) + 1] = "write" /\ \A k \in 1 .. Len(s) : e[k] = s[k]
      BY <3>1, OneMore
    <3>3. Len(e) = 2 /\ e[1] = s[1] /\ e[2] = "write"
      <4> HIDE DEF e
      <4> QED BY <2>1, <3>2
    <3> QED BY <3>3
  <2> HIDE DEF S
  <2> QED BY <1>1, <2>1
<1>3. Background(need, b) = Handler(need, TRUE, c, <<"launch">>)
  BY DEF Background
<1> HIDE DEF c
<1>4. Len(c) \in Nat /\ WritesRun(c) /\ CommitsRun(c)
  BY <1>1, <1>2 DEF WritesRun, CommitsRun
<1> QED BY <1>3, <1>4 DEF Sound, Handler

LEMMA Queries ==
    Good(AccountsLedgersResource) /\ Good(AccountsLedgersPermissionsResource) /\
    Good(AccountsLedgersChangeHistoryResource) /\ Good(AccountsLedgersExportResource) /\
    Good(AccountsStatisticsResource) /\ Good(AccountsStatisticsSummaryResource) /\
    Good(AccountsStatisticsByDbTypeResource) /\ Good(AccountsStatisticsByClassificationResource) /\
    Good(AccountsStatisticsRulesResource) /\ Good(AccountClassificationTrendsResource) /\
    Good(AccountClassificationTrendResource) /\ Good(AccountClassificationRuleTrendResource) /\
    Good(AccountClassificationRuleContributionsResource) /\
    Good(AccountClassificationRulesOverviewResource) /\
    Good(AccountClassificationRulesFilterResource) /\ Good(AccountClassificationAssignmentsResource) /\
    Good(AccountClassificationPermissionsResource) /\ Good(AccountChangeLogsResource) /\
    Good(AccountChangeLogsStatisticsResource) /\ Good(AccountChangeLogDetailResource) /\
    Good(UsersStatsResource) /\ Good(CsrfTokenResource) /\ Good(SessionResource) /\ Good(MeResource) /\
    Good(InstancesOptionsResource) /\ Good(AccountScopeOptionsResource) /\
    Good(InstancesExportResource) /\ Good(InstancesImportTemplateResource) /\
    Good(InstancesStatisticsResource) /\ Good(InstanceAgAccountsResource) /\
    Good(InstanceAuditInfoResource) /\ Good(InstanceBackupInfoResource) /\
    Good(InstancesConnectionsStatusResource) /\ Good(TagOptionsResource) /\
    Good(TagCategoriesResource) /\ Good(TagsBulkInstancesResource) /\ Good(TagsBulkTagsResource) /\
    Good(DatabasesOptionsResource) /\ Good(DatabaseLedgersResource) /\
    Good(DatabaseStatisticsResource) /\ Good(DatabaseLedgersExportResource) /\
    Good(DatabasesSizesResource) /\ Good(DatabaseTableSizesSnapshotResource) /\
    Good(CapacityDatabasesAggregationsResource) /\ Good(CapacityDatabasesSummaryResource) /\
    Good(CapacityInstancesAggregationsResource) /\ Good(CapacityInstancesSummaryResource) /\
    Good(TaskRunsListResource) /\ Good(TaskRunDetailResource) /\ Good(TaskRunErrorLogsResource) /\
    Good(HistorySessionsListResource) /\ Good(HistorySessionDetailResource) /\
    Good(HistorySessionErrorLogsResource) /\ Good(SchedulerJobsResource) /\
    Good(RiskCenterSummaryResource) /\ Good(RiskCenterCardsResource) /\ Good(PartitionInfoResource) /\
    Good(PartitionStatusResource) /\ Good(PartitionStatisticsResource) /\
    Good(PartitionCoreMetricsResource) /\ Good(MySQLClusterInstanceOptionsResource) /\
    Good(SQLServerClusterInstanceOptionsResource) /\
    Good(SQLServerAvailabilityGroupDashboardResource) /\ Good(HistoryLogsResource) /\
    Good(HistoryLogStatisticsResource) /\ Good(HistoryLogModulesResource) /\
    Good(HistoryLogDetailResource) /\ Good(DashboardOverviewResource) /\
    Good(DashboardChartsResource) /\ Good(DashboardActivitiesResource) /\
    Good(DashboardStatusResource) /\ Good(CacheStatsResource) /\
    Good(CacheClassificationStatsResource) /\ Good(HealthPingResource) /\ Good(HealthBasicResource) /\
    Good(HealthCheckResource) /\ Good(HealthCacheResource) /\ Good(HealthDetailedResource)
<1>1. Good(AccountsLedgersResource) /\ Good(AccountsLedgersPermissionsResource) /\
      Good(AccountsLedgersChangeHistoryResource) /\ Good(AccountsLedgersExportResource) /\
      Good(AccountsStatisticsResource) /\ Good(AccountsStatisticsSummaryResource) /\
      Good(AccountsStatisticsByDbTypeResource) /\ Good(AccountsStatisticsByClassificationResource) /\
      Good(AccountsStatisticsRulesResource) /\ Good(AccountClassificationTrendsResource) /\
      Good(AccountClassificationTrendResource) /\ Good(AccountClassificationRuleTrendResource)
  BY QuietBodies, SoundQuery
     DEF AccountsLedgersResource, AccountsLedgersPermissionsResource,
         AccountsLedgersChangeHistoryResource, AccountsLedgersExportResource,
         AccountsStatisticsResource, AccountsStatisticsSummaryResource,
         AccountsStatisticsByDbTypeResource, AccountsStatisticsByClassificationResource,
         AccountsStatisticsRulesResource, AccountClassificationTrendsResource,
         AccountClassificationTrendResource, AccountClassificationRuleTrendResource, Good, Guarded,
         Prepared
<1>2. Good(AccountClassificationRuleContributionsResource) /\
      Good(AccountClassificationRulesOverviewResource) /\
      Good(AccountClassificationRulesFilterResource) /\
      Good(AccountClassificationAssignmentsResource) /\
      Good(AccountClassificationPermissionsResource) /\ Good(AccountChangeLogsResource) /\
      Good(AccountChangeLogsStatisticsResource) /\ Good(AccountChangeLogDetailResource) /\
      Good(UsersStatsResource) /\ Good(CsrfTokenResource) /\ Good(SessionResource) /\ Good(MeResource)
  BY QuietBodies, SoundQuery
     DEF AccountClassificationRuleContributionsResource,
         AccountClassificationRulesOverviewResource, AccountClassificationRulesFilterResource,
         AccountClassificationAssignmentsResource, AccountClassificationPermissionsResource,
         AccountChangeLogsResource, AccountChangeLogsStatisticsResource, AccountChangeLogDetailResource,
         UsersStatsResource, CsrfTokenResource, SessionResource, MeResource, Good, Guarded, Prepared
<1>3. Good(InstancesOptionsResource) /\ Good(AccountScopeOptionsResource) /\
      Good(InstancesExportResource) /\ Good(InstancesImportTemplateResource) /\
      Good(InstancesStatisticsResource) /\ Good(InstanceAgAccountsResource) /\
      Good(InstanceAuditInfoResource) /\ Good(InstanceBackupInfoResource) /\
      Good(InstancesConnectionsStatusResource) /\ Good(TagOptionsResource) /\
      Good(TagCategoriesResource) /\ Good(TagsBulkInstancesResource)
  BY QuietBodies, SoundQuery
     DEF InstancesOptionsResource, AccountScopeOptionsResource,
         InstancesExportResource, InstancesImportTemplateResource, InstancesStatisticsResource,
         InstanceAgAccountsResource, InstanceAuditInfoResource, InstanceBackupInfoResource,
         InstancesConnectionsStatusResource, TagOptionsResource, TagCategoriesResource,
         TagsBulkInstancesResource, Good, Guarded, Prepared
<1>4. Good(TagsBulkTagsResource) /\ Good(DatabasesOptionsResource) /\ Good(DatabaseLedgersResource) /\
      Good(DatabaseStatisticsResource) /\ Good(DatabaseLedgersExportResource) /\
      Good(DatabasesSizesResource) /\ Good(DatabaseTableSizesSnapshotResource) /\
      Good(CapacityDatabasesAggregationsResource) /\ Good(CapacityDatabasesSummaryResource) /\
      Good(CapacityInstancesAggregationsResource) /\ Good(CapacityInstancesSummaryResource) /\
      Good(TaskRunsListResource)
  BY QuietBodies, SoundQuery
     DEF TagsBulkTagsResource, DatabasesOptionsResource,
         DatabaseLedgersResource, DatabaseStatisticsResource, DatabaseLedgersExportResource,
         DatabasesSizesResource, DatabaseTableSizesSnapshotResource,
         CapacityDatabasesAggregationsResource, CapacityDatabasesSummaryResource,
         CapacityInstancesAggregationsResource, CapacityInstancesSummaryResource, TaskRunsListResource,
         Good, Guarded, Prepared
<1>5. Good(TaskRunDetailResource) /\ Good(TaskRunErrorLogsResource) /\
      Good(HistorySessionsListResource) /\ Good(HistorySessionDetailResource) /\
      Good(HistorySessionErrorLogsResource) /\ Good(SchedulerJobsResource) /\
      Good(RiskCenterSummaryResource) /\ Good(RiskCenterCardsResource) /\ Good(PartitionInfoResource) /\
      Good(PartitionStatusResource) /\ Good(PartitionStatisticsResource) /\
      Good(PartitionCoreMetricsResource)
  BY QuietBodies, SoundQuery
     DEF TaskRunDetailResource, TaskRunErrorLogsResource,
         HistorySessionsListResource, HistorySessionDetailResource, HistorySessionErrorLogsResource,
         SchedulerJobsResource, RiskCenterSummaryResource, RiskCenterCardsResource,
         PartitionInfoResource, PartitionStatusResource, PartitionStatisticsResource,
         PartitionCoreMetricsResource, Good, Guarded, Prepared
<1>6. Good(MySQLClusterInstanceOptionsResource) /\ Good(SQLServerClusterInstanceOptionsResource) /\
      Good(SQLServerAvailabilityGroupDashboardResource) /\ Good(HistoryLogsResource) /\
      Good(HistoryLogStatisticsResource) /\ Good(HistoryLogModulesResource) /\
      Good(HistoryLogDetailResource) /\ Good(DashboardOverviewResource) /\
      Good(DashboardChartsResource) /\ Good(DashboardActivitiesResource) /\
      Good(DashboardStatusResource) /\ Good(CacheStatsResource)
  BY QuietBodies, SoundQuery
     DEF MySQLClusterInstanceOptionsResource,
         SQLServerClusterInstanceOptionsResource, SQLServerAvailabilityGroupDashboardResource,
         HistoryLogsResource, HistoryLogStatisticsResource, HistoryLogModulesResource,
         HistoryLogDetailResource, DashboardOverviewResource, DashboardChartsResource,
         DashboardActivitiesResource, DashboardStatusResource, CacheStatsResource, Good, Guarded,
         Prepared
<1>7. Good(CacheClassificationStatsResource) /\ Good(HealthPingResource) /\ Good(HealthBasicResource) /\
      Good(HealthCheckResource) /\ Good(HealthCacheResource) /\ Good(HealthDetailedResource)
  BY QuietBodies, SoundQuery
     DEF CacheClassificationStatsResource, HealthPingResource,
         HealthBasicResource, HealthCheckResource, HealthCacheResource, HealthDetailedResource, Good,
         Guarded, Prepared
<1> QED BY <1>1, <1>2, <1>3, <1>4, <1>5, <1>6, <1>7

\* The shapes of a resource: a query and commands.
Reads(h)    == Sound(h, "get") /\ CommitsRun(h.body)
Commands(h) == \A m : m # "get" => Sound(h, m) /\ CommitsRun(h.body)

LEMMA Shapes ==
    ASSUME NEW q, Reads(q), NEW c, Commands(c), NEW e, Commands(e)
    PROVE  /\ Good([post |-> c]) /\ Good([put |-> c]) /\ Good([delete |-> c]) /\ Good([patch |-> c])
           /\ Good([put |-> c, delete |-> e])
           /\ Good([get |-> q, post |-> c]) /\ Good([get |-> q, put |-> c]) /\ Good([get |-> q, patch |-> c])
           /\ Good([get |-> q, put |-> c, delete |-> e])
  BY DEF Good, Guarded, Prepared, Reads, Commands

LEMMA QueryReads == \A need, b : Quiet(b) => Reads(Query(need, b))
  BY SoundQuery DEF Reads

LEMMA CommandCommands == \A need, b : Steady(b) => Commands(Command(need, b))
  BY SoundCommand DEF Commands

LEMMA CommandResources ==
    Good(AccountClassificationAssignmentResource) /\ Good(MySQLClusterDetailResource) /\
    Good(SQLServerClusterDetailResource) /\ Good(AccountClassificationsResource) /\
    Good(AccountClassificationRulesResource) /\ Good(AdDomainConfigsResource) /\ Good(UsersResource) /\
    Good(InstancesResource) /\ Good(CredentialsResource) /\ Good(TagsResource) /\
    Good(VeeamSourcesResource) /\ Good(VeeamSyncInstanceActionResource) /\ Good(PartitionsResource) /\
    Good(MySQLClustersResource) /\ Good(SQLServerClustersResource) /\
    Good(AlertEmailSettingsResource) /\ Good(RiskCenterRulesResource) /\
    Good(AccountClassificationDetailResource) /\ Good(AccountClassificationRuleDetailResource) /\
    Good(UserDetailResource) /\ Good(InstanceDetailResource) /\ Good(CredentialDetailResource) /\
    Good(TagDetailResource) /\ Good(SchedulerJobDetailResource) /\ Good(JumpServerSourceResource) /\
    Good(VeeamSourceResource) /\ Good(SQLServerAvailabilityGroupResource) /\
    Good(AccountClassificationRuleExpressionValidateResource) /\ Good(AdDomainConfigEnabledResource) /\
    Good(AdDomainConfigTestConnectionResource) /\ Good(AdDomainSyncResource) /\ Good(LoginResource) /\
    Good(LogoutResource) /\ Good(ChangePasswordResource) /\ Good(InstanceSyncCapacityActionResource) /\
    Good(InstanceRestoreActionResource) /\ Good(InstancesBatchCreateResource) /\
    Good(InstancesBatchDeleteResource) /\ Good(InstancesSyncInstanceAccountsActionResource) /\
    Good(InstanceAuditSyncActionResource) /\ Good(InstancesConnectionsTestResource) /\
    Good(InstancesConnectionsValidateParamsResource) /\ Good(InstancesConnectionsBatchTestResource) /\
    Good(TagBatchDeleteResource) /\ Good(TagsBulkAssignResource) /\ Good(TagsBulkRemoveResource) /\
    Good(TagsBulkInstanceTagsResource) /\ Good(TagsBulkRemoveAllResource) /\
    Good(DatabaseTableSizesRefreshResource) /\ Good(TaskRunCancelResource) /\
    Good(HistorySessionCancelResource) /\ Good(SchedulerJobPauseResource) /\
    Good(SchedulerJobResumeResource) /\ Good(SchedulerJobRunResource) /\
    Good(SchedulerJobsReloadResource) /\ Good(VeeamSourceEnableActionResource) /\
    Good(VeeamSourceDisableActionResource) /\ Good(VeeamSourceInstanceSyncActionResource) /\
    Good(AlertEmailTestResource) /\ Good(AlertFeishuTestResource) /\ Good(PartitionCleanupResource) /\
    Good(MySQLClusterTopologySyncResource) /\ Good(SQLServerAvailabilityGroupsResource) /\
    Good(SQLServerAvailabilityGroupsSyncResource) /\
    Good(SQLServerAvailabilityGroupAccountsSyncResource) /\ Good(SQLServerClusterStatusSyncResource) /\
    Good(CacheClearClassificationActionResource) /\ Good(MySQLClusterInstancesResource) /\
    Good(SQLServerClusterInstancesResource) /\ Good(AdDomainConfigResource) /\
    Good(VeeamSourceItemResource)
<1>1. Good(AccountClassificationAssignmentResource)
  BY QuietBodies, SteadyBodies, QueryReads, CommandCommands, Shapes
     DEF
         AccountClassificationAssignmentResource
<1>2. Good(MySQLClusterDetailResource) /\ Good(SQLServerClusterDetailResource)
  BY QuietBodies, SteadyBodies, QueryReads, CommandCommands, Shapes
     DEF MySQLClusterDetailResource,
         SQLServerClusterDetailResource
<1>3. Good(AccountClassificationsResource) /\ Good(AccountClassificationRulesResource) /\
      Good(AdDomainConfigsResource) /\ Good(UsersResource) /\ Good(InstancesResource) /\
      Good(CredentialsResource) /\ Good(TagsResource) /\ Good(VeeamSourcesResource) /\
      Good(VeeamSyncInstanceActionResource) /\ Good(PartitionsResource)
  BY QuietBodies, SteadyBodies, QueryReads, CommandCommands, Shapes
     DEF
         AccountClassificationsResource, AccountClassificationRulesResource, AdDomainConfigsResource,
         UsersResource, InstancesResource, CredentialsResource, TagsResource, VeeamSourcesResource,
         VeeamSyncInstanceActionResource, PartitionsResource
<1>4. Good(MySQLClustersResource) /\ Good(SQLServerClustersResource)
  BY QuietBodies, SteadyBodies, QueryReads, CommandCommands, Shapes
     DEF MySQLClustersResource,
         SQLServerClustersResource
<1>5. Good(AlertEmailSettingsResource) /\ Good(RiskCenterRulesResource)
  BY QuietBodies, SteadyBodies, QueryReads, CommandCommands, Shapes
     DEF AlertEmailSettingsResource,
         RiskCenterRulesResource
<1>6. Good(AccountClassificationDetailResource) /\ Good(AccountClassificationRuleDetailResource) /\
      Good(UserDetailResource) /\ Good(InstanceDetailResource) /\ Good(CredentialDetailResource) /\
      Good(TagDetailResource) /\ Good(SchedulerJobDetailResource) /\ Good(JumpServerSourceResource) /\
      Good(VeeamSourceResource)
  BY QuietBodies, SteadyBodies, QueryReads, CommandCommands, Shapes
     DEF
         AccountClassificationDetailResource, AccountClassificationRuleDetailResource,
         UserDetailResource, InstanceDetailResource, CredentialDetailResource, TagDetailResource,
         SchedulerJobDetailResource, JumpServerSourceResource, VeeamSourceResource
<1>7. Good(SQLServerAvailabilityGroupResource)
  BY QuietBodies, SteadyBodies, QueryReads, CommandCommands, Shapes
     DEF
         SQLServerAvailabilityGroupResource
<1>8. Good(AccountClassificationRuleExpressionValidateResource) /\
      Good(AdDomainConfigEnabledResource) /\ Good(AdDomainConfigTestConnectionResource) /\
      Good(AdDomainSyncResource) /\ Good(LoginResource) /\ Good(LogoutResource) /\
      Good(ChangePasswordResource) /\ Good(InstanceSyncCapacityActionResource) /\
      Good(InstanceRestoreActionResource) /\ Good(InstancesBatchCreateResource)
  BY QuietBodies, SteadyBodies, QueryReads, CommandCommands, Shapes
     DEF
         AccountClassificationRuleExpressionValidateResource, AdDomainConfigEnabledResource,
         AdDomainConfigTestConnectionResource, AdDomainSyncResource, LoginResource, LogoutResource,
         ChangePasswordResource, InstanceSyncCapacityActionResource, InstanceRestoreActionResource,
         InstancesBatchCreateResource
<1>9. Good(InstancesBatchDeleteResource) /\ Good(InstancesSyncInstanceAccountsActionResource) /\
      Good(InstanceAuditSyncActionResource) /\ Good(InstancesConnectionsTestResource) /\
      Good(InstancesConnectionsValidateParamsResource) /\ Good(InstancesConnectionsBatchTestResource) /\
      Good(TagBatchDeleteResource) /\ Good(TagsBulkAssignResource) /\ Good(TagsBulkRemoveResource) /\
      Good(TagsBulkInstanceTagsResource)
  BY QuietBodies, SteadyBodies, QueryReads, CommandCommands, Shapes
     DEF
         InstancesBatchDeleteResource, InstancesSyncInstanceAccountsActionResource,
         InstanceAuditSyncActionResource, InstancesConnectionsTestResource,
         InstancesConnectionsValidateParamsResource, InstancesConnectionsBatchTestResource,
         TagBatchDeleteResource, TagsBulkAssignResource, TagsBulkRemoveResource,
         TagsBulkInstanceTagsResource
<1>10. Good(TagsBulkRemoveAllResource) /\ Good(DatabaseTableSizesRefreshResource) /\
      Good(TaskRunCancelResource) /\ Good(HistorySessionCancelResource) /\
      Good(SchedulerJobPauseResource) /\ Good(SchedulerJobResumeResource) /\
      Good(SchedulerJobRunResource) /\ Good(SchedulerJobsReloadResource) /\
      Good(VeeamSourceEnableActionResource) /\ Good(VeeamSourceDisableActionResource)
  BY QuietBodies, SteadyBodies, QueryReads, CommandCommands, Shapes
     DEF TagsBulkRemoveAllResource,
         DatabaseTableSizesRefreshResource, TaskRunCancelResource, HistorySessionCancelResource,
         SchedulerJobPauseResource, SchedulerJobResumeResource, SchedulerJobRunResource,
         SchedulerJobsReloadResource, VeeamSourceEnableActionResource, VeeamSourceDisableActionResource
<1>11. Good(VeeamSourceInstanceSyncActionResource) /\ Good(AlertEmailTestResource) /\
      Good(AlertFeishuTestResource) /\ Good(PartitionCleanupResource) /\
      Good(MySQLClusterTopologySyncResource) /\ Good(SQLServerAvailabilityGroupsResource) /\
      Good(SQLServerAvailabilityGroupsSyncResource) /\
      Good(SQLServerAvailabilityGroupAccountsSyncResource) /\
      Good(SQLServerClusterStatusSyncResource) /\ Good(CacheClearClassificationActionResource)
  BY QuietBodies, SteadyBodies, QueryReads, CommandCommands, Shapes
     DEF
         VeeamSourceInstanceSyncActionResource, AlertEmailTestResource, AlertFeishuTestResource,
         PartitionCleanupResource, MySQLClusterTopologySyncResource,
         SQLServerAvailabilityGroupsResource, SQLServerAvailabilityGroupsSyncResource,
         SQLServerAvailabilityGroupAccountsSyncResource, SQLServerClusterStatusSyncResource,
         CacheClearClassificationActionResource
<1>12. Good(MySQLClusterInstancesResource) /\ Good(SQLServerClusterInstancesResource)
  BY QuietBodies, SteadyBodies, QueryReads, CommandCommands, Shapes
     DEF
         MySQLClusterInstancesResource, SQLServerClusterInstancesResource
<1>13. Good(AdDomainConfigResource) /\ Good(VeeamSourceItemResource)
  BY QuietBodies, SteadyBodies, QueryReads, CommandCommands, Shapes
     DEF AdDomainConfigResource,
         VeeamSourceItemResource
<1> QED BY <1>1, <1>2, <1>3, <1>4, <1>5, <1>6, <1>7, <1>8, <1>9, <1>10, <1>11, <1>12, <1>13

LEMMA BackgroundResources ==
    Good(AccountClassificationAutoClassifyActionResource) /\
    Good(InstancesSyncAccountsActionResource) /\ Good(DatabaseLedgersSyncAllActionResource) /\
    Good(CapacityCurrentAggregationResource)
<1>1. Good(AccountClassificationAutoClassifyActionResource) /\
      Good(InstancesSyncAccountsActionResource) /\ Good(DatabaseLedgersSyncAllActionResource) /\
      Good(CapacityCurrentAggregationResource)
  BY SoundBackground
     DEF AccountClassificationAutoClassifyActionResource,
         InstancesSyncAccountsActionResource, DatabaseLedgersSyncAllActionResource,
         CapacityCurrentAggregationResource, Good, Guarded, Prepared
<1> QED BY <1>1

LEMMA Starters == Good(JumpServerSyncActionResource) /\ Guarded(VeeamSyncActionResource)
<1> DEFINE j == <<"read", "check", "write", "commit", "launch">>
           v == <<"check", "read", "write", "launch">>
<1>1. Len(j) \in Nat /\ Len(v) \in Nat
  OBVIOUS
<1>2. CommitsRun(j)
  <2>1. Len(j) = 5 /\ j[1] = "read" /\ j[2] = "check" /\ j[3] = "write" /\ j[4] = "commit" /\ j[5] = "launch"
    OBVIOUS
  <2> HIDE DEF j
  <2> QED BY <2>1 DEF CommitsRun
<1>3. /\ JumpServerSyncActionResource = [post |-> Command("admin", j)]
      /\ VeeamSyncActionResource = [post |-> Command("admin", v)]
  BY DEF JumpServerSyncActionResource, VeeamSyncActionResource
<1> HIDE DEF j, v
<1> QED BY <1>1, <1>2, <1>3 DEF Good, Guarded, Prepared, Sound, Command, Handler

LEMMA HandlersAreGood == \A r \in DOMAIN Api : Guarded(Api[r]) /\ (r # "VeeamSyncAction" => Prepared(Api[r]))
<1>1. /\ Api["AccountsLedgers"] = AccountsLedgersResource
      /\ Api["AccountsLedgersPermissions"] = AccountsLedgersPermissionsResource
      /\ Api["AccountsLedgersChangeHistory"] = AccountsLedgersChangeHistoryResource
      /\ Api["AccountsLedgersExport"] = AccountsLedgersExportResource
      /\ Api["AccountsStatistics"] = AccountsStatisticsResource
      /\ Api["AccountsStatisticsSummary"] = AccountsStatisticsSummaryResource
      /\ Api["AccountsStatisticsByDbType"] = AccountsStatisticsByDbTypeResource
      /\ Api["AccountsStatisticsByClassification"] = AccountsStatisticsByClassificationResource
      /\ Api["AccountsStatisticsRules"] = AccountsStatisticsRulesResource
      /\ Api["AccountClassificationTrends"] = AccountClassificationTrendsResource
      /\ Api["AccountClassificationTrend"] = AccountClassificationTrendResource
      /\ Api["AccountClassificationRuleTrend"] = AccountClassificationRuleTrendResource
      /\ Api["AccountClassificationRuleContributions"] = AccountClassificationRuleContributionsResource
      /\ Api["AccountClassificationRulesOverview"] = AccountClassificationRulesOverviewResource
      /\ Api["AccountClassifications"] = AccountClassificationsResource
      /\ Api["AccountClassificationDetail"] = AccountClassificationDetailResource
      /\ Api["AccountClassificationRules"] = AccountClassificationRulesResource
      /\ Api["AccountClassificationRulesFilter"] = AccountClassificationRulesFilterResource
      /\ Api["AccountClassificationRuleExpressionValidate"] = AccountClassificationRuleExpressionValidateResource
      /\ Api["AccountClassificationRuleDetail"] = AccountClassificationRuleDetailResource
  BY DEF Api
<1>2. /\ Api["AccountClassificationAssignments"] = AccountClassificationAssignmentsResource
      /\ Api["AccountClassificationAssignment"] = AccountClassificationAssignmentResource
      /\ Api["AccountClassificationPermissions"] = AccountClassificationPermissionsResource
      /\ Api["AccountClassificationAutoClassifyAction"] = AccountClassificationAutoClassifyActionResource
      /\ Api["AccountChangeLogs"] = AccountChangeLogsResource
      /\ Api["AccountChangeLogsStatistics"] = AccountChangeLogsStatisticsResource
      /\ Api["AccountChangeLogDetail"] = AccountChangeLogDetailResource
      /\ Api["AdDomainConfigs"] = AdDomainConfigsResource
      /\ Api["AdDomainConfig"] = AdDomainConfigResource
      /\ Api["AdDomainConfigEnabled"] = AdDomainConfigEnabledResource
      /\ Api["AdDomainConfigTestConnection"] = AdDomainConfigTestConnectionResource
      /\ Api["AdDomainSync"] = AdDomainSyncResource
      /\ Api["Users"] = UsersResource
      /\ Api["UserDetail"] = UserDetailResource
      /\ Api["UsersStats"] = UsersStatsResource
      /\ Api["CsrfToken"] = CsrfTokenResource
      /\ Api["Login"] = LoginResource
      /\ Api["Logout"] = LogoutResource
      /\ Api["Session"] = SessionResource
      /\ Api["ChangePassword"] = ChangePasswordResource
  BY DEF Api
<1>3. /\ Api["Me"] = MeResource
      /\ Api["InstancesOptions"] = InstancesOptionsResource
      /\ Api["AccountScopeOptions"] = AccountScopeOptionsResource
      /\ Api["Instances"] = InstancesResource
      /\ Api["InstancesExport"] = InstancesExportResource
      /\ Api["InstancesImportTemplate"] = InstancesImportTemplateResource
      /\ Api["InstanceDetail"] = InstanceDetailResource
      /\ Api["InstanceSyncCapacityAction"] = InstanceSyncCapacityActionResource
      /\ Api["InstanceRestoreAction"] = InstanceRestoreActionResource
      /\ Api["InstancesBatchCreate"] = InstancesBatchCreateResource
      /\ Api["InstancesBatchDelete"] = InstancesBatchDeleteResource
      /\ Api["InstancesStatistics"] = InstancesStatisticsResource
      /\ Api["InstanceAgAccounts"] = InstanceAgAccountsResource
      /\ Api["InstancesSyncAccountsAction"] = InstancesSyncAccountsActionResource
      /\ Api["InstancesSyncInstanceAccountsAction"] = InstancesSyncInstanceAccountsActionResource
      /\ Api["InstanceAuditInfo"] = InstanceAuditInfoResource
      /\ Api["InstanceAuditSyncAction"] = InstanceAuditSyncActionResource
      /\ Api["InstanceBackupInfo"] = InstanceBackupInfoResource
      /\ Api["InstancesConnectionsTest"] = InstancesConnectionsTestResource
      /\ Api["InstancesConnectionsValidateParams"] = InstancesConnectionsValidateParamsResource
  BY DEF Api
<1>4. /\ Api["InstancesConnectionsBatchTest"] = InstancesConnectionsBatchTestResource
      /\ Api["InstancesConnectionsStatus"] = InstancesConnectionsStatusResource
      /\ Api["Credentials"] = CredentialsResource
      /\ Api["CredentialDetail"] = CredentialDetailResource
      /\ Api["Tags"] = TagsResource
      /\ Api["TagOptions"] = TagOptionsResource
      /\ Api["TagCategories"] = TagCategoriesResource
      /\ Api["TagDetail"] = TagDetailResource
      /\ Api["TagBatchDelete"] = TagBatchDeleteResource
      /\ Api["TagsBulkInstances"] = TagsBulkInstancesResource
      /\ Api["TagsBulkTags"] = TagsBulkTagsResource
      /\ Api["TagsBulkAssign"] = TagsBulkAssignResource
      /\ Api["TagsBulkRemove"] = TagsBulkRemoveResource
      /\ Api["TagsBulkInstanceTags"] = TagsBulkInstanceTagsResource
      /\ Api["TagsBulkRemoveAll"] = TagsBulkRemoveAllResource
      /\ Api["DatabasesOptions"] = DatabasesOptionsResource
      /\ Api["DatabaseLedgers"] = DatabaseLedgersResource
      /\ Api["DatabaseStatistics"] = DatabaseStatisticsResource
      /\ Api["DatabaseLedgersExport"] = DatabaseLedgersExportResource
      /\ Api["DatabaseLedgersSyncAllAction"] = DatabaseLedgersSyncAllActionResource
  BY DEF Api
<1>5. /\ Api["DatabasesSizes"] = DatabasesSizesResource
      /\ Api["DatabaseTableSizesSnapshot"] = DatabaseTableSizesSnapshotResource
      /\ Api["DatabaseTableSizesRefresh"] = DatabaseTableSizesRefreshResource
      /\ Api["CapacityCurrentAggregation"] = CapacityCurrentAggregationResource
      /\ Api["CapacityDatabasesAggregations"] = CapacityDatabasesAggregationsResource
      /\ Api["CapacityDatabasesSummary"] = CapacityDatabasesSummaryResource
      /\ Api["CapacityInstancesAggregations"] = CapacityInstancesAggregationsResource
      /\ Api["CapacityInstancesSummary"] = CapacityInstancesSummaryResource
      /\ Api["TaskRunsList"] = TaskRunsListResource
      /\ Api["TaskRunDetail"] = TaskRunDetailResource
      /\ Api["TaskRunErrorLogs"] = TaskRunErrorLogsResource
      /\ Api["TaskRunCancel"] = TaskRunCancelResource
      /\ Api["HistorySessionsList"] = HistorySessionsListResource
      /\ Api["HistorySessionDetail"] = HistorySessionDetailResource
      /\ Api["HistorySessionErrorLogs"] = HistorySessionErrorLogsResource
      /\ Api["HistorySessionCancel"] = HistorySessionCancelResource
      /\ Api["SchedulerJobs"] = SchedulerJobsResource
      /\ Api["SchedulerJobDetail"] = SchedulerJobDetailResource
      /\ Api["SchedulerJobPause"] = SchedulerJobPauseResource
      /\ Api["SchedulerJobResume"] = SchedulerJobResumeResource
  BY DEF Api
<1>6. /\ Api["SchedulerJobRun"] = SchedulerJobRunResource
      /\ Api["SchedulerJobsReload"] = SchedulerJobsReloadResource
      /\ Api["JumpServerSource"] = JumpServerSourceResource
      /\ Api["JumpServerSyncAction"] = JumpServerSyncActionResource
      /\ Api["VeeamSource"] = VeeamSourceResource
      /\ Api["VeeamSources"] = VeeamSourcesResource
      /\ Api["VeeamSourceItem"] = VeeamSourceItemResource
      /\ Api["VeeamSourceEnableAction"] = VeeamSourceEnableActionResource
      /\ Api["VeeamSourceDisableAction"] = VeeamSourceDisableActionResource
      /\ Api["VeeamSyncAction"] = VeeamSyncActionResource
      /\ Api["VeeamSyncInstanceAction"] = VeeamSyncInstanceActionResource
      /\ Api["VeeamSourceInstanceSyncAction"] = VeeamSourceInstanceSyncActionResource
      /\ Api["AlertEmailSettings"] = AlertEmailSettingsResource
      /\ Api["AlertEmailTest"] = AlertEmailTestResource
      /\ Api["AlertFeishuTest"] = AlertFeishuTestResource
      /\ Api["RiskCenterRules"] = RiskCenterRulesResource
      /\ Api["RiskCenterSummary"] = RiskCenterSummaryResource
      /\ Api["RiskCenterCards"] = RiskCenterCardsResource
      /\ Api["PartitionInfo"] = PartitionInfoResource
      /\ Api["PartitionStatus"] = PartitionStatusResource
  BY DEF Api
<1>7. /\ Api["Partitions"] = PartitionsResource
      /\ Api["PartitionCleanup"] = PartitionCleanupResource
      /\ Api["PartitionStatistics"] = PartitionStatisticsResource
      /\ Api["PartitionCoreMetrics"] = PartitionCoreMetricsResource
      /\ Api["MySQLClusters"] = MySQLClustersResource
      /\ Api["MySQLClusterInstanceOptions"] = MySQLClusterInstanceOptionsResource
      /\ Api["MySQLClusterDetail"] = MySQLClusterDetailResource
      /\ Api["MySQLClusterInstances"] = MySQLClusterInstancesResource
      /\ Api["MySQLClusterTopologySync"] = MySQLClusterTopologySyncResource
      /\ Api["SQLServerClusters"] = SQLServerClustersResource
      /\ Api["SQLServerClusterInstanceOptions"] = SQLServerClusterInstanceOptionsResource
      /\ Api["SQLServerClusterDetail"] = SQLServerClusterDetailResource
      /\ Api["SQLServerClusterInstances"] = SQLServerClusterInstancesResource
      /\ Api["SQLServerAvailabilityGroups"] = SQLServerAvailabilityGroupsResource
      /\ Api["SQLServerAvailabilityGroupDashboard"] = SQLServerAvailabilityGroupDashboardResource
      /\ Api["SQLServerAvailabilityGroupsSync"] = SQLServerAvailabilityGroupsSyncResource
      /\ Api["SQLServerAvailabilityGroupAccountsSync"] = SQLServerAvailabilityGroupAccountsSyncResource
      /\ Api["SQLServerClusterStatusSync"] = SQLServerClusterStatusSyncResource
      /\ Api["SQLServerAvailabilityGroup"] = SQLServerAvailabilityGroupResource
      /\ Api["HistoryLogs"] = HistoryLogsResource
  BY DEF Api
<1>8. /\ Api["HistoryLogStatistics"] = HistoryLogStatisticsResource
      /\ Api["HistoryLogModules"] = HistoryLogModulesResource
      /\ Api["HistoryLogDetail"] = HistoryLogDetailResource
      /\ Api["DashboardOverview"] = DashboardOverviewResource
      /\ Api["DashboardCharts"] = DashboardChartsResource
      /\ Api["DashboardActivities"] = DashboardActivitiesResource
      /\ Api["DashboardStatus"] = DashboardStatusResource
      /\ Api["CacheStats"] = CacheStatsResource
      /\ Api["CacheClearClassificationAction"] = CacheClearClassificationActionResource
      /\ Api["CacheClassificationStats"] = CacheClassificationStatsResource
      /\ Api["HealthPing"] = HealthPingResource
      /\ Api["HealthBasic"] = HealthBasicResource
      /\ Api["HealthCheck"] = HealthCheckResource
      /\ Api["HealthCache"] = HealthCacheResource
      /\ Api["HealthDetailed"] = HealthDetailedResource
  BY DEF Api
<1>9. DOMAIN Api = {"AccountsLedgers", "AccountsLedgersPermissions", "AccountsLedgersChangeHistory"} \cup
        {"AccountsLedgersExport", "AccountsStatistics", "AccountsStatisticsSummary"} \cup
        {"AccountsStatisticsByDbType", "AccountsStatisticsByClassification", "AccountsStatisticsRules"} \cup
        {"AccountClassificationTrends", "AccountClassificationTrend", "AccountClassificationRuleTrend"} \cup
        {"AccountClassificationRuleContributions", "AccountClassificationRulesOverview", "AccountClassifications"} \cup
        {"AccountClassificationDetail", "AccountClassificationRules", "AccountClassificationRulesFilter"} \cup
        {"AccountClassificationRuleExpressionValidate", "AccountClassificationRuleDetail", "AccountClassificationAssignments"} \cup
        {"AccountClassificationAssignment", "AccountClassificationPermissions", "AccountClassificationAutoClassifyAction"} \cup
        {"AccountChangeLogs", "AccountChangeLogsStatistics", "AccountChangeLogDetail"} \cup
        {"AdDomainConfigs", "AdDomainConfig", "AdDomainConfigEnabled"} \cup
        {"AdDomainConfigTestConnection", "AdDomainSync", "Users"} \cup
        {"UserDetail", "UsersStats", "CsrfToken"} \cup {"Login", "Logout", "Session"} \cup
        {"ChangePassword", "Me", "InstancesOptions"} \cup
        {"AccountScopeOptions", "Instances", "InstancesExport"} \cup
        {"InstancesImportTemplate", "InstanceDetail", "InstanceSyncCapacityAction"} \cup
        {"InstanceRestoreAction", "InstancesBatchCreate", "InstancesBatchDelete"} \cup
        {"InstancesStatistics", "InstanceAgAccounts", "InstancesSyncAccountsAction"} \cup
        {"InstancesSyncInstanceAccountsAction", "InstanceAuditInfo", "InstanceAuditSyncAction"} \cup
        {"InstanceBackupInfo", "InstancesConnectionsTest", "InstancesConnectionsValidateParams"} \cup
        {"InstancesConnectionsBatchTest", "InstancesConnectionsStatus", "Credentials"} \cup
        {"CredentialDetail", "Tags", "TagOptions"} \cup
        {"TagCategories", "TagDetail", "TagBatchDelete"} \cup
        {"TagsBulkInstances", "TagsBulkTags", "TagsBulkAssign"} \cup
        {"TagsBulkRemove", "TagsBulkInstanceTags", "TagsBulkRemoveAll"} \cup
        {"DatabasesOptions", "DatabaseLedgers", "DatabaseStatistics"} \cup
        {"DatabaseLedgersExport", "DatabaseLedgersSyncAllAction", "DatabasesSizes"} \cup
        {"DatabaseTableSizesSnapshot", "DatabaseTableSizesRefresh", "CapacityCurrentAggregation"} \cup
        {"CapacityDatabasesAggregations", "CapacityDatabasesSummary", "CapacityInstancesAggregations"} \cup
        {"CapacityInstancesSummary", "TaskRunsList", "TaskRunDetail"} \cup
        {"TaskRunErrorLogs", "TaskRunCancel", "HistorySessionsList"} \cup
        {"HistorySessionDetail", "HistorySessionErrorLogs", "HistorySessionCancel"} \cup
        {"SchedulerJobs", "SchedulerJobDetail", "SchedulerJobPause"} \cup
        {"SchedulerJobResume", "SchedulerJobRun", "SchedulerJobsReload"} \cup
        {"JumpServerSource", "JumpServerSyncAction", "VeeamSource"} \cup
        {"VeeamSources", "VeeamSourceItem", "VeeamSourceEnableAction"} \cup
        {"VeeamSourceDisableAction", "VeeamSyncAction", "VeeamSyncInstanceAction"} \cup
        {"VeeamSourceInstanceSyncAction", "AlertEmailSettings", "AlertEmailTest"} \cup
        {"AlertFeishuTest", "RiskCenterRules", "RiskCenterSummary"} \cup
        {"RiskCenterCards", "PartitionInfo", "PartitionStatus"} \cup
        {"Partitions", "PartitionCleanup", "PartitionStatistics"} \cup
        {"PartitionCoreMetrics", "MySQLClusters", "MySQLClusterInstanceOptions"} \cup
        {"MySQLClusterDetail", "MySQLClusterInstances", "MySQLClusterTopologySync"} \cup
        {"SQLServerClusters", "SQLServerClusterInstanceOptions", "SQLServerClusterDetail"} \cup
        {"SQLServerClusterInstances", "SQLServerAvailabilityGroups", "SQLServerAvailabilityGroupDashboard"} \cup
        {"SQLServerAvailabilityGroupsSync", "SQLServerAvailabilityGroupAccountsSync", "SQLServerClusterStatusSync"} \cup
        {"SQLServerAvailabilityGroup", "HistoryLogs", "HistoryLogStatistics"} \cup
        {"HistoryLogModules", "HistoryLogDetail", "DashboardOverview"} \cup
        {"DashboardCharts", "DashboardActivities", "DashboardStatus"} \cup
        {"CacheStats", "CacheClearClassificationAction", "CacheClassificationStats"} \cup
        {"HealthPing", "HealthBasic", "HealthCheck"} \cup {"HealthCache", "HealthDetailed"}
  BY DEF Api
<1> QED BY <1>1, <1>2, <1>3, <1>4, <1>5, <1>6, <1>7, <1>8, <1>9, Queries, CommandResources, BackgroundResources, Starters DEF Good

----------------------------------------------------------------------------
(* A call                                                                  *)

LEMMA CalledIsSound ==
    ASSUME call \in Calls
    PROVE  /\ Sound(Called, call.method)
           /\ call.resource # "VeeamSyncAction" => CommitsRun(Called.body)
           /\ Admitted(call) /\ call.method # "get" => call.token
<1>1. PICK r \in DOMAIN Api : call \in [resource : {r}, method : DOMAIN Api[r], role : Roles, token : BOOLEAN]
  BY DEF Calls
<1>2. call.resource \in DOMAIN Api /\ call.method \in DOMAIN Api[call.resource]
  BY <1>1
<1>3. /\ Sound(Called, call.method)
      /\ call.resource # "VeeamSyncAction" => CommitsRun(Called.body)
  BY <1>2, HandlersAreGood DEF Called, Guarded, Prepared
<1> QED BY <1>3 DEF Admitted, Called, Sound, SafeMethods

\* Where a call is, and what it may have changed by then.
CallPlace ==
    /\ call \in Calls
    /\ at \in 0 .. Len(Called.body)
    /\ phase \in {"gate", "body", "after", "answered"}
    /\ answer \in {"none", "denied", "ok", "refused", "error"}
    /\ phase \in {"gate", "body"} => answer = "none"
    /\ phase = "after" => answer = "ok"
    /\ phase = "gate" \/ answer = "denied" \/ Admitted(call)
    /\ worker \in {"none", "started", "found", "lost"}

Untouched == stored = {} /\ pending = {} /\ ~acted /\ worker = "none"

CallEffects ==
    /\ acted \in BOOLEAN
    /\ phase = "gate" \/ answer = "denied" \/ call.method = "get" => Untouched
    /\ phase \in {"after", "answered"} => pending = {}
    /\ (\A k \in 1 .. Len(Called.body) : Called.body[k] # "commit") /\ (phase = "body" \/ answer = "error") => stored = {}

\* No written row is missing before the answer or in it, and none that a commit
\* inside the handler has stored is lost.
CallRows ==
    /\ answer \in {"none", "ok", "refused"} =>
          \A k \in 1 .. at : Called.body[k] = "write" => k \in stored \cup pending
    /\ \A c \in 1 .. at : \A w \in 1 .. (c - 1) :
          Called.body[c] = "commit" /\ Called.body[w] = "write" => w \in stored

CallThread ==
    /\ phase = "after" => stored # {}
    /\ worker \in {"started", "found", "lost"} /\ call.resource # "VeeamSyncAction" => stored # {}
    /\ worker = "lost" => call.resource = "VeeamSyncAction"

CallInv == CallPlace /\ CallEffects /\ CallRows /\ CallThread

LEMMA CallStarts == CallInit => CallInv
<1> SUFFICES ASSUME CallInit PROVE CallInv
  OBVIOUS
<1>1. call \in Calls /\ Len(Called.body) \in Nat
  BY CalledIsSound DEF CallInit, Sound
<1>2. CallPlace /\ CallThread
  BY <1>1 DEF CallInit, CallPlace, CallThread
<1>3. CallEffects
  BY DEF CallInit, CallEffects, Untouched
<1>4. CallRows
  <2>1. at = 0 /\ 1 .. at = {}
    BY DEF CallInit
  <2> QED BY <2>1 DEF CallRows
<1> QED BY <1>2, <1>3, <1>4 DEF CallInv

LEMMA CallMoves == CallInv /\ [CallNext]_callVars => CallInv'
<1> SUFFICES ASSUME CallInv, [CallNext]_callVars PROVE CallInv'
  OBVIOUS
<1> DEFINE b == Called.body
           n == Len(b)
<1>1. /\ call \in Calls /\ n \in Nat
      /\ call.method = "get" => Quiet(b) /\ Called.after = <<>>
      /\ Called.after # <<>> => WritesRun(b)
      /\ call.resource # "VeeamSyncAction" => CommitsRun(b)
  BY CalledIsSound DEF CallInv, CallPlace, Sound
<1>2. call' = call /\ Called' = Called
  BY DEF CallNext, callVars, Gate, Fail, Pass, Flush, CommitInside, Act, LaunchInside, Refuse, Return,
         LaunchAfter, LookUpRun, Called
<1>3. Admitted(call)' <=> Admitted(call)
  BY <1>2 DEF Admitted
<1>4. at \in 0 .. n
  BY DEF CallInv, CallPlace
<1> USE <1>1, <1>2, <1>3, <1>4 DEF CallInv
<1>5. CASE Gate
  <2>1. CallPlace'
    BY <1>5 DEF Gate, CallPlace
  <2> QED BY <1>5, <2>1 DEF Gate, CallPlace, CallEffects, CallRows, CallThread, Untouched
<1>6. CASE Fail
  <2>1. phase = "body" /\ phase' = "answered" /\ answer' = "error" /\ pending' = {}
        /\ at' = at /\ stored' = stored /\ acted' = acted /\ worker' = worker
    BY <1>6 DEF Fail, Rollback
  <2> QED BY <2>1 DEF CallPlace, CallEffects, CallRows, CallThread, Untouched
<1>7. CASE Pass
  <2>1. /\ phase = "body" /\ at < n /\ b[at + 1] \notin {"write", "commit"} /\ at' = at + 1
        /\ UNCHANGED <<phase, pending, stored, acted, answer, worker>>
    BY <1>7 DEF Pass, Ready, Kind
  <2>2. CallPlace' /\ CallEffects' /\ CallThread'
    BY <2>1 DEF CallPlace, CallEffects, CallThread, Untouched
  <2>3. CallRows'
    BY <2>1 DEF CallRows
  <2> QED BY <2>2, <2>3
<1>8. CASE Flush
  <2>1. /\ phase = "body" /\ at < n /\ b[at + 1] \in {"write", "try"} /\ at' = at + 1
        /\ pending' = pending \cup {at + 1} \/ (b[at + 1] = "try" /\ pending' = pending)
        /\ UNCHANGED <<phase, stored, acted, answer, worker>>
    BY <1>8 DEF Flush, Ready, Kind, Writing
  <2>2. call.method # "get"
    BY <2>1 DEF Quiet
  <2>3. CallPlace' /\ CallEffects' /\ CallThread'
    BY <2>1, <2>2 DEF CallPlace, CallEffects, CallThread, Untouched
  <2>4. answer = "none" /\ at' \in Nat
    BY <2>1 DEF CallPlace
  <2>5. \A k \in 1 .. at' : b[k] = "write" => k \in stored \cup pending'
    <3>1. \A k \in 1 .. at : b[k] = "write" => k \in stored \cup pending
      BY <2>4 DEF CallRows
    <3>2. \A k \in 1 .. at' : k \in 1 .. at \/ k = at + 1
      BY <2>1
    <3>3. pending \subseteq pending' /\ (b[at + 1] = "write" => at + 1 \in pending')
      BY <2>1
    <3> QED BY <3>1, <3>2, <3>3
  <2>6. \A c \in 1 .. at' : \A w \in 1 .. (c - 1) : b[c] = "commit" /\ b[w] = "write" => w \in stored
    BY <2>1 DEF CallRows
  <2>7. CallRows'
    BY <2>1, <2>5, <2>6 DEF CallRows
  <2> QED BY <2>3, <2>7
<1>9. CASE CommitInside
  <2>1. /\ phase = "body" /\ at < n /\ b[at + 1] = "commit" /\ at' = at + 1
        /\ stored' = stored \cup pending /\ pending' = {}
        /\ UNCHANGED <<phase, acted, answer, worker>>
    BY <1>9 DEF CommitInside, Ready, Kind
  <2>2. call.method # "get"
    BY <2>1 DEF Quiet
  <2>3. CallPlace' /\ CallEffects' /\ CallThread'
    BY <2>1, <2>2 DEF CallPlace, CallEffects, CallThread, Untouched
  <2>4. CallRows'
    BY <2>1 DEF CallRows, CallPlace
  <2> QED BY <2>3, <2>4
<1>10. CASE Act
  <2>1. /\ phase = "body" /\ at < n /\ b[at + 1] \in {"act", "clear"} /\ at' = at + 1
        /\ acted' \in BOOLEAN
        /\ UNCHANGED <<phase, pending, stored, answer, worker>>
    BY <1>10 DEF Act, Ready, Kind, CallEffects
  <2>2. call.method # "get"
    BY <2>1 DEF Quiet
  <2>3. CallPlace' /\ CallEffects' /\ CallThread'
    BY <2>1, <2>2 DEF CallPlace, CallEffects, CallThread, Untouched
  <2>4. CallRows'
    BY <2>1 DEF CallRows
  <2> QED BY <2>3, <2>4
<1>11. CASE LaunchInside
  <2>1. /\ phase = "body" /\ at < n /\ b[at + 1] = "launch" /\ at' = at + 1 /\ worker' = "started"
        /\ UNCHANGED <<phase, pending, stored, acted, answer>>
    BY <1>11 DEF LaunchInside, Ready, Kind
  <2>2. call.method # "get"
    BY <2>1 DEF Quiet
  <2>3. call.resource # "VeeamSyncAction" => stored # {}
    BY <2>1 DEF CommitsRun, CallRows
  <2>4. CallPlace' /\ CallEffects' /\ CallThread'
    BY <2>1, <2>2, <2>3 DEF CallPlace, CallEffects, CallThread, Untouched
  <2>5. CallRows'
    BY <2>1 DEF CallRows
  <2> QED BY <2>4, <2>5
<1>12. ASSUME NEW a \in {"ok", "refused"}, phase = "body", Commit(a), UNCHANGED <<at, acted, worker>>,
              a = "ok" => at = n \/ b[at + 1] = "done"
       PROVE  CallInv'
  <2>1. CASE Rollback /\ UNCHANGED stored
    BY <1>12, <2>1 DEF Rollback, CallPlace, CallEffects, CallRows, CallThread, Untouched
  <2>2. CASE /\ stored' = stored \cup pending /\ pending' = {} /\ answer' = a
             /\ phase' = IF Called.after = <<>> \/ a # "ok" THEN "answered" ELSE "after"
    <3>1. phase' \in {"answered", "after"} /\ (phase' = "after" => a = "ok" /\ Called.after # <<>>)
      BY <2>2
    <3>2. \A k \in 1 .. at : b[k] = "write" => k \in stored'
      BY <1>12, <2>2 DEF CallRows, CallPlace
    <3>3. phase' = "after" => stored' # {}
      <4> SUFFICES ASSUME phase' = "after" PROVE stored' # {}
        OBVIOUS
      <4>1. WritesRun(b) /\ (at = n \/ b[at + 1] = "done")
        BY <1>12, <3>1
      <4>2. at = n
        BY <4>1 DEF WritesRun
      <4>3. PICK k \in 1 .. n : b[k] = "write"
        BY <4>1 DEF WritesRun
      <4> QED BY <3>2, <4>2, <4>3
    <3>4. CallPlace'
      BY <1>12, <2>2, <3>1 DEF CallPlace
    <3>5. CallEffects'
      BY <1>12, <2>2, <3>1 DEF CallPlace, CallEffects, Untouched
    <3>6. CallRows' /\ CallThread'
      BY <1>12, <2>2, <3>1, <3>2, <3>3 DEF CallRows, CallThread
    <3> QED BY <3>4, <3>5, <3>6
  <2> QED BY <1>12, <2>1, <2>2 DEF Commit
<1>13. CASE Refuse
  BY <1>12, <1>13 DEF Refuse, Ready
<1>14. CASE Return
  BY <1>12, <1>14 DEF Return, Ready, Kind
<1>15. CASE LaunchAfter
  <2>1. phase = "after" /\ phase' = "answered" /\ worker' = "started" /\ UNCHANGED <<at, pending, stored, acted, answer>>
    BY <1>15 DEF LaunchAfter
  <2> QED BY <2>1 DEF CallPlace, CallEffects, CallRows, CallThread, Untouched
<1>16. CASE LookUpRun
  <2>1. worker = "started" /\ worker' = (IF stored = {} THEN "lost" ELSE "found")
        /\ UNCHANGED <<phase, at, pending, stored, acted, answer>>
    BY <1>16 DEF LookUpRun
  <2> QED BY <2>1 DEF CallPlace, CallEffects, CallRows, CallThread, Untouched
<1>17. CASE UNCHANGED callVars
  BY <1>17 DEF callVars, CallPlace, CallEffects, CallRows, CallThread, Untouched
<1> QED BY <1>5, <1>6, <1>7, <1>8, <1>9, <1>10, <1>11, <1>13, <1>14, <1>15, <1>16, <1>17 DEF CallNext

\* For the handlers of the whole API, whatever a step of a call does: an answer
\* tells what was kept, only an admitted call with its token changes anything,
\* and a thread finds the run it was started for (safe_route_call, the
\* decorators, launch_background_...).
THEOREM CallsAreTrue == CallSpec => []CallsHold
<1>1. CallInv => CallsHold
  <2> SUFFICES ASSUME CallInv PROVE CallsHold
    OBVIOUS
  <2>1. Len(Called.body) \in Nat /\ at \in 0 .. Len(Called.body)
    BY CalledIsSound DEF CallInv, CallPlace, Sound
  <2>2. answer = "denied" => stored = {} /\ ~acted /\ worker = "none"
    BY DEF CallInv, CallEffects, Untouched
  <2>3. phase = "answered" => pending = {}
    BY DEF CallInv, CallEffects
  <2>4. answer \in {"ok", "refused"} => Done({"write"}) \subseteq stored
    BY <2>1 DEF CallInv, CallRows, CallPlace, CallEffects, Done, Positions
  <2>5. answer = "error" /\ ~CommitsEarly => stored = {}
    BY DEF CallInv, CallEffects, CommitsEarly, Positions
  <2>6. stored # {} \/ pending # {} \/ acted \/ worker # "none" => call.token /\ call.method \notin SafeMethods
    BY CalledIsSound DEF CallInv, CallPlace, CallEffects, Untouched, SafeMethods
  <2> QED BY <2>2, <2>3, <2>4, <2>5, <2>6
          DEF CallsHold, AnswersAreTrue, AnswerTells, OnlyCommandsChange, ThreadsFindRuns, CallInv, CallThread
<1> QED BY <1>1, CallStarts, CallMoves, PTL DEF CallSpec

----------------------------------------------------------------------------
(* Finite sets and sums. *)

Less == {p \in Nat \X Nat : p[1] < p[2]}

LEMMA Least ==
    ASSUME NEW T \in SUBSET Nat, T # {}
    PROVE  \E x \in T : \A y \in T : x <= y
<1>1. OpToRel(<, Nat) = Less
  BY DEF OpToRel, Less
<1>2. IsWellFoundedOn(Less, Nat)
  BY <1>1, NatLessThanWellFounded
<1>3. PICK x \in T : \A y \in T : ~ (<<y, x>> \in Less)
  BY <1>2, WFMin
<1>4. \A y \in T : <<y, x>> \in Nat \X Nat
  OBVIOUS
<1>5. \A y \in T : ~(y < x)
  BY <1>3, <1>4 DEF Less
<1> QED BY <1>5

\* What holds of a part of a finite set whenever it holds of the parts with an element less holds of all.
Some(s) == CHOOSE x \in s : TRUE
Hereditary(T, S) == \A s \in SUBSET S : (\A x \in s : s \ {x} \in T) => s \in T

LEMMA ByParts ==
    ASSUME NEW S, IsFiniteSet(S), NEW T, Hereditary(T, S)
    PROVE  \A s \in SUBSET S : s \in T
<1> SUFFICES ASSUME NEW s0 \in SUBSET S, s0 \notin T PROVE FALSE
  OBVIOUS
<1>0. \A s \in SUBSET S : IsFiniteSet(s) /\ Cardinality(s) \in Nat
  BY FS_Subset, FS_CardinalityType
<1> DEFINE D == {n \in Nat : \E s \in SUBSET S : s \notin T /\ Cardinality(s) = n}
<1>1. PICK n \in D : \A m \in D : n <= m
  <2>1. Cardinality(s0) \in D
    BY <1>0
  <2>2. D \in SUBSET Nat /\ D # {}
    BY <2>1
  <2> HIDE DEF D
  <2> QED BY <2>2, Least
<1>2. PICK s \in SUBSET S : s \notin T /\ Cardinality(s) = n
  BY <1>1
<1>3. PICK x \in s : s \ {x} \notin T
  BY <1>2 DEF Hereditary
<1>4. Cardinality(s \ {x}) = n - 1 /\ n - 1 \in Nat /\ n \in Nat
  <2>1. IsFiniteSet(s) /\ Cardinality(s) = n
    BY <1>0, <1>2
  <2>2. Cardinality(s \ {x}) = Cardinality(s) - 1
    BY <2>1, FS_RemoveElement
  <2>3. Cardinality(s \ {x}) \in Nat
    BY <1>0, <1>2
  <2> QED BY <1>1, <2>1, <2>2, <2>3
<1>5. n - 1 \in D
  BY <1>3, <1>4
<1> HIDE DEF D
<1>6. n <= n - 1
  BY <1>1, <1>5
<1> QED BY <1>4, <1>6

----------------------------------------------------------------------------
(* Sums.  The fold that computes them takes the elements in some order.    *)

SumOf(f, S) == SumFunctionOnSet(f, S)
Added(g, f, s) == IF s = {} THEN 0 ELSE f[Some(s)] + g[s \ {Some(s)}]
Adds(g, f, S) == g = [s \in SUBSET S |-> Added(g, f, s)]

LEMMA SumIs ==
    ASSUME NEW f, NEW S
    PROVE  SumOf(f, S) = (CHOOSE g : Adds(g, f, S))[S]
BY DEF SumOf, SumFunctionOnSet, FoldFunctionOnSet, MapThenFoldSet, Adds, Added, Some

LEMMA SomeIn == ASSUME NEW s, s # {} PROVE Some(s) \in s
BY DEF Some

\* There is such a function ...
LEMMA AddsExists ==
    ASSUME NEW S, IsFiniteSet(S), NEW f, \A x \in S : f[x] \in Nat
    PROVE  \E g \in [SUBSET S -> Nat] : Adds(g, f, S)
<1> DEFINE Fs == [SUBSET S -> Nat]
           Upto(g, n) == \A s \in SUBSET S : Cardinality(s) < n => g[s] = Added(g, f, s)
           Bad == {n \in Nat : \A g \in Fs : ~Upto(g, n)}
<1>0. \A s \in SUBSET S : Cardinality(s) \in Nat
  BY FS_Subset, FS_CardinalityType
<1>1. ASSUME NEW g \in Fs, NEW s \in SUBSET S PROVE Added(g, f, s) \in Nat
  <2>1. CASE s = {}
    BY <2>1 DEF Added
  <2>2. CASE s # {}
    <3>1. Some(s) \in S /\ s \ {Some(s)} \in SUBSET S
      BY <2>2, SomeIn
    <3>2. f[Some(s)] \in Nat /\ g[s \ {Some(s)}] \in Nat
      BY <3>1
    <3> QED BY <2>2, <3>2 DEF Added
  <2> QED BY <2>1, <2>2
<1>2. Bad = {}
  <2> SUFFICES ASSUME Bad # {} PROVE FALSE
    OBVIOUS
  <2>1. PICK n \in Bad : \A m \in Bad : n <= m
    <3>1. Bad \in SUBSET Nat
      OBVIOUS
    <3> HIDE DEF Bad
    <3> QED BY <3>1, Least
  <2>2. n # 0
    <3>1. Upto([s \in SUBSET S |-> 0], 0)
      BY <1>0
    <3>2. [s \in SUBSET S |-> 0] \in Fs
      OBVIOUS
    <3> HIDE DEF Upto, Fs
    <3> QED BY <2>1, <3>1, <3>2
  <2>3. n - 1 \in Nat /\ n - 1 \notin Bad
    <3>1. n \in Nat
      BY <2>1
    <3>2. n - 1 \in Nat /\ ~(n <= n - 1)
      BY <2>2, <3>1
    <3> HIDE DEF Bad
    <3> QED BY <2>1, <3>2
  <2>4. PICK g \in Fs : Upto(g, n - 1)
    <3> HIDE DEF Upto, Fs
    <3> QED BY <2>3
  <2> DEFINE h == [s \in SUBSET S |-> Added(g, f, s)]
  <2>5. h \in Fs
    BY <1>1
  <2>6. ASSUME NEW s \in SUBSET S, Cardinality(s) < n PROVE h[s] = Added(h, f, s)
    <3>1. CASE s = {}
      BY <3>1 DEF Added
    <3>2. CASE s # {}
      <4> DEFINE t == s \ {Some(s)}
      <4>1. Some(s) \in s /\ t \in SUBSET S
        BY <3>2, SomeIn
      <4>2. Cardinality(t) < n - 1
        <5>1. IsFiniteSet(s)
          BY FS_Subset
        <5>2. Cardinality(t) = Cardinality(s) - 1
          BY <4>1, <5>1, FS_RemoveElement
        <5> QED BY <1>0, <2>1, <2>6, <5>2
      <4>3. h[t] = g[t]
        BY <2>4, <4>1, <4>2
      <4> HIDE DEF t
      <4>4. h[s] = f[Some(s)] + g[t]
        BY <3>2 DEF Added, t
      <4>5. Added(h, f, s) = f[Some(s)] + h[t]
        BY <3>2 DEF Added, t
      <4> QED BY <4>3, <4>4, <4>5
    <3> QED BY <3>1, <3>2
  <2> HIDE DEF h
  <2>7. Upto(h, n)
    BY <2>6
  <2> HIDE DEF Upto, Fs
  <2> QED BY <2>1, <2>5, <2>7
<1>3. Cardinality(S) + 1 \in Nat
  BY <1>0
<1>4. PICK g \in Fs : Upto(g, Cardinality(S) + 1)
  BY <1>2, <1>3
<1>5. ASSUME NEW s \in SUBSET S PROVE g[s] = Added(g, f, s)
  <2>1. Cardinality(s) <= Cardinality(S)
    BY FS_Subset
  <2> QED BY <1>0, <1>4, <2>1
<1>6. Adds(g, f, S)
  BY <1>5 DEF Adds
<1> QED BY <1>6

\* ... and where two of them are defined they agree.
LEMMA AddsAgree ==
    ASSUME NEW S, IsFiniteSet(S), NEW R \in SUBSET S, NEW f, NEW g, NEW h, Adds(g, f, S), Adds(h, f, R)
    PROVE  \A s \in SUBSET R : g[s] = h[s]
<1> DEFINE T == {s \in SUBSET R : g[s] = h[s]}
<1>1. IsFiniteSet(R)
  BY FS_Subset
<1>2. ASSUME NEW s \in SUBSET R, \A x \in s : s \ {x} \in T PROVE s \in T
  <2>1. g[s] = Added(g, f, s) /\ h[s] = Added(h, f, s)
    <3>1. s \in SUBSET S
      OBVIOUS
    <3> QED BY <3>1 DEF Adds
  <2>2. CASE s = {}
    BY <2>1, <2>2 DEF Added
  <2>3. CASE s # {}
    <3>1. s \ {Some(s)} \in T
      BY <1>2, <2>3, SomeIn
    <3> QED BY <2>1, <2>3, <3>1 DEF Added
  <2> QED BY <2>2, <2>3
<1> HIDE DEF T
<1>3. Hereditary(T, R)
  BY <1>2 DEF Hereditary
<1>4. \A s \in SUBSET R : s \in T
  BY <1>1, <1>3, ByParts
<1> QED BY <1>4 DEF T

\* What a sum is: of nothing 0, else with any of the elements the sum of the others.
LEMMA SumParts ==
    ASSUME NEW S, IsFiniteSet(S), NEW f, \A x \in S : f[x] \in Nat
    PROVE  /\ SumOf(f, {}) = 0
           /\ \A s \in SUBSET S : /\ SumOf(f, s) \in Nat
                                  /\ s # {} => SumOf(f, s) = f[Some(s)] + SumOf(f, s \ {Some(s)})
<1>1. PICK g \in [SUBSET S -> Nat] : Adds(g, f, S)
  BY AddsExists
<1>2. ASSUME NEW s \in SUBSET S PROVE SumOf(f, s) = g[s]
  <2>1. IsFiniteSet(s) /\ \A x \in s : f[x] \in Nat
    BY FS_Subset
  <2>2. \E h : Adds(h, f, s)
    BY <2>1, AddsExists
  <2>3. Adds(CHOOSE h : Adds(h, f, s), f, s)
    BY <2>2
  <2>4. SumOf(f, s) = (CHOOSE h : Adds(h, f, s))[s]
    BY SumIs
  <2> QED BY <1>1, <2>3, <2>4, AddsAgree
<1>3. ASSUME NEW s \in SUBSET S PROVE g[s] = Added(g, f, s)
  BY <1>1 DEF Adds
<1>4. SumOf(f, {}) = 0
  BY <1>2, <1>3 DEF Added
<1>5. ASSUME NEW s \in SUBSET S PROVE SumOf(f, s) \in Nat
  BY <1>1, <1>2
<1>6. ASSUME NEW s \in SUBSET S, s # {} PROVE SumOf(f, s) = f[Some(s)] + SumOf(f, s \ {Some(s)})
  <2>1. s \ {Some(s)} \in SUBSET S
    OBVIOUS
  <2> QED BY <1>2, <1>3, <1>6, <2>1 DEF Added
<1> QED BY <1>4, <1>5, <1>6

LEMMA SumWithout ==
    ASSUME NEW S, IsFiniteSet(S), NEW f, \A x \in S : f[x] \in Nat, NEW x \in S
    PROVE  SumOf(f, S) = f[x] + SumOf(f, S \ {x})
<1> DEFINE T == {s \in SUBSET S : \A y \in s : SumOf(f, s) = f[y] + SumOf(f, s \ {y})}
<1>1. ASSUME NEW s \in SUBSET S, \A z \in s : s \ {z} \in T, NEW y \in s
      PROVE  SumOf(f, s) = f[y] + SumOf(f, s \ {y})
  <2> DEFINE z == Some(s)
             r == (s \ {z}) \ {y}
  <2>1. z \in s /\ s # {}
    BY SomeIn
  <2>2. SumOf(f, s) = f[z] + SumOf(f, s \ {z})
    BY <2>1, SumParts
  <2>3. CASE y = z
    BY <2>2, <2>3
  <2>4. CASE y # z
    <3>1. SumOf(f, s \ {z}) = f[y] + SumOf(f, r)
      BY <1>1, <2>1, <2>4
    <3>2. (s \ {y}) \ {z} = r
      OBVIOUS
    <3>3. SumOf(f, s \ {y}) = f[z] + SumOf(f, (s \ {y}) \ {z})
      BY <1>1, <2>1, <2>4
    <3>4. f[z] \in Nat /\ f[y] \in Nat
      BY <2>1
    <3>5. SumOf(f, r) \in Nat
      <4>1. r \in SUBSET S
        OBVIOUS
      <4> HIDE DEF r
      <4> QED BY <4>1, SumParts
    <3> HIDE DEF r, z
    <3> QED BY <2>2, <3>1, <3>2, <3>3, <3>4, <3>5
  <2> QED BY <2>3, <2>4
<1>2. Hereditary(T, S)
  BY <1>1 DEF Hereditary
<1> HIDE DEF T
<1>3. S \in T
  BY <1>2, ByParts
<1> QED BY <1>3 DEF T

\* A sum of more and larger numbers is larger.
LEMMA SumGrows ==
    ASSUME NEW S, IsFiniteSet(S), NEW R \in SUBSET S, NEW f, NEW g,
           \A x \in R : f[x] \in Nat, \A x \in S : g[x] \in Nat, \A x \in R : f[x] <= g[x]
    PROVE  SumOf(f, R) <= SumOf(g, S)
<1> DEFINE T == {s \in SUBSET S : SumOf(f, s \cap R) <= SumOf(g, s)}
<1>1. ASSUME NEW s \in SUBSET S, \A x \in s : s \ {x} \in T PROVE s \in T
  <2>0. /\ IsFiniteSet(s) /\ IsFiniteSet(R) /\ IsFiniteSet(s \cap R)
        /\ \A x \in s : g[x] \in Nat
        /\ \A x \in s \cap R : f[x] \in Nat
    BY FS_Subset
  <2>1. CASE s = {}
    <3>1. s \cap R = {}
      BY <2>1
    <3>2. SumOf(f, {}) = 0 /\ SumOf(g, {}) = 0
      BY <2>0, SumParts
    <3> QED BY <2>1, <3>1, <3>2
  <2>2. ASSUME NEW x \in s PROVE s \in T
    <3>1. SumOf(g, s) = g[x] + SumOf(g, s \ {x}) /\ SumOf(g, s \ {x}) \in Nat
      <4>1. SumOf(g, s) = g[x] + SumOf(g, s \ {x})
        BY <2>0, SumWithout
      <4>2. s \ {x} \in SUBSET s
        OBVIOUS
      <4> QED BY <2>0, <4>1, <4>2, SumParts
    <3>2. SumOf(f, (s \ {x}) \cap R) <= SumOf(g, s \ {x})
      BY <1>1
    <3>3. CASE x \in R
      <4>1. (s \cap R) \ {x} = (s \ {x}) \cap R
        OBVIOUS
      <4>2. SumOf(f, s \cap R) = f[x] + SumOf(f, (s \cap R) \ {x})
        BY <2>0, <3>3, SumWithout
      <4>3. (s \cap R) \ {x} \in SUBSET (s \cap R)
        OBVIOUS
      <4>4. SumOf(f, (s \cap R) \ {x}) \in Nat
        BY <2>0, <4>3, SumParts
      <4>5. f[x] \in Nat /\ g[x] \in Nat /\ f[x] <= g[x]
        BY <3>3
      <4>6. SumOf(f, s \cap R) <= SumOf(g, s)
        <5> HIDE DEF T
        <5> QED BY <3>1, <3>2, <4>1, <4>2, <4>4, <4>5
      <4> QED BY <4>6
    <3>4. CASE x \notin R
      <4>1. s \cap R = (s \ {x}) \cap R
        BY <3>4
      <4>2. (s \ {x}) \cap R \in SUBSET (s \cap R)
        OBVIOUS
      <4>3. SumOf(f, (s \ {x}) \cap R) \in Nat
        BY <2>0, <4>2, SumParts
      <4>4. g[x] \in Nat
        OBVIOUS
      <4>5. SumOf(f, s \cap R) <= SumOf(g, s)
        <5> HIDE DEF T
        <5> QED BY <3>1, <3>2, <4>1, <4>3, <4>4
      <4> QED BY <4>5
    <3> QED BY <3>3, <3>4
  <2> QED BY <2>1, <2>2
<1>2. Hereditary(T, S)
  BY <1>1 DEF Hereditary
<1> HIDE DEF T
<1>3. S \in T
  BY <1>2, ByParts
<1>4. S \cap R = R
  OBVIOUS
<1> QED BY <1>3, <1>4 DEF T

----------------------------------------------------------------------------
(* The risk center. *)

Severe == {"high", "medium", "low"}
IsSetting(s) == s = [enabled |-> s.enabled, severity |-> s.severity] /\ s.enabled \in BOOLEAN /\ s.severity \in Severe
RiskInv ==
    /\ DOMAIN settings \subseteq RuleKeys /\ \A k \in DOMAIN settings : IsSetting(settings[k])
    /\ IsFiniteSet(replicaRows) /\ IsFiniteSet(databaseRows)

LEMMA Ranks ==
    /\ RankOf("high") = 1 /\ RankOf("medium") = 2 /\ RankOf("low") = 3 /\ RankOf("ok") = 4
    /\ Levels[1] = "high" /\ Levels[2] = "medium" /\ Levels[3] = "low" /\ Levels[4] = "ok"
<1>1. DOMAIN Levels = 1 .. 4 /\ Levels[1] = "high" /\ Levels[2] = "medium" /\ Levels[3] = "low" /\ Levels[4] = "ok"
  BY DEF Levels
<1>2. \A n \in 1 .. 4 : n = 1 \/ n = 2 \/ n = 3 \/ n = 4
  OBVIOUS
<1>3. RankOf("high") = 1
  BY <1>1, <1>2 DEF RankOf
<1>4. RankOf("medium") = 2
  BY <1>1, <1>2 DEF RankOf
<1>5. RankOf("low") = 3
  BY <1>1, <1>2 DEF RankOf
<1>6. RankOf("ok") = 4
  BY <1>1, <1>2 DEF RankOf
<1> QED BY <1>1, <1>3, <1>4, <1>5, <1>6

LEMMA RuleKeysFinite == IsFiniteSet(RuleKeys)
<1>1. RuleKeys = {"backup_missing", "backup_stale", "capacity_growth_critical", "capacity_growth_warning",
                  "audit_disabled"} \cup
                 {"audit_missing", "access_superuser", "access_recent_change", "cluster_abnormal", "task_failed"}
  BY DEF RuleKeys, Definitions
<1>2. \A a, b, c, d, e : IsFiniteSet({a, b, c, d, e})
  <2> TAKE a, b, c, d, e
  <2>1. IsFiniteSet({})
    BY FS_EmptySet
  <2>2. IsFiniteSet({a})
    BY FS_Singleton
  <2>3. {a, b} = {a} \cup {b} /\ {a, b, c} = {a, b} \cup {c} /\ {a, b, c, d} = {a, b, c} \cup {d}
        /\ {a, b, c, d, e} = {a, b, c, d} \cup {e}
    OBVIOUS
  <2>4. IsFiniteSet({a, b})
    BY <2>2, <2>3, FS_AddElement
  <2>5. IsFiniteSet({a, b, c})
    BY <2>3, <2>4, FS_AddElement
  <2>6. IsFiniteSet({a, b, c, d})
    BY <2>3, <2>5, FS_AddElement
  <2> QED BY <2>3, <2>6, FS_AddElement
<1> QED BY <1>1, <1>2, FS_Union

\* The severities of the rules, and their scores: the less severe, the less.
LEMMA SeveritiesRank ==
    /\ \A s \in Severe : RankOf(s) \in 1 .. 3 /\ Score[s] \in Nat
    /\ \A s, t \in Severe : RankOf(s) >= RankOf(t) => Score[s] <= Score[t]
    /\ \A n \in 1 .. 4 : RankOf(Levels[n]) = n
<1>1. Score["high"] = 100 /\ Score["medium"] = 50 /\ Score["low"] = 10
  BY DEF Score
<1>2. \A n \in 1 .. 4 : n = 1 \/ n = 2 \/ n = 3 \/ n = 4
  OBVIOUS
<1> QED BY <1>1, <1>2, Ranks DEF Severe

LEMMA SettingsKnown ==
    ASSUME RiskInv, NEW k \in RuleKeys
    PROVE  rule_map[k].enabled \in BOOLEAN /\ rule_map[k].severity \in Severe
<1>1. CASE k \in DOMAIN settings
  <2>1. rule_map[k] = settings[k]
    BY <1>1 DEF rule_map
  <2> QED BY <1>1, <2>1 DEF RiskInv, IsSetting
<1>2. CASE k \notin DOMAIN settings
  <2>1. rule_map[k] = [enabled |-> TRUE, severity |-> Definitions[k].severity]
    BY <1>2 DEF rule_map
  <2>2. Definitions[k].severity \in Severe
    BY DEF RuleKeys, Definitions, Rule, Severe
  <2> QED BY <2>1, <2>2
<1> QED BY <1>1, <1>2

\* Fewer and less severe risks make a card that is less severe and scores less.
IsItem(item) == item.severity \in Severe /\ item.times \in Nat
Calmer(item, before) == item.times = before.times /\ RankOf(item.severity) >= RankOf(before.severity)
IsItems(items) == DOMAIN items \subseteq RuleKeys /\ \A k \in DOMAIN items : IsItem(items[k])

LEMMA OverallIs ==
    ASSUME NEW items, IsItems(items)
    PROVE  /\ RankOf(overall(items)) \in 1 .. 4 /\ overall(items) \in Severe \cup {"ok"}
           /\ \A k \in DOMAIN items : RankOf(overall(items)) <= RankOf(items[k].severity)
           /\ DOMAIN items = {} => RankOf(overall(items)) = 4
           /\ DOMAIN items # {} => \E k \in DOMAIN items : RankOf(overall(items)) = RankOf(items[k].severity)
<1> DEFINE ranks == {RankOf(items[k].severity) : k \in DOMAIN items}
<1>1. \A k \in DOMAIN items : RankOf(items[k].severity) \in 1 .. 3
  BY SeveritiesRank DEF IsItems, IsItem
<1>2. CASE DOMAIN items = {}
  <2>1. overall(items) = "ok"
    BY <1>2 DEF overall
  <2> QED BY <1>2, <2>1, Ranks
<1>3. CASE DOMAIN items # {}
  <2>1. ranks \in SUBSET (1 .. 3) /\ ranks # {}
    BY <1>1, <1>3
  <2>2. \E x \in ranks : \A y \in ranks : x <= y
    <3>1. ranks \in SUBSET Nat
      BY <2>1
    <3> HIDE DEF ranks
    <3> QED BY <2>1, <3>1, Least
  <2>3. Min(ranks) \in ranks /\ \A y \in ranks : Min(ranks) <= y
    <3> HIDE DEF ranks
    <3> QED BY <2>2 DEF Min
  <2>4. overall(items) = Levels[Min(ranks)]
    BY <1>3 DEF overall
  <2>5. RankOf(overall(items)) = Min(ranks) /\ Min(ranks) \in 1 .. 3 /\ overall(items) \in Severe
    <3>1. Min(ranks) \in 1 .. 3
      BY <2>1, <2>3
    <3>2. \A n \in 1 .. 3 : RankOf(Levels[n]) = n
      BY SeveritiesRank
    <3>3. RankOf(Levels[Min(ranks)]) = Min(ranks)
      BY <3>1, <3>2
    <3>4. \A n \in 1 .. 3 : Levels[n] \in Severe
      BY Ranks DEF Severe
    <3> QED BY <2>4, <3>1, <3>3, <3>4
  <2>6. \A k \in DOMAIN items : RankOf(items[k].severity) \in ranks
    OBVIOUS
  <2>7. \A r \in ranks : \E k \in DOMAIN items : r = RankOf(items[k].severity)
    OBVIOUS
  <2> HIDE DEF ranks
  <2> QED BY <1>3, <2>3, <2>5, <2>6, <2>7
<1> QED BY <1>2, <1>3

LEMMA CalmerCards ==
    ASSUME NEW new, NEW old, IsItems(new), IsItems(old), DOMAIN new \subseteq DOMAIN old,
           \A k \in DOMAIN new : Calmer(new[k], old[k])
    PROVE  RankOf(overall(new)) >= RankOf(overall(old)) /\ risk_score(new) <= risk_score(old)
<1>1. RankOf(overall(new)) >= RankOf(overall(old))
  <2>1. RankOf(overall(new)) \in 1 .. 4 /\ RankOf(overall(old)) \in 1 .. 4
    BY OverallIs
  <2>2. CASE DOMAIN new = {}
    BY <2>1, <2>2, OverallIs
  <2>3. CASE DOMAIN new # {}
    <3>1. PICK k \in DOMAIN new : RankOf(overall(new)) = RankOf(new[k].severity)
      BY <2>3, OverallIs
    <3>2. RankOf(overall(old)) <= RankOf(old[k].severity) /\ RankOf(new[k].severity) >= RankOf(old[k].severity)
      BY OverallIs DEF Calmer
    <3>3. RankOf(new[k].severity) \in Nat /\ RankOf(old[k].severity) \in Nat
      BY SeveritiesRank DEF IsItems, IsItem
    <3> QED BY <2>1, <3>1, <3>2, <3>3
  <2> QED BY <2>2, <2>3
<1> DEFINE f == [k \in DOMAIN new |-> new[k].times * Score[new[k].severity]]
           g == [k \in DOMAIN old |-> old[k].times * Score[old[k].severity]]
<1>2. SumFunction(f) = SumOf(f, DOMAIN new) /\ SumFunction(g) = SumOf(g, DOMAIN old)
  BY DEF SumFunction, SumOf
<1>3. \A m, n \in Nat : m * n \in Nat
  OBVIOUS
<1>4. \A k \in DOMAIN new : f[k] \in Nat
  BY <1>3, SeveritiesRank DEF IsItems, IsItem
<1>5. \A k \in DOMAIN old : g[k] \in Nat
  BY <1>3, SeveritiesRank DEF IsItems, IsItem
<1>6. ASSUME NEW k \in DOMAIN new PROVE f[k] <= g[k]
  <2>1. \A m \in Nat, s, t \in {100, 50, 10} : s <= t => m * s <= m * t
    OBVIOUS
  <2>2. new[k].times = old[k].times /\ old[k].times \in Nat
    BY DEF IsItems, IsItem, Calmer
  <2>3. Score[new[k].severity] <= Score[old[k].severity]
    BY SeveritiesRank DEF IsItems, IsItem, Calmer
  <2>4. \A s \in Severe : Score[s] \in {100, 50, 10}
    BY DEF Severe, Score
  <2>5. Score[new[k].severity] \in {100, 50, 10} /\ Score[old[k].severity] \in {100, 50, 10}
    BY <2>4 DEF IsItems, IsItem
  <2>6. f[k] = old[k].times * Score[new[k].severity] /\ g[k] = old[k].times * Score[old[k].severity]
    BY <2>2
  <2> HIDE DEF f, g
  <2> QED BY <2>1, <2>2, <2>3, <2>5, <2>6
<1>7. IsFiniteSet(DOMAIN old)
  BY RuleKeysFinite, FS_Subset DEF IsItems
<1>8. IsFiniteSet(DOMAIN new)
  BY RuleKeysFinite, FS_Subset DEF IsItems
<1> HIDE DEF f, g
<1>9. SumOf(f, DOMAIN new) <= SumOf(g, DOMAIN old)
  BY <1>4, <1>5, <1>6, <1>7, SumGrows
<1>10. SumOf(f, DOMAIN new) \in Nat /\ SumOf(g, DOMAIN old) \in Nat
  BY <1>4, <1>5, <1>7, <1>8, SumParts
<1>11. risk_score(new) <= risk_score(old)
  <2>1. risk_score(new) = IF SumOf(f, DOMAIN new) < 999 THEN SumOf(f, DOMAIN new) ELSE 999
    BY <1>2 DEF risk_score, f
  <2>2. risk_score(old) = IF SumOf(g, DOMAIN old) < 999 THEN SumOf(g, DOMAIN old) ELSE 999
    BY <1>2 DEF risk_score, g
  <2> QED BY <1>9, <1>10, <2>1, <2>2
<1> QED BY <1>1, <1>11

\* What the rules find is found in the facts and the rows, whatever the settings.
LEMMA FoundIs ==
    ASSUME RiskInv
    PROVE  \A i \in Monitored : DOMAIN found(i) = RuleKeys /\ \A k \in RuleKeys : found(i)[k] \in Nat
<1> SUFFICES ASSUME NEW i \in Monitored PROVE DOMAIN found(i) = RuleKeys /\ \A k \in RuleKeys : found(i)[k] \in Nat
  OBVIOUS
<1>1. sqlserver_issues(i) \in Nat
  <2> DEFINE here == secondaries(i)
             abnormal == {r \in here : r.abnormal}
             databases == {d \in databaseRows : \E r \in here : d.cluster = r.cluster /\ d.ag = r.ag /\ d.server = r.server}
  <2>1. abnormal \in SUBSET replicaRows /\ databases \in SUBSET databaseRows
    BY DEF secondaries
  <2>2. Cardinality(abnormal) \in Nat
    <3> HIDE DEF abnormal
    <3> QED BY <2>1, FS_Subset, FS_CardinalityType DEF RiskInv
  <2>3. Cardinality(databases) \in Nat
    <3> HIDE DEF databases
    <3> QED BY <2>1, FS_Subset, FS_CardinalityType DEF RiskInv
  <2>4. sqlserver_issues(i) = Cardinality(abnormal) + Cardinality(databases)
    BY DEF sqlserver_issues
  <2> HIDE DEF abnormal, databases
  <2> QED BY <2>2, <2>3, <2>4
<1> DEFINE f == facts[i]
           metrics == backup_risks(f) \cup capacity_risks(f) \cup audit_risks(f) \cup access_risks(f)
                      \cup task_risks(f) \cup mysql_issues(f)
<1>2. found(i) = [k \in RuleKeys |-> (IF k \in metrics THEN 1 ELSE 0)
                                     + (IF k = "cluster_abnormal" THEN sqlserver_issues(i) ELSE 0)]
  BY DEF found
<1> HIDE DEF metrics
<1> QED BY <1>1, <1>2

ItemsKnown == \A i \in Monitored : IsItems(risk_items(i))

LEMMA ItemsAre == RiskInv => ItemsKnown
<1> SUFFICES ASSUME RiskInv, NEW i \in Monitored PROVE IsItems(risk_items(i))
  BY DEF ItemsKnown
<1>1. DOMAIN risk_items(i) \subseteq RuleKeys
  BY DEF risk_items
<1>2. ASSUME NEW k \in DOMAIN risk_items(i) PROVE IsItem(risk_items(i)[k])
  <2>1. risk_items(i)[k] = Item(k, found(i)[k])
    BY <1>2 DEF risk_items
  <2>2. found(i)[k] \in Nat /\ rule_map[k].severity \in Severe
    BY <1>1, FoundIs, SettingsKnown
  <2> QED BY <2>1, <2>2 DEF IsItem, Item
<1> QED BY <1>1, <1>2 DEF IsItems

LEMMA RulesStay ==
    ASSUME RiskInv, RiskNext, settings' # settings
    PROVE  update_rules
BY DEF RiskNext, Stores, DayPasses, ReplicaSynced, TopologySynced

LEMMA RiskInductive ==
    ASSUME RiskInv, [RiskNext]_riskVars
    PROVE  RiskInv'
<1>1. CASE update_rules
  <2>1. PICK k \in RuleKeys, on \in BOOLEAN, severity \in Severities :
            settings' = [r \in DOMAIN settings \cup {k} |->
                           IF r = k THEN [enabled |-> on, severity |-> severity] ELSE settings[r]]
    BY <1>1 DEF update_rules
  <2>2. severity \in Severe
    BY RiskAssumption DEF Severe
  <2>3. DOMAIN settings' = {k} \cup DOMAIN settings
    BY <2>1
  <2>4. \A q \in DOMAIN settings' : settings'[q] = IF q = k THEN [enabled |-> on, severity |-> severity] ELSE settings[q]
    BY <2>1, <2>3
  <2>5. \A q \in DOMAIN settings' : IsSetting(settings'[q])
    BY <2>2, <2>3, <2>4 DEF RiskInv, IsSetting
  <2>6. replicaRows' = replicaRows /\ databaseRows' = databaseRows
    BY <1>1 DEF update_rules
  <2> QED BY <2>3, <2>5, <2>6 DEF RiskInv
<1>2. CASE ReplicaSynced
  <2>1. PICK c \in DOMAIN Cluster, server \in UNION Range(Named), secondary, abnormal, broken \in BOOLEAN :
          /\ replicaRows' = {r \in replicaRows : r.cluster # c} \cup
                {[cluster |-> c, ag |-> "ag", server |-> server, secondary |-> secondary, abnormal |-> abnormal]}
          /\ databaseRows' = {d \in databaseRows : d.cluster # c} \cup
                (IF broken THEN {[cluster |-> c, ag |-> "ag", server |-> server]} ELSE {})
    BY <1>2 DEF ReplicaSynced
  <2>2. IsFiniteSet({r \in replicaRows : r.cluster # c}) /\ IsFiniteSet({d \in databaseRows : d.cluster # c})
    <3>1. {r \in replicaRows : r.cluster # c} \in SUBSET replicaRows
      OBVIOUS
    <3>2. {d \in databaseRows : d.cluster # c} \in SUBSET databaseRows
      OBVIOUS
    <3> QED BY <3>1, <3>2, FS_Subset DEF RiskInv
  <2>3. \A x : IsFiniteSet({x}) /\ IsFiniteSet({})
    BY FS_Singleton, FS_EmptySet
  <2>4. IsFiniteSet(replicaRows')
    BY <2>1, <2>2, <2>3, FS_Union
  <2>5. IsFiniteSet(databaseRows')
    <3>1. IsFiniteSet(IF broken THEN {[cluster |-> c, ag |-> "ag", server |-> server]} ELSE {})
      BY <2>3
    <3> QED BY <2>1, <2>2, <3>1, FS_Union
  <2>6. settings' = settings
    BY <1>2 DEF ReplicaSynced
  <2> QED BY <2>4, <2>5, <2>6 DEF RiskInv
<1>3. CASE Stores \/ DayPasses \/ TopologySynced \/ UNCHANGED riskVars
  <2>1. settings' = settings /\ replicaRows' = replicaRows /\ databaseRows' = databaseRows
    BY <1>3 DEF Stores, DayPasses, TopologySynced, riskVars
  <2> QED BY <2>1 DEF RiskInv
<1> QED BY <1>1, <1>2, <1>3 DEF RiskNext

LEMMA RiskStarts == RiskInit => RiskInv
<1> SUFFICES ASSUME RiskInit PROVE RiskInv
  OBVIOUS
<1>1. settings = << >> /\ replicaRows = {} /\ databaseRows = {}
  BY DEF RiskInit
<1>2. DOMAIN settings = {}
  BY <1>1
<1> QED BY <1>1, <1>2, FS_EmptySet DEF RiskInv

Calms == settings' # settings /\ (\A k \in RuleKeys : Weaker(rule_map'[k], rule_map[k])) =>
         \A i \in Monitored : RankOf(card(i)'.severity) >= RankOf(card(i).severity) /\ card(i)'.score <= card(i).score

LEMMA StepCalms ==
    ASSUME RiskInv, ItemsKnown, ItemsKnown', RiskNext
    PROVE  Calms
<1> SUFFICES ASSUME settings' # settings, \A k \in RuleKeys : Weaker(rule_map'[k], rule_map[k]), NEW i \in Monitored
             PROVE  RankOf(card(i)'.severity) >= RankOf(card(i).severity) /\ card(i)'.score <= card(i).score
  BY DEF Calms
<1>1. facts' = facts /\ replicaRows' = replicaRows /\ databaseRows' = databaseRows
  BY RulesStay DEF update_rules
<1>2. found(i)' = found(i)
  BY <1>1 DEF found, sqlserver_issues, secondaries
<1>3. IsItems(risk_items(i)) /\ IsItems(risk_items(i)')
  BY DEF ItemsKnown
<1>4. DOMAIN risk_items(i) = {r \in RuleKeys : found(i)[r] > 0 /\ rule_map[r].enabled}
  BY DEF risk_items
<1>5. DOMAIN risk_items(i)' = {r \in RuleKeys : found(i)[r] > 0 /\ rule_map'[r].enabled}
  BY <1>2 DEF risk_items
<1>6. \A k \in RuleKeys : rule_map'[k].enabled => rule_map[k].enabled /\ RankOf(rule_map'[k].severity) >= RankOf(rule_map[k].severity)
  BY DEF Weaker
<1>7. DOMAIN risk_items(i)' \subseteq DOMAIN risk_items(i)
  BY <1>4, <1>5, <1>6
<1>8. ASSUME NEW k \in DOMAIN risk_items(i)' PROVE Calmer(risk_items(i)'[k], risk_items(i)[k])
  <2>1. risk_items(i)[k] = [severity |-> rule_map[k].severity, times |-> found(i)[k]]
    BY <1>7, <1>8 DEF risk_items, Item
  <2>2. risk_items(i)'[k] = [severity |-> rule_map'[k].severity, times |-> found(i)[k]]
    BY <1>2, <1>8 DEF risk_items, Item
  <2> QED BY <1>5, <1>6, <2>1, <2>2 DEF Calmer
<1>9. RankOf(overall(risk_items(i)')) >= RankOf(overall(risk_items(i))) /\ risk_score(risk_items(i)') <= risk_score(risk_items(i))
  BY <1>3, <1>7, <1>8, CalmerCards
<1>10. card(i).severity = overall(risk_items(i)) /\ card(i).score = risk_score(risk_items(i))
  BY DEF card
<1>11. card(i)'.severity = overall(risk_items(i)') /\ card(i)'.score = risk_score(risk_items(i)')
  BY DEF card
<1> QED BY <1>9, <1>10, <1>11

\* Switching rules off or making them less severe makes no card more severe and lets none score more
\* (_apply_rule_settings, _resolve_overall_severity and the sum of _build_card, for any instances and rows).
THEOREM WeakerRulesAreCalm == RiskSpec => WeakerRulesCalm
<1>1. RiskInit => RiskInv
  BY RiskStarts
<1>2. RiskInv /\ [RiskNext]_riskVars => RiskInv'
  BY RiskInductive
<1>3. RiskInv => ItemsKnown
  BY ItemsAre
<1>4. RiskInv /\ ItemsKnown /\ ItemsKnown' /\ [RiskNext]_riskVars => [Calms]_riskVars
  BY StepCalms
<1>5. RiskSpec => [][Calms]_riskVars
  BY <1>1, <1>2, <1>3, <1>4, PTL DEF RiskSpec
<1> QED BY <1>5 DEF WeakerRulesCalm, Calms

----------------------------------------------------------------------------
(* The topology: what the last synchronisation that got through has stored *)
(* is what the risk center and the page of the clusters tell.              *)

Failing == {i \in Members : facts[i].replication = "failed"}
TopologyInv ==
    /\ DOMAIN facts = Monitored
    /\ \A i \in Monitored : {"role", "replication", "lag"} \subseteq DOMAIN facts[i]
    /\ \A i \in Monitored : is_replica_lag_abnormal(facts[i]) => facts[i].replication = "unhealthy"
    /\ topology.status # "never" =>
          topology.failed = Cardinality(Failing) /\ ((topology.status = "failed") = (Failing = Members))

LEMMA DetectionTells ==
    ASSUME NEW a
    PROVE  LET b == apply_detection(detect(a))
           IN b.replication # "failed" /\ (is_replica_lag_abnormal(b) => b.replication = "unhealthy")
<1> DEFINE b == detect(a)
<1>1. b = Binding(b.role, b.replication, b.lag) /\ b.replication \in {"unknown", "healthy", "unhealthy"}
  BY DEF detect, replica_status, non_replica, Binding
<1> HIDE DEF b
<1>2. CASE is_replica_lag_abnormal(b)
  <2>1. apply_detection(b) = [b EXCEPT !.replication = "unhealthy"]
    BY <1>2 DEF apply_detection
  <2>2. apply_detection(b).replication = "unhealthy"
    BY <1>1, <2>1 DEF Binding
  <2> QED BY <2>2 DEF b
<1>3. CASE ~is_replica_lag_abnormal(b)
  <2>1. apply_detection(b) = b
    BY <1>3 DEF apply_detection
  <2> QED BY <1>1, <1>3, <2>1 DEF b
<1> QED BY <1>2, <1>3

\* What an action does not touch of the instances stays told.
SameStatus ==
    /\ DOMAIN facts' = Monitored
    /\ \A i \in Monitored :
          /\ {"role", "replication", "lag"} \subseteq DOMAIN facts'[i]
          /\ facts'[i].role = facts[i].role /\ facts'[i].replication = facts[i].replication
          /\ facts'[i].lag = facts[i].lag

LEMMA StatusKept ==
    ASSUME TopologyInv, SameStatus, topology' = topology
    PROVE  TopologyInv'
<1>1. Members \subseteq Monitored
  BY DEF Members
<1>2. Failing' = Failing
  BY <1>1 DEF Failing, SameStatus
<1>3. \A i \in Monitored : is_replica_lag_abnormal(facts'[i]) => facts'[i].replication = "unhealthy"
  BY DEF SameStatus, TopologyInv, is_replica_lag_abnormal
<1> QED BY <1>2, <1>3 DEF TopologyInv, SameStatus

LEMMA TopologyStarts == RiskInit => TopologyInv
<1> SUFFICES ASSUME RiskInit PROVE TopologyInv
  OBVIOUS
<1>1. \A i \in Monitored : facts[i] = Fine
  BY DEF RiskInit
<1>2. {"role", "replication", "lag"} \subseteq DOMAIN Fine /\ ~is_replica_lag_abnormal(Fine)
  BY DEF Fine, is_replica_lag_abnormal
<1> QED BY <1>1, <1>2 DEF RiskInit, TopologyInv

LEMMA TopologyInductive ==
    ASSUME TopologyInv, [RiskNext]_riskVars
    PROVE  TopologyInv'
<1>0. IsFiniteSet(Members) /\ Members \subseteq Monitored
  <2>1. Members \in SUBSET Monitored
    BY DEF Members
  <2> QED BY <2>1, FS_Subset, RiskAssumption
<1>1. CASE TopologySynced
  <2>1. PICK told \in [Members -> Answers] : sync_topology(told)
    BY <1>1 DEF TopologySynced
  <2> DEFINE failed == {i \in Members : told[i].state = "refused"}
             kept == [i \in Members |->
                          apply_detection(IF i \in failed THEN Binding("unknown", "failed", "none") ELSE detect(told[i]))]
  <2>2. CASE \E i \in Members : told[i].state = "down"
    <3>1. facts' = facts /\ topology' = topology
      BY <2>1, <2>2 DEF sync_topology
    <3> QED BY <3>1 DEF TopologyInv, Failing
  <2>3. CASE ~(\E i \in Members : told[i].state = "down")
    <3>1. /\ facts' = [i \in Monitored |-> IF i \notin Members THEN facts[i]
                         ELSE [facts[i] EXCEPT !.role = kept[i].role, !.replication = kept[i].replication,
                                               !.lag = kept[i].lag]]
          /\ topology' = [status |-> IF failed = Members THEN "failed" ELSE "completed", failed |-> Cardinality(failed)]
      BY <2>1, <2>3 DEF sync_topology
    <3>2. ASSUME NEW i \in Members
          PROVE  /\ (kept[i].replication = "failed") = (i \in failed)
                 /\ is_replica_lag_abnormal(kept[i]) => kept[i].replication = "unhealthy"
      <4>1. CASE i \in failed
        <5>1. kept[i] = apply_detection(Binding("unknown", "failed", "none"))
          BY <4>1
        <5>2. apply_detection(Binding("unknown", "failed", "none")) = Binding("unknown", "failed", "none")
          BY DEF apply_detection, Binding, is_replica_lag_abnormal
        <5> QED BY <4>1, <5>1, <5>2 DEF Binding, is_replica_lag_abnormal
      <4>2. CASE i \notin failed
        <5>1. kept[i] = apply_detection(detect(told[i]))
          BY <4>2
        <5> QED BY <4>2, <5>1, DetectionTells
      <4> QED BY <4>1, <4>2
    <3> HIDE DEF kept
    <3>3. ASSUME NEW i \in Members
          PROVE  /\ DOMAIN facts'[i] = DOMAIN facts[i]
                 /\ facts'[i].role = kept[i].role /\ facts'[i].replication = kept[i].replication
                 /\ facts'[i].lag = kept[i].lag
      <4>1. {"role", "replication", "lag"} \subseteq DOMAIN facts[i]
        BY <1>0 DEF TopologyInv
      <4>2. facts'[i] = [facts[i] EXCEPT !.role = kept[i].role, !.replication = kept[i].replication,
                                         !.lag = kept[i].lag]
        BY <1>0, <3>1
      <4> QED BY <4>1, <4>2
    <3>4. ASSUME NEW i \in Monitored
          PROVE  /\ {"role", "replication", "lag"} \subseteq DOMAIN facts'[i]
                 /\ is_replica_lag_abnormal(facts'[i]) => facts'[i].replication = "unhealthy"
      <4>1. CASE i \in Members
        BY <3>2, <3>3, <4>1 DEF TopologyInv, is_replica_lag_abnormal
      <4>2. CASE i \notin Members
        <5>1. facts'[i] = facts[i]
          BY <3>1, <4>2
        <5> QED BY <5>1 DEF TopologyInv, is_replica_lag_abnormal
      <4> QED BY <4>1, <4>2
    <3>5. Failing' = failed
      BY <3>2, <3>3 DEF Failing, Members
    <3>6. topology'.failed = Cardinality(failed) /\ ((topology'.status = "failed") = (failed = Members))
      BY <3>1
    <3>7. DOMAIN facts' = Monitored
      BY <3>1
    <3> HIDE DEF failed
    <3> QED BY <3>4, <3>5, <3>6, <3>7 DEF TopologyInv, Members
  <2> QED BY <2>2, <2>3
<1>2. CASE Stores
  <2>1. topology' = topology
    BY <1>2 DEF Stores
  <2>2. PICK i \in Monitored :
          \/ \E b \in {"fresh", "missing"} : facts' = [facts EXCEPT ![i].backup = b]
          \/ \E g \in {0, 29, 30, 59, 60} : facts' = [facts EXCEPT ![i].growth = g]
          \/ \E b \in BOOLEAN : facts' = [facts EXCEPT ![i].sized = b]
          \/ \E a \in {"enabled", "disabled", "none"} : facts' = [facts EXCEPT ![i].audit = a]
          \/ \E n \in 0 .. 1 : facts' = [facts EXCEPT ![i].superusers = n]
          \/ facts' = [facts EXCEPT ![i].changed = TRUE]
          \/ facts' = [facts EXCEPT ![i].failed = TRUE]
          \/ facts' = [facts EXCEPT ![i].active = ~@]
    BY <1>2 DEF Stores
  <2>3. \E field \in {"backup", "growth", "sized", "audit", "superusers", "changed", "failed", "active"} : \E v :
           facts' = [facts EXCEPT ![i] = [facts[i] EXCEPT ![field] = v]]
    BY <2>2
  <2>4. SameStatus
    BY <2>3 DEF SameStatus, TopologyInv
  <2> QED BY <2>1, <2>4, StatusKept
<1>3. CASE DayPasses
  <2>1. topology' = topology
    BY <1>3 DEF DayPasses
  <2>2. SameStatus
    BY <1>3 DEF SameStatus, TopologyInv, DayPasses
  <2> QED BY <2>1, <2>2, StatusKept
<1>4. CASE ReplicaSynced \/ update_rules \/ UNCHANGED riskVars
  <2>1. facts' = facts /\ topology' = topology
    BY <1>4 DEF ReplicaSynced, update_rules, riskVars
  <2> QED BY <2>1 DEF TopologyInv, Failing
<1> QED BY <1>1, <1>2, <1>3, <1>4 DEF RiskNext

LEMMA ToldByTopology == TopologyInv => TopologyTold
<1> SUFFICES ASSUME TopologyInv PROVE TopologyTold
  OBVIOUS
<1> DEFINE risky == {i \in Members : mysql_issues(facts[i]) # {}}
           abnormal == {i \in Members : is_binding_abnormal(facts[i])}
           replicas == {i \in Members : facts[i].role = "replica"}
           unknown == {i \in replicas : facts[i].lag = "none"}
<1>1. IsFiniteSet(Members) /\ Members \subseteq Monitored
  <2>1. Members \in SUBSET Monitored
    BY DEF Members
  <2> QED BY <2>1, FS_Subset, RiskAssumption
<1>2. \A i \in Members : mysql_issues(facts[i]) # {} <=>
          facts[i].replication # "healthy" /\ (facts[i].role = "replica" \/ facts[i].replication = "failed")
  BY DEF mysql_issues, When
<1>3. \A i \in risky : is_binding_abnormal(facts[i])
  BY <1>2 DEF is_binding_abnormal
<1>4. \A i \in Members : facts[i].role = "replica" /\ is_binding_abnormal(facts[i]) => i \in risky
  BY <1>1, <1>2 DEF is_binding_abnormal, TopologyInv
<1>5. \A i \in Members : bound_instance(i).status = facts[i].replication
  BY <1>1 DEF bound_instance, TopologyInv
<1>6. risky \subseteq abnormal /\ abnormal \subseteq Members /\ unknown \subseteq replicas /\ replicas \subseteq Members
  BY <1>3
<1>7. IsFiniteSet(abnormal) /\ IsFiniteSet(replicas)
  BY <1>1, <1>6, FS_Subset
<1>8. Cardinality(risky) <= Cardinality(abnormal)
  <2> HIDE DEF risky, abnormal
  <2> QED BY <1>6, <1>7, FS_Subset
<1>9. Cardinality(unknown) <= Cardinality(replicas) /\ Cardinality(replicas) <= Cardinality(Members)
  <2> HIDE DEF unknown, replicas
  <2> QED BY <1>1, <1>6, <1>7, FS_Subset
<1>10. (\E i \in replicas : facts[i].lag = "over") => Cardinality(abnormal) > 0
  <2>1. ASSUME NEW i \in replicas, facts[i].lag = "over" PROVE abnormal # {}
    BY <2>1 DEF is_binding_abnormal, is_replica_lag_abnormal
  <2>2. abnormal # {} => Cardinality(abnormal) > 0
    <3> HIDE DEF abnormal
    <3> QED BY <1>7, FS_EmptySet, FS_CardinalityType
  <2> QED BY <2>1, <2>2
<1>11. topology.status # "never" =>
          /\ topology.failed = Cardinality(Failing)
          /\ (topology.status = "failed") = (topology.failed = Cardinality(Members))
  <2>1. Failing \in SUBSET Members
    BY DEF Failing
  <2>2. (Failing = Members) <=> (Cardinality(Failing) = Cardinality(Members))
    BY <1>1, <2>1, FS_Subset
  <2> QED BY <2>2 DEF TopologyInv
<1>12. /\ cluster_summary.abnormal_replica_count = Cardinality(abnormal)
       /\ cluster_summary.unknown_replica_lag_count = Cardinality(unknown)
       /\ cluster_summary.replica_count = Cardinality(replicas)
       /\ cluster_summary.instance_count = Cardinality(Members)
       /\ cluster_summary.lag_over <=> \E i \in replicas : facts[i].lag = "over"
  BY DEF cluster_summary
<1> HIDE DEF abnormal, unknown, replicas
<1> QED BY <1>3, <1>4, <1>5, <1>8, <1>9, <1>10, <1>11, <1>12 DEF TopologyTold, Failing

----------------------------------------------------------------------------
(* The backups                                                             *)

\* Of numbers there is a largest one below a bound.
LEMMA Greatest ==
    ASSUME NEW T \in SUBSET Nat, T # {}, NEW b \in Nat, \A x \in T : x <= b
    PROVE  \E x \in T : \A y \in T : y <= x
<1> DEFINE D == {b - x : x \in T}
<1>1. D \in SUBSET Nat /\ D # {}
  <2>1. \A x \in T : b - x \in Nat
    OBVIOUS
  <2>2. D \in SUBSET Nat
    BY <2>1
  <2>3. D # {}
    <3>1. PICK x \in T : TRUE
      OBVIOUS
    <3>2. b - x \in D
      OBVIOUS
    <3> QED BY <3>2
  <2> QED BY <2>2, <2>3
<1>2. PICK d \in D : \A e \in D : d <= e
  <2> HIDE DEF D
  <2> QED BY <1>1, Least
<1>3. PICK x \in T : d = b - x
  OBVIOUS
<1>4. \A y \in T : b - x <= b - y
  BY <1>2, <1>3
<1>5. \A y \in T : y \in Nat /\ x \in Nat
  OBVIOUS
<1> HIDE DEF D
<1>6. \A y \in T : y <= x
  BY <1>4, <1>5
<1> QED BY <1>6

\* The image of a finite set is finite.
LEMMA ImageFinite ==
    ASSUME NEW S, IsFiniteSet(S), NEW f, DOMAIN f = S
    PROVE  IsFiniteSet({f[x] : x \in S})
<1> DEFINE T == {f[x] : x \in S}
           g == [x \in S |-> f[x]]
<1>1. g \in Surjection(S, T)
  BY DEF Surjection
<1> HIDE DEF g, T
<1>2. IsFiniteSet(T)
  BY <1>1, FS_Surjection
<1> QED BY <1>2 DEF T

----------------------------------------------------------------------------
(* Records in the order they are written in.                               *)

Keyed(records) ==
    /\ \A r \in records : r.at \in Nat /\ r.object \in Nat
    /\ \A r, q \in records : r.at = q.at /\ r.object = q.object => r = q

LEMMA OldestIn ==
    ASSUME NEW s, s # {}, Keyed(s)
    PROVE  Oldest(s) \in s
<1> DEFINE times == {r.at : r \in s}
<1>1. times \in SUBSET Nat /\ times # {}
  BY DEF Keyed
<1>2. PICK t \in times : \A u \in times : t <= u
  <2> HIDE DEF times
  <2> QED BY <1>1, Least
<1> DEFINE first == {r.object : r \in {q \in s : q.at = t}}
<1>3. first \in SUBSET Nat /\ first # {}
  BY DEF Keyed
<1>4. PICK o \in first : \A u \in first : o <= u
  <2> HIDE DEF first
  <2> QED BY <1>3, Least
<1>5. PICK r \in s : r.at = t /\ r.object = o
  OBVIOUS
<1>6. ASSUME NEW q \in s \ {r} PROVE Later(q, r)
  <2>1. t <= q.at /\ q.at \in Nat /\ q.object \in Nat /\ r.at \in Nat /\ r.object \in Nat
    BY <1>2 DEF Keyed
  <2>2. CASE q.at = t
    <3>1. q.object \in first
      BY <2>2
    <3>2. o <= q.object
      BY <1>4, <3>1
    <3>3. q.object # r.object
      BY <1>5, <2>2 DEF Keyed
    <3> QED BY <1>5, <2>1, <2>2, <3>2, <3>3 DEF Later
  <2>3. CASE q.at # t
    BY <1>5, <2>1, <2>3 DEF Later
  <2> QED BY <2>2, <2>3
<1> QED BY <1>6 DEF Oldest

AppliedTo(g, loaded, next, s) ==
    IF s = {} THEN [rows |-> loaded, doomed |-> {}, kept |-> {}, next |-> next]
    ELSE Applied(loaded, g[s \ {Oldest(s)}], Oldest(s))
Applies(g, loaded, next, S) == g = [s \in SUBSET S |-> AppliedTo(g, loaded, next, s)]

LEMMA AppliedIs ==
    ASSUME NEW loaded, NEW S, NEW next
    PROVE  AllApplied(loaded, S, next) = (CHOOSE g : Applies(g, loaded, next, S))[S]
BY DEF AllApplied, MapThenFoldSet, Applies, AppliedTo

\* There is a function that applies them one after the other.
LEMMA AppliesExists ==
    ASSUME NEW S, IsFiniteSet(S), Keyed(S), NEW loaded, NEW next
    PROVE  \E g : Applies(g, loaded, next, S)
<1> DEFINE Upto(g, n) == \A s \in SUBSET S : Cardinality(s) < n => g[s] = AppliedTo(g, loaded, next, s)
           Bad == {n \in Nat : \A g : ~Upto(g, n)}
<1>0. \A s \in SUBSET S : Cardinality(s) \in Nat
  BY FS_Subset, FS_CardinalityType
<1>1. ASSUME NEW n \in Nat, NEW g, Upto(g, n) PROVE \E h : h = [s \in SUBSET S |-> AppliedTo(g, loaded, next, s)] /\ Upto(h, n + 1)
  <2> DEFINE h == [s \in SUBSET S |-> AppliedTo(g, loaded, next, s)]
  <2>1. ASSUME NEW s \in SUBSET S, Cardinality(s) < n + 1 PROVE h[s] = AppliedTo(h, loaded, next, s)
    <3>1. CASE s = {}
      BY <3>1 DEF AppliedTo
    <3>2. CASE s # {}
      <4> DEFINE t == s \ {Oldest(s)}
      <4>1. Oldest(s) \in s /\ t \in SUBSET S
        <5>1. Keyed(s)
          BY DEF Keyed
        <5> QED BY <3>2, <5>1, OldestIn
      <4>2. Cardinality(t) < n
        <5>1. IsFiniteSet(s)
          BY FS_Subset
        <5>2. Cardinality(t) = Cardinality(s) - 1
          BY <4>1, <5>1, FS_RemoveElement
        <5> QED BY <1>0, <2>1, <5>2
      <4>3. h[t] = g[t]
        BY <1>1, <4>1, <4>2
      <4> HIDE DEF t
      <4>4. h[s] = Applied(loaded, g[t], Oldest(s))
        BY <3>2 DEF AppliedTo, t
      <4>5. AppliedTo(h, loaded, next, s) = Applied(loaded, h[t], Oldest(s))
        BY <3>2 DEF AppliedTo, t
      <4> QED BY <4>3, <4>4, <4>5
    <3> QED BY <3>1, <3>2
  <2> HIDE DEF h
  <2>2. Upto(h, n + 1)
    BY <2>1
  <2> QED BY <2>2 DEF h
<1>2. Bad = {}
  <2> SUFFICES ASSUME Bad # {} PROVE FALSE
    OBVIOUS
  <2>1. PICK n \in Bad : \A m \in Bad : n <= m
    <3>1. Bad \in SUBSET Nat
      OBVIOUS
    <3> HIDE DEF Bad
    <3> QED BY <3>1, Least
  <2>2. n # 0
    <3>1. Upto(<< >>, 0)
      BY <1>0
    <3> HIDE DEF Upto
    <3> QED BY <2>1, <3>1
  <2>3. n - 1 \in Nat /\ n - 1 \notin Bad
    <3>1. n \in Nat
      BY <2>1
    <3>2. n - 1 \in Nat /\ ~(n <= n - 1)
      BY <2>2, <3>1
    <3> HIDE DEF Bad
    <3> QED BY <2>1, <3>2
  <2>4. PICK g : Upto(g, n - 1)
    <3> HIDE DEF Upto
    <3> QED BY <2>3
  <2>5. \E h : Upto(h, (n - 1) + 1)
    <3> HIDE DEF Upto
    <3> QED BY <1>1, <2>3, <2>4
  <2>6. (n - 1) + 1 = n
    BY <2>1
  <2> HIDE DEF Upto
  <2> QED BY <2>1, <2>5, <2>6
<1>3. Cardinality(S) + 1 \in Nat
  BY <1>0
<1>4. PICK g : Upto(g, Cardinality(S) + 1)
  <2> HIDE DEF Upto
  <2> QED BY <1>2, <1>3
<1> DEFINE h == [s \in SUBSET S |-> AppliedTo(g, loaded, next, s)]
<1>5. ASSUME NEW s \in SUBSET S PROVE h[s] = AppliedTo(h, loaded, next, s)
  <2>1. Upto(h, (Cardinality(S) + 1) + 1)
    <3> HIDE DEF Upto, h
    <3>1. PICK k : k = [s_1 \in SUBSET S |-> AppliedTo(g, loaded, next, s_1)] /\ Upto(k, (Cardinality(S) + 1) + 1)
      BY <1>1, <1>3, <1>4
    <3> QED BY <3>1 DEF h
  <2>2. Cardinality(s) <= Cardinality(S)
    BY FS_Subset
  <2>3. Cardinality(s) < (Cardinality(S) + 1) + 1
    BY <1>0, <2>2
  <2> HIDE DEF h
  <2> QED BY <2>1, <2>3
<1>6. h = [s \in SUBSET S |-> AppliedTo(h, loaded, next, s)]
  <2>1. DOMAIN h = SUBSET S /\ h = [s \in SUBSET S |-> h[s]]
    OBVIOUS
  <2> HIDE DEF h
  <2> QED BY <1>5, <2>1
<1>7. Applies(h, loaded, next, S)
  BY <1>6 DEF Applies
<1> QED BY <1>7

----------------------------------------------------------------------------
(* Names and addresses that go together.                                   *)

Unique(table) ==
    \A i, j \in DOMAIN table : i # j =>
        table[i].name # table[j].name /\ (table[i].ip # None => table[i].ip # table[j].ip)
Alike(r, q) == r.name = q.name \/ (r.ip # None /\ r.ip = q.ip)
SameKeys(r, q) == r.name = q.name /\ r.ip = q.ip

\* What is written, and the table it is written to.
Matching(table, W, next) ==
    /\ next \in Nat \ {0} /\ DOMAIN table \subseteq 1 .. (next - 1) /\ Unique(table)
    /\ IsFiniteSet(W) /\ Keyed(W)
    /\ \A r \in W : r.name # None
    /\ \A r, q \in W : Alike(r, q) => r = q
    /\ \A r \in W, i \in DOMAIN table : Alike(r, table[i]) => SameKeys(r, table[i])

\* A session that has applied the records of a set.
Session(table, next, s, t) ==
    /\ t = [rows |-> t.rows, doomed |-> {}, kept |-> t.kept, next |-> t.next]
    /\ t.next \in Nat /\ next <= t.next
    /\ DOMAIN t.rows \subseteq 1 .. (t.next - 1) /\ DOMAIN table \subseteq DOMAIN t.rows /\ t.kept \subseteq DOMAIN t.rows
    /\ \A id \in t.kept : t.rows[id] \in s
    /\ \A r \in s : \E id \in t.kept : t.rows[id] = r
    /\ \A id \in DOMAIN t.rows \ t.kept : id \in DOMAIN table /\ t.rows[id] = table[id]
    /\ \A id \in t.kept \cap DOMAIN table : SameKeys(t.rows[id], table[id])
    /\ Unique(t.rows)

LEMMA RowWithIs ==
    ASSUME NEW table, NEW i, NEW v, NEW column \in {"name", "ip"},
           {id \in DOMAIN table : table[id][column] = v} = {i}, v # None
    PROVE  RowWith(table, column, v) = i
BY DEF RowWith

LEMMA NoRowWith ==
    ASSUME NEW table, NEW v, NEW column \in {"name", "ip"},
           v = None \/ \A id \in DOMAIN table : table[id][column] # v
    PROVE  RowWith(table, column, v) = 0
BY DEF RowWith

LEMMA RecordApplied ==
    ASSUME NEW table, NEW W, NEW next, Matching(table, W, next),
           NEW s \in SUBSET W, NEW t, Session(table, next, s, t), NEW r \in W \ s
    PROVE  Session(table, next, s \cup {r}, Applied(table, t, r))
<1> DEFINE a == Applied(table, t, r)
           target == IF RowWith(table, "name", r.name) # 0 THEN RowWith(table, "name", r.name)
                     ELSE IF RowWith(table, "ip", r.ip) # 0 THEN RowWith(table, "ip", r.ip) ELSE t.next
           others == DOMAIN t.rows \ {target}
<1>1. r.name # None
  BY DEF Matching
<1>2. \A id \in t.kept : t.rows[id] # r /\ ~Alike(r, t.rows[id])
  BY DEF Matching, Session
<1>3. ASSUME a = [rows |-> [id \in DOMAIN t.rows \cup {target} |-> IF id = target THEN r ELSE t.rows[id]],
                  doomed |-> {}, kept |-> t.kept \cup {target},
                  next |-> IF target = t.next THEN target + 1 ELSE t.next],
             target \notin t.kept, target # 0,
             (target \in DOMAIN table /\ SameKeys(r, table[target])) \/ target = t.next,
             \A id \in DOMAIN table \ {target} : ~Alike(r, table[id])
      PROVE  Session(table, next, s \cup {r}, a)
  <2> HIDE DEF a, target
  <2>1. t.next \in Nat /\ next \in Nat /\ next <= t.next /\ t.next # 0
    <3>1. t.next \in Nat /\ next \in Nat /\ next <= t.next
      BY DEF Session, Matching
    <3>2. t.next # 0
      BY <3>1 DEF Matching
    <3> QED BY <3>1, <3>2
  <2>2. DOMAIN a.rows = DOMAIN t.rows \cup {target} /\ a.kept = t.kept \cup {target} /\ a.rows[target] = r
        /\ a.next = IF target = t.next THEN target + 1 ELSE t.next
    BY <1>3
  <2>3. \A id \in DOMAIN t.rows \ {target} : a.rows[id] = t.rows[id]
    BY <1>3
  <2>4. a = [rows |-> a.rows, doomed |-> {}, kept |-> a.kept, next |-> a.next]
    BY <1>3
  <2>5. a.next \in Nat /\ next <= a.next /\ DOMAIN a.rows \subseteq 1 .. (a.next - 1)
    <3>1. DOMAIN t.rows \subseteq 1 .. (t.next - 1) /\ DOMAIN table \subseteq DOMAIN t.rows
      BY DEF Session
    <3>2. CASE target = t.next
      BY <2>1, <2>2, <3>1, <3>2
    <3>3. CASE target # t.next
      BY <1>3, <2>1, <2>2, <3>1, <3>3
    <3> QED BY <3>2, <3>3
  <2>6. DOMAIN table \subseteq DOMAIN a.rows /\ a.kept \subseteq DOMAIN a.rows
    BY <2>2 DEF Session
  <2>7. \A id \in a.kept : a.rows[id] \in s \cup {r}
    BY <1>3, <2>2, <2>3 DEF Session
  <2>8. \A q \in s \cup {r} : \E id \in a.kept : a.rows[id] = q
    BY <1>3, <2>2, <2>3 DEF Session
  <2>9. \A id \in DOMAIN a.rows \ a.kept : id \in DOMAIN table /\ a.rows[id] = table[id]
    BY <2>2, <2>3 DEF Session
  <2>10. \A id \in a.kept \cap DOMAIN table : SameKeys(a.rows[id], table[id])
    <3>1. t.next \notin DOMAIN table
      BY <2>1 DEF Session
    <3> QED BY <1>3, <2>2, <2>3, <3>1 DEF Session
  <2>11. ASSUME NEW id \in DOMAIN a.rows \ {target} PROVE ~Alike(r, a.rows[id])
    <3>1. CASE id \in t.kept
      BY <1>2, <2>2, <2>3, <3>1
    <3>2. CASE id \notin t.kept
      <4>1. id \in DOMAIN table /\ a.rows[id] = table[id]
        BY <2>2, <2>9, <3>2
      <4> QED BY <1>3, <4>1
    <3> QED BY <3>1, <3>2
  <2>12. Unique(a.rows)
    <3> SUFFICES ASSUME NEW i \in DOMAIN a.rows, NEW j \in DOMAIN a.rows, i # j
                 PROVE  a.rows[i].name # a.rows[j].name /\ (a.rows[i].ip # None => a.rows[i].ip # a.rows[j].ip)
      BY DEF Unique
    <3>1. CASE i = target
      BY <2>2, <2>11, <3>1 DEF Alike
    <3>2. CASE j = target
      BY <2>2, <2>11, <3>2 DEF Alike
    <3>3. CASE i # target /\ j # target
      <4>1. i \in DOMAIN t.rows /\ j \in DOMAIN t.rows /\ a.rows[i] = t.rows[i] /\ a.rows[j] = t.rows[j]
        BY <2>2, <2>3, <3>3
      <4> QED BY <4>1 DEF Session, Unique
    <3> QED BY <3>1, <3>2, <3>3
  <2> QED BY <2>4, <2>5, <2>6, <2>7, <2>8, <2>9, <2>10, <2>12 DEF Session
<1>4. CASE \E i \in DOMAIN table : table[i].name = r.name
  <2>1. PICK i \in DOMAIN table : table[i].name = r.name
    BY <1>4
  <2>2. SameKeys(r, table[i])
    BY <2>1 DEF Matching, Alike
  <2>3. \A id \in DOMAIN table \ {i} : ~Alike(r, table[id])
    BY <2>1, <2>2 DEF Matching, SameKeys, Alike, Unique
  <2>4. i # 0
    BY DEF Matching
  <2>5. {id \in DOMAIN table : table[id]["name"] = r.name} = {i}
    BY <2>1, <2>3 DEF Alike
  <2>6. RowWith(table, "name", r.name) = i
    BY <1>1, <2>5, RowWithIs
  <2>7. RowWith(table, "ip", r.ip) \in {0, i}
    <3>1. CASE r.ip = None
      BY <3>1, NoRowWith
    <3>2. CASE r.ip # None
      <4>1. {id \in DOMAIN table : table[id]["ip"] = r.ip} = {i}
        BY <2>2, <2>3, <3>2 DEF SameKeys, Alike
      <4> QED BY <3>2, <4>1, RowWithIs
    <3> QED BY <3>1, <3>2
  <2>8. target = i
    BY <2>4, <2>6
  <2>9. target \notin t.kept
    <3>1. ASSUME i \in t.kept PROVE FALSE
      <4>1. SameKeys(t.rows[i], table[i])
        BY <3>1 DEF Session
      <4> QED BY <1>2, <2>2, <3>1, <4>1 DEF SameKeys, Alike
    <3> QED BY <2>8, <3>1
  <2>10. a = [rows |-> [id \in DOMAIN t.rows \cup {target} |-> IF id = target THEN r ELSE t.rows[id]],
                  doomed |-> {}, kept |-> t.kept \cup {target},
                  next |-> IF target = t.next THEN target + 1 ELSE t.next]
    <3> DEFINE byName == RowWith(table, "name", r.name)
               byIp == RowWith(table, "ip", r.ip)
               twin == IF byName # 0 /\ byIp # 0 /\ byName # byIp THEN {byIp} ELSE {}
    <3>1. twin = {}
      BY <2>6, <2>7
    <3>2. t.doomed = {}
      BY DEF Session
    <3>3. a = [rows |-> [id \in DOMAIN t.rows \cup {target} |->
                    IF id = target THEN r
                    ELSE IF id \in twin THEN [t.rows[id] EXCEPT !.ip = None]
                    ELSE t.rows[id]],
               doomed |-> (t.doomed \cup twin) \ {target},
               kept |-> t.kept \cup {target},
               next |-> IF target = t.next THEN target + 1 ELSE t.next]
      BY DEF Applied
    <3> HIDE DEF twin, target, a
    <3> QED BY <3>1, <3>2, <3>3
  <2> QED BY <1>3, <2>2, <2>3, <2>4, <2>8, <2>9, <2>10
<1>5. CASE ~(\E i \in DOMAIN table : table[i].name = r.name)
  <2>1. RowWith(table, "name", r.name) = 0
    BY <1>5, NoRowWith
  <2>2. \A id \in DOMAIN table : ~Alike(r, table[id])
    BY <1>5 DEF Matching, SameKeys
  <2>3. RowWith(table, "ip", r.ip) = 0
    BY <2>2, NoRowWith DEF Alike
  <2>4. target = t.next
    BY <2>1, <2>3
  <2>5. target \notin t.kept /\ target # 0
    <3>1. t.next \in Nat /\ t.next \notin DOMAIN t.rows /\ t.kept \subseteq DOMAIN t.rows
      BY DEF Session
    <3>2. t.next # 0
      BY <3>1 DEF Session, Matching
    <3> QED BY <2>4, <3>1, <3>2
  <2>6. a = [rows |-> [id \in DOMAIN t.rows \cup {target} |-> IF id = target THEN r ELSE t.rows[id]],
                  doomed |-> {}, kept |-> t.kept \cup {target},
                  next |-> IF target = t.next THEN target + 1 ELSE t.next]
    <3> DEFINE byName == RowWith(table, "name", r.name)
               byIp == RowWith(table, "ip", r.ip)
               twin == IF byName # 0 /\ byIp # 0 /\ byName # byIp THEN {byIp} ELSE {}
    <3>1. twin = {}
      BY <2>1
    <3>2. t.doomed = {}
      BY DEF Session
    <3>3. a = [rows |-> [id \in DOMAIN t.rows \cup {target} |->
                    IF id = target THEN r
                    ELSE IF id \in twin THEN [t.rows[id] EXCEPT !.ip = None]
                    ELSE t.rows[id]],
               doomed |-> (t.doomed \cup twin) \ {target},
               kept |-> t.kept \cup {target},
               next |-> IF target = t.next THEN target + 1 ELSE t.next]
      BY DEF Applied
    <3> HIDE DEF twin, target, a
    <3> QED BY <3>1, <3>2, <3>3
  <2> QED BY <1>3, <2>2, <2>4, <2>5, <2>6
<1> QED BY <1>4, <1>5

\* After all of them the session is one that has applied them all.
LEMMA AllAppliedIs ==
    ASSUME NEW table, NEW W, NEW next, Matching(table, W, next)
    PROVE  Session(table, next, W, AllApplied(table, W, next))
<1>0. IsFiniteSet(W) /\ Keyed(W)
  BY DEF Matching
<1>1. \E g : Applies(g, table, next, W)
  BY <1>0, AppliesExists
<1> DEFINE g == CHOOSE h : Applies(h, table, next, W)
<1>2. Applies(g, table, next, W)
  BY <1>1
<1>3. AllApplied(table, W, next) = g[W]
  BY AppliedIs
<1> HIDE DEF g
<1> DEFINE T == {s \in SUBSET W : Session(table, next, s, g[s])}
<1>4. ASSUME NEW s \in SUBSET W, \A x \in s : s \ {x} \in T PROVE s \in T
  <2>1. g[s] = AppliedTo(g, table, next, s)
    BY <1>2 DEF Applies
  <2>2. CASE s = {}
    <3> DEFINE t == [rows |-> table, doomed |-> {}, kept |-> {}, next |-> next]
    <3>1. g[s] = t
      BY <2>1, <2>2 DEF AppliedTo
    <3>2. Session(table, next, {}, t)
      BY DEF Session, Matching
    <3> QED BY <2>2, <3>1, <3>2
  <2>3. CASE s # {}
    <3> DEFINE r == Oldest(s)
    <3>1. r \in s
      <4>1. Keyed(s)
        BY <1>0 DEF Keyed
      <4> QED BY <2>3, <4>1, OldestIn
    <3>2. s \ {r} \in SUBSET W /\ Session(table, next, s \ {r}, g[s \ {r}]) /\ r \in W \ (s \ {r})
      BY <1>4, <3>1
    <3>3. g[s] = Applied(table, g[s \ {r}], r)
      BY <2>1, <2>3 DEF AppliedTo
    <3>4. (s \ {r}) \cup {r} = s
      BY <3>1
    <3> HIDE DEF r
    <3>5. Session(table, next, (s \ {r}) \cup {r}, Applied(table, g[s \ {r}], r))
      BY <3>2, RecordApplied
    <3> QED BY <3>3, <3>4, <3>5
  <2> QED BY <2>2, <2>3
<1> HIDE DEF T
<1>5. Hereditary(T, W)
  BY <1>4 DEF Hereditary
<1>6. W \in T
  BY <1>0, <1>5, ByParts
<1> QED BY <1>3, <1>6 DEF T

\* Such a session is flushed without a clash.
LEMMA FlushedIs ==
    ASSUME NEW table, NEW W, NEW next, Matching(table, W, next), NEW t, Session(table, next, W, t),
           NEW X, X \subseteq DOMAIN table \ t.kept
    PROVE  LET flush == Flushed(table, table, [t EXCEPT !.doomed = @ \cup X])
           IN ~flush.failed /\ flush.table = [id \in DOMAIN t.rows \ X |-> t.rows[id]]
<1> DEFINE u == [t EXCEPT !.doomed = @ \cup X]
           ids == {id \in DOMAIN u.rows \ u.doomed : id \notin DOMAIN table \/ u.rows[id] # table[id]}
<1>1. u.rows = t.rows /\ u.doomed = X
  BY DEF Session
<1> HIDE DEF u
<1>2. ids \subseteq DOMAIN t.rows \ X
  BY <1>1
<1>3. DOMAIN table \subseteq DOMAIN t.rows
  BY DEF Session
<1>4. ASSUME NEW some \in SUBSET ids, NEW id \in ids PROVE ~Clashes(Stated(table, u, some), id, u.rows[id])
  <2> DEFINE v == Stated(table, u, some)
  <2>1. DOMAIN v = DOMAIN table \cup some
    BY DEF Stated
  <2>2. ASSUME NEW other \in DOMAIN v PROVE other \in DOMAIN t.rows /\ SameKeys(v[other], t.rows[other])
    <3>1. CASE other \in some
      BY <1>1, <1>2, <2>1, <3>1 DEF Stated, SameKeys
    <3>2. CASE other \notin some
      <4>1. other \in DOMAIN table /\ v[other] = table[other]
        BY <2>1, <3>2 DEF Stated
      <4>2. other \in DOMAIN t.rows
        BY <1>3, <4>1
      <4> QED BY <4>1, <4>2 DEF Session, SameKeys
    <3> QED BY <3>1, <3>2
  <2> HIDE DEF v
  <2>3. ASSUME NEW other \in DOMAIN v \ {id}
        PROVE  ~(v[other].name = u.rows[id].name \/ (u.rows[id].ip # None /\ v[other].ip = u.rows[id].ip))
    <3>1. other \in DOMAIN t.rows /\ SameKeys(v[other], t.rows[other]) /\ id \in DOMAIN t.rows
      BY <1>2, <2>2
    <3>2. t.rows[id].name # t.rows[other].name /\ (t.rows[id].ip # None => t.rows[id].ip # t.rows[other].ip)
      BY <3>1 DEF Session, Unique
    <3> QED BY <1>1, <3>1, <3>2 DEF SameKeys
  <2> QED BY <2>3 DEF Clashes, v
<1> DEFINE flush == Flushed(table, table, u)
<1>5. ~flush.failed
  <2> DEFINE before(id) == {n \in ids : n < id}
  <2>1. \A id \in ids : ~Clashes(Stated(table, u, before(id)), id, u.rows[id])
    <3> TAKE id \in ids
    <3>1. before(id) \in SUBSET ids
      OBVIOUS
    <3> HIDE DEF before, ids
    <3> QED BY <1>4, <3>1
  <2>2. flush.failed = (\/ \E id \in DOMAIN table \cap ids : id \notin DOMAIN table
                        \/ \E id \in ids : Clashes(Stated(table, u, before(id)), id, u.rows[id]))
    BY DEF Flushed
  <2> HIDE DEF flush, before, ids
  <2> QED BY <2>1, <2>2
<1>6. flush.table = [id \in DOMAIN t.rows \ X |-> t.rows[id]]
  <2> DEFINE result == Stated(table, u, ids)
  <2>1. flush.table = [id \in DOMAIN result \ u.doomed |-> result[id]]
    BY DEF Flushed
  <2>2. DOMAIN result \ u.doomed = DOMAIN t.rows \ X
    <3>1. DOMAIN result = DOMAIN table \cup ids
      BY DEF Stated
    <3>2. \A id \in DOMAIN t.rows \ X : id \in DOMAIN table \cup ids
      BY <1>1
    <3> QED BY <1>1, <1>2, <1>3, <3>1, <3>2
  <2>3. ASSUME NEW id \in DOMAIN t.rows \ X PROVE result[id] = t.rows[id]
    <3>1. CASE id \in ids
      BY <1>1, <3>1 DEF Stated
    <3>2. CASE id \notin ids
      <4>1. id \in DOMAIN table /\ t.rows[id] = table[id]
        BY <1>1, <3>2
      <4> QED BY <3>2, <4>1 DEF Stated
    <3> QED BY <3>1, <3>2
  <2> HIDE DEF result, flush
  <2> QED BY <2>1, <2>2, <2>3
<1> QED BY <1>5, <1>6 DEF u

\* What a write of records that go with the table leaves in it.
LEMMA WriteIs ==
    ASSUME NEW table, NEW W, NEW next, Matching(table, W, next), NEW replace \in BOOLEAN
    PROVE  LET session == SessionAfter(table, W, replace, next)
               flush == Flushed(table, table, session)
           IN /\ ~flush.failed
              /\ session.next \in Nat \ {0} /\ DOMAIN flush.table \subseteq 1 .. (session.next - 1)
              /\ \A r \in W : \E id \in DOMAIN flush.table : flush.table[id] = r
              /\ replace => \A id \in DOMAIN flush.table : flush.table[id] \in W
<1> DEFINE t == AllApplied(table, W, next)
           X == IF replace THEN DOMAIN table \ t.kept ELSE {}
           session == SessionAfter(table, W, replace, next)
           flush == Flushed(table, table, session)
<1>1. Session(table, next, W, t)
  BY AllAppliedIs
<1>2. session = [t EXCEPT !.doomed = @ \cup X]
  BY DEF SessionAfter
<1> HIDE DEF t
<1>3. X \subseteq DOMAIN table \ t.kept
  OBVIOUS
<1>4. session.next = t.next
  BY <1>1, <1>2 DEF Session
<1>5. ~flush.failed /\ flush.table = [id \in DOMAIN t.rows \ X |-> t.rows[id]]
  <2> HIDE DEF X, session
  <2> QED BY <1>1, <1>2, <1>3, FlushedIs
<1> HIDE DEF session, flush
<1>6. t.next \in Nat \ {0} /\ DOMAIN flush.table \subseteq 1 .. (t.next - 1)
  BY <1>1, <1>5 DEF Session, Matching
<1>7. ASSUME NEW r \in W PROVE \E id \in DOMAIN flush.table : flush.table[id] = r
  <2>1. PICK id \in t.kept : t.rows[id] = r
    BY <1>1 DEF Session
  <2>2. id \in DOMAIN t.rows \ X
    BY <1>1, <1>3 DEF Session
  <2> QED BY <1>5, <2>1, <2>2
<1>8. ASSUME replace, NEW id \in DOMAIN flush.table PROVE flush.table[id] \in W
  <2>1. id \in DOMAIN t.rows \ X /\ flush.table[id] = t.rows[id]
    BY <1>5
  <2>2. id \in t.kept
    BY <1>1, <1>8, <2>1 DEF Session
  <2> QED BY <1>1, <2>1, <2>2 DEF Session
<1> QED BY <1>4, <1>5, <1>6, <1>7, <1>8 DEF session, flush

----------------------------------------------------------------------------
(* The unit of work, whatever was read before it.                          *)

\* The ids of the rows are used up to serial.
LEMMA SessionIds ==
    ASSUME NEW table, NEW W, IsFiniteSet(W), Keyed(W), NEW next \in Nat \ {0}, DOMAIN table \subseteq 1 .. (next - 1),
           NEW replace
    PROVE  LET session == SessionAfter(table, W, replace, next)
           IN session.next \in Nat /\ next <= session.next /\ DOMAIN session.rows \subseteq 1 .. (session.next - 1)
<1> DEFINE Used(t) == /\ t = [rows |-> t.rows, doomed |-> t.doomed, kept |-> t.kept, next |-> t.next]
                      /\ t.next \in Nat /\ next <= t.next /\ DOMAIN t.rows \subseteq 1 .. (t.next - 1)
<1>1. ASSUME NEW t, Used(t), NEW r PROVE Used(Applied(table, t, r))
  <2> DEFINE a == Applied(table, t, r)
             byName == RowWith(table, "name", r.name)
             byIp == RowWith(table, "ip", r.ip)
             target == IF byName # 0 THEN byName ELSE IF byIp # 0 THEN byIp ELSE t.next
  <2>1. \A v, column : RowWith(table, column, v) \in DOMAIN table \cup {0}
    BY DEF RowWith
  <2>2. target \in 1 .. t.next
    <3>1. byName \in DOMAIN table \cup {0} /\ byIp \in DOMAIN table \cup {0}
      BY <2>1
    <3>2. \A i \in DOMAIN table : i \in Nat /\ i >= 1 /\ i <= next - 1
      OBVIOUS
    <3>3. t.next \in Nat /\ next <= t.next
      BY <1>1
    <3> HIDE DEF byName, byIp
    <3> QED BY <3>1, <3>2, <3>3
  <2>3. DOMAIN a.rows = DOMAIN t.rows \cup {target} /\ a.next = (IF target = t.next THEN target + 1 ELSE t.next)
        /\ a = [rows |-> a.rows, doomed |-> a.doomed, kept |-> a.kept, next |-> a.next]
    BY DEF Applied
  <2> HIDE DEF a, target
  <2>4. t.next \in Nat /\ next <= t.next /\ DOMAIN t.rows \subseteq 1 .. (t.next - 1)
    BY <1>1
  <2>5. CASE target = t.next
    <3>1. a.next = t.next + 1
      BY <2>3, <2>5
    <3>2. DOMAIN a.rows \subseteq 1 .. t.next
      BY <2>2, <2>3, <2>4
    <3> QED BY <2>3, <2>4, <3>1, <3>2 DEF a
  <2>6. CASE target # t.next
    <3>1. a.next = t.next
      BY <2>3, <2>6
    <3>2. DOMAIN a.rows \subseteq 1 .. (t.next - 1)
      BY <2>2, <2>3, <2>4, <2>6
    <3> QED BY <2>3, <2>4, <3>1, <3>2 DEF a
  <2> QED BY <2>5, <2>6
<1>2. \E g : Applies(g, table, next, W)
  BY AppliesExists
<1> DEFINE g == CHOOSE h : Applies(h, table, next, W)
<1>3. Applies(g, table, next, W)
  BY <1>2
<1>4. AllApplied(table, W, next) = g[W]
  BY AppliedIs
<1> HIDE DEF g
<1> DEFINE T == {s \in SUBSET W : Used(g[s])}
<1>5. ASSUME NEW s \in SUBSET W, \A x \in s : s \ {x} \in T PROVE s \in T
  <2>1. g[s] = AppliedTo(g, table, next, s)
    BY <1>3 DEF Applies
  <2>2. CASE s = {}
    <3>1. g[s] = [rows |-> table, doomed |-> {}, kept |-> {}, next |-> next]
      BY <2>1, <2>2 DEF AppliedTo
    <3>2. Used(g[s])
      BY <3>1
    <3> QED BY <3>2
  <2>3. CASE s # {}
    <3>1. Oldest(s) \in s
      <4>1. Keyed(s)
        BY DEF Keyed
      <4> QED BY <2>3, <4>1, OldestIn
    <3>2. Used(g[s \ {Oldest(s)}])
      BY <1>5, <3>1
    <3>3. g[s] = Applied(table, g[s \ {Oldest(s)}], Oldest(s))
      BY <2>1, <2>3 DEF AppliedTo
    <3> HIDE DEF Used
    <3>4. Used(g[s])
      BY <1>1, <3>2, <3>3
    <3> QED BY <3>4
  <2> QED BY <2>2, <2>3
<1> HIDE DEF T
<1>6. Hereditary(T, W)
  BY <1>5 DEF Hereditary
<1>7. W \in T
  BY <1>6, ByParts
<1>8. Used(g[W])
  BY <1>7 DEF T
<1> QED BY <1>4, <1>8 DEF SessionAfter

\* What is flushed without a clash is unique if it was before.
LEMMA FlushKeepsUnique ==
    ASSUME NEW loaded, NEW table, Unique(table), NEW u, DOMAIN u.rows \subseteq Nat,
           ~Flushed(loaded, table, u).failed
    PROVE  /\ Unique(Flushed(loaded, table, u).table)
           /\ DOMAIN Flushed(loaded, table, u).table \subseteq DOMAIN table \cup DOMAIN u.rows
<1> DEFINE ids == {id \in DOMAIN u.rows \ u.doomed : id \notin DOMAIN loaded \/ u.rows[id] # loaded[id]}
           before(id) == {n \in ids : n < id}
           result == Stated(table, u, ids)
           flush == Flushed(loaded, table, u)
<1>1. flush.table = [id \in DOMAIN result \ u.doomed |-> result[id]]
  BY DEF Flushed
<1>2. \A id \in ids : ~Clashes(Stated(table, u, before(id)), id, u.rows[id])
  <2>1. flush.failed = (\/ \E id \in DOMAIN loaded \cap ids : id \notin DOMAIN table
                        \/ \E id \in ids : Clashes(Stated(table, u, before(id)), id, u.rows[id]))
    BY DEF Flushed
  <2> HIDE DEF before, ids
  <2> QED BY <2>1 DEF flush
<1> HIDE DEF flush
<1>3. DOMAIN result = DOMAIN table \cup ids
      /\ \A id \in DOMAIN result : result[id] = IF id \in ids THEN u.rows[id] ELSE table[id]
  BY DEF Stated
<1>4. ids \subseteq DOMAIN u.rows
  OBVIOUS
\* The one of two rows that was written last did not clash with the other.
<1>5. ASSUME NEW i \in ids, NEW j \in DOMAIN result \ {i}, j \in ids => j < i
      PROVE  result[j].name # result[i].name /\ (result[i].ip # None => result[j].ip # result[i].ip)
  <2> DEFINE v == Stated(table, u, before(i))
  <2>1. j \in DOMAIN v /\ v[j] = result[j]
    <3>1. CASE j \in ids
      <4>1. j \in before(i)
        BY <1>5, <3>1
      <4>2. v[j] = u.rows[j] /\ j \in DOMAIN v
        BY <4>1 DEF Stated
      <4> QED BY <1>3, <3>1, <4>2
    <3>2. CASE j \notin ids
      <4>1. j \in DOMAIN table /\ j \notin before(i)
        BY <1>3, <3>2
      <4>2. v[j] = table[j] /\ j \in DOMAIN v
        BY <4>1 DEF Stated
      <4> QED BY <1>3, <3>2, <4>2
    <3> QED BY <3>1, <3>2
  <2>2. ~Clashes(v, i, u.rows[i])
    BY <1>2
  <2>3. result[i] = u.rows[i]
    BY <1>3
  <2> HIDE DEF v, result, ids
  <2>4. j # i
    BY <1>5
  <2> QED BY <2>1, <2>2, <2>3, <2>4 DEF Clashes
<1> HIDE DEF before
<1>6. ASSUME NEW i \in DOMAIN result, NEW j \in DOMAIN result, i # j
      PROVE  result[i].name # result[j].name /\ (result[i].ip # None => result[i].ip # result[j].ip)
  <2> HIDE DEF result, ids
  <2>1. CASE i \in ids /\ (j \in ids => j < i)
    BY <1>5, <1>6, <2>1
  <2>2. CASE j \in ids /\ (i \in ids => i < j)
    <3>1. result[i].name # result[j].name /\ (result[j].ip # None => result[i].ip # result[j].ip)
      BY <1>5, <1>6, <2>2
    <3> QED BY <3>1
  <2>3. CASE i \notin ids /\ j \notin ids
    <3>1. i \in DOMAIN table /\ j \in DOMAIN table /\ result[i] = table[i] /\ result[j] = table[j]
      BY <1>3, <2>3
    <3> QED BY <1>6, <3>1 DEF Unique
  <2>4. i \in ids /\ j \in ids => i < j \/ j < i
    <3>1. i \in ids /\ j \in ids => i \in Nat /\ j \in Nat
      BY <1>4
    <3> QED BY <1>6, <3>1
  <2> QED BY <2>1, <2>2, <2>3, <2>4
<1>7. DOMAIN flush.table \subseteq DOMAIN result /\ \A id \in DOMAIN flush.table : flush.table[id] = result[id]
  BY <1>1
<1> HIDE DEF result, ids
<1>8. Unique(flush.table)
  BY <1>6, <1>7 DEF Unique
<1>9. DOMAIN flush.table \subseteq DOMAIN table \cup DOMAIN u.rows
  BY <1>3, <1>4, <1>7
<1> QED BY <1>8, <1>9 DEF flush

----------------------------------------------------------------------------
(* The runs.                                                               *)

Sized(records) == \A r \in records : \E f \in Files : <<r.object, r.at>> \in f.points /\ f.size = r.size

Distinct(list) == \A n, m \in DOMAIN list : n # m => list[n].id # list[m].id
ServerInv ==
    /\ objects \in Seq(BackupObjects) /\ Distinct(objects)
    /\ clock \in Nat /\ points \in [Ids -> SUBSET (1 .. clock)]
TableInv ==
    /\ serial \in Nat /\ DOMAIN snapshots \subseteq 1 .. serial /\ Unique(snapshots)

\* What was fetched has distinct ids, and no page to come has one of them.
GotInv(s) ==
    /\ s.offset \in Nat /\ s.got \in Seq(BackupObjects)
    /\ \A o, p \in Range(s.got) : o.id = p.id => o = p
    /\ s.pc = "objects" => \A n \in DOMAIN objects : n > s.offset => \A o \in Range(s.got) : o.id # objects[n].id
FetchedInv(s) ==
    /\ IsFiniteSet(s.records) /\ Keyed(s.records)
    /\ \A r \in s.records : r.name # None /\ r.at <= clock
    /\ s.goal = All /\ ~s.partial => Sized(s.records)
WorkerInv(s) ==
    /\ DOMAIN s = DOMAIN Resting /\ s.whole \in BOOLEAN
    /\ DOMAIN s.loaded \subseteq 1 .. serial
    /\ GotInv(s) /\ FetchedInv(s)
SnapshotInv ==
    /\ ServerInv /\ TableInv
    /\ DOMAIN workers = Workers /\ \A w \in Workers : WorkerInv(workers[w])

LEMMA RestingInv == serial \in Nat => WorkerInv(Resting)
<1> SUFFICES ASSUME serial \in Nat PROVE WorkerInv(Resting)
  OBVIOUS
<1>1. DOMAIN None = {} /\ Range(None) = {} /\ None \in Seq(BackupObjects)
  BY DEF None, Range
<1>2. GotInv(Resting)
  BY <1>1 DEF GotInv, Resting
<1>3. FetchedInv(Resting)
  BY FS_EmptySet DEF FetchedInv, Resting, Keyed, Sized
<1>4. DOMAIN Resting.loaded = {}
  BY <1>1 DEF Resting
<1> QED BY <1>2, <1>3, <1>4 DEF WorkerInv, Resting

\* A run that goes on: the others are as they were.
LEMMA WorkerGoes ==
    ASSUME SnapshotInv, NEW w \in Workers, NEW s, Goto(w, s), WorkerInv(s), ServerUnchanged, serial' = serial, snapshots' = snapshots
    PROVE  SnapshotInv'
<1>1. workers' = [workers EXCEPT ![w] = s]
  BY DEF Goto
<1>2. \A v \in Workers : WorkerInv(workers'[v])
  BY <1>1 DEF SnapshotInv
<1>3. objects' = objects /\ clock' = clock /\ points' = points
  BY DEF ServerUnchanged
<1>4. \A v \in Workers : WorkerInv(workers[v])'
  BY <1>2, <1>3 DEF WorkerInv, GotInv, FetchedInv
<1> QED BY <1>1, <1>3, <1>4 DEF SnapshotInv, ServerInv, TableInv

LEMMA SnapshotStarts == SnapshotInit => SnapshotInv
<1> SUFFICES ASSUME SnapshotInit PROVE SnapshotInv
  OBVIOUS
<1>1. ServerInv
  <2>1. objects \in Seq(BackupObjects) /\ Distinct(objects)
    BY SnapshotAssumption DEF SnapshotInit, Distinct
  <2>2. points \in [Ids -> SUBSET (1 .. clock)] /\ clock \in Nat
    BY DEF SnapshotInit
  <2> QED BY <2>1, <2>2 DEF ServerInv
<1>2. TableInv
  BY DEF SnapshotInit, TableInv, Unique, None
<1>3. \A w \in Workers : WorkerInv(workers[w])
  BY <1>2, RestingInv DEF SnapshotInit, TableInv
<1> QED BY <1>1, <1>2, <1>3 DEF SnapshotInv, SnapshotInit

LEMMA IdsAreNumbers == Ids \subseteq Nat
BY SnapshotAssumption DEF Ids

\* Sequences of distinct ids.
LEMMA Removed ==
    ASSUME NEW list \in Seq(BackupObjects), Distinct(list), NEW n \in DOMAIN list
    PROVE  /\ RemoveAt(list, n) \in Seq(BackupObjects) /\ Distinct(RemoveAt(list, n))
           /\ \A m \in DOMAIN RemoveAt(list, n) : \E k \in DOMAIN list : k >= m /\ RemoveAt(list, n)[m] = list[k]
<1> DEFINE r == RemoveAt(list, n)
<1>1. DOMAIN list = 1 .. Len(list) /\ Len(list) \in Nat
  OBVIOUS
<1>2. /\ SubSeq(list, 1, n - 1) \in Seq(BackupObjects) /\ SubSeq(list, n + 1, Len(list)) \in Seq(BackupObjects)
      /\ Len(SubSeq(list, 1, n - 1)) = n - 1 /\ Len(SubSeq(list, n + 1, Len(list))) = Len(list) - n
      /\ \A m \in 1 .. (n - 1) : SubSeq(list, 1, n - 1)[m] = list[m]
      /\ \A m \in 1 .. (Len(list) - n) : SubSeq(list, n + 1, Len(list))[m] = list[n + m]
  BY <1>1
<1> DEFINE l == SubSeq(list, 1, n - 1)
           h == SubSeq(list, n + 1, Len(list))
<1>a. r = l \o h
  BY DEF RemoveAt
<1> HIDE DEF l, h
<1>b. /\ l \in Seq(BackupObjects) /\ h \in Seq(BackupObjects) /\ Len(l) = n - 1 /\ Len(h) = Len(list) - n
      /\ \A m \in 1 .. (n - 1) : l[m] = list[m]
      /\ \A m \in 1 .. (Len(list) - n) : h[m] = list[n + m]
  BY <1>2 DEF l, h
<1>c. n \in Nat /\ n >= 1 /\ n <= Len(list)
  BY <1>1
<1>e. /\ l \o h \in Seq(BackupObjects) /\ Len(l \o h) = Len(l) + Len(h)
      /\ \A m \in 1 .. Len(l) + Len(h) : (l \o h)[m] = IF m <= Len(l) THEN l[m] ELSE h[m - Len(l)]
  BY <1>b, ConcatProperties
<1> HIDE DEF r
<1>d. /\ r \in Seq(BackupObjects) /\ Len(r) = Len(l) + Len(h)
      /\ \A m \in 1 .. Len(l) + Len(h) : r[m] = IF m <= Len(l) THEN l[m] ELSE h[m - Len(l)]
  BY <1>a, <1>e
<1>3. r \in Seq(BackupObjects) /\ Len(r) = Len(list) - 1
  BY <1>1, <1>b, <1>c, <1>d
<1>4. \A m \in DOMAIN r : r[m] = list[IF m < n THEN m ELSE m + 1] /\ (IF m < n THEN m ELSE m + 1) \in DOMAIN list
  <2> TAKE m \in DOMAIN r
  <2>1. m \in 1 .. (Len(list) - 1)
    BY <1>3
  <2>2. m \in 1 .. Len(l) + Len(h)
    BY <1>1, <1>b, <1>c, <2>1
  <2>3. CASE m < n
    <3>1. m <= Len(l) /\ m \in 1 .. (n - 1)
      BY <1>b, <1>c, <2>1, <2>3
    <3> QED BY <1>1, <1>b, <1>d, <2>1, <2>2, <2>3, <3>1
  <2>4. CASE ~(m < n)
    <3>1. ~(m <= Len(l)) /\ m - Len(l) \in 1 .. (Len(list) - n) /\ n + (m - Len(l)) = m + 1
      BY <1>1, <1>b, <1>c, <2>1, <2>4
    <3>2. r[m] = h[m - Len(l)] /\ h[m - Len(l)] = list[n + (m - Len(l))]
      BY <1>b, <1>d, <2>2, <3>1
    <3>3. m + 1 \in DOMAIN list
      BY <1>1, <1>c, <2>1
    <3> QED BY <2>4, <3>1, <3>2, <3>3
  <2> QED BY <2>3, <2>4
<1>5. DOMAIN r \subseteq Nat
  BY <1>3
<1>6. Distinct(r)
  <2> SUFFICES ASSUME NEW i \in DOMAIN r, NEW j \in DOMAIN r, i # j PROVE r[i].id # r[j].id
    BY DEF Distinct
  <2> DEFINE a == IF i < n THEN i ELSE i + 1
             b == IF j < n THEN j ELSE j + 1
  <2>1. a \in DOMAIN list /\ b \in DOMAIN list /\ r[i] = list[a] /\ r[j] = list[b]
    BY <1>4
  <2>2. a # b
    BY <1>1, <1>5
  <2> HIDE DEF a, b
  <2> QED BY <2>1, <2>2 DEF Distinct
<1>7. \A m \in DOMAIN r : \E k \in DOMAIN list : k >= m /\ r[m] = list[k]
  BY <1>1, <1>4, <1>5
<1> QED BY <1>3, <1>6, <1>7 DEF r

LEMMA ChangeKeeps ==
    ASSUME SnapshotInv, Change
    PROVE  SnapshotInv'
<1>1. /\ objects' \in Seq(BackupObjects) /\ Distinct(objects')
      /\ \A m \in DOMAIN objects' : \E k \in DOMAIN objects : k >= m /\ objects'[m].id = objects[k].id
  <2>1. CASE objects' = objects
    BY <2>1 DEF SnapshotInv, ServerInv
  <2>2. CASE \E n \in DOMAIN objects : objects' = RemoveAt(objects, n)
    BY <2>2, Removed DEF SnapshotInv, ServerInv
  <2>3. CASE \E n, m \in DOMAIN objects : n < m /\ objects' = [objects EXCEPT ![n].ip = objects[m].ip, ![m].ip = objects[n].ip]
    <3>1. PICK n, m \in DOMAIN objects : n < m /\ objects' = [objects EXCEPT ![n].ip = objects[m].ip, ![m].ip = objects[n].ip]
      BY <2>3
    <3>2. objects \in Seq(BackupObjects) /\ Distinct(objects) /\ DOMAIN objects = 1 .. Len(objects) /\ Len(objects) \in Nat
      BY DEF SnapshotInv, ServerInv
    <3>3. \A k \in DOMAIN objects : objects[k] \in BackupObjects
      BY <3>2
    <3>4. DOMAIN objects' = DOMAIN objects
          /\ \A k \in DOMAIN objects : objects'[k] = IF k = n THEN [objects[n] EXCEPT !.ip = objects[m].ip]
                                                    ELSE IF k = m THEN [objects[m] EXCEPT !.ip = objects[n].ip]
                                                    ELSE objects[k]
      BY <3>1, <3>2
    <3>5. \A k \in DOMAIN objects : objects'[k] \in BackupObjects /\ objects'[k].id = objects[k].id
      BY <3>1, <3>3, <3>4 DEF BackupObjects
    <3>6. objects' \in [1 .. Len(objects) -> BackupObjects]
      <4>1. objects' = [k \in 1 .. Len(objects) |-> objects'[k]]
        BY <3>1, <3>2
      <4> QED BY <3>2, <3>5, <4>1
    <3>7. objects' \in Seq(BackupObjects)
      BY <3>2, <3>6
    <3>8. Distinct(objects')
      BY <3>2, <3>4, <3>5 DEF Distinct
    <3>9. \A k \in DOMAIN objects' : k \in DOMAIN objects /\ k >= k /\ objects'[k].id = objects[k].id
      BY <3>2, <3>4, <3>5
    <3> QED BY <3>7, <3>8, <3>9
  <2> QED BY <2>1, <2>2, <2>3 DEF Change
<1>2. clock' \in Nat /\ clock <= clock' /\ points' \in [Ids -> SUBSET (1 .. clock')]
  <2>0. clock \in Nat /\ points \in [Ids -> SUBSET (1 .. clock)] /\ objects \in Seq(BackupObjects)
    BY DEF SnapshotInv, ServerInv
  <2>1. CASE clock' = clock /\ points' = points
    BY <2>0, <2>1
  <2>2. CASE clock' = clock + 1 /\ \E n \in DOMAIN objects : points' = [points EXCEPT ![objects[n].id] = @ \cup {clock + 1}]
    <3>1. PICK n \in DOMAIN objects : points' = [points EXCEPT ![objects[n].id] = @ \cup {clock + 1}]
      BY <2>2
    <3>2. objects[n] \in BackupObjects
      BY <2>0
    <3>3. objects[n].id \in Ids
      BY <3>2 DEF BackupObjects
    <3>4. \A k \in Ids : points[k] \in SUBSET (1 .. (clock + 1)) /\ points[k] \cup {clock + 1} \in SUBSET (1 .. (clock + 1))
      BY <2>0
    <3> QED BY <2>0, <2>2, <3>1, <3>3, <3>4
  <2> QED BY <2>1, <2>2 DEF Change
<1>3. serial' = serial /\ snapshots' = snapshots /\ workers' = workers
  BY DEF Change, TableUnchanged
<1>4. ASSUME NEW w \in Workers PROVE WorkerInv(workers[w])'
  <2> DEFINE s == workers[w]
  <2>1. WorkerInv(s)
    BY DEF SnapshotInv
  <2> HIDE DEF s
  <2>2. s.pc = "objects" => \A n \in DOMAIN objects' : n > s.offset => \A o \in Range(s.got) : o.id # objects'[n].id
    <3> SUFFICES ASSUME s.pc = "objects", NEW n \in DOMAIN objects', n > s.offset, NEW o \in Range(s.got)
                 PROVE  o.id # objects'[n].id
      OBVIOUS
    <3>1. PICK k \in DOMAIN objects : k >= n /\ objects'[n].id = objects[k].id
      BY <1>1
    <3>2. k \in Nat /\ n \in Nat /\ s.offset \in Nat
      BY <1>1, <2>1 DEF SnapshotInv, ServerInv, WorkerInv, GotInv
    <3>3. k > s.offset
      BY <3>1, <3>2
    <3> QED BY <2>1, <3>1, <3>3 DEF WorkerInv, GotInv
  <2>3. \A r \in s.records : r.name # None /\ r.at <= clock'
    <3>1. \A r \in s.records : r.at \in Nat /\ r.at <= clock /\ r.name # None
      BY <2>1 DEF WorkerInv, FetchedInv, Keyed
    <3>2. clock \in Nat
      BY DEF SnapshotInv, ServerInv
    <3> QED BY <1>2, <3>1, <3>2
  <2>4. workers'[w] = s
    BY <1>3 DEF s
  <2>5. DOMAIN s = DOMAIN Resting /\ s.whole \in BOOLEAN /\ DOMAIN s.loaded \subseteq 1 .. serial'
    BY <1>3, <2>1 DEF WorkerInv
  <2>6. s.offset \in Nat /\ s.got \in Seq(BackupObjects) /\ \A o, p \in Range(s.got) : o.id = p.id => o = p
    BY <2>1 DEF WorkerInv, GotInv
  <2>7. IsFiniteSet(s.records) /\ Keyed(s.records) /\ (s.goal = All /\ ~s.partial => Sized(s.records))
    BY <2>1 DEF WorkerInv, FetchedInv
  <2> QED BY <2>2, <2>3, <2>4, <2>5, <2>6, <2>7 DEF WorkerInv, GotInv, FetchedInv
<1> QED BY <1>1, <1>2, <1>3, <1>4 DEF SnapshotInv, ServerInv, TableInv

LEMMA Rests ==
    ASSUME SnapshotInv, NEW w \in Workers, Goto(w, Resting), ServerUnchanged, serial' = serial, snapshots' = snapshots
    PROVE  SnapshotInv'
<1>1. WorkerInv(Resting)
  BY RestingInv DEF SnapshotInv, TableInv
<1> QED BY <1>1, WorkerGoes

LEMMA StartKeeps ==
    ASSUME SnapshotInv, NEW w \in Workers, StartSync(w)
    PROVE  SnapshotInv'
<1>1. PICK goal : Goto(w, [Resting EXCEPT !.pc = "objects", !.goal = goal])
  BY DEF StartSync
<1> DEFINE s == [Resting EXCEPT !.pc = "objects", !.goal = goal]
<1>2. WorkerInv(Resting)
  BY RestingInv DEF SnapshotInv, TableInv
<1>3. DOMAIN s = DOMAIN Resting /\ s.whole = Resting.whole /\ s.loaded = Resting.loaded
      /\ s.offset = 0 /\ s.got = None /\ s.records = Resting.records /\ s.records = {}
  BY DEF Resting
<1> HIDE DEF s
<1>4. GotInv(s)
  <2>1. Range(None) = {} /\ None \in Seq(BackupObjects)
    BY DEF None, Range
  <2> QED BY <1>3, <2>1 DEF GotInv
<1>5. FetchedInv(s)
  BY <1>2, <1>3 DEF WorkerInv, FetchedInv, Sized
<1>6. WorkerInv(s)
  BY <1>2, <1>3, <1>4, <1>5 DEF WorkerInv
<1>7. serial' = serial /\ snapshots' = snapshots /\ ServerUnchanged
  BY DEF StartSync, TableUnchanged
<1> QED BY <1>1, <1>6, <1>7, WorkerGoes DEF s

\* The objects of a page, and what has been fetched with them.
LEMMA PageIs ==
    ASSUME ServerInv, NEW offset \in Nat
    PROVE  /\ Page(offset) \in Seq(BackupObjects)
           /\ \A m \in DOMAIN Page(offset) :
                 /\ offset + m \in DOMAIN objects /\ Page(offset)[m] = objects[offset + m]
                 /\ offset + m <= offset + PageLimit
<1>1. objects \in Seq(BackupObjects) /\ Len(objects) \in Nat /\ PageLimit \in Nat \ {0} /\ DOMAIN objects = 1 .. Len(objects)
  BY SnapshotAssumption DEF ServerInv
<1> DEFINE high == IF More(offset) THEN offset + PageLimit ELSE Len(objects)
           page == SubSeq(objects, offset + 1, high)
<1>2. high \in Nat /\ high <= Len(objects) /\ high <= offset + PageLimit
  BY <1>1 DEF More
<1>3. page = Page(offset)
  BY DEF Page
<1> HIDE DEF high
<1>4. \A i \in (offset + 1) .. high : objects[i] \in BackupObjects
  <2> TAKE i \in (offset + 1) .. high
  <2>1. i \in 1 .. Len(objects)
    BY <1>1, <1>2
  <2> QED BY <1>1, <2>1
<1>5. /\ page \in Seq(BackupObjects)
      /\ Len(page) = IF offset + 1 <= high THEN high - (offset + 1) + 1 ELSE 0
      /\ \A i \in 1 .. (high - (offset + 1) + 1) : page[i] = objects[(offset + 1) + i - 1]
  BY <1>2, <1>4, SubSeqProperties
<1> HIDE DEF page
<1>6. ASSUME NEW m \in DOMAIN page
      PROVE  offset + m \in DOMAIN objects /\ page[m] = objects[offset + m] /\ offset + m <= offset + PageLimit
  <2>1. m \in 1 .. Len(page)
    BY <1>5
  <2>2. m \in 1 .. (high - (offset + 1) + 1) /\ offset + m <= high /\ (offset + 1) + m - 1 = offset + m
    <3>1. CASE offset + 1 <= high
      <4>1. Len(page) = high - (offset + 1) + 1
        BY <1>5, <3>1
      <4>2. m \in 1 .. (high - (offset + 1) + 1)
        BY <2>1, <4>1
      <4> QED BY <1>2, <4>2
    <3>2. CASE ~(offset + 1 <= high)
      <4>1. Len(page) = 0
        BY <1>5, <3>2
      <4> QED BY <2>1, <4>1
    <3> QED BY <3>1, <3>2
  <2>3. page[m] = objects[offset + m]
    BY <1>5, <2>2
  <2>4. offset + m \in 1 .. Len(objects) /\ offset + m <= offset + PageLimit
    BY <1>1, <1>2, <2>2
  <2> QED BY <1>1, <2>3, <2>4
<1> QED BY <1>3, <1>5, <1>6

LEMMA PageKeeps ==
    ASSUME SnapshotInv, NEW w \in Workers, FetchPage(w)
    PROVE  SnapshotInv'
<1> DEFINE s == workers[w]
           offset == s.offset
           page == Page(offset)
           t == [s EXCEPT !.got = @ \o page, !.offset = offset + PageLimit,
                          !.pc = IF More(offset) THEN "objects" ELSE "points"]
<1>1. Goto(w, t) /\ s.pc = "objects" /\ serial' = serial /\ snapshots' = snapshots /\ ServerUnchanged
  BY DEF FetchPage, TableUnchanged
<1>2. WorkerInv(s) /\ ServerInv
  BY DEF SnapshotInv
<1>3. offset \in Nat /\ s.got \in Seq(BackupObjects) /\ PageLimit \in Nat \ {0}
  BY <1>2, SnapshotAssumption DEF WorkerInv, GotInv
<1>4. page \in Seq(BackupObjects)
      /\ \A m \in DOMAIN page : offset + m \in DOMAIN objects /\ page[m] = objects[offset + m] /\ offset + m <= offset + PageLimit
  BY <1>2, <1>3, PageIs
<1>5. DOMAIN s = DOMAIN Resting
  BY <1>2 DEF WorkerInv
<1>6. DOMAIN t = DOMAIN Resting /\ t.got = s.got \o page /\ t.offset = offset + PageLimit
      /\ t.pc = (IF More(offset) THEN "objects" ELSE "points") /\ t.whole = s.whole /\ t.loaded = s.loaded
      /\ t.records = s.records /\ t.partial = s.partial /\ t.goal = s.goal
  BY <1>5 DEF Resting
<1> HIDE DEF page, t, s
<1>7. s.got \o page \in Seq(BackupObjects) /\ Range(s.got \o page) = Range(s.got) \cup Range(page)
  <2>1. s.got \o page \in Seq(BackupObjects) /\ Len(s.got \o page) = Len(s.got) + Len(page)
        /\ \A i \in 1 .. (Len(s.got) + Len(page)) : (s.got \o page)[i] = IF i <= Len(s.got) THEN s.got[i] ELSE page[i - Len(s.got)]
    BY <1>3, <1>4, ConcatProperties
  <2> DEFINE both == s.got \o page
  <2>2. DOMAIN both = 1 .. (Len(s.got) + Len(page)) /\ DOMAIN s.got = 1 .. Len(s.got) /\ DOMAIN page = 1 .. Len(page)
        /\ Len(s.got) \in Nat /\ Len(page) \in Nat
    BY <1>3, <1>4, <2>1
  <2>3. both \in Seq(BackupObjects) /\ \A i \in DOMAIN both : both[i] = IF i <= Len(s.got) THEN s.got[i] ELSE page[i - Len(s.got)]
    BY <2>1, <2>2
  <2> HIDE DEF both
  <2>4. ASSUME NEW i \in DOMAIN both PROVE both[i] \in Range(s.got) \cup Range(page)
    <3>1. CASE i <= Len(s.got)
      <4>1. i \in DOMAIN s.got /\ both[i] = s.got[i]
        BY <2>2, <2>3, <3>1
      <4> QED BY <4>1 DEF Range
    <3>2. CASE ~(i <= Len(s.got))
      <4>1. i - Len(s.got) \in DOMAIN page /\ both[i] = page[i - Len(s.got)]
        BY <2>2, <2>3, <3>2
      <4> QED BY <4>1 DEF Range
    <3> QED BY <3>1, <3>2
  <2>5. ASSUME NEW i \in DOMAIN s.got PROVE s.got[i] \in Range(both)
    <3>1. i \in DOMAIN both /\ both[i] = s.got[i]
      BY <2>2, <2>3
    <3> QED BY <3>1 DEF Range
  <2>6. ASSUME NEW i \in DOMAIN page PROVE page[i] \in Range(both)
    <3>1. Len(s.got) + i \in DOMAIN both /\ ~(Len(s.got) + i <= Len(s.got)) /\ (Len(s.got) + i) - Len(s.got) = i
      BY <2>2
    <3>2. both[Len(s.got) + i] = page[i]
      BY <2>3, <3>1
    <3> QED BY <3>1, <3>2 DEF Range
  <2>7. Range(both) = Range(s.got) \cup Range(page)
    BY <2>4, <2>5, <2>6 DEF Range
  <2> QED BY <2>3, <2>7 DEF both
<1>8. \A o \in Range(page) : \E n \in DOMAIN objects : n > offset /\ n <= offset + PageLimit /\ o = objects[n]
  <2> TAKE o \in Range(page)
  <2>1. PICK m \in DOMAIN page : o = page[m]
    BY DEF Range
  <2>2. m \in Nat /\ m >= 1
    BY <1>4
  <2>3. offset + m > offset
    BY <1>3, <2>2
  <2> QED BY <1>4, <2>1, <2>3
<1>9. Distinct(objects) /\ DOMAIN objects \subseteq Nat
  BY <1>2 DEF ServerInv
<1>10. \A o, p \in Range(s.got) : o.id = p.id => o = p
  BY <1>2 DEF WorkerInv, GotInv
<1>11. \A n \in DOMAIN objects : n > offset => \A o \in Range(s.got) : o.id # objects[n].id
  BY <1>1, <1>2 DEF WorkerInv, GotInv
<1>12. \A o, p \in Range(t.got) : o.id = p.id => o = p
  <2> SUFFICES ASSUME NEW o \in Range(s.got) \cup Range(page), NEW p \in Range(s.got) \cup Range(page), o.id = p.id PROVE o = p
    BY <1>6, <1>7
  <2>1. \A u \in Range(page), v \in Range(s.got) : u.id # v.id
    BY <1>8, <1>11
  <2>2. \A u, v \in Range(page) : u.id = v.id => u = v
    BY <1>8, <1>9 DEF Distinct
  <2> QED BY <1>10, <2>1, <2>2
<1>13. ASSUME NEW n \in DOMAIN objects, n > t.offset, NEW o \in Range(t.got) PROVE o.id # objects[n].id
  <2>1. n \in Nat /\ n > offset + PageLimit /\ n > offset
    BY <1>3, <1>6, <1>9, <1>13
  <2>2. CASE o \in Range(s.got)
    BY <1>11, <2>1, <2>2
  <2>3. CASE o \in Range(page)
    <3>1. PICK k \in DOMAIN objects : k > offset /\ k <= offset + PageLimit /\ o = objects[k]
      BY <1>8, <2>3
    <3>2. k # n
      BY <1>3, <1>9, <2>1, <3>1
    <3> QED BY <1>9, <3>1, <3>2 DEF Distinct
  <2> QED BY <1>6, <1>7, <2>2, <2>3
<1>14. t.offset \in Nat /\ t.got \in Seq(BackupObjects)
  BY <1>3, <1>6, <1>7
<1>15. GotInv(t)
  BY <1>12, <1>13, <1>14 DEF GotInv
<1>16. FetchedInv(t)
  BY <1>2, <1>6 DEF WorkerInv, FetchedInv
<1>17. WorkerInv(t)
  BY <1>2, <1>6, <1>15, <1>16 DEF WorkerInv
<1> QED BY <1>1, <1>17, WorkerGoes

\* There is a file that is made closest to a restore point.
LEMMA BestIn ==
    ASSUME NEW record, record.at \in Nat, NEW candidates \in SUBSET Files, candidates # {}
    PROVE  best_file(record, candidates) \in candidates
<1> DEFINE exact == {f \in candidates : f.id = record.file}
           chosen == IF exact # {} THEN exact ELSE candidates
<1>1. chosen \in SUBSET Files /\ chosen \subseteq candidates /\ chosen # {}
  OBVIOUS
<1>2. best_file(record, candidates) =
         CHOOSE f \in chosen : \A g \in chosen : Precedes(Closest(record, f), Closest(record, g))
  BY DEF best_file
<1> HIDE DEF chosen
<1> DEFINE far(f) == Distance(f.at, record.at)
           other(f) == IF f.id = record.file THEN 0 ELSE 1
<1>3. \A f \in chosen : far(f) \in Nat /\ other(f) \in Nat /\ f.id \in Nat
  <2> TAKE f \in chosen
  <2>1. f.at \in Nat /\ f.id \in Nat
    BY <1>1, SnapshotAssumption
  <2> QED BY <2>1 DEF Distance
<1>4. \A f \in chosen : Closest(record, f)[1] = far(f) /\ Closest(record, f)[2] = other(f) /\ Closest(record, f)[3] = f.id
  BY DEF Closest
<1> HIDE DEF far, other
<1> DEFINE A == {far(f) : f \in chosen}
<1>5. A \in SUBSET Nat /\ A # {}
  BY <1>1, <1>3
<1>6. PICK a \in A : \A x \in A : a <= x
  <2> HIDE DEF A
  <2> QED BY <1>5, Least
<1> DEFINE B == {other(f) : f \in {g \in chosen : far(g) = a}}
<1>7. B \in SUBSET Nat /\ B # {}
  BY <1>3
<1>8. PICK b \in B : \A x \in B : b <= x
  <2> HIDE DEF B
  <2> QED BY <1>7, Least
<1> DEFINE C == {f.id : f \in {g \in chosen : far(g) = a /\ other(g) = b}}
<1>9. C \in SUBSET Nat /\ C # {}
  BY <1>3
<1>10. PICK c \in C : \A x \in C : c <= x
  <2> HIDE DEF C
  <2> QED BY <1>9, Least
<1>11. PICK f \in chosen : far(f) = a /\ other(f) = b /\ f.id = c
  OBVIOUS
<1>12. \A g \in chosen : a <= far(g) /\ (far(g) = a => b <= other(g)) /\ (far(g) = a /\ other(g) = b => c <= g.id)
  BY <1>6, <1>8, <1>10
<1> HIDE DEF A, B, C
<1>13. \A g \in chosen : Precedes(Closest(record, f), Closest(record, g))
  <2> TAKE g \in chosen
  <2>1. /\ far(f) \in Nat /\ other(f) \in Nat /\ f.id \in Nat /\ far(g) \in Nat /\ other(g) \in Nat /\ g.id \in Nat
    BY <1>3
  <2>2. far(f) <= far(g) /\ (far(g) = far(f) => other(f) <= other(g)) /\ (far(g) = far(f) /\ other(g) = other(f) => f.id <= g.id)
    BY <1>11, <1>12
  <2>3. \/ far(f) < far(g)
        \/ far(f) = far(g) /\ other(f) < other(g)
        \/ far(f) = far(g) /\ other(f) = other(g) /\ f.id <= g.id
    BY <2>1, <2>2
  <2> QED BY <1>4, <2>3 DEF Precedes
<1> QED BY <1>1, <1>2, <1>13

\* The records of the restore points of what was fetched.
RecordsOf(some) == UNION {{RecordOf(o, t) : t \in points[o.id]} : o \in some}
MergedOf(some, files) == {merged(r, files) : r \in RecordsOf(some)}
OwnIds(list) == \A o, p \in Range(list) : o.id = p.id => o = p
Recorded(records) == IsFiniteSet(records) /\ Keyed(records) /\ \A r \in records : r.name # None /\ r.at <= clock

LEMMA RecordsAre ==
    ASSUME ServerInv, NEW got \in Seq(BackupObjects), OwnIds(got), NEW some \in SUBSET Range(got), NEW files
    PROVE  Recorded(MergedOf(some, files))
<1> USE DEF OwnIds
<1> DEFINE all == {merged(r, files) : r \in RecordsOf(some)}
<1>1. clock \in Nat /\ points \in [Ids -> SUBSET (1 .. clock)]
  BY DEF ServerInv
<1>2. \A o \in Range(got) : o \in BackupObjects
  BY DEF Range
<1>3. \A o \in Range(got) : o.id \in Ids /\ o.id \in Nat /\ o.name # None
  <2> TAKE o \in Range(got)
  <2>1. o.id \in Ids /\ o.name \in {FirstObjects[n].name : n \in DOMAIN FirstObjects}
    BY <1>2 DEF BackupObjects
  <2>2. o.name # None
    BY <2>1, SnapshotAssumption
  <2> QED BY <2>1, <2>2, IdsAreNumbers
<1>4. \A o, t : RecordOf(o, t).name = o.name /\ RecordOf(o, t).at = t /\ RecordOf(o, t).object = o.id
  BY DEF RecordOf
<1>5. \A o, t : LET r == RecordOf(o, t) IN
         merged(r, files).name = r.name /\ merged(r, files).at = r.at /\ merged(r, files).object = r.object
  <2> TAKE o, t
  <2> DEFINE r == RecordOf(o, t)
             candidates == {f \in files : <<r.object, r.at>> \in f.points}
  <2>1. merged(r, files) = IF candidates = {} THEN r ELSE [r EXCEPT !.size = best_file(r, candidates).size]
    BY DEF merged
  <2>2. "name" \in DOMAIN r /\ "at" \in DOMAIN r /\ "object" \in DOMAIN r
    BY DEF RecordOf
  <2> HIDE DEF candidates, r
  <2> QED BY <2>1, <2>2 DEF r
<1>6. \A r \in all : \E o \in some, t \in 1 .. clock : r = merged(RecordOf(o, t), files)
  <2> TAKE r \in all
  <2>1. PICK o \in some : \E t \in points[o.id] : r = merged(RecordOf(o, t), files)
    BY DEF RecordsOf
  <2>2. \A t \in points[o.id] : t \in 1 .. clock
    BY <1>1, <1>3
  <2> QED BY <2>1, <2>2
<1>7. IsFiniteSet(all)
  <2> DEFINE K == (1 .. Len(got)) \X (1 .. clock)
             g == [k \in K |-> merged(RecordOf(got[k[1]], k[2]), files)]
             image == {g[k] : k \in K}
  <2>1. IsFiniteSet(K)
    <3>1. IsFiniteSet(1 .. Len(got)) /\ IsFiniteSet(1 .. clock)
      BY <1>1, FS_Interval
    <3> QED BY <3>1, FS_Product
  <2>2. DOMAIN g = K
    OBVIOUS
  <2>3. IsFiniteSet(image)
    <3> HIDE DEF g, K
    <3> QED BY <2>1, <2>2, ImageFinite
  <2>4. ASSUME NEW r \in all PROVE r \in image
    <3>1. PICK o \in some, t \in 1 .. clock : r = merged(RecordOf(o, t), files)
      BY <1>6
    <3>2. PICK n \in DOMAIN got : o = got[n]
      BY DEF Range
    <3>3. <<n, t>> \in K
      BY <3>1
    <3>4. g[<<n, t>>] = merged(RecordOf(got[n], t), files)
      BY <3>3
    <3> HIDE DEF g, K
    <3> QED BY <3>1, <3>2, <3>3, <3>4
  <2>5. all \in SUBSET image
    <3> HIDE DEF image, all
    <3> QED BY <2>4
  <2> HIDE DEF image
  <2> QED BY <2>3, <2>5, FS_Subset
<1>8. \A r \in all : r.name # None /\ r.at \in Nat /\ r.at <= clock /\ r.object \in Nat
  <2> TAKE r \in all
  <2>1. PICK o \in some, t \in 1 .. clock : r = merged(RecordOf(o, t), files)
    BY <1>6
  <2>2. r.name = o.name /\ r.at = t /\ r.object = o.id
    BY <1>4, <1>5, <2>1
  <2>3. o \in Range(got) /\ t \in Nat /\ t <= clock
    BY <1>1
  <2> QED BY <1>3, <2>2, <2>3
<1>9. ASSUME NEW r \in all, NEW q \in all, r.at = q.at, r.object = q.object PROVE r = q
  <2>1. PICK o \in some, t \in 1 .. clock : r = merged(RecordOf(o, t), files)
    BY <1>6
  <2>2. PICK p \in some, u \in 1 .. clock : q = merged(RecordOf(p, u), files)
    BY <1>6
  <2>3. r.at = t /\ r.object = o.id /\ q.at = u /\ q.object = p.id
    BY <1>4, <1>5, <2>1, <2>2
  <2>4. o = p /\ t = u
    BY <1>9, <2>3
  <2> QED BY <2>1, <2>2, <2>4
<1> HIDE DEF all
<1>10. Keyed(all)
  BY <1>8, <1>9 DEF Keyed
<1> QED BY <1>7, <1>8, <1>10 DEF all, Recorded, MergedOf

\* Where every restore point is listed by a file, each gets the size of one.
LEMMA SizesFound ==
    ASSUME NEW records, \A r \in records : r.at \in Nat /\ "size" \in DOMAIN r /\ "at" \in DOMAIN r /\ "object" \in DOMAIN r,
           NEW files \in SUBSET Files, uncovered(records, files) = {}
    PROVE  Sized({merged(r, files) : r \in records})
<1> SUFFICES ASSUME NEW r \in records
             PROVE  \E f \in Files : <<merged(r, files).object, merged(r, files).at>> \in f.points /\ f.size = merged(r, files).size
  BY DEF Sized
<1> DEFINE candidates == {f \in files : <<r.object, r.at>> \in f.points}
           best == best_file(r, candidates)
<1>1. candidates # {}
  BY DEF uncovered
<1>2. candidates \in SUBSET Files
  OBVIOUS
<1>3. best \in candidates
  <2> HIDE DEF candidates
  <2> QED BY <1>1, <1>2, BestIn
<1>4. merged(r, files) = [r EXCEPT !.size = best.size]
  BY <1>1 DEF merged
<1>5. best \in Files /\ <<r.object, r.at>> \in best.points
  BY <1>3
<1> HIDE DEF best, candidates
<1>6. merged(r, files).object = r.object /\ merged(r, files).at = r.at /\ merged(r, files).size = best.size
  BY <1>4
<1> QED BY <1>5, <1>6

LEMMA PointsKeep ==
    ASSUME SnapshotInv, NEW w \in Workers, FetchPoints(w)
    PROVE  SnapshotInv'
<1> DEFINE s == workers[w]
           matched == {o \in Range(s.got) : Matched(o, s.goal)}
<1>1. PICK skipped \in SUBSET matched :
        LET records == UNION {{RecordOf(o, t) : t \in points[o.id]} : o \in matched \ skipped}
            all == [s EXCEPT !.got = None, !.whole = skipped = {}]
        IN \E lost \in SUBSET {r.backup : r \in records} :
             LET files == {f \in Files : f.backup \in {r.backup : r \in records} \ lost}
             IN IF s.goal # All /\ records = {} THEN Goto(w, Resting)
                ELSE Goto(w, [all EXCEPT !.pc = "write", !.records = {merged(r, files) : r \in records},
                                    !.partial = s.goal = All /\ (\/ skipped # {} \/ lost # {}
                                                                 \/ uncovered(records, files) # {})])
  BY Zenon DEF FetchPoints
<1> DEFINE records == RecordsOf(matched \ skipped)
           all == [s EXCEPT !.got = None, !.whole = skipped = {}]
<1>2. PICK lost \in SUBSET {r.backup : r \in records} :
             LET files == {f \in Files : f.backup \in {r.backup : r \in records} \ lost}
             IN IF s.goal # All /\ records = {} THEN Goto(w, Resting)
                ELSE Goto(w, [all EXCEPT !.pc = "write", !.records = {merged(r, files) : r \in records},
                                    !.partial = s.goal = All /\ (\/ skipped # {} \/ lost # {}
                                                                 \/ uncovered(records, files) # {})])
  BY Zenon, <1>1 DEF RecordsOf
<1> DEFINE files == {f \in Files : f.backup \in {r.backup : r \in records} \ lost}
           some == matched \ skipped
           t == [all EXCEPT !.pc = "write", !.records = {merged(r, files) : r \in records},
                            !.partial = s.goal = All /\ (\/ skipped # {} \/ lost # {}
                                                         \/ uncovered(records, files) # {})]
<1>3. Goto(w, Resting) \/ Goto(w, t)
  BY Zenon, <1>2
<1>4. serial' = serial /\ snapshots' = snapshots /\ ServerUnchanged
  BY DEF FetchPoints, TableUnchanged
<1>5. WorkerInv(s) /\ ServerInv
  BY DEF SnapshotInv
<1>6. DOMAIN s = DOMAIN Resting
  BY <1>5 DEF WorkerInv
<1>7. files \in SUBSET Files /\ some \in SUBSET Range(s.got)
  OBVIOUS
<1> HIDE DEF files, matched
<1>8. /\ DOMAIN t = DOMAIN Resting /\ t.got = None /\ t.pc = "write" /\ t.whole = (skipped = {})
      /\ t.records = {merged(r, files) : r \in records} /\ t.offset = s.offset /\ t.loaded = s.loaded
      /\ t.goal = s.goal /\ t.partial = (s.goal = All /\ (skipped # {} \/ lost # {} \/ uncovered(records, files) # {}))
  BY <1>6 DEF Resting
<1> HIDE DEF t, s, all
<1>9. GotInv(t)
  <2>1. Range(None) = {} /\ None \in Seq(BackupObjects)
    BY DEF None, Range
  <2> QED BY <1>5, <1>8, <2>1 DEF GotInv, WorkerInv
<1>10. s.got \in Seq(BackupObjects) /\ OwnIds(s.got)
  BY <1>5 DEF WorkerInv, GotInv, OwnIds
<1>11. Recorded(t.records)
  <2> HIDE DEF some
  <2>1. records = RecordsOf(some)
    BY DEF some
  <2>2. t.records = MergedOf(some, files)
    BY <1>8, <2>1 DEF MergedOf
  <2> HIDE DEF records
  <2> QED BY <1>5, <1>7, <1>10, <2>2, RecordsAre
<1>12. t.goal = All /\ ~t.partial => Sized(t.records)
  <2> SUFFICES ASSUME t.goal = All, ~t.partial PROVE Sized(t.records)
    OBVIOUS
  <2>1. uncovered(records, files) = {}
    BY <1>8
  <2>2. \A r \in records : r.at \in Nat /\ "size" \in DOMAIN r /\ "at" \in DOMAIN r /\ "object" \in DOMAIN r
    <3> TAKE r \in records
    <3>0. PICK o \in some : \E u \in points[o.id] : r = RecordOf(o, u)
      BY DEF RecordsOf
    <3>1. PICK u \in points[o.id] : r = RecordOf(o, u)
      BY <3>0
    <3>2. o.id \in Ids
      <4>1. o \in BackupObjects
        BY <1>7, <1>10 DEF Range
      <4> QED BY <4>1 DEF BackupObjects
    <3>3. u \in Nat
      BY <1>5, <3>2 DEF ServerInv
    <3> QED BY <3>1, <3>3 DEF RecordOf
  <2> HIDE DEF records
  <2> QED BY <1>7, <1>8, <2>1, <2>2, SizesFound
<1>13. FetchedInv(t)
  BY <1>11, <1>12 DEF FetchedInv, Recorded
<1>14. WorkerInv(t)
  BY <1>5, <1>8, <1>9, <1>13 DEF WorkerInv
<1>15. CASE Goto(w, Resting)
  BY <1>4, <1>15, Rests
<1>16. CASE Goto(w, t)
  BY <1>4, <1>14, <1>16, WorkerGoes
<1> QED BY <1>3, <1>15, <1>16

LEMMA LoadKeeps ==
    ASSUME SnapshotInv, NEW w \in Workers, LoadRows(w)
    PROVE  SnapshotInv'
<1> DEFINE s == workers[w]
           t == [s EXCEPT !.pc = "flush", !.loaded = snapshots]
<1>1. Goto(w, t) /\ serial' = serial /\ snapshots' = snapshots /\ ServerUnchanged
  BY DEF LoadRows, TableUnchanged
<1>2. WorkerInv(s) /\ TableInv
  BY DEF SnapshotInv
<1>3. DOMAIN s = DOMAIN Resting
  BY <1>2 DEF WorkerInv
<1>4. DOMAIN t = DOMAIN Resting /\ t.pc = "flush" /\ t.loaded = snapshots /\ t.got = s.got /\ t.offset = s.offset
      /\ t.records = s.records /\ t.partial = s.partial /\ t.whole = s.whole /\ t.goal = s.goal
  BY <1>3 DEF Resting
<1> HIDE DEF t, s
<1>5. GotInv(t) /\ FetchedInv(t)
  BY <1>2, <1>4 DEF WorkerInv, GotInv, FetchedInv
<1>6. WorkerInv(t)
  BY <1>2, <1>4, <1>5 DEF WorkerInv, TableInv
<1> QED BY <1>1, <1>6, WorkerGoes

\* What a run writes.
Written(records) == write_records(newest(records))

LEMMA WrittenIn ==
    ASSUME NEW records, IsFiniteSet(records), Keyed(records)
    PROVE  Written(records) \subseteq records /\ IsFiniteSet(Written(records)) /\ Keyed(Written(records))
<1>1. Written(records) \in SUBSET records
  BY DEF Written, write_records, newest
<1>2. IsFiniteSet(Written(records))
  BY <1>1, FS_Subset
<1> QED BY <1>1, <1>2 DEF Keyed

LEMMA FlushKeeps ==
    ASSUME SnapshotInv, NEW w \in Workers, FlushRows(w)
    PROVE  SnapshotInv'
<1> DEFINE s == workers[w]
           replace == s.goal = All /\ s.whole
           session == SessionAfter(s.loaded, Written(s.records), replace, serial + 1)
           flush == Flushed(s.loaded, snapshots, session)
<1>1. /\ flush.failed => snapshots' = snapshots /\ serial' = serial
      /\ ~flush.failed => snapshots' = flush.table /\ serial' = session.next - 1
      /\ Goto(w, Resting) /\ ServerUnchanged
  BY DEF FlushRows, Written
<1>2. WorkerInv(s) /\ TableInv /\ ServerInv
  BY DEF SnapshotInv
<1>3. CASE flush.failed
  BY <1>1, <1>3, Rests
<1>4. CASE ~flush.failed
  <2>1. serial \in Nat /\ DOMAIN snapshots \subseteq 1 .. serial /\ Unique(snapshots) /\ DOMAIN s.loaded \subseteq 1 .. serial
        /\ IsFiniteSet(s.records) /\ Keyed(s.records)
    BY <1>2 DEF TableInv, WorkerInv, FetchedInv
  <2>2. serial + 1 \in Nat \ {0} /\ DOMAIN s.loaded \subseteq 1 .. ((serial + 1) - 1)
    BY <2>1
  <2>3. IsFiniteSet(Written(s.records)) /\ Keyed(Written(s.records))
    BY <2>1, WrittenIn
  <2>4. session.next \in Nat /\ serial + 1 <= session.next /\ DOMAIN session.rows \subseteq 1 .. (session.next - 1)
    <3> HIDE DEF s, replace
    <3> QED BY <2>2, <2>3, SessionIds
  <2> HIDE DEF session, s
  <2>5. DOMAIN session.rows \subseteq Nat
    BY <2>4
  <2>6. Unique(flush.table) /\ DOMAIN flush.table \subseteq DOMAIN snapshots \cup DOMAIN session.rows
    BY <1>4, <2>1, <2>5, FlushKeepsUnique
  <2> HIDE DEF flush
  <2>7. snapshots' = flush.table /\ serial' = session.next - 1
    BY <1>1, <1>4
  <2>8. serial' \in Nat /\ serial <= serial'
    BY <2>1, <2>4, <2>7
  <2>9. 1 .. serial \subseteq 1 .. serial'
    BY <2>1, <2>8
  <2>10. TableInv'
    BY <2>1, <2>4, <2>6, <2>7, <2>8, <2>9 DEF TableInv
  <2>11. objects' = objects /\ clock' = clock /\ points' = points
    BY <1>1 DEF ServerUnchanged
  <2>12. WorkerInv(Resting)
    BY <1>2, RestingInv DEF TableInv
  <2>13. ASSUME NEW v \in Workers PROVE WorkerInv(workers'[v])
    BY <1>1, <2>12 DEF SnapshotInv, Goto
  <2>14. ASSUME NEW v \in Workers PROVE WorkerInv(workers[v])'
    <3> DEFINE t == workers'[v]
    <3>1. WorkerInv(t)
      BY <2>13
    <3> HIDE DEF t
    <3>2. DOMAIN t.loaded \subseteq 1 .. serial'
      BY <2>9, <3>1 DEF WorkerInv
    <3> QED BY <2>11, <3>1, <3>2 DEF WorkerInv, GotInv, FetchedInv, t
  <2>15. DOMAIN workers' = Workers
    BY <1>1 DEF SnapshotInv, Goto
  <2>16. ServerInv'
    BY <1>2, <2>11 DEF ServerInv
  <2> QED BY <2>10, <2>14, <2>15, <2>16 DEF SnapshotInv
<1> QED BY <1>3, <1>4

\* Of every machine there is a newest record.
LEMMA NewestOf ==
    ASSUME NEW records, Keyed(records), NEW b \in Nat, \A r \in records : r.at <= b, NEW r \in records
    PROVE  \E n \in newest(records) : n.name = r.name /\ n.at >= r.at
<1> DEFINE mine == {q \in records : q.name = r.name}
           times == {q.at : q \in mine}
<1>1. times \in SUBSET Nat /\ times # {} /\ \A x \in times : x <= b
  BY DEF Keyed
<1>2. PICK t \in times : \A u \in times : u <= t
  <2> HIDE DEF times
  <2> QED BY <1>1, Greatest
<1> DEFINE firsts == {q.object : q \in {p \in mine : p.at = t}}
<1>3. firsts \in SUBSET Nat /\ firsts # {}
  BY DEF Keyed
<1>4. PICK o \in firsts : \A u \in firsts : o <= u
  <2> HIDE DEF firsts
  <2> QED BY <1>3, Least
<1>5. PICK n \in mine : n.at = t /\ n.object = o
  OBVIOUS
<1>6. \A q \in mine : q.at <= t /\ (q.at = t => o <= q.object)
  BY <1>2, <1>4
<1>7. \A q \in mine : q.at \in Nat /\ q.object \in Nat
  BY DEF Keyed
<1> HIDE DEF times, firsts
<1>8. \A q \in mine : n.at > q.at \/ (n.at = q.at /\ n.object <= q.object)
  <2> TAKE q \in mine
  <2>1. q.at \in Nat /\ q.object \in Nat /\ n.at \in Nat /\ n.object \in Nat /\ q.at <= n.at /\ (q.at = n.at => n.object <= q.object)
    BY <1>5, <1>6, <1>7
  <2> QED BY <2>1
<1>9. n \in newest(records)
  BY <1>8 DEF newest
<1>10. n.at >= r.at
  BY <1>5, <1>6, <1>7
<1> QED BY <1>9, <1>10

\* Where names and addresses go together, what is written goes with the table.
LEMMA Matches ==
    ASSUME TableInv, NEW records, IsFiniteSet(records), Keyed(records), \A r \in records : r.name # None,
           OneToOne(records \cup Range(snapshots))
    PROVE  Matching(snapshots, Written(records), serial + 1) /\ Written(records) = newest(records)
<1>1. \A r, q \in records \cup Range(snapshots) : Alike(r, q) => SameKeys(r, q)
  BY DEF OneToOne, Alike, SameKeys
<1>2. \A r, q \in newest(records) : Alike(r, q) => r = q
  <2> SUFFICES ASSUME NEW r \in newest(records), NEW q \in newest(records), Alike(r, q) PROVE r = q
    OBVIOUS
  <2>1. r \in records /\ q \in records
    BY DEF newest
  <2>2. r.name = q.name
    BY <1>1, <2>1 DEF SameKeys
  <2>3. /\ r.at > q.at \/ (r.at = q.at /\ r.object <= q.object)
        /\ q.at > r.at \/ (q.at = r.at /\ q.object <= r.object)
    BY <2>1, <2>2 DEF newest
  <2>4. r.at \in Nat /\ q.at \in Nat /\ r.object \in Nat /\ q.object \in Nat
    BY <2>1 DEF Keyed
  <2>5. r.at = q.at /\ r.object = q.object
    BY <2>3, <2>4
  <2> QED BY <2>1, <2>5 DEF Keyed
<1>3. Written(records) = newest(records)
  <2>1. \A r, q \in newest(records) : q.ip # None /\ q.ip = r.ip => q = r
    BY <1>2 DEF Alike
  <2> QED BY <2>1 DEF Written, write_records
<1>4. Written(records) \subseteq records /\ IsFiniteSet(Written(records)) /\ Keyed(Written(records))
  BY WrittenIn
<1>5. \A r \in Written(records), i \in DOMAIN snapshots : Alike(r, snapshots[i]) => SameKeys(r, snapshots[i])
  <2> TAKE r \in Written(records), i \in DOMAIN snapshots
  <2>1. snapshots[i] \in Range(snapshots)
    BY DEF Range
  <2> QED BY <1>1, <1>4, <2>1
<1>6. serial + 1 \in Nat \ {0} /\ DOMAIN snapshots \subseteq 1 .. ((serial + 1) - 1) /\ Unique(snapshots)
  BY DEF TableInv
<1>7. \A r, q \in Written(records) : Alike(r, q) => r = q
  BY <1>2, <1>3
<1> QED BY <1>3, <1>4, <1>5, <1>6, <1>7 DEF Matching

\* The row a lookup shows is one of the newest of those it matches.
LEMMA LookedUp ==
    ASSUME NEW table, DOMAIN table \subseteq Nat, NEW b \in Nat, NEW i,
           \A id \in DOMAIN table : table[id].at \in Nat /\ table[id].at <= b,
           NEW top \in Nat, \A id \in DOMAIN table : id <= top
    PROVE  LET mine(r) == r.name \in name_candidates(i) \/ r.ip \in ip_candidates(i)
           IN \/ lookup(table, i) = Nothing /\ \A id \in DOMAIN table : ~mine(table[id])
              \/ \E id \in DOMAIN table :
                    /\ lookup(table, i) = table[id] /\ mine(table[id])
                    /\ \A other \in DOMAIN table : mine(table[other]) => table[other].at <= table[id].at
<1> DEFINE mine(r) == r.name \in name_candidates(i) \/ r.ip \in ip_candidates(i)
           rows == {id \in DOMAIN table : mine(table[id])}
           best(id) == \A other \in rows : table[id].at > table[other].at \/ (table[id].at = table[other].at /\ id >= other)
<1>1. lookup(table, i) = IF rows = {} THEN Nothing ELSE table[CHOOSE id \in rows : best(id)]
  BY DEF lookup
<1> HIDE DEF mine
<1>2. CASE rows = {}
  BY <1>1, <1>2 DEF mine
<1>3. CASE rows # {}
  <2> DEFINE times == {table[id].at : id \in rows}
  <2>1. times \in SUBSET Nat /\ times # {} /\ \A x \in times : x <= b
    BY <1>3
  <2>2. PICK t \in times : \A u \in times : u <= t
    <3> HIDE DEF times
    <3> QED BY <2>1, Greatest
  <2> DEFINE latest == {id \in rows : table[id].at = t}
  <2>3. latest \in SUBSET Nat /\ latest # {} /\ \A x \in latest : x <= top
    OBVIOUS
  <2>4. PICK n \in latest : \A x \in latest : x <= n
    <3> HIDE DEF latest
    <3> QED BY <2>3, Greatest
  <2>5. \A id \in rows : table[id].at \in Nat /\ id \in Nat /\ table[id].at <= t /\ (table[id].at = t => id <= n)
    BY <2>2, <2>4
  <2>6. n \in rows /\ table[n].at = t
    BY <2>4
  <2> HIDE DEF times, latest
  <2>7. best(n)
    <3> TAKE other \in rows
    <3>1. table[n].at \in Nat /\ table[other].at \in Nat /\ n \in Nat /\ other \in Nat
          /\ table[other].at <= table[n].at /\ (table[other].at = table[n].at => other <= n)
      BY <2>5, <2>6
    <3> QED BY <3>1
  <2> DEFINE m == CHOOSE id \in rows : best(id)
  <2>8. m \in rows /\ best(m)
    <3> HIDE DEF best, rows
    <3> QED BY <2>6, <2>7
  <2>9. lookup(table, i) = table[m]
    BY <1>1, <1>3
  <2> HIDE DEF m
  <2>10. \A other \in rows : table[other].at <= table[m].at
    BY <2>5, <2>8
  <2> HIDE DEF best
  <2>11. m \in DOMAIN table /\ mine(table[m]) /\ \A other \in DOMAIN table : mine(table[other]) => table[other].at <= table[m].at
    BY <2>8, <2>10
  <2> QED BY <2>9, <2>11 DEF mine
<1> QED BY <1>2, <1>3

LEMMA FlushTells ==
    ASSUME SnapshotInv, NEW w \in Workers, FlushRows(w)
    PROVE  BackupsAreTold'
<1> DEFINE s == workers[w]
           W == Written(s.records)
           replace == s.goal = All /\ s.whole
           session == SessionAfter(s.loaded, W, replace, serial + 1)
           flush == Flushed(s.loaded, snapshots, session)
<1>0. PICK several : written' = [records |-> s.records, before |-> Range(s.loaded), failed |-> flush.failed,
                                 goal |-> s.goal, several |-> several, told |-> Told(s, several),
                                 replaced |-> replace, alone |-> s.loaded = snapshots]
  BY DEF FlushRows, Written
<1>1. /\ written' = [records |-> s.records, before |-> Range(s.loaded), failed |-> flush.failed,
                     goal |-> s.goal, several |-> several, told |-> Told(s, several),
                     replaced |-> replace, alone |-> s.loaded = snapshots]
      /\ ~flush.failed => snapshots' = flush.table
  BY <1>0 DEF FlushRows, Written
<1>2. WorkerInv(s) /\ TableInv /\ ServerInv
  BY DEF SnapshotInv
<1>3. /\ serial \in Nat /\ IsFiniteSet(s.records) /\ Keyed(s.records)
      /\ \A r \in s.records : r.name # None /\ r.at <= clock
      /\ s.goal = All /\ ~s.partial => Sized(s.records)
      /\ s.whole \in BOOLEAN /\ clock \in Nat
  BY <1>2 DEF TableInv, WorkerInv, FetchedInv, ServerInv
<1> HIDE DEF s
<1>4. SizesAreTold'
  <2>1. SUFFICES ASSUME s.goal = All,
                        "stages" \notin Told(s, several) \/ (~several /\ "run" \notin Told(s, several))
                 PROVE  \A r \in s.records : \E f \in Files : <<r.object, r.at>> \in f.points /\ f.size = r.size
    BY <1>1 DEF SizesAreTold
  <2>2. ~s.partial
    BY <2>1 DEF Told
  <2> QED BY <1>3, <2>1, <2>2 DEF Sized
<1>5. ASSUME s.loaded = snapshots, OneToOne(s.records \cup Range(snapshots))
      PROVE  /\ ~flush.failed /\ snapshots' = flush.table
             /\ W = newest(s.records) /\ W \subseteq s.records
             /\ \A r \in W : \E id \in DOMAIN snapshots' : snapshots'[id] = r
             /\ replace => \A id \in DOMAIN snapshots' : snapshots'[id] \in W
             /\ \E top \in Nat : DOMAIN snapshots' \subseteq 1 .. top
  <2>1. Matching(snapshots, W, serial + 1) /\ W = newest(s.records)
    BY <1>2, <1>3, <1>5, Matches
  <2>2. replace \in BOOLEAN
    BY <1>3
  <2>3. flush = Flushed(snapshots, snapshots, session) /\ session = SessionAfter(snapshots, W, replace, serial + 1)
    BY <1>5
  <2> HIDE DEF W, replace, flush
  <2>4. /\ ~flush.failed
        /\ session.next \in Nat \ {0} /\ DOMAIN flush.table \subseteq 1 .. (session.next - 1)
        /\ \A r \in W : \E id \in DOMAIN flush.table : flush.table[id] = r
        /\ replace => \A id \in DOMAIN flush.table : flush.table[id] \in W
    <3> HIDE DEF session
    <3> QED BY <2>1, <2>2, <2>3, WriteIs
  <2>5. snapshots' = flush.table
    BY <1>1, <2>4 DEF flush
  <2>6. W \subseteq s.records
    BY <1>3, WrittenIn DEF W
  <2>7. session.next - 1 \in Nat
    BY <2>4
  <2> HIDE DEF session
  <2> QED BY <2>1, <2>4, <2>5, <2>6, <2>7
<1>6. written'.records = s.records /\ written'.before = Range(s.loaded) /\ written'.failed = flush.failed
      /\ written'.replaced = replace /\ written'.alone = (s.loaded = snapshots)
  BY <1>1
<1> HIDE DEF W, replace, flush, session
<1>7. ASSUME written'.alone, OneToOne(written'.records \cup written'.before)
      PROVE  s.loaded = snapshots /\ OneToOne(s.records \cup Range(snapshots))
  BY <1>6, <1>7
<1>8. ASSUME NEW r \in s.records PROVE \E n \in newest(s.records) : n.name = r.name /\ n.at >= r.at
  BY <1>3, NewestOf
<1>9. WrittenAsFetched'
  <2> SUFFICES ASSUME written'.alone, OneToOne(written'.records \cup written'.before)
               PROVE  /\ ~written'.failed
                      /\ \A r \in written'.records :
                           \E row \in Range(snapshots') \cap written'.records : row.name = r.name /\ row.at >= r.at
                      /\ written'.replaced => Range(snapshots') \subseteq written'.records
    BY DEF WrittenAsFetched
  <2>1. /\ ~flush.failed
        /\ W = newest(s.records) /\ W \subseteq s.records
        /\ \A r \in W : \E id \in DOMAIN snapshots' : snapshots'[id] = r
        /\ replace => \A id \in DOMAIN snapshots' : snapshots'[id] \in W
    BY <1>5, <1>7
  <2>2. ASSUME NEW r \in s.records
        PROVE  \E row \in Range(snapshots') \cap s.records : row.name = r.name /\ row.at >= r.at
    <3>1. PICK n \in W : n.name = r.name /\ n.at >= r.at
      BY <1>8, <2>1
    <3>2. n \in Range(snapshots') /\ n \in s.records
      BY <2>1 DEF Range
    <3> QED BY <3>1, <3>2
  <2>3. replace => Range(snapshots') \subseteq s.records
    BY <2>1 DEF Range
  <2> QED BY <1>6, <2>1, <2>2, <2>3
<1>10. LookupFindsNewest'
  <2> SUFFICES ASSUME written'.alone, written'.replaced, OneToOne(written'.records \cup written'.before), NEW i \in DOMAIN Inventory
               PROVE  LET mine == {r \in s.records : r.name \in name_candidates(i) \/ r.ip \in ip_candidates(i)}
                          row == lookup(snapshots', i)
                      IN IF mine = {} THEN row = Nothing ELSE row \in mine /\ \A r \in mine : r.at <= row.at
    BY <1>6 DEF LookupFindsNewest
  <2> DEFINE fits(r) == r.name \in name_candidates(i) \/ r.ip \in ip_candidates(i)
             mine == {r \in s.records : fits(r)}
             row == lookup(snapshots', i)
  <2>1. /\ W = newest(s.records) /\ W \subseteq s.records
        /\ \A r \in W : \E id \in DOMAIN snapshots' : snapshots'[id] = r
        /\ \A id \in DOMAIN snapshots' : snapshots'[id] \in W
        /\ \E top \in Nat : DOMAIN snapshots' \subseteq 1 .. top
    BY <1>5, <1>6, <1>7
  <2>2. PICK top \in Nat : DOMAIN snapshots' \subseteq 1 .. top
    BY <2>1
  <2>3. DOMAIN snapshots' \subseteq Nat /\ \A id \in DOMAIN snapshots' : id <= top
    BY <2>2
  <2>4. \A id \in DOMAIN snapshots' : snapshots'[id].at \in Nat /\ snapshots'[id].at <= clock
    BY <1>3, <2>1 DEF Keyed
  <2>5. \/ row = Nothing /\ \A id \in DOMAIN snapshots' : ~fits(snapshots'[id])
        \/ \E id \in DOMAIN snapshots' :
              /\ row = snapshots'[id] /\ fits(snapshots'[id])
              /\ \A other \in DOMAIN snapshots' : fits(snapshots'[other]) => snapshots'[other].at <= snapshots'[id].at
    <3> HIDE DEF fits
    <3>1. \A table : DOMAIN table \subseteq Nat /\ (\A id \in DOMAIN table : table[id].at \in Nat /\ table[id].at <= clock)
                     /\ (\A id \in DOMAIN table : id <= top) =>
            \/ lookup(table, i) = Nothing /\ \A id \in DOMAIN table : ~fits(table[id])
            \/ \E id \in DOMAIN table :
                  /\ lookup(table, i) = table[id] /\ fits(table[id])
                  /\ \A other \in DOMAIN table : fits(table[other]) => table[other].at <= table[id].at
      BY <1>3, LookedUp DEF fits
    <3> QED BY <2>3, <2>4, <3>1
  <2>6. \A r \in s.records : fits(r) => \E n \in W : fits(n) /\ n.at >= r.at
    <3> TAKE r \in s.records
    <3>1. PICK n \in newest(s.records) : n.name = r.name /\ n.at >= r.at
      BY <1>8
    <3>2. n \in s.records
      BY <2>1, <3>1
    <3>3. n.ip = r.ip
      BY <1>7, <3>1, <3>2 DEF OneToOne
    <3> QED BY <2>1, <3>1, <3>3
  <2> HIDE DEF row, fits
  <2>7. CASE mine = {}
    <3>1. \A id \in DOMAIN snapshots' : ~fits(snapshots'[id])
      BY <2>1, <2>7
    <3>2. row = Nothing
      BY <2>5, <3>1
    <3> QED BY <2>7, <3>2 DEF row, fits
  <2>8. CASE mine # {}
    <3>1. PICK r \in mine : TRUE
      BY <2>8
    <3>2. PICK n \in W : fits(n) /\ n.at >= r.at
      BY <2>6, <3>1
    <3>3. PICK id \in DOMAIN snapshots' :
              /\ row = snapshots'[id] /\ fits(snapshots'[id])
              /\ \A other \in DOMAIN snapshots' : fits(snapshots'[other]) => snapshots'[other].at <= snapshots'[id].at
      BY <2>1, <2>5, <3>2
    <3>4. row \in mine
      BY <2>1, <3>3
    <3>5. ASSUME NEW q \in mine PROVE q.at <= row.at
      <4>1. PICK p \in W : fits(p) /\ p.at >= q.at
        BY <2>6
      <4>2. p.at <= row.at
        BY <2>1, <3>3, <4>1
      <4>3. p.at \in Nat /\ q.at \in Nat /\ row.at \in Nat
        BY <1>3, <2>1, <3>4 DEF Keyed
      <4> QED BY <4>1, <4>2, <4>3
    <3> QED BY <2>8, <3>4, <3>5 DEF row, fits
  <2> QED BY <2>7, <2>8
<1> QED BY <1>4, <1>9, <1>10 DEF BackupsAreTold, SnapshotsAreNewest

LEMMA QuietTells == written = Nothing => BackupsAreTold
BY DEF BackupsAreTold, SnapshotsAreNewest, WrittenAsFetched, LookupFindsNewest, SizesAreTold

LEMMA SnapshotStep ==
    ASSUME SnapshotInv, BackupsAreTold, [SnapshotNext]_snapshotVars
    PROVE  SnapshotInv' /\ BackupsAreTold'
<1>1. CASE UNCHANGED snapshotVars
  <2>1. SnapshotInv'
    BY <1>1 DEF snapshotVars, SnapshotInv, ServerInv, TableInv, WorkerInv, GotInv, FetchedInv
  <2>2. BackupsAreTold'
    BY <1>1 DEF snapshotVars, BackupsAreTold, SnapshotsAreNewest, WrittenAsFetched, LookupFindsNewest, SizesAreTold
  <2> QED BY <2>1, <2>2
<1>2. ASSUME written' = Nothing PROVE BackupsAreTold'
  BY <1>2 DEF BackupsAreTold, SnapshotsAreNewest, WrittenAsFetched, LookupFindsNewest, SizesAreTold
<1>3. CASE Change
  <2>1. written' = Nothing
    BY <1>3 DEF Change, TableUnchanged
  <2> QED BY <1>2, <1>3, <2>1, ChangeKeeps
<1>4. CASE \E w \in Workers : StartSync(w)
  <2>1. written' = Nothing
    BY <1>4 DEF StartSync, TableUnchanged
  <2> QED BY <1>2, <1>4, <2>1, StartKeeps
<1>5. CASE \E w \in Workers : FetchPage(w)
  <2>1. written' = Nothing
    BY <1>5 DEF FetchPage, TableUnchanged
  <2> QED BY <1>2, <1>5, <2>1, PageKeeps
<1>6. CASE \E w \in Workers : FetchFails(w)
  <2>1. PICK w \in Workers : FetchFails(w)
    BY <1>6
  <2>2. Goto(w, Resting) /\ ServerUnchanged /\ serial' = serial /\ snapshots' = snapshots /\ written' = Nothing
    BY <2>1 DEF FetchFails, TableUnchanged
  <2>3. SnapshotInv'
    BY <2>2, Rests
  <2> QED BY <1>2, <2>2, <2>3
<1>7. CASE \E w \in Workers : FetchPoints(w)
  <2>1. written' = Nothing
    BY <1>7 DEF FetchPoints, TableUnchanged
  <2> QED BY <1>2, <1>7, <2>1, PointsKeep
<1>8. CASE \E w \in Workers : LoadRows(w)
  <2>1. written' = Nothing
    BY <1>8 DEF LoadRows, TableUnchanged
  <2> QED BY <1>2, <1>8, <2>1, LoadKeeps
<1>9. CASE \E w \in Workers : FlushRows(w)
  BY <1>9, FlushKeeps, FlushTells
<1> QED BY <1>1, <1>3, <1>4, <1>5, <1>6, <1>7, <1>8, <1>9 DEF SnapshotNext

\* However runs overlap and the server changes while they read it, a run that
\* writes alone leaves the newest restore point of every machine it fetched
\* (_write_machine_backup_snapshots), and says so when a size is missing.
THEOREM BackupsAlwaysTold == SnapshotSpec => []BackupsAreTold
<1>1. SnapshotInit => SnapshotInv /\ BackupsAreTold
  BY SnapshotStarts, QuietTells DEF SnapshotInit
<1>2. (SnapshotInv /\ BackupsAreTold) /\ [SnapshotNext]_snapshotVars => (SnapshotInv /\ BackupsAreTold)'
  BY SnapshotStep
<1> QED BY <1>1, <1>2, PTL DEF SnapshotSpec

----------------------------------------------------------------------------
(* The lists of the risk center: a set in an order, the cards in theirs,   *)
(* and the pages that are cut of a list.                                   *)

Orders(order, S) ==
    /\ \A x \in S : <<x, x>> \notin order
    /\ \A x, y, z \in S : <<x, y>> \in order /\ <<y, z>> \in order => <<x, z>> \in order
    /\ \A x, y \in S : x # y => <<x, y>> \in order \/ <<y, x>> \in order
Below(S, order, x) == {y \in S : <<y, x>> \in order}

LEMMA OrderedIs ==
    ASSUME NEW S, IsFiniteSet(S), NEW order, Orders(order, S)
    PROVE  /\ Cardinality(S) \in Nat
           /\ Ordered(S, order) \in [1 .. Cardinality(S) -> S]
           /\ \A x \in S : \E n \in 1 .. Cardinality(S) : Ordered(S, order)[n] = x
           /\ \A n, m \in 1 .. Cardinality(S) : n < m => <<Ordered(S, order)[n], Ordered(S, order)[m]>> \in order
<1> DEFINE N == Cardinality(S)
           rank == [x \in S |-> Cardinality(Below(S, order, x)) + 1]
<1>1. N \in Nat
  BY FS_CardinalityType
<1>2. \A x \in S : IsFiniteSet(Below(S, order, x)) /\ Cardinality(Below(S, order, x)) \in Nat
  <2> TAKE x \in S
  <2>1. Below(S, order, x) \in SUBSET S
    BY DEF Below
  <2> QED BY <2>1, FS_Subset, FS_CardinalityType
<1>3. ASSUME NEW x \in S PROVE Cardinality(Below(S, order, x)) < N
  <2>1. Below(S, order, x) \in SUBSET S /\ Below(S, order, x) # S
    BY DEF Below, Orders
  <2> QED BY <1>1, <1>2, <2>1, FS_Subset
<1>4. ASSUME NEW x \in S, NEW y \in S, <<x, y>> \in order
      PROVE  Cardinality(Below(S, order, x)) < Cardinality(Below(S, order, y))
  <2>1. Below(S, order, x) \in SUBSET Below(S, order, y)
    BY <1>4 DEF Below, Orders
  <2>2. x \in Below(S, order, y) /\ x \notin Below(S, order, x)
    BY <1>4 DEF Below, Orders
  <2>3. Below(S, order, x) # Below(S, order, y)
    BY <2>2
  <2> QED BY <1>2, <2>1, <2>3, FS_Subset
<1>5. ASSUME NEW x \in S, NEW y \in S, x # y
      PROVE  Cardinality(Below(S, order, x)) # Cardinality(Below(S, order, y))
  <2>1. <<x, y>> \in order \/ <<y, x>> \in order
    BY <1>5 DEF Orders
  <2>2. Cardinality(Below(S, order, x)) < Cardinality(Below(S, order, y))
        \/ Cardinality(Below(S, order, y)) < Cardinality(Below(S, order, x))
    BY <1>4, <2>1
  <2> QED BY <1>2, <2>2
<1>6. rank \in [S -> 1 .. N] /\ \A x, y \in S : rank[x] = rank[y] => x = y
  BY <1>1, <1>2, <1>3, <1>5
<1>7. \A n \in 1 .. N : \E x \in S : rank[x] = n
  <2> HIDE DEF rank
  <2>1. rank \in Injection(S, 1 .. N)
    BY <1>6 DEF Injection, IsInjective
  <2>2. IsFiniteSet(1 .. N) /\ Cardinality(1 .. N) = N
    BY <1>1, FS_Interval
  <2>3. rank \in Surjection(S, 1 .. N)
    BY <2>1, <2>2, FS_Injection
  <2> QED BY <2>3 DEF Surjection
<1> DEFINE At(n, x) == x \in S /\ Cardinality(Below(S, order, x)) = n - 1
<1>8. ASSUME NEW n \in 1 .. N PROVE At(n, Ordered(S, order)[n])
  <2>1. PICK x \in S : rank[x] = n
    BY <1>7
  <2>2. At(n, x)
    BY <1>2, <2>1
  <2>3. Ordered(S, order)[n] = CHOOSE y \in S : Cardinality(Below(S, order, y)) = n - 1
    BY DEF Ordered, Below
  <2>4. Ordered(S, order)[n] = CHOOSE y : At(n, y)
    BY <2>3
  <2> HIDE DEF At
  <2> QED BY <2>2, <2>4
<1>9. Ordered(S, order) \in [1 .. N -> S]
  <2> DEFINE nth == [n \in 1 .. N |-> CHOOSE x \in S : Cardinality({y \in S : <<y, x>> \in order}) = n - 1]
  <2>1. Ordered(S, order) = nth
    BY DEF Ordered
  <2>2. \A n \in 1 .. N : nth[n] \in S
    <3> HIDE DEF nth
    <3> QED BY <1>8, <2>1
  <2>3. nth \in [1 .. N -> S]
    BY <2>2
  <2> HIDE DEF nth
  <2> QED BY <2>1, <2>3
<1>10. ASSUME NEW x \in S PROVE \E n \in 1 .. N : Ordered(S, order)[n] = x
  <2> DEFINE n == rank[x]
  <2>1. n \in 1 .. N /\ n - 1 = Cardinality(Below(S, order, x))
    BY <1>2, <1>6
  <2>2. At(n, Ordered(S, order)[n])
    BY <1>8, <2>1
  <2>3. Ordered(S, order)[n] = x
    BY <1>5, <2>1, <2>2
  <2> QED BY <2>1, <2>3
<1>11. ASSUME NEW n \in 1 .. N, NEW m \in 1 .. N, n < m PROVE <<Ordered(S, order)[n], Ordered(S, order)[m]>> \in order
  <2> DEFINE x == Ordered(S, order)[n]
             y == Ordered(S, order)[m]
  <2>1. x \in S /\ y \in S /\ Cardinality(Below(S, order, x)) = n - 1 /\ Cardinality(Below(S, order, y)) = m - 1
    BY <1>8
  <2> HIDE DEF x, y
  <2>2. x # y
    BY <1>11, <2>1
  <2>3. ~(<<y, x>> \in order)
    BY <1>4, <1>11, <2>1
  <2>4. <<x, y>> \in order
    BY <2>1, <2>2, <2>3 DEF Orders
  <2> QED BY <2>4 DEF x, y
<1> HIDE DEF rank, At
<1> QED BY <1>1, <1>9, <1>10, <1>11

\* What passes the filters, in whatever order it comes.
Passing(list, q) == {n \in DOMAIN list : matches(list[n], q)}

LEMMA FilteredIs ==
    ASSUME NEW list, IsFiniteSet(DOMAIN list), NEW q
    PROVE  /\ Cardinality(Passing(list, q)) \in Nat
           /\ Len(filtered(list, q)) = Cardinality(Passing(list, q))
           /\ \E S : filtered(list, q) \in Seq(S)
<1> DEFINE places == Passing(list, q)
           N == Cardinality(places)
           kept == Ordered(places, {p \in places \X places : p[1] < p[2]})
           all == [n \in 1 .. N |-> list[kept[n]]]
<1>1. places \in SUBSET DOMAIN list
  BY DEF Passing
<1>2. N \in Nat
  BY <1>1, FS_Subset, FS_CardinalityType
<1>3. DOMAIN kept = 1 .. N
  BY DEF Ordered
<1>4. filtered(list, q) = [n \in DOMAIN kept |-> list[kept[n]]]
  BY DEF filtered, Passing
<1>5. filtered(list, q) = all
  <2> HIDE DEF kept
  <2> QED BY <1>3, <1>4
<1>6. all \in [1 .. N -> {list[kept[n]] : n \in 1 .. N}]
  OBVIOUS
<1> HIDE DEF kept, places, N
<1>7. all \in Seq({list[kept[n]] : n \in 1 .. N}) /\ Len(all) = N
  BY <1>2, <1>6
<1> HIDE DEF all
<1> QED BY <1>2, <1>5, <1>7 DEF N, places

PageEnd(all, n) == IF n * CardLimit < Len(all) THEN n * CardLimit ELSE Len(all)

LEMMA Products ==
    ASSUME NEW b \in Nat \ {0}
    PROVE  \A m, n \in Nat : /\ m * b \in Nat /\ (m + 1) * b = m * b + b /\ 1 * b = b /\ 0 * b = 0
                              /\ m <= n => m * b <= n * b
OBVIOUS

LEMMA Quotient ==
    ASSUME NEW a \in Nat, NEW b \in Nat \ {0}
    PROVE  a \div b \in Nat /\ (a \div b) * b <= a /\ a < (a \div b) * b + b
OBVIOUS

LEMMA PagesAre ==
    ASSUME NEW total \in Nat
    PROVE  /\ pages(total) \in Nat /\ pages(total) >= 1 /\ pages(total) * CardLimit >= total
           /\ pages(total) > 1 => (pages(total) - 1) * CardLimit < total
<1> DEFINE a == (total + CardLimit - 1) \div CardLimit
<1>0. CardLimit \in Nat \ {0}
  BY RiskAssumption
<1>1. total + CardLimit - 1 \in Nat
  BY <1>0
<1>2. a \in Nat /\ a * CardLimit <= total + CardLimit - 1 /\ total + CardLimit - 1 < a * CardLimit + CardLimit
  BY <1>0, <1>1, Quotient
<1>3. pages(total) = Max({a, 1})
  BY DEF pages
<1> HIDE DEF a
<1>4. Max({a, 1}) = IF a >= 1 THEN a ELSE 1
  BY <1>2 DEF Max
<1>5. a * CardLimit \in Nat /\ 1 * CardLimit = CardLimit /\ 0 * CardLimit = 0
  BY <1>0, <1>2, Products
<1>6. CASE a >= 1
  <2>1. a - 1 \in Nat /\ a = (a - 1) + 1
    BY <1>2, <1>6
  <2>2. a * CardLimit = (a - 1) * CardLimit + CardLimit /\ (a - 1) * CardLimit \in Nat
    BY <1>0, <2>1, Products
  <2>3. pages(total) = a
    BY <1>3, <1>4, <1>6
  <2> QED BY <1>0, <1>2, <1>6, <2>2, <2>3
<1>7. CASE ~(a >= 1)
  <2>1. a = 0 /\ pages(total) = 1
    BY <1>2, <1>3, <1>4, <1>7
  <2>2. total < CardLimit
    BY <1>0, <1>2, <1>5, <2>1
  <2> QED BY <1>0, <1>5, <2>1, <2>2
<1> QED BY <1>6, <1>7

LEMMA LeastOfTwo ==
    ASSUME NEW a \in Nat, NEW b \in Nat
    PROVE  Min({a, b}) = IF a < b THEN a ELSE b
BY DEF Min

LEMMA PageEndIs ==
    ASSUME NEW S, NEW all \in Seq(S), NEW n \in Nat
    PROVE  Min({n * CardLimit, Len(all)}) = PageEnd(all, n)
<1>1. Len(all) \in Nat
  OBVIOUS
<1>2. n * CardLimit \in Nat
  BY RiskAssumption, Products
<1>3. Min({n * CardLimit, Len(all)}) = IF n * CardLimit < Len(all) THEN n * CardLimit ELSE Len(all)
  BY <1>1, <1>2, LeastOfTwo
<1> QED BY <1>3 DEF PageEnd

\* The pages of a list, one after the other, are the list.
PageOf(all, n) == SubSeq(all, (n - 1) * CardLimit + 1, Min({n * CardLimit, Len(all)}))

LEMMA PagesJoin ==
    ASSUME NEW S, NEW all \in Seq(S), NEW n \in Nat, n >= 1, n * CardLimit < Len(all)
    PROVE  SubSeq(all, 1, PageEnd(all, n)) \o PageOf(all, n + 1) = SubSeq(all, 1, PageEnd(all, n + 1))
<1> DEFINE L == Len(all)
           a == n * CardLimit
           b == PageEnd(all, n + 1)
<1>0. L \in Nat /\ all \in [1 .. L -> S] /\ all = [k \in 1 .. L |-> all[k]]
  OBVIOUS
<1>1. a \in Nat /\ b \in Nat /\ a <= b /\ b <= L /\ a >= 1
  <2>1. CardLimit \in Nat \ {0}
    BY RiskAssumption
  <2>2. n * CardLimit \in Nat /\ (n + 1) * CardLimit = n * CardLimit + CardLimit
    BY <2>1, Products
  <2>3. 1 * CardLimit <= n * CardLimit /\ 1 * CardLimit = CardLimit
    BY <2>1, Products
  <2> QED BY <1>0, <2>1, <2>2, <2>3 DEF PageEnd
<1>2. PageEnd(all, n) = a
  BY DEF PageEnd
<1>3. PageOf(all, n + 1) = SubSeq(all, a + 1, b)
  <2> DEFINE m == n + 1
  <2>1. m - 1 = n /\ m \in Nat
    OBVIOUS
  <2>2. b = PageEnd(all, m)
    OBVIOUS
  <2> HIDE DEF m, b
  <2>3. Min({m * CardLimit, Len(all)}) = b
    BY <2>1, <2>2, PageEndIs, Zenon
  <2>4. PageOf(all, m) = SubSeq(all, a + 1, b)
    BY <2>1, <2>3 DEF PageOf
  <2> QED BY <2>4 DEF m
<1> HIDE DEF a, b, L
<1>4. SubSeq(all, 1, a) = [k \in 1 .. a |-> all[k]]
  BY <1>0, <1>1
<1>5. SubSeq(all, 1, b) = [k \in 1 .. b |-> all[k]]
  BY <1>0, <1>1
<1>6. SubSeq(all, a + 1, b) = [k \in 1 .. b - a |-> all[k + a]]
  BY <1>0, <1>1
<1>7. [k \in 1 .. a |-> all[k]] \o [k \in 1 .. b - a |-> all[k + a]] = [k \in 1 .. b |-> all[k]]
  BY <1>0, <1>1
<1> QED BY <1>2, <1>3, <1>4, <1>5, <1>6, <1>7 DEF b

\* Where the pages end that are put together.
Joins(start, page, P) ==
    /\ start = [k \in 1 .. P |-> start[k]]
    /\ start[1] = page[1] /\ \A k \in 2 .. P : start[k] = start[k - 1] \o page[k]

LEMMA FlattenIs ==
    ASSUME NEW P \in Nat, P >= 1, NEW page, DOMAIN page = 1 .. P, NEW start, Joins(start, page, P)
    PROVE  FlattenSeq(page) = start[P]
<1> DEFINE Built(f) == [k \in 1 .. Len(page) |-> IF k = 1 THEN page[k] ELSE f[k - 1] \o page[k]]
           flatten == CHOOSE f : f = Built(f)
           Bad == {k \in 1 .. P : flatten[k] # start[k]}
<1>1. Len(page) = P
  BY DEF Len
<1>2. start = Built(start)
  <2>1. ASSUME NEW k \in 1 .. P PROVE start[k] = IF k = 1 THEN page[k] ELSE start[k - 1] \o page[k]
    <3>1. CASE k = 1
      BY <3>1 DEF Joins
    <3>2. CASE k # 1
      <4>1. k \in 2 .. P
        BY <3>2
      <4> QED BY <3>2, <4>1 DEF Joins
    <3> QED BY <3>1, <3>2
  <2>2. Built(start) = [k \in 1 .. P |-> start[k]]
    BY <1>1, <2>1
  <2> HIDE DEF Built
  <2> QED BY <2>2 DEF Joins
<1>3. flatten = Built(flatten)
  <2> HIDE DEF Built
  <2> QED BY <1>2
<1>4. FlattenSeq(page) = flatten[P]
  BY <1>1 DEF FlattenSeq
<1> HIDE DEF flatten
<1>5. Bad = {}
  <2> SUFFICES ASSUME Bad # {} PROVE FALSE
    OBVIOUS
  <2>1. Bad \in SUBSET Nat
    OBVIOUS
  <2>2. PICK k \in Bad : \A m \in Bad : k <= m
    <3> HIDE DEF Bad
    <3> QED BY <2>1, Least
  <2>3. flatten[k] = IF k = 1 THEN page[k] ELSE flatten[k - 1] \o page[k]
    <3>1. k \in 1 .. P
      OBVIOUS
    <3> HIDE DEF Bad
    <3> QED BY <1>1, <1>3, <3>1
  <2>4. CASE k = 1
    BY <2>3, <2>4 DEF Joins
  <2>5. CASE k # 1
    <3>1. k \in 2 .. P /\ k - 1 \in 1 .. P /\ ~(k <= k - 1)
      BY <2>5
    <3>2. flatten[k - 1] = start[k - 1]
      BY <2>2, <3>1
    <3> QED BY <2>3, <2>5, <3>1, <3>2 DEF Joins
  <2> QED BY <2>4, <2>5
<1>6. P \in 1 .. P
  OBVIOUS
<1> QED BY <1>4, <1>5, <1>6

LEMMA PagesAreWhole ==
    ASSUME NEW S, NEW all \in Seq(S)
    PROVE  FlattenSeq([n \in 1 .. pages(Len(all)) |-> PageOf(all, n)]) = all
<1> DEFINE L == Len(all)
           P == pages(L)
           page == [n \in 1 .. P |-> PageOf(all, n)]
           start == [n \in 1 .. P |-> SubSeq(all, 1, PageEnd(all, n))]
<1>0. L \in Nat
  OBVIOUS
<1>9. CardLimit \in Nat \ {0}
  BY RiskAssumption
<1>1. P \in Nat /\ P >= 1 /\ P * CardLimit >= L /\ (P > 1 => (P - 1) * CardLimit < L)
  <2> HIDE DEF L
  <2> QED BY <1>0, PagesAre
<1> HIDE DEF P
<1>2. start[1] = page[1]
  <2>1. 1 \in 1 .. P
    BY <1>1
  <2>2. (1 - 1) * CardLimit + 1 = 1
    BY <1>9, Products
  <2>3. Min({1 * CardLimit, Len(all)}) = PageEnd(all, 1)
    BY PageEndIs
  <2>4. PageOf(all, 1) = SubSeq(all, 1, PageEnd(all, 1))
    BY <2>2, <2>3 DEF PageOf
  <2> QED BY <2>1, <2>4
<1>3. ASSUME NEW k \in 2 .. P PROVE start[k] = start[k - 1] \o page[k]
  <2> DEFINE n == k - 1
  <2>1. n \in Nat /\ n >= 1 /\ k = n + 1 /\ n \in 1 .. P /\ k \in 1 .. P
    BY <1>1
  <2>2. n * CardLimit < Len(all)
    <3>1. P - 1 >= n /\ P > 1 /\ (P - 1) * CardLimit < L
      BY <1>1, <2>1
    <3>2. n * CardLimit <= (P - 1) * CardLimit /\ n * CardLimit \in Nat /\ (P - 1) * CardLimit \in Nat
      <4>1. P - 1 \in Nat
        BY <1>1
      <4> HIDE DEF n
      <4> QED BY <1>9, <2>1, <3>1, <4>1, Products
    <3> QED BY <1>0, <3>1, <3>2
  <2> HIDE DEF n
  <2>3. SubSeq(all, 1, PageEnd(all, n)) \o PageOf(all, n + 1) = SubSeq(all, 1, PageEnd(all, n + 1))
    BY <2>1, <2>2, PagesJoin
  <2>4. start[k] = SubSeq(all, 1, PageEnd(all, n + 1)) /\ page[k] = PageOf(all, n + 1)
    BY <2>1
  <2>5. start[n] = SubSeq(all, 1, PageEnd(all, n))
    BY <2>1
  <2>6. k - 1 = n
    BY DEF n
  <2> HIDE DEF start, page
  <2> QED BY <2>3, <2>4, <2>5, <2>6
<1>4. start[P] = all
  <2>1. PageEnd(all, P) = L
    <3>1. P * CardLimit \in Nat
      BY <1>1, <1>9, Products
    <3> QED BY <1>0, <1>1, <3>1 DEF PageEnd
  <2>2. P \in 1 .. P
    BY <1>1
  <2>3. SubSeq(all, 1, L) = all
    OBVIOUS
  <2>4. start[P] = SubSeq(all, 1, PageEnd(all, P))
    BY <2>2
  <2> HIDE DEF start, L
  <2> QED BY <2>1, <2>3, <2>4
<1>5. start = [k \in 1 .. P |-> start[k]] /\ DOMAIN page = 1 .. P
  OBVIOUS
<1> HIDE DEF start, page
<1>6. FlattenSeq(page) = start[P]
  <2>1. Joins(start, page, P)
    BY <1>2, <1>3, <1>5 DEF Joins
  <2> QED BY <1>1, <1>5, <2>1, FlattenIs
<1> QED BY <1>4, <1>6 DEF page, P

----------------------------------------------------------------------------
(* The cards: what every one of them tells, and the order they come in.     *)

Listed == {c \in {card(i) : i \in Monitored} : c.severity # "ok"}
Earlier == {p \in Listed \X Listed : Before(p[1], p[2])}
CardsInv ==
    /\ DOMAIN facts = Monitored
    /\ \A i \in Monitored : "active" \in DOMAIN facts[i] /\ facts[i].active \in BOOLEAN
IsCard(c) ==
    /\ c.id \in Monitored /\ c = card(c.id)
    /\ c.type \in Range(DbType) /\ c.active \in BOOLEAN
    /\ c.severity \in Severe \cup {"ok"} /\ c.score \in Nat

LEMMA SameRank == \A s, t \in Severe \cup {"ok"} : RankOf(s) \in 1 .. 4 /\ (RankOf(s) = RankOf(t) => s = t)
BY Ranks DEF Severe

LEMMA CardIs ==
    ASSUME RiskInv, CardsInv, NEW i \in Monitored
    PROVE  /\ IsCard(card(i)) /\ card(i).id = i /\ card(i).items = risk_items(i)
           /\ card(i).severity = overall(risk_items(i)) /\ IsItems(risk_items(i))
           /\ (card(i).severity = "ok") = (DOMAIN risk_items(i) = {})
<1> DEFINE items == risk_items(i)
<1>1. IsItems(items)
  BY ItemsAre DEF ItemsKnown
<1>2. card(i) = [id |-> i, type |-> DbType[i], active |-> facts[i].active, severity |-> overall(items),
                 score |-> risk_score(items), risks |-> found(i), items |-> items]
  BY DEF card
<1> HIDE DEF items
<1>3. DbType[i] \in Range(DbType) /\ facts[i].active \in BOOLEAN
  BY RiskAssumption DEF CardsInv, Range
<1>4. overall(items) \in Severe \cup {"ok"}
  BY <1>1, OverallIs
<1>5. risk_score(items) \in Nat
  <2> DEFINE f == [k \in DOMAIN items |-> items[k].times * Score[items[k].severity]]
  <2>1. \A m, n \in Nat : m * n \in Nat
    OBVIOUS
  <2>2. \A k \in DOMAIN items : f[k] \in Nat
    BY <1>1, <2>1, SeveritiesRank DEF IsItems, IsItem
  <2>3. IsFiniteSet(DOMAIN items)
    BY <1>1, RuleKeysFinite, FS_Subset DEF IsItems
  <2>4. SumFunction(f) = SumOf(f, DOMAIN items)
    BY DEF SumFunction, SumOf
  <2>5. risk_score(items) = IF SumFunction(f) < 999 THEN SumFunction(f) ELSE 999
    BY DEF risk_score
  <2> HIDE DEF f
  <2>6. SumOf(f, DOMAIN items) \in Nat
    BY <2>2, <2>3, SumParts
  <2> QED BY <2>4, <2>5, <2>6
<1>6. (overall(items) = "ok") = (DOMAIN items = {})
  <2>1. CASE DOMAIN items = {}
    BY <2>1 DEF overall
  <2>2. CASE DOMAIN items # {}
    <3>1. PICK k \in DOMAIN items : RankOf(overall(items)) = RankOf(items[k].severity)
      BY <1>1, <2>2, OverallIs
    <3>2. RankOf(items[k].severity) \in 1 .. 3
      BY <1>1, SeveritiesRank DEF IsItems, IsItem
    <3> QED BY <2>2, <3>1, <3>2, Ranks
  <2> QED BY <2>1, <2>2
<1>7. IsCard(card(i))
  BY <1>2, <1>3, <1>4, <1>5 DEF IsCard
<1> QED BY <1>1, <1>2, <1>6, <1>7 DEF items

LEMMA ListedAre ==
    ASSUME RiskInv, CardsInv
    PROVE  IsFiniteSet(Listed) /\ \A c \in Listed : IsCard(c)
<1>1. \A i \in Monitored : IsCard(card(i))
  BY CardIs
<1>2. \A c \in Listed : \E i \in Monitored : c = card(i)
  BY DEF Listed
<1> DEFINE f == [i \in Monitored |-> card(i)]
           every == {f[i] : i \in Monitored}
<1>3. IsFiniteSet(every)
  <2>1. DOMAIN f = Monitored
    OBVIOUS
  <2> HIDE DEF f
  <2> QED BY <2>1, RiskAssumption, ImageFinite
<1>4. Listed \in SUBSET every
  BY DEF Listed
<1> HIDE DEF every
<1>5. IsFiniteSet(Listed)
  BY <1>3, <1>4, FS_Subset
<1> QED BY <1>1, <1>2, <1>5

LEMMA CardsOrdered ==
    ASSUME RiskInv, CardsInv
    PROVE  Orders(Earlier, Listed)
<1>1. ASSUME NEW c \in Listed
      PROVE  RankOf(c.severity) \in Nat /\ c.score \in Nat /\ c.id \in Nat /\ c = card(c.id)
             /\ c.severity \in Severe \cup {"ok"}
  <2>1. IsCard(c)
    BY ListedAre
  <2>2. RankOf(c.severity) \in 1 .. 4
    BY <2>1, SameRank DEF IsCard
  <2>3. c.id \in Nat /\ RankOf(c.severity) \in Nat
    <3>1. c.id \in Monitored
      BY <2>1 DEF IsCard
    <3>2. c.id \in Nat
      BY <3>1, RiskAssumption
    <3> QED BY <2>2, <3>2
  <2> QED BY <2>1, <2>3 DEF IsCard
<1>2. \A a, b \in Listed : RankOf(a.severity) = RankOf(b.severity) => a.severity = b.severity
  BY <1>1, SameRank
<1>3. \A a, b \in Listed : a.id = b.id => a = b
  BY <1>1
<1>4. \A a, b \in Listed : <<a, b>> \in Earlier <=> Before(a, b)
  BY DEF Earlier
<1>5. \A a \in Listed : ~Before(a, a)
  BY <1>1 DEF Before
<1>6. ASSUME NEW a \in Listed, NEW b \in Listed, NEW c \in Listed, Before(a, b), Before(b, c) PROVE Before(a, c)
  BY <1>1, <1>6 DEF Before
<1>7. ASSUME NEW a \in Listed, NEW b \in Listed, a # b PROVE Before(a, b) \/ Before(b, a)
  BY <1>1, <1>2, <1>3, <1>7 DEF Before
<1>8. \A a \in Listed : <<a, a>> \notin Earlier
  BY <1>4, <1>5
<1>9. \A a, b, c \in Listed : <<a, b>> \in Earlier /\ <<b, c>> \in Earlier => <<a, c>> \in Earlier
  BY <1>4, <1>6
<1>10. \A a, b \in Listed : a # b => <<a, b>> \in Earlier \/ <<b, a>> \in Earlier
  BY <1>4, <1>7
<1> QED BY <1>8, <1>9, <1>10 DEF Orders

LEMMA CardsAre ==
    ASSUME RiskInv, CardsInv
    PROVE  \E N \in Nat :
              /\ cards \in [1 .. N -> Listed]
              /\ \A c \in Listed : \E n \in 1 .. N : cards[n] = c
              /\ \A n, m \in 1 .. N : n < m => Before(cards[n], cards[m])
<1> DEFINE N == Cardinality(Listed)
<1>1. cards = Ordered(Listed, Earlier)
  BY DEF cards, Listed, Earlier
<1>2. IsFiniteSet(Listed) /\ Orders(Earlier, Listed)
  BY ListedAre, CardsOrdered
<1>3. /\ N \in Nat /\ cards \in [1 .. N -> Listed]
      /\ \A c \in Listed : \E n \in 1 .. N : cards[n] = c
      /\ \A n, m \in 1 .. N : n < m => <<cards[n], cards[m]>> \in Earlier
  BY <1>1, <1>2, OrderedIs
<1>4. \A n, m \in 1 .. N : n < m => Before(cards[n], cards[m])
  BY <1>3 DEF Earlier
<1> QED BY <1>3, <1>4

LEMMA ListIs ==
    ASSUME RiskInv, CardsInv
    PROVE  /\ IsFiniteSet(DOMAIN cards) /\ Len(cards) = Cardinality(DOMAIN cards)
           /\ \A n \in DOMAIN cards : IsCard(cards[n])
<1>1. PICK N \in Nat : cards \in [1 .. N -> Listed]
  BY CardsAre
<1>2. DOMAIN cards = 1 .. N /\ Len(cards) = N
  BY <1>1
<1>3. IsFiniteSet(1 .. N) /\ Cardinality(1 .. N) = N
  BY <1>1, FS_Interval
<1>4. \A n \in DOMAIN cards : IsCard(cards[n])
  BY <1>1, <1>2, ListedAre
<1> QED BY <1>2, <1>3, <1>4

\* The length of a filtered list is the number that the summary counts.
LEMMA CountIs ==
    ASSUME RiskInv, CardsInv, NEW types, types \subseteq Range(DbType), NEW s, NEW q,
           q[1] = {s}, q[2] = types, q[3] = BOOLEAN
    PROVE  Count(cards, types, s) = Len(filtered(cards, q))
<1>1. Passing(cards, q) = {n \in DOMAIN cards : cards[n].type \in types /\ cards[n].severity = s}
  BY ListIs DEF Passing, matches, IsCard
<1>2. Len(filtered(cards, q)) = Cardinality(Passing(cards, q))
  BY ListIs, FilteredIs
<1> QED BY <1>1, <1>2 DEF Count

LEMMA NumbersAreLists ==
    ASSUME RiskInv, CardsInv
    PROVE  NumbersMatchLists(cards)
<1> DEFINE any == <<Range(Levels), Range(DbType), BOOLEAN>>
<1>1. ASSUME NEW s \in Range(Levels)
      PROVE  summary(cards).severity_counts[s] = Len(filtered(cards, [any EXCEPT ![1] = {s}]))
  <2> DEFINE q == [any EXCEPT ![1] = {s}]
  <2>1. q[1] = {s} /\ q[2] = Range(DbType) /\ q[3] = BOOLEAN
    OBVIOUS
  <2>2. summary(cards).severity_counts[s] = Count(cards, Range(DbType), s)
    BY DEF summary
  <2> HIDE DEF q
  <2>3. Count(cards, Range(DbType), s) = Len(filtered(cards, q))
    BY <2>1, CountIs
  <2> QED BY <2>2, <2>3 DEF q
<1>2. ASSUME NEW s \in Range(Levels), NEW t \in Range(DbType)
      PROVE  summary(cards).db_type_counts[t][s] = Len(filtered(cards, [any EXCEPT ![1] = {s}, ![2] = {t}]))
  <2> DEFINE q == [any EXCEPT ![1] = {s}, ![2] = {t}]
  <2>1. q[1] = {s} /\ q[2] = {t} /\ q[3] = BOOLEAN
    OBVIOUS
  <2>2. summary(cards).db_type_counts[t][s] = Count(cards, {t}, s)
    BY DEF summary
  <2> HIDE DEF q
  <2>3. Count(cards, {t}, s) = Len(filtered(cards, q))
    BY <2>1, CountIs
  <2> QED BY <2>2, <2>3 DEF q
<1>3. summary(cards).total = Len(cards)
  BY DEF summary
<1>4. ASSUME NEW r \in summary(cards).top_risks
      PROVE  \E n \in DOMAIN cards : cards[n].id = r[1] /\ cards[n].severity \in {"high", "medium"}
  <2>1. PICK c \in Range(cards) :
          r \in {<<c.id, k>> : k \in {x \in DOMAIN c.items : c.items[x].severity \in {"high", "medium"}}}
    BY DEF summary
  <2>2. PICK k \in DOMAIN c.items : c.items[k].severity \in {"high", "medium"} /\ r = <<c.id, k>>
    BY <2>1
  <2>3. PICK n \in DOMAIN cards : cards[n] = c
    BY <2>1 DEF Range
  <2>4. IsCard(c)
    BY <2>3, ListIs
  <2>5. c.items = risk_items(c.id) /\ c.severity = overall(risk_items(c.id)) /\ IsItems(risk_items(c.id))
    <3>1. c.id \in Monitored /\ c = card(c.id)
      BY <2>4 DEF IsCard
    <3> QED BY <3>1, CardIs
  <2>6. RankOf(c.severity) \in 1 .. 4 /\ RankOf(c.severity) <= RankOf(c.items[k].severity)
        /\ c.severity \in Severe \cup {"ok"}
    BY <2>2, <2>5, OverallIs
  <2>7. c.severity \in {"high", "medium"}
    BY <2>2, <2>6, Ranks DEF Severe
  <2>8. r[1] = c.id
    BY <2>2
  <2> QED BY <2>3, <2>7, <2>8
<1> QED BY <1>1, <1>2, <1>3, <1>4 DEF NumbersMatchLists

LEMMA PagesAreTheList ==
    ASSUME RiskInv, CardsInv
    PROVE  PagesAreList(cards)
<1> SUFFICES ASSUME NEW q \in Filters
             PROVE  FlattenSeq([n \in 1 .. pages(Len(filtered(cards, q))) |-> list_page(cards, q, n)])
                    = filtered(cards, q)
  BY DEF PagesAreList
<1> DEFINE all == filtered(cards, q)
<1>1. PICK S : all \in Seq(S)
  BY ListIs, FilteredIs
<1>2. \A n : list_page(cards, q, n) = PageOf(all, n)
  BY DEF list_page, PageOf
<1>3. [n \in 1 .. pages(Len(all)) |-> list_page(cards, q, n)] = [n \in 1 .. pages(Len(all)) |-> PageOf(all, n)]
  BY <1>2
<1> HIDE DEF all
<1>4. FlattenSeq([n \in 1 .. pages(Len(all)) |-> PageOf(all, n)]) = all
  BY <1>1, PagesAreWhole
<1> QED BY <1>3, <1>4 DEF all

Of(i, category) == RulesOf[category] \cap DOMAIN risk_items(i)

\* The tone of a metric is that of its worst risk.
LEMMA ToneIs ==
    ASSUME RiskInv, CardsInv, NEW i \in Monitored, NEW category \in Categories
    PROVE  /\ Of(i, category) = {} => tone(card(i), category) \in {"success", "muted"}
           /\ Of(i, category) # {} => \E k \in Of(i, category) :
                 /\ tone(card(i), category) = Tone[risk_items(i)[k].severity]
                 /\ \A j \in Of(i, category) : RankOf(risk_items(i)[k].severity) <= RankOf(risk_items(i)[j].severity)
<1> DEFINE all == risk_items(i)
           of == Of(i, category)
           items == [k \in of |-> all[k]]
           quiet == \A k \in RulesOf[category] : card(i).risks[k] = 0
<1>1. IsItems(all) /\ of \subseteq DOMAIN all
  BY CardIs DEF Of
<1>2. IsItems(items) /\ DOMAIN items = of /\ \A k \in of : items[k] = all[k]
  BY <1>1 DEF IsItems
<1>3. tone(card(i), category) = IF DOMAIN items # {} THEN Tone[overall(items)] ELSE IF quiet THEN "success" ELSE "muted"
  BY CardIs DEF tone, Restrict, Of
<1> HIDE DEF items, quiet, of, all
<1>4. CASE of = {}
  <2>1. tone(card(i), category) \in {"success", "muted"}
    BY <1>2, <1>3, <1>4
  <2> QED BY <1>4, <2>1 DEF of
<1>5. CASE of # {}
  <2>1. PICK k \in of : RankOf(overall(items)) = RankOf(items[k].severity)
    BY <1>2, <1>5, OverallIs
  <2>2. overall(items) = items[k].severity
    <3>1. overall(items) \in Severe \cup {"ok"} /\ items[k].severity \in Severe \cup {"ok"}
      BY <1>2, OverallIs DEF IsItems, IsItem
    <3> QED BY <2>1, <3>1, SameRank
  <2>3. tone(card(i), category) = Tone[all[k].severity]
    BY <1>2, <1>3, <1>5, <2>2
  <2>4. \A j \in of : RankOf(all[k].severity) <= RankOf(all[j].severity)
    BY <1>2, <2>1, OverallIs
  <2> QED BY <1>5, <2>3, <2>4 DEF of, all
<1> QED BY <1>4, <1>5

LEMMA ListedIs ==
    ASSUME RiskInv, CardsInv, NEW i \in Monitored
    PROVE  (\E n \in DOMAIN cards : cards[n].id = i) <=> DOMAIN risk_items(i) # {}
<1>1. PICK N \in Nat : cards \in [1 .. N -> Listed] /\ \A c \in Listed : \E n \in 1 .. N : cards[n] = c
  BY CardsAre
<1>2. IsCard(card(i)) /\ card(i).id = i /\ (card(i).severity = "ok") = (DOMAIN risk_items(i) = {})
  BY CardIs
<1>3. ASSUME NEW n \in DOMAIN cards, cards[n].id = i PROVE DOMAIN risk_items(i) # {}
  <2>1. cards[n] \in Listed
    BY <1>1
  <2>2. cards[n] = card(i)
    BY <1>3, <2>1, ListedAre DEF IsCard
  <2>3. cards[n].severity # "ok"
    BY <2>1 DEF Listed
  <2> QED BY <1>2, <2>2, <2>3
<1>4. ASSUME DOMAIN risk_items(i) # {} PROVE \E n \in DOMAIN cards : cards[n].id = i
  <2>1. card(i) \in Listed
    BY <1>2, <1>4 DEF Listed
  <2> QED BY <1>1, <1>2, <2>1
<1> QED BY <1>3, <1>4

LEMMA WorstIsTold ==
    ASSUME RiskInv, CardsInv
    PROVE  CardsTellWorst(cards)
<1>1. ASSUME NEW i \in Monitored
      PROVE  IF \E n \in DOMAIN cards : cards[n].id = i
             THEN Tone[card(i).severity] \in {tone(card(i), c) : c \in Categories}
                  /\ (card(i).severity # "high" => "danger" \notin {tone(card(i), c) : c \in Categories})
             ELSE {tone(card(i), c) : c \in Categories} \subseteq {"success", "muted"}
  <2> DEFINE items == risk_items(i)
  <2>0. IsItems(items) /\ card(i).severity = overall(items)
    BY CardIs
  <2>1. CASE DOMAIN items # {}
    <3>1. PICK k \in DOMAIN items : RankOf(overall(items)) = RankOf(items[k].severity)
      BY <2>0, <2>1, OverallIs
    <3>2. k \in RuleKeys /\ Definitions[k].category \in Categories
      BY <2>0 DEF IsItems, Categories
    <3>3. k \in Of(i, Definitions[k].category)
      BY <3>2 DEF Of, RulesOf
    <3>4. PICK j \in Of(i, Definitions[k].category) :
            /\ tone(card(i), Definitions[k].category) = Tone[items[j].severity]
            /\ RankOf(items[j].severity) <= RankOf(items[k].severity)
      BY <3>3, <3>2, ToneIs
    <3>5. overall(items) = items[j].severity
      <4>1. j \in DOMAIN items
        BY DEF Of
      <4>2. overall(items) \in Severe \cup {"ok"} /\ items[j].severity \in Severe \cup {"ok"}
            /\ RankOf(overall(items)) <= RankOf(items[j].severity)
        BY <2>0, <4>1, OverallIs DEF IsItems, IsItem
      <4>3. RankOf(overall(items)) \in 1 .. 4 /\ RankOf(items[j].severity) \in 1 .. 4
        BY <4>2, SameRank
      <4>4. RankOf(overall(items)) = RankOf(items[j].severity)
        BY <3>1, <3>4, <4>2, <4>3
      <4> QED BY <4>2, <4>4, SameRank
    <3>6. Tone[card(i).severity] \in {tone(card(i), c) : c \in Categories}
      BY <2>0, <3>4, <3>5, <3>2
    <3>7. ASSUME NEW c \in Categories, tone(card(i), c) = "danger" PROVE card(i).severity = "high"
      <4>1. Of(i, c) # {}
        BY <3>7, ToneIs
      <4>2. PICK m \in Of(i, c) : tone(card(i), c) = Tone[items[m].severity]
        BY <4>1, ToneIs
      <4>3. m \in DOMAIN items
        BY DEF Of
      <4>4. items[m].severity \in Severe
        BY <2>0, <4>3 DEF IsItems, IsItem
      <4>5. items[m].severity = "high"
        BY <3>7, <4>2, <4>4 DEF Severe, Tone
      <4>6. overall(items) \in Severe \cup {"ok"} /\ RankOf(overall(items)) \in 1 .. 4 /\ RankOf(overall(items)) <= 1
        BY <2>0, <4>3, <4>5, OverallIs, Ranks
      <4>7. RankOf(overall(items)) = RankOf("high")
        BY <4>6, Ranks
      <4>8. "high" \in Severe \cup {"ok"}
        BY DEF Severe
      <4> QED BY <2>0, <4>6, <4>7, <4>8, SameRank
    <3>8. \E n \in DOMAIN cards : cards[n].id = i
      BY <2>1, ListedIs
    <3> QED BY <3>6, <3>7, <3>8
  <2>2. CASE DOMAIN items = {}
    <3>1. ~(\E n \in DOMAIN cards : cards[n].id = i)
      BY <2>2, ListedIs
    <3>2. ASSUME NEW c \in Categories PROVE tone(card(i), c) \in {"success", "muted"}
      <4>1. Of(i, c) = {}
        BY <2>2 DEF Of
      <4> QED BY <4>1, ToneIs
    <3> QED BY <3>1, <3>2
  <2> QED BY <2>1, <2>2
<1>2. ASSUME NEW n \in DOMAIN cards, NEW m \in DOMAIN cards, n < m
      PROVE  RankOf(cards[n].severity) <= RankOf(cards[m].severity)
  <2>1. PICK N \in Nat : cards \in [1 .. N -> Listed] /\ \A a, b \in 1 .. N : a < b => Before(cards[a], cards[b])
    BY CardsAre
  <2>2. Before(cards[n], cards[m])
    BY <1>2, <2>1
  <2>3. RankOf(cards[n].severity) \in 1 .. 4 /\ RankOf(cards[m].severity) \in 1 .. 4
    BY ListIs, SameRank DEF IsCard
  <2> QED BY <2>2, <2>3 DEF Before
<1> QED BY <1>1, <1>2 DEF CardsTellWorst

LEMMA CardsStart == RiskInit => CardsInv
<1> SUFFICES ASSUME RiskInit PROVE CardsInv
  OBVIOUS
<1>1. DOMAIN facts = Monitored /\ \A i \in Monitored : facts[i] = Fine
  BY DEF RiskInit
<1>2. "active" \in DOMAIN Fine /\ Fine.active = TRUE
  BY DEF Fine
<1> QED BY <1>1, <1>2 DEF CardsInv

LEMMA CardsInductive ==
    ASSUME CardsInv, [RiskNext]_riskVars
    PROVE  CardsInv'
<1>1. CASE Stores
  <2>1. PICK i \in Monitored :
          \/ \E b \in {"fresh", "missing"} : facts' = [facts EXCEPT ![i].backup = b]
          \/ \E g \in {0, 29, 30, 59, 60} : facts' = [facts EXCEPT ![i].growth = g]
          \/ \E b \in BOOLEAN : facts' = [facts EXCEPT ![i].sized = b]
          \/ \E a \in {"enabled", "disabled", "none"} : facts' = [facts EXCEPT ![i].audit = a]
          \/ \E n \in 0 .. 1 : facts' = [facts EXCEPT ![i].superusers = n]
          \/ facts' = [facts EXCEPT ![i].changed = TRUE]
          \/ facts' = [facts EXCEPT ![i].failed = TRUE]
          \/ facts' = [facts EXCEPT ![i].active = ~@]
    BY <1>1 DEF Stores
  <2>2. CASE facts' = [facts EXCEPT ![i].active = ~@]
    <3>1. facts[i].active \in BOOLEAN /\ "active" \in DOMAIN facts[i] /\ DOMAIN facts = Monitored
      BY DEF CardsInv
    <3>2. facts'[i] = [facts[i] EXCEPT !.active = ~facts[i].active] /\ DOMAIN facts' = Monitored
          /\ \A j \in Monitored : j # i => facts'[j] = facts[j]
      BY <2>2, <3>1
    <3>3. "active" \in DOMAIN facts'[i] /\ facts'[i].active = ~facts[i].active
      BY <3>1, <3>2
    <3>4. facts'[i].active \in BOOLEAN
      BY <3>1, <3>3
    <3> QED BY <3>2, <3>3, <3>4 DEF CardsInv
  <2>3. CASE \E field \in {"backup", "growth", "sized", "audit", "superusers", "changed", "failed"} : \E v :
               facts' = [facts EXCEPT ![i] = [facts[i] EXCEPT ![field] = v]]
    BY <2>3 DEF CardsInv
  <2> QED BY <2>1, <2>2, <2>3
<1>2. CASE DayPasses
  BY <1>2 DEF DayPasses, CardsInv
<1>3. CASE TopologySynced
  <2>1. PICK told \in [Members -> Answers] : sync_topology(told)
    BY <1>3 DEF TopologySynced
  <2>2. CASE facts' = facts
    BY <2>2 DEF CardsInv
  <2>3. CASE facts' # facts
    <3>1. \E kept : facts' = [i \in Monitored |-> IF i \notin Members THEN facts[i]
                         ELSE [facts[i] EXCEPT !.role = kept[i].role, !.replication = kept[i].replication,
                                               !.lag = kept[i].lag]]
      BY <2>1, <2>3 DEF sync_topology
    <3> QED BY <3>1 DEF CardsInv
  <2> QED BY <2>2, <2>3
<1>4. CASE ReplicaSynced \/ update_rules \/ UNCHANGED riskVars
  <2>1. facts' = facts
    BY <1>4 DEF ReplicaSynced, update_rules, riskVars
  <2> QED BY <2>1 DEF CardsInv
<1> QED BY <1>1, <1>2, <1>3, <1>4 DEF RiskNext

\* The summary, the lists, their pages and the cards of the risk center tell the same story, whatever is stored
\* and set (build_summary, list_cards, _build_cards, for any instances): the numbers are the lengths of the lists
\* they link to, the pages put together are the list, and what is worst comes first and is not hidden.
THEOREM RiskViewsAgreeAlways == RiskSpec => []RiskViewsAgree
<1>1. RiskInit => RiskInv /\ CardsInv /\ TopologyInv
  BY RiskStarts, CardsStart, TopologyStarts
<1>2. RiskInv /\ CardsInv /\ TopologyInv /\ [RiskNext]_riskVars => RiskInv' /\ CardsInv' /\ TopologyInv'
  BY RiskInductive, CardsInductive, TopologyInductive
<1>3. RiskInv /\ CardsInv /\ TopologyInv => RiskViewsAgree
  BY NumbersAreLists, PagesAreTheList, WorstIsTold, ToldByTopology DEF RiskViewsAgree
<1> QED BY <1>1, <1>2, <1>3, PTL DEF RiskSpec
=============================================================================
