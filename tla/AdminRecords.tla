---------------------------- MODULE AdminRecords ----------------------------
(* The records that API requests write, all together: users; instances,     *)
(* credentials and tags; classification rules; clusters.  Every request is  *)
(* sent once, and any number of them are under way at a time.               *)
EXTENDS InstanceRecords, RuleRecords, ClusterRecords

\* Users: UserWriteService behind /api/v1/users.
CONSTANT Users
VARIABLE users      \* the rows: a function on the users there are

Row(role, active) == [role |-> role, active |-> active]
UserRows == [role : {"admin", "user"}, active : BOOLEAN]

Admins(t) == {u \in DOMAIN t : t[u].role = "admin"}
ActiveAdmins(t) == {u \in Admins(t) : t[u].active}

\* Whoever is signed in is an active user; only an admin holds "create" and
\* "delete", a user holds "update" as well.
Operator(by) == by \in DOMAIN users /\ users[by].active
AdminOperator(by) == Operator(by) /\ by \in Admins(users)

UserInit == users \in {t \in [Users -> UserRows] : ActiveAdmins(t) # {}}

UserCreate(r, by, u, row) ==
    /\ AdminOperator(by)
    /\ u \notin DOMAIN users
    /\ Accept(r, "user_create", u, users, row)
    /\ UNCHANGED users

LastAdminKeptCountsSelf(u, row) ==
    \/ u \notin Admins(users)
    \/ row = Row("admin", TRUE)
    \/ ActiveAdmins(users) # {}

\* _ensure_last_admin: another active admin must be there before u stops being one.
LastAdminKept(u, row) ==
    \/ u \notin Admins(users)
    \/ row = Row("admin", TRUE)
    \/ ActiveAdmins(users) \ {u} # {}

UserUpdate(r, by, u, row) ==
    /\ Operator(by)
    /\ u \in DOMAIN users
    /\ LastAdminKept(u, row)
    /\ Accept(r, "user_update", u, users, row)
    /\ UNCHANGED users

\* The count is of admins by role, active or not.
UserDelete(r, by, u) ==
    /\ AdminOperator(by)
    /\ u \in DOMAIN users \ {by}
    /\ u \in Admins(users) => Cardinality(Admins(users)) > 1
    /\ Accept(r, "user_delete", u, users, << >>)
    /\ UNCHANGED users

\* A name taken meanwhile breaks the unique index, a row deleted meanwhile
\* makes the UPDATE match nothing: both roll the request back.
UserWritten(tx) ==
    CASE tx.op = "user_create" ->
           IF tx.key \in DOMAIN users THEN users ELSE With(users, tx.key, tx.new)
      [] tx.op = "user_update" ->
           IF tx.key \in DOMAIN users
           THEN [users EXCEPT ![tx.key] = Merged(@, tx.seen[tx.key], tx.new)]
           ELSE users
      [] tx.op = "user_delete" -> Without(users, {tx.key})

UserOps == {"user_create", "user_update", "user_delete"}

UserWrite(r) ==
    /\ req[r].op \in UserOps
    /\ users' = UserWritten(req[r])
    /\ Answer(r)

UserCheck(r) ==
    \E by, u \in Users :
        \/ \E row \in UserRows : UserCreate(r, by, u, row) \/ UserUpdate(r, by, u, row)
        \/ UserDelete(r, by, u)

UserTypeOK == DOMAIN users \subseteq Users /\ \A u \in DOMAIN users : users[u] \in UserRows

----------------------------------------------------------------------------
\* All of them.

vars == <<req, users, recordVars, ruleVars, clusterVars>>

Init == RequestInit /\ UserInit /\ InstanceInit /\ RuleInit /\ ClusterInit

UserStep == (\E r \in Requests : UserCheck(r) \/ UserWrite(r)) /\ UNCHANGED <<recordVars, ruleVars, clusterVars>>
InstanceStep == (\E r \in Requests : InstanceCheck(r) \/ InstanceWrite(r)) /\ UNCHANGED <<users, ruleVars, clusterVars>>
RuleStep ==
    /\ CountRules \/ (\E r \in Requests : RuleCheck(r) \/ RuleWrite(r))
    /\ UNCHANGED <<users, recordVars, clusterVars>>
ClusterStep ==
    /\ CollectAccounts \/ (\E r \in Requests : ClusterCheck(r) \/ ClusterWrite(r))
    /\ UNCHANGED <<users, recordVars, ruleVars>>

Next == UserStep \/ InstanceStep \/ RuleStep \/ ClusterStep

Spec == Init /\ [][Next]_vars

----------------------------------------------------------------------------
TypeOK == UserTypeOK /\ InstanceTypeOK /\ links \subseteq ((DOMAIN instances) \X tags) /\ RuleTypeOK /\ ClusterTypeOK

\* The step is the commit of a request whose reads still hold (UserOps, ...).
Commits(r) == ~Unsent(r) /\ req[r].op # "ended" /\ req'[r].op = "ended"

(* delete and _ensure_last_admin: a request that was not overtaken between  *)
(* its count of the admins and its commit leaves an active admin.           *)
AloneKeepsAdmin ==
    [][\A r \in Requests :
          Commits(r) /\ Current(r, UserOps, users) /\ ActiveAdmins(users) # {}
             => ActiveAdmins(users') # {}]_vars

(* "系统至少需要一位活跃管理员": the same, whatever the interleaving.          *)
LastAdmin == ActiveAdmins(users) # {}

(* soft_delete, restore and update keep deleted_at and is_active together   *)
(* unless they race: a row in the recycle bin is not active.                *)
Recycled(t) == {i \in DOMAIN t : t[i].recycled /\ t[i].active}
AloneKeepsRecycled ==
    [][\A r \in Requests :
          Commits(r) /\ Current(r, InstanceOps, Tables) /\ Recycled(instances) = {}
             => Recycled(instances') = {}]_vars

(* A tag that instances carry is not deleted under them by a request that   *)
(* was not overtaken, however the links came to be.                         *)
AloneKeepsTags ==
    [][\A r \in Requests :
          Commits(r) /\ Current(r, InstanceOps, Tables)
             => \A l \in links : l[2] \in tags']_vars

(* Versions are immutable where it matters: a rule that statistics refer to *)
(* is never deleted and keeps its expression, group and version, also when  *)
(* edits, new versions and deletions overtake each other.                   *)
CountedRulesAreHistory ==
    [][\A id \in counted :
          /\ id \in DOMAIN rules'
          /\ \A f \in {"class", "expr", "group", "version"} : rules'[id][f] = rules[id][f]]_vars

(* No request that was not overtaken turns on account collection for a      *)
(* group that is not contained or has no account credential; discovery,     *)
(* which changes groups behind the form's back, does not either.            *)
Uncollectable(t) == {k \in DOMAIN t : t[k].enabled /\ ~(t[k].contained /\ t[k].account)}
AloneKeepsCollectable ==
    [][\A r \in Requests :
          Commits(r) /\ Current(r, ClusterOps, ags) /\ Uncollectable(ags) = {}
             => Uncollectable(ags') = {}]_vars

(* What the checks of the services are for: a request that was not          *)
(* overtaken between its reads and its commit breaks none of the rules      *)
(* above.                                                                   *)
AloneKeepsRecords ==
    AloneKeepsAdmin /\ AloneKeepsRecycled /\ AloneKeepsTags /\ AloneKeepsCollectable

(* A discovery that lists the groups of a cluster leaves exactly these.     *)
StaleGroupsGo ==
    [][\A r \in Requests :
          Commits(r) /\ Current(r, {"ag_sync"}, ags)
             => \A a \in Ags : <<req[r].key, a>> \in DOMAIN ags' => a \in DOMAIN req[r].new]_vars

----------------------------------------------------------------------------
\* Requests about different tables share nothing, so the requests of one
\* behaviour are all about the same ones; the others stay in one state.
VARIABLE area

Areas == {"users", "instances", "rules", "clusters"}

AreaInit ==
    /\ Init
    /\ area \in Areas
    /\ area # "users" => users = [u \in Users |-> Row("admin", TRUE)]
    /\ area # "instances" => bound = {}

AreaNext ==
    /\ \/ area = "users" /\ UserStep
       \/ area = "instances" /\ InstanceStep
       \/ area = "rules" /\ RuleStep
       \/ area = "clusters" /\ ClusterStep
    /\ UNCHANGED area

AreaSpec == AreaInit /\ [][AreaNext]_<<vars, area>>
=============================================================================
