-------------------------- MODULE AccountInventory --------------------------
(***************************************************************************)
(* The account inventory: instance_accounts, account_permission and        *)
(* account_change_log, written by overlapping synchronisations.            *)
(*                                                                         *)
(* A synchronisation lists the accounts of one owner (an instance, or a    *)
(* contained availability group reached through its listener), compares    *)
(* the list with the stored accounts, reads the privileges of the active   *)
(* ones and stores their snapshots, logging every difference.  The batch   *)
(* task, a manual single-instance request and the availability-group pass  *)
(* each run one in a transaction of their own.                             *)
(*                                                                         *)
(* PostgreSQL runs these transactions at READ COMMITTED: a statement reads *)
(* what is committed when it runs, a written row stays locked to the end   *)
(* of the transaction, and inserting a key another transaction has         *)
(* inserted waits for it and then fails.                                   *)
(***************************************************************************)
EXTENDS Naturals, FiniteSets

CONSTANTS Instance,     \* the instance whose accounts are synchronised
          AGs,          \* its contained availability groups (SQL Server)
          Users,        \* account names
          Syncs,        \* the synchronisations of a behaviour
          DbTypes,      \* the kinds of database the instance may be
          MaxChanges,   \* bound: changes made on the database server
          Nobody        \* holder of an unlocked row

ASSUME DbTypesAssumption ==
         /\ DbTypes \subseteq {"mysql", "postgresql", "oracle", "sqlserver"}
         /\ Instance \notin AGs /\ Nobody \notin Syncs

Owners == {Instance} \union AGs
Key    == Owners \X Users

\* Privileges are told apart by the query that reads them.
Privs == {"grants", "roles"}

VARIABLES dbtype,    \* the kind of the instance
          remote,    \* remote[o]: the accounts of o and their privileges
          changes,   \* changes made so far
          account,   \* is_active of the stored accounts: none, active, inactive
          snapshot,  \* permission_snapshot of each account
          logged,    \* what the committed change log adds up to
          gap,       \* accounts whose log entry was reported as failed
          lock,      \* the transaction holding each row
          sync       \* the synchronisations

vars == <<dbtype, remote, changes, account, snapshot, logged, gap, lock, sync>>

RemoteList == UNION { [names -> SUBSET Privs] : names \in SUBSET Users }

EmptyList  == [u \in {} |-> {}]

Idle == [pc |-> "idle", owner |-> Instance, listed |-> EmptyList,
         truth |-> EmptyList, read |-> EmptyList, view |-> [k \in Key |-> "none"],
         writes |-> [k \in {} |-> "active"], diffs |-> [k \in {} |-> {}],
         unlogged |-> {}, alone |-> TRUE]

\* Only a SQL Server instance has availability groups.
Reachable == IF dbtype = "sqlserver" THEN Owners ELSE {Instance}

\* Either nothing has been synchronised yet, or an earlier pass has stored
\* exactly what the server has.
Init == /\ dbtype \in DbTypes
        /\ remote \in [Owners -> { [u \in names |-> {"grants"}] : names \in SUBSET Users }]
        /\ \A o \in Owners \ Reachable : remote[o] = EmptyList
        /\ \E synced \in SUBSET Owners :
             LET known(k) == k[1] \in synced /\ k[2] \in DOMAIN remote[k[1]]
             IN  /\ account = [k \in Key |-> IF known(k) THEN "active" ELSE "none"]
                 /\ snapshot = [k \in Key |-> IF known(k) THEN {"grants"} ELSE {}]
                 /\ logged = snapshot
        /\ changes = 0
        /\ gap = {}
        /\ lock = [k \in Key |-> Nobody]
        /\ sync = [s \in Syncs |-> Idle]

Running(s) == sync[s].pc \notin {"idle", "done", "failed"}
Stored     == <<account, snapshot, logged, gap>>

\* The rows of a table after some of them have been written.
Update(rows, written) ==
    [k \in Key |-> IF k \in DOMAIN written THEN written[k] ELSE rows[k]]

\* An administrator creates, drops or regrants an account of owner o.
Change(o) == /\ changes < MaxChanges /\ o \in Reachable
             /\ changes' = changes + 1
             /\ \E list \in RemoteList \ {remote[o]} :
                  /\ Cardinality({u \in Users : u \in DOMAIN list
                                     /\ u \in DOMAIN remote[o]
                                     /\ list[u] # remote[o][u]})
                     + Cardinality((DOMAIN list \ DOMAIN remote[o])
                            \union (DOMAIN remote[o] \ DOMAIN list)) = 1
                  /\ remote' = [remote EXCEPT ![o] = list]
             /\ sync' = [s \in Syncs |->
                           IF sync[s].owner = o THEN [sync[s] EXCEPT !.alone = FALSE]
                                                ELSE sync[s]]
             /\ UNCHANGED <<dbtype, Stored, lock>>
-----------------------------------------------------------------------------
(* Reading the database server.                                            *)

\* What reading the privileges p of one account may give.  SQL Server's
\* bulk queries raise as a whole.
SqlServerPrivileges(p) == {p}
\* A failing SHOW GRANTS gives no privileges (_get_user_permissions).
MySqlGrants(p) == {p \cap {"grants"}, {}}
\* The roles of all accounts come from one pair of queries; where these fail,
\* nobody has any (_prefetch_roles).
MySqlRoles(p, answered) == IF answered THEN p \cap {"roles"} ELSE {}
MySqlPrivileges(p, answered) == {q \cup MySqlRoles(p, answered) : q \in MySqlGrants(p)}
\* A failing account keeps the permissions of the listing, which has none.
OraclePrivileges(p) == {p, {}}
\* Attributes, predefined roles and database privileges fail one by one.
PostgreSqlPrivileges(p) == SUBSET p

PrivilegesRead(p, answered) == CASE dbtype = "sqlserver"  -> SqlServerPrivileges(p)
                                 [] dbtype = "mysql"      -> MySqlPrivileges(p, answered)
                                 [] dbtype = "oracle"     -> OraclePrivileges(p)
                                 [] dbtype = "postgresql" -> PostgreSqlPrivileges(p)

Readings(list) == { r \in [DOMAIN list -> SUBSET Privs] :
                      \E answered \in BOOLEAN :
                        \A u \in DOMAIN list : r[u] \in PrivilegesRead(list[u], answered) }

Go(s, pc) == sync' = [sync EXCEPT ![s].pc = pc]

\* The synchronisation of owner o begins; from here others overlap it.
Begin(s, o) ==
  /\ sync[s].pc = "idle"
  /\ o \in Reachable
  /\ sync' = [t \in Syncs |->
                IF t = s THEN [Idle EXCEPT !.pc = "fetch", !.owner = o,
                                  !.alone = \A r \in Syncs : ~Running(r)]
                ELSE [sync[t] EXCEPT !.alone = @ /\ ~Running(t)]]
  /\ UNCHANGED <<dbtype, remote, changes, Stored, lock>>

\* (A listing that turned a failing query into an empty list.)
FetchedListsOrNone(s) == { remote[sync[s].owner], EmptyList }

\* What fetch_remote_accounts returns; a failing query raises.
FetchedLists(s) == { remote[sync[s].owner] }

\* fetch_remote_accounts; the availability-group pass also reads the
\* privileges here, before it compares anything.
Fetch(s) ==
  /\ sync[s].pc = "fetch"
  /\ \E list \in FetchedLists(s) :
       sync' = [sync EXCEPT ![s] = [@ EXCEPT !.listed = list, !.read = list,
                                             !.truth = remote[sync[s].owner], !.pc = "load"]]
  /\ UNCHANGED <<dbtype, remote, changes, Stored, lock>>

\* Connecting or listing fails: nothing has been written.
FetchFails(s) == /\ sync[s].pc = "fetch"
                 /\ Go(s, "failed")
                 /\ UNCHANGED <<dbtype, remote, changes, Stored, lock>>
-----------------------------------------------------------------------------
(* The inventory stage.                                                    *)

Seen(s) == { <<sync[s].owner, u>> : u \in DOMAIN sync[s].listed }

\* The owners whose unseen accounts are deactivated: those the list names,
\* or the instance when the list names none.
SyncScopes(s) == IF Seen(s) # {} THEN {sync[s].owner} ELSE {Instance}

Missing(s) == { k \in Key \ Seen(s) : /\ k[1] \in SyncScopes(s)
                                      /\ sync[s].view[k] = "active" }

\* (A stage that writes only the accounts whose state changes.)
TouchedChanged(s) == { k \in Seen(s) : sync[s].view[k] # "active" }
                       \union Missing(s)

\* Every seen account gets a new updated_at, so its row is written.
Touched(s) == Seen(s) \union Missing(s)

\* (A stage that does not reactivate.)
WrittenNew(s) == { k \in Seen(s) : sync[s].view[k] = "none" } \union Missing(s)

\* The accounts whose is_active it assigns: new, reactivated, missing.
Written(s) == { k \in Seen(s) : sync[s].view[k] # "active" } \union Missing(s)

\* The accounts known locally are loaded.
LoadInventory(s) == /\ sync[s].pc = "load"
                    /\ sync' = [sync EXCEPT ![s] = [@ EXCEPT !.view = account,
                                                             !.pc = "inventory"]]
                    /\ UNCHANGED <<dbtype, remote, changes, Stored, lock>>

\* The flush waits until no other transaction holds a row it writes.
CanWrite(s, keys) == \A k \in keys : lock[k] \in {Nobody, s}

Conflicts(s) == \E k \in Seen(s) : sync[s].view[k] = "none" /\ account[k] # "none"

\* synchronize(): create, reactivate or refresh what was seen, deactivate
\* what is missing.  An unchanged column is not part of the UPDATE.
SyncInventory(s) ==
  /\ sync[s].pc = "inventory"
  /\ CanWrite(s, Touched(s))
  /\ ~Conflicts(s)
  /\ sync' = [sync EXCEPT ![s] =
                   [@ EXCEPT !.writes = [k \in Written(s) |->
                        IF k \in Seen(s) THEN "active" ELSE "inactive"],
                             !.pc = IF Seen(s) = {} THEN "commit"
                                    ELSE IF sync[s].owner = Instance THEN "enrich"
                                    ELSE "permissions"]]
  /\ lock' = [k \in Key |-> IF k \in Touched(s) THEN s ELSE lock[k]]
  /\ UNCHANGED <<dbtype, remote, changes, Stored>>

\* Another transaction inserted one of the new accounts first: the
\* savepoint is rolled back and the synchronisation fails.
InventoryConflict(s) == /\ sync[s].pc = "inventory"
                        /\ CanWrite(s, Touched(s))
                        /\ Conflicts(s)
                        /\ Go(s, "failed")
                        /\ UNCHANGED <<dbtype, remote, changes, Stored, lock>>
-----------------------------------------------------------------------------
(* The permission stage.                                                   *)

\* enrich_permissions of the active accounts, on the same connection.  A
\* dropped account reads as one without privileges.
Enrich(s) ==
  /\ sync[s].pc = "enrich"
  /\ LET now == remote[sync[s].owner]
     IN  \E r \in Readings([u \in DOMAIN sync[s].listed |->
                              IF u \in DOMAIN now THEN now[u] ELSE {}]) :
           sync' = [sync EXCEPT ![s] = [@ EXCEPT !.read = r, !.pc = "permissions"]]
  /\ UNCHANGED <<dbtype, remote, changes, Stored, lock>>

\* The connection is lost or a bulk query raises: the stage is abandoned,
\* and the failure is committed together with the inventory.
EnrichFails(s) == /\ sync[s].pc = "enrich"
                  /\ Go(s, "commit_failed")
                  /\ UNCHANGED <<dbtype, remote, changes, Stored, lock>>

\* _calculate_diff: what the log entry says about account k.
Diff(s, k) == LET new == sync[s].read[k[2]]
              IN  [new |-> new, grant |-> new \ snapshot[k],
                                revoke |-> snapshot[k] \ new]

Changed(s) == { k \in Seen(s) : sync[s].read[k[2]] # snapshot[k] }

\* AccountPermissionManager.synchronize: compare with the stored snapshot,
\* store the new one and log the difference; building a log entry may fail,
\* which fails the synchronisation but keeps the snapshot.
SyncPermissions(s) ==
  /\ sync[s].pc = "permissions"
  /\ \E lost \in {{}} \union { {k} : k \in Changed(s) } :
       sync' = [sync EXCEPT ![s] =
                 [@ EXCEPT !.diffs = [k \in Changed(s) |-> Diff(s, k)],
                           !.unlogged = lost,
                           !.pc = IF lost = {} THEN "commit" ELSE "commit_failed"]]
  /\ UNCHANGED <<dbtype, remote, changes, Stored, lock>>
-----------------------------------------------------------------------------
(* The end of the transaction.                                             *)

Release(s) == lock' = [k \in Key |-> IF lock[k] = s THEN Nobody ELSE lock[k]]

\* The task, the request or the availability-group pass commits, whether the
\* synchronisation succeeded or was reported as failed.
Commit(s) ==
  /\ sync[s].pc \in {"commit", "commit_failed"}
  /\ LET w == sync[s].writes
         d == sync[s].diffs
         l == DOMAIN d \ sync[s].unlogged
     IN  /\ account' = Update(account, w)
         /\ snapshot' = Update(snapshot, [k \in DOMAIN d |-> d[k].new])
         /\ logged' = Update(logged, [k \in l |-> (logged[k] \union d[k].grant) \ d[k].revoke])
         /\ gap' = gap \union sync[s].unlogged
  /\ sync' = [sync EXCEPT ![s] = [Idle EXCEPT !.pc =
                 IF sync[s].pc = "commit" THEN "done" ELSE "failed"]]
  /\ Release(s)
  /\ UNCHANGED <<dbtype, remote, changes>>

\* The process dies: the server rolls the transaction back.
Die(s) == /\ Running(s)
          /\ sync' = [sync EXCEPT ![s] = [Idle EXCEPT !.pc = "failed"]]
          /\ Release(s)
          /\ UNCHANGED <<dbtype, remote, changes, Stored>>

Step(s) == \/ \E o \in Owners : Begin(s, o)
           \/ Fetch(s) \/ FetchFails(s)
           \/ LoadInventory(s) \/ SyncInventory(s) \/ InventoryConflict(s)
           \/ Enrich(s) \/ EnrichFails(s) \/ SyncPermissions(s)
           \/ Commit(s)

Next == \/ \E o \in Owners : Change(o)
        \/ \E s \in Syncs : Step(s) \/ Die(s)

Spec == Init /\ [][Next]_vars
-----------------------------------------------------------------------------
Statuses == {"none", "active", "inactive"}

TypeOK ==
  /\ dbtype \in DbTypes
  /\ remote \in [Owners -> RemoteList]
  /\ changes \in 0 .. MaxChanges
  /\ account \in [Key -> Statuses]
  /\ snapshot \in [Key -> SUBSET Privs]
  /\ logged \in [Key -> SUBSET Privs]
  /\ gap \in SUBSET Key
  /\ lock \in [Key -> Syncs \union {Nobody}]
  /\ \A s \in Syncs :
       /\ sync[s].pc \in {"idle", "fetch", "load", "inventory", "enrich",
                          "permissions", "commit", "commit_failed", "done", "failed"}
       /\ sync[s].owner \in Owners
       /\ sync[s].unlogged \subseteq DOMAIN sync[s].diffs
       /\ Running(s) \/ \A k \in Key : lock[k] # s

(* The committed change log adds up to the committed snapshot of every     *)
(* account whose log entry was not reported as failed, however many        *)
(* synchronisations overlap: the diff of permission_manager.py is taken    *)
(* against a snapshot nobody else replaces before the commit.              *)
LogExplainsSnapshot == \A k \in Key \ gap : logged[k] = snapshot[k]

(* A synchronisation that nothing overlapped and that succeeded leaves     *)
(* active exactly the accounts the instance has.                           *)
SoloSyncConverges ==
  [][\A s \in Syncs :
       (/\ sync[s].pc = "commit" /\ sync'[s].pc = "done"
        /\ sync[s].alone
        /\ sync[s].owner = Instance \/ DOMAIN remote[sync[s].owner] # {})
       => \A u \in Users :
            account'[<<sync[s].owner, u>>] = "active" <=> u \in DOMAIN remote[sync[s].owner]]_vars

(* An account of an owner is deactivated only by a synchronisation that    *)
(* could list that owner's accounts and did not find it: a failed listing  *)
(* raises instead of returning no accounts (mysql_adapter.py,              *)
(* postgresql_adapter.py).                                                 *)
DeactivatedWasAbsent ==
  [][\A s \in Syncs, k \in Key :
       (/\ sync[s].pc \in {"commit", "commit_failed"} /\ sync'[s].pc # sync[s].pc
        /\ account[k] = "active" /\ account'[k] = "inactive"
        /\ k[1] = sync[s].owner)
       => k[2] \notin DOMAIN sync[s].truth]_vars

(* Synchronising one owner leaves the accounts of the others alone.        *)
OtherOwnersKept ==
  [][\A s \in Syncs, k \in Key :
       (sync[s].pc \in {"commit", "commit_failed"} /\ sync'[s].pc # sync[s].pc
        /\ k[1] # sync[s].owner)
       => account'[k] = account[k]]_vars
=============================================================================
