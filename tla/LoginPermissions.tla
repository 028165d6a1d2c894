-------------------------- MODULE LoginPermissions --------------------------
(***************************************************************************)
(* How the permissions of the logins of a SQL Server are read              *)
(* (SQLServerAccountAdapter.enrich_permissions): the server's tables, the  *)
(* SIDs of the logins, and batch by batch the users, roles and permissions *)
(* of the databases, each by a statement of its own.  No transaction holds *)
(* them together, so administrators change the server in between.          *)
(*                                                                         *)
(* A user of a database belongs to the login that has its SID; only when   *)
(* this tells nothing of any login are users matched by their names.       *)
(***************************************************************************)
EXTENDS Naturals, FiniteSets

CONSTANTS
    Logins,      \* the logins of the server, and names of others
    Excluded,    \* those the account filters leave out
    Bases,       \* the databases of the server
    ServerStates, BaseStates, \* what the server and a database may hold
    BatchSize,   \* SQLSERVER_DATABASE_PERMISSION_BATCH_SIZE
    Unread,      \* a SID that cannot be read
    MaxAlters    \* bound: changes while the permissions are read

\* A server has the SID, the roles and the permissions of each login it knows;
\* a database that is online has users, a user has roles and permissions.
ASSUME BasesAssumption ==
    /\ \A s \in ServerStates : \A l \in Logins :
          s[l].known \/ (s[l].sid = Unread /\ s[l].roles = {} /\ s[l].permissions = {})
    /\ \A b \in BaseStates :
          /\ ~b.online => b.users = {}
          /\ \A u \in b.users : \A g \in u.grants : g.kind \in {"role", "permission"}
    /\ BatchSize \in Nat \ {0}

VARIABLES
    catalogue,          \* the server and its databases now
    past, alters,       \* what the catalogue was since the reading began
    at,                 \* where the reading is
    accounts,           \* the accounts of the instance
    roles, permissions, \* what the server's tables said of each login
    listed,             \* the accessible databases
    sids, route,        \* the SIDs of the logins, and how users are matched
    left, batch,        \* databases still to be read, and those being read
    principals,         \* principal_lookup: which user is which login's
    taken               \* roles and permissions in databases so far

fetched == <<accounts, roles, permissions, listed, sids>>
loginVars == <<catalogue, past, alters, at, fetched, route, left, batch, principals, taken>>

Catalogues == [server : ServerStates, bases : [Bases -> BaseStates]]
UsersOf(c, d) == c.bases[d].users
AllUsers == UNION {b.users : b \in BaseStates}
Ids      == {u.id : u \in AllUsers}
AllGrants == UNION {u.grants : u \in AllUsers}

LoginsInit ==
    /\ catalogue \in Catalogues
    /\ past = {catalogue} /\ alters = 0
    /\ at = "logins" /\ accounts = {}
    /\ roles = [l \in Logins |-> {}] /\ permissions = [l \in Logins |-> {}]
    /\ listed = {} /\ sids = [l \in Logins |-> Unread]
    /\ route = "sid" /\ left = {} /\ batch = {} /\ principals = {} /\ taken = {}

Reading == at \notin {"done", "failed"}

\* An administrator changes the logins, or the users of a database.
Alter ==
    /\ Reading /\ alters < MaxAlters
    /\ \E c \in Catalogues \ {catalogue} :
          /\ \/ c.bases = catalogue.bases
             \/ c.server = catalogue.server /\ \E d \in Bases : \A e \in Bases \ {d} : c.bases[e] = catalogue.bases[e]
          /\ catalogue' = c /\ past' = past \cup {c}
    /\ alters' = alters + 1
    /\ UNCHANGED <<at, fetched, route, left, batch, principals, taken>>

-----------------------------------------------------------------------------
(* The server                                                              *)

Statement(here, there) == at = here /\ at' = there /\ UNCHANGED <<catalogue, past, alters>>

\* The account filters leave some names out.
Wanted == Logins \ Excluded
\* _fetch_logins.
FoundLogins == {l \in Wanted : catalogue.server[l].known}

\* _fetch_raw_accounts, and the inventory stage, which makes an active account
\* of every login; without one there is nothing to read.
FetchLogins ==
    /\ accounts' = FoundLogins
    /\ Statement("logins", IF accounts' = {} THEN "done" ELSE "server roles")
    /\ UNCHANGED <<roles, permissions, listed, sids, route, left, batch, principals, taken>>

\* _get_server_roles_bulk and _get_server_permissions_bulk: whatever the
\* state of a permission, granted or denied, its name is listed.
ReadServerRoles ==
    /\ Statement("server roles", "server permissions")
    /\ roles' = [l \in accounts |-> catalogue.server[l].roles]
    /\ UNCHANGED <<accounts, permissions, listed, sids, route, left, batch, principals, taken>>

ReadServerPermissions ==
    /\ Statement("server permissions", "databases")
    /\ permissions' = [l \in accounts |-> {p.name : p \in catalogue.server[l].permissions}]
    /\ UNCHANGED <<accounts, roles, listed, sids, route, left, batch, principals, taken>>

\* _get_accessible_databases; without one there is nothing to read.
ListDatabases ==
    /\ listed' = {d \in Bases : catalogue.bases[d].online}
    /\ Statement("databases", IF listed' = {} THEN "done" ELSE "sids")
    /\ left' = listed'
    /\ UNCHANGED <<accounts, roles, permissions, sids, route, batch, principals, taken>>

HasSids(s) == \E l \in accounts : s[l] # Unread

\* _map_sids_to_logins; without any SID users are matched by name.
MapSids ==
    /\ Statement("sids", "batch")
    /\ sids' = [l \in accounts |-> catalogue.server[l].sid]
    /\ route' = IF HasSids(sids') THEN "sid" ELSE "name"
    /\ UNCHANGED <<accounts, roles, permissions, listed, left, batch, principals, taken>>

-----------------------------------------------------------------------------
(* The databases                                                           *)

BySid(l, u, s)  == u.name # "dbo" /\ s[l] # Unread /\ u.sid = s[l]
ByName(l, u)    == u.name # "dbo" /\ u.name = l
\* The owner of a database, dbo, is nobody's user.
Owns(l, u, how) == IF how = "sid" THEN BySid(l, u, sids) ELSE ByName(l, u)

\* Mutant of Listed: denied permissions are taken for granted ones.
ListedDenied(u, kind) == {g \in u.grants : g.kind = kind}

\* A permission is listed where it is granted without the grant option.
Listed(u, kind) == {g \in u.grants : g.kind = kind /\ g.state = "G"}

NextBatch(B) == B \subseteq left /\ Cardinality(B) = IF Cardinality(left) < BatchSize THEN Cardinality(left) ELSE BatchSize

\* The databases are read in the order of their names, which is left open.
TakeBatch ==
    /\ left # {}
    /\ Statement("batch", "principals")
    /\ \E B \in SUBSET left : NextBatch(B) /\ batch' = B /\ left' = left \ B
    /\ UNCHANGED <<fetched, route, principals, taken>>

\* One statement over all databases of the batch.
Answers == \A d \in batch : catalogue.bases[d].online

\* _build_principal_lookup, and _build_principal_lookup_by_name.
ReadPrincipals ==
    /\ Answers /\ Statement("principals", "roles")
    /\ principals' = {x \in batch \X Ids \X accounts :
                        \E u \in UsersOf(catalogue, x[1]) : u.id = x[2] /\ Owns(x[3], u, route)}
    /\ UNCHANGED <<fetched, route, left, batch, taken>>

\* The users the statements ask for, dbo among them.
Targeted(u) == IF route = "sid" THEN \E l \in accounts : sids[l] # Unread /\ u.sid = sids[l] ELSE u.name \in accounts

\* _apply_role_rows and _apply_permission_rows: what the users of a login
\* hold in the batch, by their ids.
Applied(kind) ==
    {x \in accounts \X batch \X AllGrants :
        \E u \in UsersOf(catalogue, x[2]) :
            Targeted(u) /\ <<x[2], u.id, x[1]>> \in principals /\ x[3] \in Listed(u, kind)}

ReadRoles ==
    /\ Answers /\ Statement("roles", "permissions")
    /\ taken' = taken \cup Applied("role")
    /\ UNCHANGED <<fetched, route, left, batch, principals>>

ReadPermissions ==
    /\ Answers /\ Statement("permissions", "batch")
    /\ taken' = taken \cup Applied("permission")
    /\ batch' = {}
    /\ UNCHANGED <<fetched, route, left, principals>>

\* _is_permissions_empty: nothing at all was found by SID, so everything is
\* read again by name.
Fallback ==
    /\ left = {} /\ route = "sid" /\ taken = {}
    /\ Statement("batch", "batch")
    /\ route' = "name" /\ left' = listed
    /\ UNCHANGED <<fetched, batch, principals, taken>>

Finish ==
    /\ left = {} /\ (route = "sid" => taken # {})
    /\ Statement("batch", "done")
    /\ UNCHANGED <<fetched, route, left, batch, principals, taken>>

\* Any statement may raise, and one about a database that is not online does:
\* then nothing is returned.
StatementFails ==
    /\ Reading
    /\ at' = "failed"
    /\ UNCHANGED <<catalogue, past, alters, fetched, route, left, batch, principals, taken>>

LoginsNext ==
    \/ Alter \/ FetchLogins \/ ReadServerRoles \/ ReadServerPermissions \/ ListDatabases \/ MapSids
    \/ TakeBatch \/ ReadPrincipals \/ ReadRoles \/ ReadPermissions
    \/ Fallback \/ Finish \/ StatementFails

LoginsSpec == LoginsInit /\ [][LoginsNext]_loginVars

-----------------------------------------------------------------------------
(* What is read                                                            *)

\* _get_login_permissions: an object without a name has no place in it.  Names
\* are looked up in the connected database, so what stands in for the name of
\* an object elsewhere is left open.
Placed(g) == g.placed
DatabaseGrants(l) == {<<x[2], x[3]>> : x \in {y \in taken : y[1] = l /\ Placed(y[3])}}

\* User i of database d is the login's, by SID or by name, and holds g.
HoldsAs(c, l, d, i, g, how) ==
    \E u \in UsersOf(c, d) :
        /\ u.id = i /\ g \in u.grants /\ g.state = "G"
        /\ IF how = "sid" THEN BySid(l, u, [k \in accounts |-> c.server[k].sid]) ELSE ByName(l, u)
Ever(l, d, g, how)   == \E c \in past, i \in Ids : HoldsAs(c, l, d, i, g, how)
Always(l, d, g, how) == \E i \in Ids : \A c \in past : HoldsAs(c, l, d, i, g, how)

\* The changes since the reading began replaced neither the login nor a user
\* by another one.
Steady(l) ==
    \A c, e \in past :
        /\ c.server[l].sid = e.server[l].sid
        /\ \A d \in Bases : \A u \in UsersOf(c, d), v \in UsersOf(e, d) :
              u.id = v.id => u.sid = v.sid /\ u.name = v.name

(* Without a transaction the answer mixes times, but not logins: what a     *)
(* login held from the first statement to the last is in its permissions,   *)
(* and what it never held is not, whatever changed in between, batch or not.*)
(* Only ids that were given to another user meanwhile are mistaken.         *)
(* Users are taken for a login because of their name only when no login     *)
(* held anything all along by its SID.                                      *)
DatabasesTell ==
    at = "done" =>
        \A l \in accounts, d \in Bases, g \in AllGrants : Steady(l) =>
            /\ <<d, g>> \in DatabaseGrants(l) => Ever(l, d, g, route)
            /\ Placed(g) /\ Always(l, d, g, route) => <<d, g>> \in DatabaseGrants(l)
            /\ route = "name" => ~Always(l, d, g, "sid")

\* The same for what the server itself grants; denied permissions count.
ServerTells ==
    at = "done" =>
        \A l \in accounts :
            /\ \A r \in roles[l] : \E c \in past : r \in c.server[l].roles
            /\ \A c \in past : \A r \in c.server[l].roles :
                  (\A e \in past : r \in e.server[l].roles) => r \in roles[l]
            /\ \A n \in permissions[l] : \E c \in past : \E p \in c.server[l].permissions : p.name = n
            /\ \A c \in past : \A p \in c.server[l].permissions :
                  (\A e \in past : p \in e.server[l].permissions) => p.name \in permissions[l]

LoginsTell == DatabasesTell /\ ServerTells
=============================================================================
