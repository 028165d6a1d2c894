------------------------- MODULE AccountPermissions -------------------------
(***************************************************************************)
(* The permissions of one account of a database server: what its adapter   *)
(* makes of the answers of the server, the snapshot and the facts a        *)
(* synchronisation stores, and the change log.                             *)
(*                                                                         *)
(* A grant is the category of the snapshot it lands in, the object it is   *)
(* about ("" where a category is a plain list), the level inside the       *)
(* object ("" unless a category nests) and its name.  The special columns  *)
(* of each kind of server (type_specific) are a set of those that are set. *)
(***************************************************************************)
EXTENDS LoginPermissions, Sequences

CONSTANTS
    Servers,    \* for each kind of database, the states the account may be in
    Upper,      \* name of a database -> the same name in upper case
    Expanded,   \* what _expand_all_privileges makes of ALL PRIVILEGES in a category
    NoRow       \* no permission row yet

VARIABLES
    dbType,     \* the kind of database
    nights,     \* 0 or 1: has the date passed until which the account is valid?
    read,       \* the state of the account when it was last synchronised
    stored, facts, \* permission_snapshot and permission_facts
    replayed    \* what the entries of the change log add up to

permissionVars == <<dbType, nights, read, stored, facts, replayed>>

Grant(category, object, level, name) ==
    [category |-> category, object |-> object, level |-> level, name |-> name]

-----------------------------------------------------------------------------
(* The adapters                                                            *)

IsAll(g) == g.name = "ALL PRIVILEGES" /\ g.category \in DOMAIN Expanded

\* _extract_privileges and _parse_grant_statement: ALL PRIVILEGES is spelled
\* out, and the whole statement is put in upper case, the database included.
parsed(g) ==
    LET names == IF IsAll(g) THEN Expanded[g.category] ELSE {g.name}
        object == IF g.category = "mysql_database_privileges" THEN Upper[g.object] ELSE g.object
    IN {Grant(g.category, object, g.level, n) : n \in names}

\* The snapshot of a synchronisation that could read everything.
snapshot_of(account) ==
    [grants |-> UNION {parsed(g) : g \in account.grants}, special |-> account.special]

\* The kind of server an adapter fills a category for.
KindOf ==
    [mysql_global_privileges |-> "mysql", mysql_database_privileges |-> "mysql", mysql_granted_roles |-> "mysql",
     postgresql_role_attributes |-> "postgresql", postgresql_predefined_roles |-> "postgresql",
     postgresql_database_privileges |-> "postgresql",
     sqlserver_server_roles |-> "sqlserver", sqlserver_database_roles |-> "sqlserver",
     sqlserver_server_permissions |-> "sqlserver", sqlserver_database_permissions |-> "sqlserver",
     oracle_roles |-> "oracle", oracle_system_privileges |-> "oracle"]
PlainLists == {"mysql_global_privileges", "sqlserver_server_permissions", "oracle_system_privileges"}

\* A row is not its absence, every adapter fills its own categories, of which
\* one nests, and role attributes have names like can_login.
ASSUME ServersAssumption ==
    /\ DOMAIN Servers \subseteq {"mysql", "postgresql", "sqlserver", "oracle"}
    /\ DOMAIN Expanded \subseteq {"mysql_global_privileges", "mysql_database_privileges"}
    /\ \A db \in DOMAIN Servers : \A account \in Servers[db] :
          /\ snapshot_of(account) # NoRow
          /\ "super_priv" \in account.special => db = "mysql"
          /\ \A g \in account.grants :
                /\ g.category \in DOMAIN KindOf => KindOf[g.category] = db
                /\ g.category \in PlainLists => g.object = ""
                /\ g.level # "" => g.category = "sqlserver_database_permissions"
                /\ g.category = "postgresql_role_attributes" => g.object \notin {"SUPERUSER", "GRANT_ADMIN", "LOCKED"}

-----------------------------------------------------------------------------
(* build_permission_facts                                                  *)

RoleCategories ==
    {"mysql_granted_roles", "postgresql_predefined_roles", "sqlserver_server_roles",
     "sqlserver_database_roles", "oracle_roles"}

\* _extract_roles: one list, whatever the category.
extract_roles(s) == {g.name : g \in {h \in s.grants : h.category \in RoleCategories}}

\* The key of facts["privileges"] a category goes to.
Bucket ==
    [mysql_global_privileges |-> "global", mysql_database_privileges |-> "database",
     postgresql_database_privileges |-> "database",
     sqlserver_server_permissions |-> "server",
     sqlserver_database_permissions |-> "database_permissions",
     oracle_system_privileges |-> "system"]

\* _extract_privileges: where an object maps to levels instead of a list,
\* _extract_privilege_list returns the levels that are not empty.
extract_privileges(s) ==
    {[bucket |-> Bucket[g.category], object |-> g.object, name |-> IF g.level = "" THEN g.name ELSE g.level]
        : g \in {h \in s.grants : h.category \in DOMAIN Bucket}}

Has(s, category, object, name) == Grant(category, object, "", name) \in s.grants
Attribute(s, attribute, value) == Has(s, "postgresql_role_attributes", attribute, value)
Enabled(s) == {g.object : g \in {h \in s.grants : h.category = "postgresql_role_attributes" /\ h.name = "yes"}}

\* _collect_mysql_capabilities and its counterparts.
superuser(db, s) ==
    CASE db = "mysql"      -> "super_priv" \in s.special
      [] db = "postgresql" -> Attribute(s, "can_super", "yes")
      [] db = "sqlserver"  -> "sysadmin" \in extract_roles(s)
      [] db = "oracle"     -> "DBA" \in extract_roles(s)

grant_admin(db, s) ==
    CASE db = "mysql"      -> Has(s, "mysql_global_privileges", "", "GRANT OPTION")
      [] db = "postgresql" -> Attribute(s, "can_create_role", "yes")
      [] db = "sqlserver"  -> \/ "securityadmin" \in extract_roles(s)
                              \/ Has(s, "sqlserver_server_permissions", "", "CONTROL SERVER")
      [] db = "oracle"     -> \/ "DBA" \in extract_roles(s)
                              \/ Has(s, "oracle_system_privileges", "", "GRANT ANY PRIVILEGE")

\* valid_until is compared with the time of the calculation (_is_expired).
locked(db, s, n) ==
    CASE db = "mysql"      -> "account_locked" \in s.special /\ "role" \notin s.special
      [] db = "postgresql" -> Attribute(s, "can_login", "no") \/ (n > 0 /\ "valid_until" \in s.special)
      [] db = "sqlserver"  -> s.special # {}
      [] db = "oracle"     -> s.special # {}

build_permission_facts(db, s, n) ==
    [db_type |-> db,
     capabilities |-> (IF superuser(db, s) THEN {"SUPERUSER"} ELSE {})
                      \cup (IF grant_admin(db, s) THEN {"GRANT_ADMIN"} ELSE {})
                      \cup (IF locked(db, s, n) THEN {"LOCKED"} ELSE {})
                      \cup Enabled(s),
     roles |-> extract_roles(s),
     privileges |-> extract_privileges(s)]

-----------------------------------------------------------------------------
(* The change log                                                          *)

\* What the differences are taken of: names, object by object; of an object
\* with levels the whole entry, as one text (_normalize_sequence, _repr_value).
Items(s) ==
    {<<g.category, g.object,
       IF g.level = "" THEN {<<"", g.name>>}
       ELSE {<<h.level, h.name>> : h \in {k \in s.grants : k.category = g.category /\ k.object = g.object}}>>
        : g \in s.grants}

\* _build_privilege_diff_entries: what the second has and the first has not.
Entries(from, to) == Items(to) \ Items(from)

Nothing == [grants |-> {}, special |-> {}]

\* Mutant of calculate_diff: what an account no longer has is not logged.
calculate_diff_grants(db, old, new, n) ==
    [GRANT |-> Entries(old, new), REVOKE |-> {},
     set |-> new.special \ old.special, reset |-> old.special \ new.special,
     is_superuser |-> <<superuser(db, old), superuser(db, new)>>,
     is_locked |-> <<locked(db, old, n), locked(db, new, n)>>]

\* _calculate_diff: both sets of facts are calculated now.  For an account
\* without a row it is _build_initial_diff_payload.
calculate_diff(db, old, new, n) ==
    [GRANT |-> Entries(old, new), REVOKE |-> Entries(new, old),
     set |-> new.special \ old.special, reset |-> old.special \ new.special,
     is_superuser |-> <<superuser(db, old), superuser(db, new)>>,
     is_locked |-> <<locked(db, old, n), locked(db, new, n)>>]

\* _determine_change_type
determine_change_type(d) ==
    IF d.GRANT \cup d.REVOKE # {} THEN "modify_privilege"
    ELSE IF d.set \cup d.reset # {} \/ d.is_superuser[1] # d.is_superuser[2] \/ d.is_locked[1] # d.is_locked[2]
         THEN "modify_other"
         ELSE "none"

\* The entries are only what changed: a flag that did not is not in the log.
Replay(r, d) ==
    [items |-> (r.items \ d.REVOKE) \cup d.GRANT,
     special |-> (r.special \ d.reset) \cup d.set,
     superuser |-> IF d.is_superuser[1] # d.is_superuser[2] THEN d.is_superuser[2] ELSE r.superuser,
     locked |-> IF d.is_locked[1] # d.is_locked[2] THEN d.is_locked[2] ELSE r.locked]

-----------------------------------------------------------------------------
PermissionInit ==
    /\ dbType \in DOMAIN Servers
    /\ nights = 0
    /\ read = NoRow /\ stored = NoRow /\ facts = NoRow
    /\ replayed = [items |-> {}, special |-> {}, superuser |-> FALSE, locked |-> FALSE]

\* The date passes until which the account is valid.
Expires ==
    /\ nights = 0
    /\ nights' = 1
    /\ UNCHANGED <<dbType, read, stored, facts, replayed>>

\* _log_change
log_change(change, d) == IF change = "none" THEN replayed ELSE Replay(replayed, d)

\* Mutant of facts_after: facts are only stored with a difference in privileges.
facts_after_privileges(change, new) ==
    IF change \in {"add", "modify_privilege"} THEN build_permission_facts(dbType, new, nights) ELSE facts

\* _apply_permissions and, when nothing changed, _refresh_permission_facts_if_stale.
facts_after(change, new) == build_permission_facts(dbType, new, nights)

\* _sync_single_account: a new row, or a change, is stored and logged.
SyncPermission ==
    /\ \E account \in Servers[dbType] :
          LET new == snapshot_of(account)
              d == calculate_diff(dbType, IF stored = NoRow THEN Nothing ELSE stored, new, nights)
              change == IF stored = NoRow THEN "add" ELSE determine_change_type(d)
          IN /\ read' = account
             /\ stored' = IF change = "none" THEN stored ELSE new
             /\ replayed' = log_change(change, d)
             /\ facts' = facts_after(change, new)
    /\ UNCHANGED <<dbType, nights>>

PermissionNext == Expires \/ SyncPermission
PermissionSpec == PermissionInit /\ [][PermissionNext]_permissionVars

-----------------------------------------------------------------------------
(* The entries of the change log add up to the stored permissions: who      *)
(* replays them ends with the privileges, the special columns and the flags *)
(* of the account, however it changed back and forth.  The exception is     *)
(* PostgreSQL's expiry date: it passes without a change on the server, both *)
(* sets of facts are calculated after it, and the log never says so.        *)
LogReplays ==
    stored # NoRow =>
        /\ replayed.items = Items(stored)
        /\ replayed.special = stored.special
        /\ replayed.superuser = ("SUPERUSER" \in facts.capabilities)
        /\ nights = 0 \/ dbType # "postgresql" => replayed.locked = ("LOCKED" \in facts.capabilities)

-----------------------------------------------------------------------------
\* The expressions of classification rules (DSL v4): what the API accepts, and
\* what an expression says of an account.  An expression is a function call,
\* whose missing or blank arguments are "" (a blank database, which is not the
\* missing one, is " "), or an operator with the sequence of its arguments.
CONSTANTS
    Exprs,      \* expressions, with every argument of their operators
    Depth       \* how deeply the operators of an expression are nested

IsOp(e) == "op" \in DOMAIN e
Args(e) == {e.args[i] : i \in DOMAIN e.args}
Scopes == {"global", "server", "database", "tablespace"}

ASSUME ExprsAssumption ==
    /\ Depth \in [Exprs -> Nat]
    /\ \A e \in Exprs : IsOp(e) => e.args \in Seq(Exprs) /\ \A a \in Args(e) : Depth[a] < Depth[e]

-----------------------------------------------------------------------------
\* _validate_node of a function call.
valid_fn(e) ==
    \/ e.fn \in {"db_type_in", "is_superuser"}
    \/ e.fn \in {"has_capability", "has_role"} /\ e.name # ""
    \/ e.fn = "has_privilege" /\ e.name # "" /\ e.scope \in Scopes /\ e.database # " "

\* collect_dsl_v4_validation_errors: none.
validation[e \in Exprs] ==
    IF IsOp(e) THEN /\ e.op \in {"AND", "OR", "NOT"}
                    /\ e.op = "NOT" => Len(e.args) = 1
                    /\ \A a \in Args(e) : validation[a]
    ELSE valid_fn(e)

-----------------------------------------------------------------------------
Privileges(f, bucket, database) ==
    {p.name : p \in {q \in f.privileges : q.bucket = bucket /\ (database = "" \/ q.object = database)}}

\* _fn_has_privilege; no adapter fills facts["privileges"]["tablespace"].
has_privilege(f, e) ==
    \/ e.scope = "global" /\ e.name \in Privileges(f, "global", "")
    \/ e.scope = "server" /\ e.name \in Privileges(f, "server", "") \cup Privileges(f, "system", "")
    \/ /\ e.scope = "database"
       /\ e.name \in Privileges(f, "database", e.database) \cup Privileges(f, "database_permissions", e.database)

\* _eval_fn
eval_fn(f, e) ==
    CASE e.fn = "db_type_in" -> f.db_type \in e.types
      [] e.fn = "is_superuser" -> "SUPERUSER" \in f.capabilities
      [] e.fn = "has_capability" -> e.name \in f.capabilities
      [] e.fn = "has_role" -> e.name \in f.roles
      [] e.fn = "has_privilege" -> has_privilege(f, e)
      [] OTHER -> FALSE

\* _record_error by a function call.  An empty list of types is one.
error_fn(e) == ~valid_fn(e) \/ (e.fn = "db_type_in" /\ e.types = {})

Outcome(matched, error) == [matched |-> matched, error |-> error]

\* The arguments that all() and any() look at: up to the first that decides.
Visited(args, results, decides) ==
    {i \in DOMAIN args : \A j \in 1 .. i - 1 : results[args[j]].matched # decides}

\* _eval_node for every expression: does it match, was an error recorded?
evaluate(f) ==
    LET eval[e \in Exprs] ==
        IF ~IsOp(e) THEN Outcome(~error_fn(e) /\ eval_fn(f, e), error_fn(e))
        ELSE LET results == [a \in Args(e) |-> eval[a]]
                 errors(decides) == \E i \in Visited(e.args, results, decides) : results[e.args[i]].error
             IN CASE e.op = "NOT" /\ Len(e.args) = 1 ->
                       Outcome(~results[e.args[1]].matched, results[e.args[1]].error)
                  [] e.op = "AND" -> Outcome(\A a \in Args(e) : results[a].matched, errors(FALSE))
                  [] e.op = "OR" -> Outcome(\E a \in Args(e) : results[a].matched, errors(TRUE))
                  [] OTHER -> Outcome(FALSE, TRUE)
    IN eval

-----------------------------------------------------------------------------
\* What a function call means of the account on its server, where ALL
\* PRIVILEGES is none of them and stands for each.
Covers(g, name) == IF IsAll(g) THEN name \in Expanded[g.category] ELSE g.name = name

Holds(categories, name) == \E g \in read.grants : g.category \in categories /\ Covers(g, name)
HasAttribute(attribute, value) ==
    \E g \in read.grants : g.category = "postgresql_role_attributes" /\ g.object = attribute /\ g.name = value

GrantedIn(e, categories) ==
    \E g \in read.grants :
        /\ g.category \in categories /\ g.level \in {"", "database"}
        /\ Covers(g, e.name)
        /\ e.scope = "database" => e.database \in {"", g.object}

superuser_means ==
    \/ "super_priv" \in read.special
    \/ HasAttribute("can_super", "yes")
    \/ Holds({"sqlserver_server_roles"}, "sysadmin")
    \/ Holds({"oracle_roles"}, "DBA")
grant_admin_means ==
    \/ Holds({"mysql_global_privileges"}, "GRANT OPTION")
    \/ HasAttribute("can_create_role", "yes")
    \/ Holds({"sqlserver_server_roles"}, "securityadmin") \/ Holds({"sqlserver_server_permissions"}, "CONTROL SERVER")
    \/ Holds({"oracle_roles"}, "DBA") \/ Holds({"oracle_system_privileges"}, "GRANT ANY PRIVILEGE")
locked_means ==
    \/ dbType = "mysql" /\ "account_locked" \in read.special /\ "role" \notin read.special
    \/ HasAttribute("can_login", "no")
    \/ dbType \in {"sqlserver", "oracle"} /\ read.special # {}

capability_means(name) ==
    \/ name = "SUPERUSER" /\ superuser_means
    \/ name = "GRANT_ADMIN" /\ grant_admin_means
    \/ name = "LOCKED" /\ locked_means
    \/ HasAttribute(name, "yes")

fn_means(e) ==
    CASE e.fn = "db_type_in" -> dbType \in e.types
      [] e.fn = "is_superuser" -> superuser_means
      [] e.fn = "has_capability" -> capability_means(e.name)
      [] e.fn = "has_role" -> Holds(RoleCategories, e.name)
      [] e.fn = "has_privilege" ->
           \/ e.scope = "global" /\ GrantedIn(e, {"mysql_global_privileges"})
           \/ e.scope = "server" /\ GrantedIn(e, {"sqlserver_server_permissions", "oracle_system_privileges"})
           \/ e.scope = "database" /\ GrantedIn(e, {"mysql_database_privileges",
                                    "postgresql_database_privileges", "sqlserver_database_permissions"})
      [] OTHER -> FALSE

means ==
    LET m[e \in Exprs] ==
        IF ~IsOp(e) THEN fn_means(e)
        ELSE CASE e.op = "NOT" /\ Len(e.args) = 1 -> ~m[e.args[1]]
               [] e.op = "AND" -> \A a \in Args(e) : m[a]
               [] e.op = "OR" -> \E a \in Args(e) : m[a]
               [] OTHER -> FALSE
    IN m

\* What the facts lose: the database privileges of SQL Server, and the case of
\* the names of MySQL's databases; whether a date has passed since; and that a
\* role of a database is not the server's, if it has the name of one.
AsksFor(e) == IF e.fn = "is_superuser" THEN {"SUPERUSER"} ELSE IF e.fn = "has_capability" THEN {e.name} ELSE {}
lost(e) ==
    \/ /\ e.fn = "has_privilege" /\ e.scope = "database"
       /\ dbType = "sqlserver" \/ (dbType = "mysql" /\ e.database # "")
    \/ "LOCKED" \in AsksFor(e) /\ dbType = "postgresql" /\ "valid_until" \in read.special
    \/ "SUPERUSER" \in AsksFor(e) /\ Holds({"sqlserver_database_roles"}, "sysadmin")
    \/ "GRANT_ADMIN" \in AsksFor(e) /\ Holds({"sqlserver_database_roles"}, "securityadmin")
EmptyTypes(e) == e.fn = "db_type_in" /\ e.types = {}

plain[e \in Exprs] ==
    IF IsOp(e) THEN \A a \in Args(e) : plain[a] ELSE ~EmptyTypes(e)
faithful ==
    LET p[e \in Exprs] == IF IsOp(e) THEN \A a \in Args(e) : p[a] ELSE ~lost(e)
    IN p

(* A rule the API accepted says of an account what its expression means on  *)
(* the server the account was read from, whatever synchronisations came     *)
(* before, without an error; a call the API would have rejected says no.    *)
RulesMeanGrants ==
    facts # NoRow =>
        LET outcome == evaluate(facts) meaning == means keeps == faithful
        IN \A e \in Exprs :
              /\ validation[e] /\ plain[e] /\ keeps[e] => outcome[e] = Outcome(meaning[e], FALSE)
              /\ ~IsOp(e) /\ ~validation[e] => outcome[e] = Outcome(FALSE, TRUE)

(* What is read of a server is what its accounts hold, and rules match what *)
(* was read: the two halves of what a classification rests on.              *)
PermissionsTell == RulesMeanGrants /\ LoginsTell

(* "{'mydb': ['SELECT']}" (_parse_grant_statement), "mapping: database ->   *)
(* list[str]": a privilege on a database is found by the rule that asks for *)
(* it on this database.                                                     *)
DatabaseGrantsMatch ==
    facts # NoRow =>
        \A e \in Exprs :
            ~IsOp(e) /\ e.fn = "has_privilege" /\ e.scope = "database" =>
                evaluate(facts)[e].matched = fn_means(e)
=============================================================================
