----------------------------- MODULE MCAccounts -----------------------------
(* Small instances of AccountInventory, which rows a synchronisation writes *)
(* when, of LoginPermissions, how what is in it is read, of                 *)
(* AccountPermissions, what is in a row and which rules match it, and of    *)
(* ClassificationEngine, what the matches lead to: a behaviour is about one *)
(* of them, and the others stay in their first states.                      *)
EXTENDS AccountInventory, AccountPermissions, ClassificationEngine, TLC

(* The states of an account of each kind of database, and expressions.      *)
G(category, object, name) == Grant(category, object, "", name)
\* Bound: at most three grants of many.
FewOf(grants) == {few \in SUBSET grants : Cardinality(few) <= 3}
States(grants, specials) == {[grants |-> g, special |-> s] : g \in grants, s \in specials}
MySQL == States(
    FewOf({G("mysql_global_privileges", "", "SELECT"), G("mysql_global_privileges", "", "ALL PRIVILEGES"),
            G("mysql_global_privileges", "", "GRANT OPTION"),
            G("mysql_database_privileges", "x", "SELECT"), G("mysql_database_privileges", "X", "ALL PRIVILEGES"),
            G("mysql_granted_roles", "direct", "r"), G("mysql_granted_roles", "default", "r")}),
    {{}, {"super_priv"}, {"account_locked", "role"}})

PgAttributes ==
    {{G("postgresql_role_attributes", a, v[a]) : a \in DOMAIN v} :
        v \in [{"can_super", "can_create_role", "can_login"} -> {"yes", "no"}]}
PostgreSQL == States(
    {a \cup g : a \in PgAttributes,
                g \in SUBSET {G("postgresql_predefined_roles", "", "r"),
                              G("postgresql_database_privileges", "x", "SELECT"),
                              G("postgresql_database_privileges", "y", "CONNECT")}},
    {{}, {"valid_until"}})

SQLServer == States(
    FewOf({G("sqlserver_server_roles", "", "sysadmin"), G("sqlserver_server_roles", "", "securityadmin"),
            G("sqlserver_server_permissions", "", "CONTROL SERVER"),
            G("sqlserver_database_roles", "x", "securityadmin"),
            Grant("sqlserver_database_permissions", "x", "database", "SELECT"),
            Grant("sqlserver_database_permissions", "x", "table", "SELECT")}),
    {{}, {"is_disabled"}, {"is_locked_out", "must_change_password"}})

Oracle == States(
    SUBSET {G("oracle_roles", "", "DBA"), G("oracle_roles", "", "r"),
            G("oracle_system_privileges", "", "SELECT"),
            G("oracle_system_privileges", "", "GRANT ANY PRIVILEGE")},
    {{}, {"account_status"}})

MCServers == [mysql |-> MySQL, postgresql |-> PostgreSQL, sqlserver |-> SQLServer, oracle |-> Oracle]
SQLServerOnly == [sqlserver |-> SQLServer]

MCUpper == [x |-> "X", X |-> "X"]
MCExpanded == [mysql_global_privileges |-> {"SELECT", "SUPER"}, mysql_database_privileges |-> {"SELECT"}]

Call(fn, name, scope, database, types) ==
    [fn |-> fn, name |-> name, scope |-> scope, database |-> database, types |-> types]
Asks(name, scope, database) == Call("has_privilege", name, scope, database, {})

Calls ==
    {Call("is_superuser", "", "", "", {}), Call("is_admin", "", "", "", {}),
     Call("db_type_in", "", "", "", {"mysql", "oracle"}), Call("db_type_in", "", "", "", {}),
     Call("has_role", "r", "", "", {}), Call("has_role", "", "", "", {}),
     Call("has_capability", "GRANT_ADMIN", "", "", {}), Call("has_capability", "LOCKED", "", "", {}),
     Asks("SELECT", "global", ""), Asks("SELECT", "server", ""), Asks("SELECT", "tablespace", ""),
     Asks("SELECT", "table", ""), Asks("SELECT", "database", "x"), Asks("SELECT", "database", ""),
     Asks("SELECT", "database", " ")}

Op(op, args) == [op |-> op, args |-> args]
\* Bound: the second arguments; one of them is an error, and one has no facts.
Seconds ==
    {Call("is_superuser", "", "", "", {}), Call("has_capability", "LOCKED", "", "", {}),
     Call("db_type_in", "", "", "", {}), Asks("SELECT", "database", "x"), Asks("SELECT", "tablespace", "")}
Pairs == {Op(op, <<a, b>>) : op \in {"AND", "OR"}, a \in Calls, b \in Seconds}
MCExprs == Calls \cup Pairs \cup {Op("NOT", <<e>>) : e \in Calls \cup Pairs} \cup {Op("NOT", << >>), Op("XOR", << >>)}
MCDepth == [e \in MCExprs |-> IF ~IsOp(e) THEN 0 ELSE IF Args(e) \subseteq Calls THEN 1 ELSE 2]

\* Two rules of one classification on one type of database, and another rule.
MCRuleClass == (1 :> 1) @@ (2 :> 1) @@ (3 :> 2)
MCRuleType == (1 :> 1) @@ (2 :> 1) @@ (3 :> 2)
MCRuleHits == (1 :> {1, 2}) @@ (2 :> {1}) @@ (3 :> {3})
MCSubjectType == (1 :> 1) @@ (2 :> 1) @@ (3 :> 2)

\* Two logins and one the filters leave out: the users of a database have roles and permissions, one of
\* them denied and one on an object without a name; ids are given again, a
\* user has the name of a login but not its SID, and dbo has a login's SID.
Held(kind, name, state, placed) == [kind |-> kind, name |-> name, state |-> state, placed |-> placed]
User(id, name, sid, grants) == [id |-> id, name |-> name, sid |-> sid, grants |-> grants]
Reader == Held("role", "r", "G", TRUE)
Selects(state) == Held("permission", "SELECT", state, TRUE)
OnNothing == Held("permission", "EXECUTE", "G", FALSE)
Online(users) == [online |-> TRUE, users |-> users]
MCBaseStates ==
    {[online |-> FALSE, users |-> {}],
     Online({User(5, "a", 1, {Reader, Selects("D")})}),
     Online({User(5, "a", 1, {Selects("G")}), User(6, "b", 2, {Reader, OnNothing})}),
     Online({User(5, "b", 2, {Selects("G")}), User(1, "dbo", 1, {Reader})}),
     Online({User(7, "a", 9, {Reader})})}

Login(known, sid, rs, ps) == [known |-> known, sid |-> sid, roles |-> rs, permissions |-> ps]
Connects(state) == [name |-> "CONNECT", state |-> state]
Server(a, b) == [a |-> a, b |-> b, sa |-> Login(TRUE, 9, {"sysadmin"}, {})]
MCServerStates ==
    {Server(Login(TRUE, 1, {"sysadmin"}, {}), Login(TRUE, 2, {}, {Connects("D")})),
     Server(Login(TRUE, 1, {}, {Connects("G")}), Login(TRUE, 3, {}, {})),
     Server(Login(TRUE, 0, {}, {}), Login(TRUE, 0, {}, {})),
     Server(Login(TRUE, 1, {}, {}), Login(FALSE, 0, {}, {}))}

VARIABLE subject

FirstCatalogue == CHOOSE c \in Catalogues : TRUE

MCInit ==
    /\ Init /\ PermissionInit /\ EngineInit /\ LoginsInit
    /\ subject \in {"rows", "contents", "engine", "logins"}
    /\ subject # "rows" =>
          dbtype = "oracle" /\ remote[Instance] = EmptyList /\ \A k \in Key : account[k] = "none"
    /\ subject # "contents" => dbType = "oracle"
    /\ subject # "logins" => catalogue = FirstCatalogue

MCNext ==
    /\ \/ subject = "rows" /\ Next /\ UNCHANGED <<permissionVars, engineVars, loginVars>>
       \/ subject = "contents" /\ PermissionNext /\ UNCHANGED <<vars, engineVars, loginVars>>
       \/ subject = "engine" /\ EngineNext /\ UNCHANGED <<vars, permissionVars, loginVars>>
       \/ subject = "logins" /\ LoginsNext /\ UNCHANGED <<vars, permissionVars, engineVars>>
    /\ UNCHANGED subject

MCSpec == MCInit /\ [][MCNext]_<<vars, permissionVars, engineVars, loginVars, subject>>

Symmetry == Permutations(Users)
=============================================================================
