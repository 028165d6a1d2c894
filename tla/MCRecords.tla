------------------------------ MODULE MCRecords ------------------------------
(* The API calls of ApiCalls and the small instances of AdminRecords,       *)
(* VeeamSnapshots, RiskCenter and Ledgers: a behaviour is about one of those *)
(* in Parts, and the others stay in their first states.                     *)
EXTENDS AdminRecords, VeeamSnapshots, RiskCenter, ApiCalls, Ledgers, TLC

\* Two instances, three backup objects on pages of two, of which the third
\* belongs to no instance but may come to have the address of one, and files
\* for some of the points.
MCInventory == "db1" :> [name |-> <<"db1">>, host |-> <<"10.1">>]
            @@ "db2" :> [name |-> <<"db2", "corp">>, host |-> <<"10.2">>]
MCDomain == "corp"
MCAddresses == {<<"10.1">>, <<"10.2">>}
MCObjects == <<[id |-> 1, name |-> <<"db1">>, ip |-> <<"10.1">>],
               [id |-> 2, name |-> <<"db2", "corp">>, ip |-> <<"10.2">>],
               [id |-> 3, name |-> <<"web">>, ip |-> None]>>
MCFiles == {[backup |-> "b1", id |-> 1, own |-> <<1, 1>>, points |-> {<<1, 1>>}, at |-> 1, size |-> 10],
            [backup |-> "b1", id |-> 2, own |-> <<1, 2>>, points |-> {<<1, 1>>, <<1, 2>>}, at |-> 2, size |-> 20],
            [backup |-> "b2", id |-> 3, own |-> <<2, 1>>, points |-> {<<2, 1>>}, at |-> 1, size |-> 30]}

\* Two SQL Server instances on one host, in one cluster, and two MySQL instances.
MCDbType == (1 :> "sqlserver") @@ (2 :> "sqlserver") @@ (3 :> "mysql") @@ (4 :> "mysql")
MCCluster == [c1 |-> <<2, 1>>]
MCNamed == (1 :> {"one", "host"}) @@ (2 :> {"two", "host"}) @@ (3 :> {"three"}) @@ (4 :> {"four"})

\* An instance with an availability group, and a MySQL instance with a role.
MCHostType == (1 :> "sqlserver") @@ (2 :> "mysql")
MCLoginHost == (1 :> 1) @@ (2 :> 1) @@ (3 :> 2) @@ (4 :> 2)
MCLoginGroup == (1 :> 0) @@ (2 :> 1) @@ (3 :> 0) @@ (4 :> 0)
MCLoginName == (1 :> "sa") @@ (2 :> "sa") @@ (3 :> "root") @@ (4 :> "role")
MCKeyOf == (1 :> "key") @@ (2 :> "key")
MCSchemaHost == (1 :> 1) @@ (2 :> 1) @@ (3 :> 2)

CONSTANT Parts   \* what the behaviours of a run are about

VARIABLE subject

\* The call that the behaviours about something else are stuck with.
FirstCall == [resource |-> "HealthPing", method |-> "get", role |-> "nobody", token |-> FALSE]

RecordsInit ==
    /\ AreaInit /\ SnapshotInit /\ RiskInit /\ CallInit /\ LedgerInit
    /\ subject \in Parts
    /\ subject # "calls" => call = FirstCall
    /\ subject # "requests" => area = "users" /\ users = [u \in Users |-> Row("admin", TRUE)] /\ bound = {}

RecordsNext ==
    /\ \/ subject = "requests" /\ AreaNext /\ UNCHANGED <<snapshotVars, riskVars, callVars, ledgerVars>>
       \/ subject = "snapshots" /\ SnapshotNext /\ UNCHANGED <<vars, area, riskVars, callVars, ledgerVars>>
       \/ subject = "risks" /\ RiskNext /\ UNCHANGED <<vars, area, snapshotVars, callVars, ledgerVars>>
       \/ subject = "calls" /\ CallNext /\ UNCHANGED <<vars, area, snapshotVars, riskVars, ledgerVars>>
       \/ subject = "ledgers" /\ LedgerNext /\ UNCHANGED <<vars, area, snapshotVars, riskVars, callVars>>
    /\ UNCHANGED subject

RecordsSpec == RecordsInit /\ [][RecordsNext]_<<vars, area, snapshotVars, riskVars, callVars, ledgerVars, subject>>

(* RiskViewsAgree, evaluated where its state changes: what the risk center *)
(* shows (build_summary, list_cards, _build_cards) is of one piece.        *)
RisksTell == subject = "risks" => RiskViewsAgree

(* LedgersAgree, evaluated where its state changes: statistics, lists and  *)
(* pages (list_instances, list_accounts, list_page) tell the same story of *)
(* the instances, accounts and databases.                                  *)
LedgersTell == subject = "ledgers" => LedgersAgree

Symmetry == Permutations(Requests) \cup Permutations(Clusters) \cup Permutations(Workers) \cup Permutations(Kinds)
=============================================================================
