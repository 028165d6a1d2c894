------------------------------- MODULE Ledgers -------------------------------
(* The read side: the lists of instances, accounts and databases with their *)
(* filters and pages, and the statistics shown beside them, both computed   *)
(* anew from the rows on every request.                                     *)
(*                                                                          *)
(* The writes are those of the other components, reduced to what a query    *)
(* tells apart; a query is the set of the rows it joins, so that a join     *)
(* that repeats a row repeats it here.                                      *)
EXTENDS Naturals, Sequences, FiniteSets, FiniteSetsExt, SequencesExt, Functions

CONSTANTS
    Hosts,          \* the instances: numbers
    HostType,       \* instance -> its kind
    Logins,         \* the accounts: numbers
    LoginHost,      \* account -> its instance
    LoginGroup,     \* account -> its availability group, 0 when the instance owns it
    MySqlRoles,          \* the accounts that are MySQL roles
    Schemas,        \* the databases: numbers
    SchemaHost,     \* database -> its instance
    Labels,         \* tags
    Standalone,     \* the tags that name the single-machine architecture
    Listeners,         \* the availability groups: numbers
    Kinds,          \* classifications
    LoginName,      \* account -> its name, which an owner has once
    Keys,           \* credentials
    KeyOf,          \* instance -> its credential
    PageSize,       \* bound: rows of a page
    MaxEdits        \* bound: changes

ASSUME LedgerAssumption ==
    /\ IsFiniteSet(Hosts) /\ IsFiniteSet(Logins) /\ IsFiniteSet(Schemas)
    /\ Hosts \cup Logins \cup Schemas \cup Listeners \subseteq Nat \ {0}
    /\ PageSize \in Nat \ {0}

\* changeRows: the accounts of the change log's rows, the oldest first.
\* tagOn, keyOn: the tags and the credentials that are active.
VARIABLES hostRow, loginRow, schemaRow, classified, groupOn, changeRows, tagOn, keyOn, edits

ledgerVars == <<hostRow, loginRow, schemaRow, classified, groupOn, changeRows, tagOn, keyOn, edits>>
asideVars == <<changeRows, tagOn, keyOn>>

LedgerInit ==
    /\ hostRow = [i \in Hosts |-> [deleted |-> FALSE, active |-> TRUE, audit |-> "not_configured",
                                   managed |-> FALSE, backup |-> "not_backed_up", tags |-> {}]]
    /\ loginRow = [a \in Logins |-> [active |-> TRUE, locked |-> FALSE, domain |-> FALSE, disabled |-> FALSE, orphaned |-> FALSE]]
    /\ schemaRow = [d \in Schemas |-> [active |-> TRUE, size |-> 0, age |-> "none"]]
    /\ classified = {} /\ groupOn = Listeners
    /\ changeRows = << >> /\ tagOn = Labels /\ keyOn = Keys
    /\ edits = 0

-----------------------------------------------------------------------------
(* The writes                                                              *)

\* soft_delete and restore
Recycle(i) == hostRow' = [hostRow EXCEPT ![i].deleted = TRUE, ![i].active = FALSE]
TakeBack(i) == hostRow[i].deleted /\ hostRow' = [hostRow EXCEPT ![i].deleted = FALSE, ![i].active = TRUE]
Switch(i) == ~hostRow[i].deleted /\ hostRow' = [hostRow EXCEPT ![i].active = ~@]

HostEdit(i) ==
    /\ \/ Recycle(i) \/ TakeBack(i) \/ Switch(i)
       \/ \E t \in Labels : hostRow' = [hostRow EXCEPT ![i].tags = SymDiff(@, {t})]
       \/ \E audit \in {"enabled", "configured_disabled"} : hostRow' = [hostRow EXCEPT ![i].audit = audit]
       \/ \E backup \in {"backed_up", "backup_stale"} : hostRow' = [hostRow EXCEPT ![i].backup = backup]
    /\ UNCHANGED <<loginRow, schemaRow, classified, groupOn, asideVars>>

\* replace_asset_snapshots: the fetched assets and no other stay, so that the
\* instances they name and no other are managed.
replace_asset_snapshots(found) ==
    /\ hostRow' = [i \in Hosts |-> [hostRow[i] EXCEPT !.managed = (i \in found)]]
    /\ UNCHANGED <<loginRow, schemaRow, classified, groupOn, asideVars>>

\* match_and_update: every SQL Server account of the domain is found (the
\* user it names disabled or not) or not found, the inactive ones too; a
\* mark that no longer fits is cleared.
match_and_update(found, off) ==
    /\ loginRow' = [a \in Logins |->
        IF HostType[LoginHost[a]] # "sqlserver" THEN loginRow[a]
        ELSE [loginRow[a] EXCEPT !.domain = TRUE, !.orphaned = (a \notin found), !.disabled = (a \in off)]]
    /\ UNCHANGED <<hostRow, schemaRow, classified, groupOn, asideVars>>

\* A synchronisation that changeRows an account writes a row of the change log.
LoginEdit(a) ==
    /\ \/ loginRow' = [loginRow EXCEPT ![a].active = ~@]
       \/ loginRow' = [loginRow EXCEPT ![a].locked = ~@]
    /\ changeRows' = Append(changeRows, a)
    /\ UNCHANGED <<hostRow, schemaRow, classified, groupOn, tagOn, keyOn>>

\* An account has one row of a classification (upsert_assignments).
Classify(a, c) ==
    /\ classified' = SymDiff(classified, {<<a, c>>})
    /\ UNCHANGED <<hostRow, loginRow, schemaRow, groupOn, asideVars>>

SchemaEdit(d) ==
    /\ \/ schemaRow' = [schemaRow EXCEPT ![d].active = ~@]
       \/ \E age \in {"recent", "stale"} : schemaRow' = [schemaRow EXCEPT ![d].size = @ + 1, ![d].age = age]
    /\ UNCHANGED <<hostRow, loginRow, classified, groupOn, asideVars>>

GroupEdit(g) == groupOn' = SymDiff(groupOn, {g}) /\ UNCHANGED <<hostRow, loginRow, schemaRow, classified, asideVars>>

\* is_active of a tag and of a credential
TagSwitch(t) == tagOn' = SymDiff(tagOn, {t}) /\ UNCHANGED <<hostRow, loginRow, schemaRow, classified, groupOn, changeRows, keyOn>>
KeySwitch(k) == keyOn' = SymDiff(keyOn, {k}) /\ UNCHANGED <<hostRow, loginRow, schemaRow, classified, groupOn, changeRows, tagOn>>

LedgerNext ==
    /\ edits < MaxEdits /\ edits' = edits + 1
    /\ \/ \E i \in Hosts : HostEdit(i)
       \/ \E found \in SUBSET Hosts : replace_asset_snapshots(found)
       \/ \E found \in SUBSET {a \in Logins : HostType[LoginHost[a]] = "sqlserver"} :
             \E off \in SUBSET found : match_and_update(found, off)
       \/ \E a \in Logins : LoginEdit(a) \/ \E c \in Kinds : Classify(a, c)
       \/ \E d \in Schemas : SchemaEdit(d)
       \/ \E g \in Listeners : GroupEdit(g)
       \/ \E t \in Labels : TagSwitch(t)
       \/ \E k \in Keys : KeySwitch(k)

LedgerSpec == LedgerInit /\ [][LedgerNext]_ledgerVars
-----------------------------------------------------------------------------
(* Accounts: AccountStatisticsRepository and AccountsLedgerRepository      *)

Live(i) == ~hostRow[i].deleted
Everywhere == [type |-> "", host |-> 0, group |-> 0]
Scopes == {Everywhere} \cup {[Everywhere EXCEPT !.type = k] : k \in Range(HostType)}
          \cup {[Everywhere EXCEPT !.host = i] : i \in Hosts} \cup {[Everywhere EXCEPT !.group = g] : g \in Listeners}
CountIn(S, P(_)) == Cardinality({x \in S : P(x)})

\* _apply_instance_account_scope_filter
scope_filter(a, s) ==
    /\ s.host # 0 => LoginGroup[a] = 0 /\ LoginHost[a] = s.host
    /\ s.group # 0 => LoginGroup[a] = s.group
OfType(i, s) == s.type # "" => HostType[i] = s.type
accounts_in(s) == {a \in Logins : Live(LoginHost[a]) /\ OfType(LoginHost[a], s) /\ scope_filter(a, s)}
ActiveLogin(a) == loginRow[a].active
LockedLoginOrInactive(a) == loginRow[a].locked
LockedLogin(a) == loginRow[a].active /\ loginRow[a].locked

\* _count_ag_virtual_instances
count_ag_virtual_instances(s) ==
    IF s.type \notin {"", "sqlserver"} \/ s.host # 0 THEN 0
    ELSE CountIn(groupOn, LAMBDA g : s.group \in {0, g})


\* What is counted of a set of accounts
tally(S) ==
    LET total  == Cardinality(S)
        active == CountIn(S, ActiveLogin)
        locked == CountIn(S, LockedLogin)
    IN [total |-> total, active |-> active, locked |-> locked, deleted |-> total - active, normal |-> active - locked]

\* fetch_owner_type_stats
owner_type_stats(s) ==
    LET here == accounts_in(s)
    IN [instance |-> tally({a \in here : LoginGroup[a] = 0}), sqlserver_ag |-> tally({a \in here : LoginGroup[a] # 0})]

\* fetch_ad_status_stats, of both owner types together
ad_status_stats(s) ==
    LET row(a) == loginRow[a]
        active == {a \in accounts_in(s) : ActiveLogin(a)}
        unmarked(a) == ~row(a).disabled /\ ~row(a).orphaned
    IN [normal |-> CountIn(active, LAMBDA a : row(a).domain /\ unmarked(a)),
        disabled |-> CountIn(active, LAMBDA a : row(a).disabled),
        orphaned |-> CountIn(active, LAMBDA a : ~row(a).disabled /\ row(a).orphaned),
        unmatched |-> CountIn(active, LAMBDA a : ~row(a).domain /\ unmarked(a))]

\* fetch_db_type_stats
account_db_type_stats == [k \in {"mysql", "postgresql", "oracle", "sqlserver"} |-> tally(accounts_in([Everywhere EXCEPT !.type = k]))]

\* fetch_summary
account_summary(s) ==
    LET here == IF s.group # 0 THEN {} ELSE {i \in Hosts : OfType(i, s) /\ s.host \in {0, i}}
        on == CountIn(here, LAMBDA i : Live(i) /\ hostRow[i].active)
        off == CountIn(here, LAMBDA i : Live(i) /\ ~hostRow[i].active)
        virtual == count_ag_virtual_instances(s)
    IN [accounts |-> tally(accounts_in(s)), owner_types |-> owner_type_stats(s), ad |-> ad_status_stats(s),
        total_instances |-> on + off + virtual, active_instances |-> on + virtual, disabled_instances |-> off,
        deleted_instances |-> CountIn(here, LAMBDA i : ~Live(i)), ag_virtual_instances |-> virtual]

\* _query_classification_rows: the instance is joined from outside, so that
\* the accounts of a deleted one count; a classification whose accounts are
\* all inactive has no row.
classification_rows ==
    LET of(c) == {a \in Logins : <<a, c>> \in classified}
    IN {[code |-> c, count |-> CountIn(of(c), ActiveLogin)] :
        c \in {k \in Kinds : of(k) = {} \/ \E a \in of(k) : ActiveLogin(a)}}

\* _query_auto_classified_count: every assignment the code writes is "auto".
auto_classified_count ==
    CountIn(Logins, LAMBDA a : ActiveLogin(a) /\ Live(LoginHost[a]) /\ \E c \in Kinds : <<a, c>> \in classified)

\* fetch_classification_overview
classification_overview ==
    [total |-> FoldSet(LAMBDA r, n : r.count + n, 0, classification_rows), auto |-> auto_classified_count]

AllLogins == [deleted |-> TRUE, roles |-> TRUE, scope |-> Everywhere, ad |-> "", locked |-> "", tags |-> {}, kind |-> ""]

\* _apply_ad_status_filter
ad_status_filter(a, status) ==
    LET row == loginRow[a] IN
    CASE status = "normal" -> row.domain /\ ~row.disabled /\ ~row.orphaned
      [] status = "disabled" -> row.disabled
      [] status = "orphaned" -> row.orphaned
      [] status = "unknown" -> ~row.domain
      [] OTHER -> TRUE

\* _resolve_ad_status, for the items of a list
resolve_ad_status(a) ==
    LET row == loginRow[a] IN
    CASE row.disabled -> "disabled" [] row.orphaned /\ ~row.disabled -> "orphaned"
      [] row.domain /\ ~row.orphaned /\ ~row.disabled -> "normal" [] OTHER -> "unknown"

\* _apply_tag_filter: a row of the join for every tag that matches.
tag_filter(i, tags) == IF tags = {} THEN {{}} ELSE {{t} : t \in hostRow[i].tags \cap tags}

\* _build_account_query; no filter looks at the state of the instance.
account_query(f) ==
    UNION {{a} \X tag_filter(LoginHost[a], f.tags) : a \in {x \in Logins :
        /\ OfType(LoginHost[x], f.scope) /\ scope_filter(x, f.scope)
        /\ f.deleted \/ ActiveLogin(x)
        /\ f.roles \/ x \notin MySqlRoles
        /\ ad_status_filter(x, f.ad)
        /\ f.locked # "" => (f.locked = "true") = loginRow[x].locked
        /\ f.kind # "" => <<x, f.kind>> \in classified}}

\* list_accounts, over all pages: the rows of an account are one item, but
\* each of them is in the total.
list_accounts(f) ==
    LET rows == account_query(f) IN [items |-> {q[1] : q \in rows}, total |-> Cardinality(rows)]

\* paginate: the rows of one page, the total of all; a page after the last is empty.
Chunk(rows, n) == SubSeq(rows, (n - 1) * PageSize + 1, Min({n * PageSize, Len(rows)}))
InOrder(S) == [n \in 1 .. Cardinality(S) |-> CHOOSE x \in S : Cardinality({y \in S : y < x}) = n - 1]
Listing(rows, n) == [items |-> Range(Chunk(rows, n)), total |-> Len(rows)]

\* InstanceAccountsRepository.fetch_summary and list_accounts, of one instance
instance_account_rows(i, deleted) == {a \in Logins : LoginHost[a] = i /\ (deleted \/ ActiveLogin(a))}
instance_account_summary(i) ==
    LET here == instance_account_rows(i, TRUE)
    IN [total |-> Cardinality(here), active |-> CountIn(here, ActiveLogin), deleted |-> CountIn(here, LAMBDA a : ~ActiveLogin(a))]
list_instance_accounts(i, deleted, n) == Listing(InOrder(instance_account_rows(i, deleted)), n)

-----------------------------------------------------------------------------
(* Instances: InstancesRepository and InstanceStatisticsRepository         *)

AllHosts == [deleted |-> FALSE, type |-> "", status |-> "", audit |-> "", managed |-> "", backup |-> "", tags |-> {}]

\* _apply_managed_status_filter
managed_filter(i, status) ==
    CASE status = "managed" -> hostRow[i].managed
      [] status = "unmanaged" -> ~hostRow[i].managed
      [] OTHER -> TRUE

\* _apply_instance_filters
instance_query(f) ==
    UNION {{i} \X tag_filter(i, f.tags) : i \in {x \in Hosts :
        /\ f.deleted \/ Live(x)
        /\ f.type # "" => HostType[x] = f.type
        /\ f.status # "" => (f.status = "active") = hostRow[x].active
        /\ f.audit # "" => hostRow[x].audit = f.audit
        /\ managed_filter(x, f.managed)
        /\ f.backup # "" => hostRow[x].backup = f.backup}}

\* list_instances, over all pages, and one of its pages when sorted by id
list_instances(f) ==
    LET rows == instance_query(f) IN [items |-> {q[1] : q \in rows}, total |-> Cardinality(rows)]
instance_page(n) == Listing(InOrder(list_instances(AllHosts).items), n)

\* _collect_instance_metrics and the item built of it
instance_item(i) ==
    [status |-> IF hostRow[i].deleted THEN "deleted" ELSE IF hostRow[i].active THEN "active" ELSE "inactive",
     active_db_count |-> CountIn(Schemas, LAMBDA d : SchemaHost[d] = i /\ schemaRow[d].active),
     active_account_count |-> CountIn(Logins, LAMBDA a : LoginHost[a] = i /\ ActiveLogin(a)),
     audit_status |-> hostRow[i].audit, is_managed |-> hostRow[i].managed, backup_status |-> hostRow[i].backup]

\* _count_high_availability_instances, _is_high_availability_architecture
high_availability(S) == CountIn(S, LAMBDA i : hostRow[i].tags \ Standalone # {})

\* fetch_summary: audit and architecture of the active ones, management and
\* backup of the disabled ones too.
instance_summary(type) ==
    LET of == {i \in Hosts : type # "" => HostType[i] = type}
        current == {i \in of : Live(i)}
        active == {i \in current : hostRow[i].active}
        managed == CountIn(current, LAMBDA i : hostRow[i].managed)
    IN [total |-> Cardinality(of), current |-> Cardinality(current), active |-> Cardinality(active),
        disabled |-> Cardinality(current) - Cardinality(active), deleted |-> Cardinality(of \ current),
        audit_enabled |-> CountIn(active, LAMBDA i : hostRow[i].audit = "enabled"),
        high_availability |-> high_availability(active),
        managed |-> managed, unmanaged |-> Cardinality(current) - managed,
        backups |-> [b \in {"backed_up", "backup_stale", "not_backed_up"} |-> CountIn(current, LAMBDA i : hostRow[i].backup = b)]]
instance_db_type_stats == [k \in Range(HostType) |-> CountIn(Hosts, LAMBDA i : Live(i) /\ HostType[i] = k)]

\* InstanceStatisticsReadService.build_statistics
instance_statistics == [totals |-> instance_summary(""), types |-> instance_db_type_stats]

\* get_system_overview: the dashboard adds the groups to every instance there is.
dashboard_instances ==
    LET s == instance_statistics.totals
        virtual == account_summary(Everywhere).ag_virtual_instances
    IN [total |-> s.total + virtual, active |-> s.active + virtual, inactive |-> s.disabled, deleted |-> s.deleted]

-----------------------------------------------------------------------------
(* Databases: DatabaseStatisticsRepository and DatabaseLedgerRepository    *)

\* DatabaseStatisticsRepository.fetch_summary
database_summary ==
    LET of == {d \in Schemas : Live(SchemaHost[d])}
        active == CountIn(of, LAMBDA d : schemaRow[d].active)
    IN [total |-> Cardinality(of), active |-> active, deleted |-> Cardinality(of) - active,
        instances |-> Cardinality({SchemaHost[d] : d \in of})]

\* The active databases of instances that are not deleted
shown == {d \in Schemas : Live(SchemaHost[d]) /\ schemaRow[d].active}
database_db_type_stats == [k \in Range(HostType) |-> CountIn(shown, LAMBDA d : HostType[SchemaHost[d]] = k)]
instance_stats == [i \in {SchemaHost[d] : d \in shown} |-> CountIn(shown, LAMBDA d : SchemaHost[d] = i)]

\* _resolve_sync_status of the newest size
resolve_sync_status(d) ==
    CASE schemaRow[d].age = "none" -> "pending"
      [] schemaRow[d].age = "recent" -> "completed"
      [] schemaRow[d].age = "stale" -> "running"
sync_status_stats == [v \in {"pending", "completed", "running"} |-> CountIn(shown, LAMBDA d : resolve_sync_status(d) = v)]

\* fetch_capacity_summary and fetch_capacity_rankings: inner joins, so that
\* what was never collected has no part in either.
measured == {d \in shown : schemaRow[d].age # "none"}
total_size(S) == FoldSet(LAMBDA d, n : schemaRow[d].size + n, 0, S)
capacity_summary ==
    [total |-> total_size(measured), max |-> FoldSet(LAMBDA d, n : Max({n, schemaRow[d].size}), 0, measured)]
Larger(d, e) == schemaRow[d].size > schemaRow[e].size
capacity_rankings(limit) ==
    LET rows == SetToSortSeq(measured, LAMBDA d, e : Larger(d, e) \/ (~Larger(e, d) /\ d < e))
    IN SubSeq(rows, 1, Min({limit, Len(rows)}))

\* DatabaseStatisticsReadService.build_statistics
database_statistics ==
    [summary |-> database_summary, types |-> database_db_type_stats, instances |-> instance_stats,
     sync |-> sync_status_stats, capacity |-> capacity_summary, rankings |-> capacity_rankings(10)]

\* _base_query and _apply_filters of the ledger: only active instances, and
\* one row however many tags match.
ledger_query(f) ==
    {d \in Schemas :
        /\ Live(SchemaHost[d]) /\ hostRow[SchemaHost[d]].active /\ schemaRow[d].active
        /\ f.type # "" => HostType[SchemaHost[d]] = f.type
        /\ f.tags # {} => hostRow[SchemaHost[d]].tags \cap f.tags # {}}

\* list_ledger, iterate_all, _build_item
ledger_item(d) == [id |-> d, size |-> IF schemaRow[d].age = "none" THEN 0 ELSE schemaRow[d].size, sync |-> resolve_sync_status(d)]
list_ledger(f, n) == LET page == Listing(InOrder(ledger_query(f)), n)
                     IN [items |-> {ledger_item(d) : d \in page.items}, total |-> page.total]
iterate_all(f) == {ledger_item(d) : d \in ledger_query(f)}

-----------------------------------------------------------------------------
(* Tags, credentials and the change log: TagsRepository,                   *)
(* CredentialsRepository and AccountChangeLogsRepository                   *)

\* A status filter: "" lets everything through.
StatusIs(on, status) == status # "" => on = (status = "active")

\* list_tags: the instances a tag is tied to, deleted ones too
list_tags(status) ==
    [t \in {u \in Labels : StatusIs(u \in tagOn, status)} |-> CountIn(Hosts, LAMBDA i : t \in hostRow[i].tags)]
tag_stats == [total |-> Cardinality(Labels), active |-> Cardinality(tagOn), inactive |-> Cardinality(Labels \ tagOn)]

\* list_credentials: the rows of the join; the filter of tags leaves only
\* credentials of a tagged instance, and an instance counts once for each tag.
key_rows(k, tags) == UNION {{i} \X tag_filter(i, tags) : i \in {h \in Hosts : KeyOf[h] = k}}
list_credentials(status, tags) ==
    [k \in {c \in Keys : StatusIs(c \in keyOn, status) /\ (tags # {} => key_rows(c, tags) # {})} |->
       Cardinality(key_rows(k, tags))]
active_credentials == keyOn

\* list_logs: what was logged after a number of rows, of an instance and a
\* type; an availability group's account is a row of its instance.
list_logs(since, s) ==
    {n \in since + 1 .. Len(changeRows) : OfType(LoginHost[changeRows[n]], s) /\ (s.host # 0 => LoginHost[changeRows[n]] = s.host)}
log_detail(n) == [instance |-> LoginHost[changeRows[n]], group |-> LoginGroup[changeRows[n]], account |-> changeRows[n]]

\* get_statistics: accounts are told apart by instance, type and name.
log_statistics(since) ==
    LET rows == list_logs(since, Everywhere)
    IN [total_changes |-> Cardinality(rows),
        affected_accounts |-> Cardinality({<<LoginHost[changeRows[n]], LoginName[changeRows[n]]>> : n \in rows})]

-----------------------------------------------------------------------------
(* What a reader may compare                                               *)

SumOver(S, F(_)) == FoldSet(LAMBDA x, n : F(x) + n, 0, S)
Kept(s) == \A i \in Hosts : OfType(i, s) => Live(i)
Total(f) == list_accounts(f).total

\* Every number of the account statistics of a scope is the length of the
\* list with the filters it stands for, while the scope has nothing in the
\* recycle bin; numbers that split a total add up to it, always.
AccountNumbersAgree ==
    LET sums  == [s \in Scopes |-> account_summary(s)]
        types == account_db_type_stats
        all   == sums[Everywhere]
    IN
    /\ \A s \in Scopes :
        LET sum == sums[s]
            active == [AllLogins EXCEPT !.scope = s, !.deleted = FALSE]
        IN /\ Kept(s) => /\ sum.accounts.total = Total([active EXCEPT !.deleted = TRUE])
                         /\ sum.accounts.active = Total(active)
                         /\ sum.accounts.locked = Total([active EXCEPT !.locked = "true"])
                         /\ sum.accounts.normal = Total([active EXCEPT !.locked = "false"])
           /\ \A st \in {"normal", "disabled", "orphaned", "unknown"} :
                LET list == list_accounts([active EXCEPT !.ad = st])
                IN /\ Kept(s) => list.total = sum.ad[IF st = "unknown" THEN "unmatched" ELSE st]
                   /\ \A a \in list.items : resolve_ad_status(a) = st
           /\ sum.accounts.active = SumOver(DOMAIN sum.ad, LAMBDA st : sum.ad[st])
           /\ sum.accounts.total = sum.owner_types.instance.total + sum.owner_types.sqlserver_ag.total
    /\ all.accounts.active = SumOver({s \in Scopes : s.host # 0 \/ s.group # 0}, LAMBDA s : sums[s].accounts.active)
    /\ all.accounts.active = SumOver(DOMAIN types, LAMBDA k : types[k].active)
    /\ \A i \in Hosts : instance_account_summary(i).active = instance_item(i).active_account_count
    /\ \A r \in classification_rows : r.count = Total([AllLogins EXCEPT !.deleted = FALSE, !.kind = r.code])
    /\ classification_overview.auto <= classification_overview.total

\* So do the numbers of the instance statistics and of the dashboard.
InstanceNumbersAgree ==
    LET listed(f) == list_instances(f).total
        types == instance_statistics.types
        d == dashboard_instances IN
    /\ \A type \in {""} \cup Range(HostType) :
        LET sum == instance_summary(type)
            list == [AllHosts EXCEPT !.type = type]
        IN /\ sum.current = listed(list) /\ sum.total = listed([list EXCEPT !.deleted = TRUE])
           /\ sum.active = listed([list EXCEPT !.status = "active"])
           /\ sum.disabled = listed([list EXCEPT !.status = "inactive"])
           /\ sum.audit_enabled = listed([list EXCEPT !.status = "active", !.audit = "enabled"])
           /\ sum.managed = listed([list EXCEPT !.managed = "managed"])
           /\ sum.unmanaged = listed([list EXCEPT !.managed = "unmanaged"])
           /\ \A b \in DOMAIN sum.backups : sum.backups[b] = listed([list EXCEPT !.backup = b])
           /\ type # "" => sum.current = types[type]
    /\ \A t \in Labels : LET page == list_instances([AllHosts EXCEPT !.tags = {t}]) IN page.total = Cardinality(page.items)
    /\ d.total = d.active + d.inactive + d.deleted
    /\ account_summary(Everywhere).active_instances = d.active

\* And those of the databases, while no instance is merely disabled; the
\* ranking starts with the largest.
DatabaseNumbersAgree ==
    LET all == [type |-> "", tags |-> {}]
        told == database_statistics
        items == iterate_all(all)
    IN /\ (\A i \in Hosts : Live(i) => hostRow[i].active) =>
            /\ \A k \in Range(HostType) : told.types[k] = Cardinality(ledger_query([all EXCEPT !.type = k]))
            /\ told.summary.active = Cardinality(items)
            /\ told.capacity.total = SumOver(items, LAMBDA item : item.size)
            /\ \A v \in DOMAIN told.sync : told.sync[v] = Cardinality({item \in items : item.sync = v})
       /\ told.summary.active = SumOver(DOMAIN told.instances, LAMBDA i : told.instances[i])
       /\ told.rankings # << >> => schemaRow[told.rankings[1]].size = told.capacity.max

\* A tag's number is the length of the instance list filtered by it, when
\* that list shows deleted instances too; with one tag the credentials'
\* numbers add up to it; the change log's rows of the instances are all of
\* it, and it names no more accounts than there are or were changed.
SideNumbersAgree ==
    /\ \A t \in Labels :
        LET tagged == list_instances([AllHosts EXCEPT !.deleted = TRUE, !.tags = {t}]).total
            keys == list_credentials("", {t})
        IN list_tags("")[t] = tagged /\ SumOver(DOMAIN keys, LAMBDA k : keys[k]) = tagged
    /\ tag_stats.active = Cardinality(DOMAIN list_tags("active"))
    /\ tag_stats.inactive = Cardinality(DOMAIN list_tags("inactive"))
    /\ DOMAIN list_credentials("active", {}) = active_credentials
    /\ \A since \in 0 .. Len(changeRows) :
        LET told == log_statistics(since)
            of(i) == list_logs(since, [Everywhere EXCEPT !.host = i])
        IN /\ told.total_changes = SumOver(Hosts, LAMBDA i : Cardinality(of(i)))
           /\ told.affected_accounts <= Cardinality({changeRows[n] : n \in list_logs(since, Everywhere)})
           /\ (told.affected_accounts = 0) = (told.total_changes = 0)
           /\ \A i \in Hosts : \A n \in of(i) : log_detail(n).instance = i

\* The pages of a list that is sorted by something unique show every row
\* once.
PagesCover(page(_), rows) ==
    LET pages == [n \in 1 .. Cardinality(rows) |-> page(n)] IN
    /\ UNION {pages[n].items : n \in DOMAIN pages} = rows
    /\ \A n \in DOMAIN pages : pages[n].total = Cardinality(rows)
    /\ SumOver(DOMAIN pages, LAMBDA n : Cardinality(pages[n].items)) = Cardinality(rows)
PagesAgree ==
    LET all == [type |-> "", tags |-> {}] IN
    /\ PagesCover(instance_page, list_instances(AllHosts).items)
    /\ PagesCover(LAMBDA n : list_ledger(all, n), iterate_all(all))
    /\ \A i \in Hosts : PagesCover(LAMBDA n : list_instance_accounts(i, FALSE, n), instance_account_rows(i, FALSE))

(* Statistics, lists and pages are computed by different queries of the    *)
(* same rows (statistics repositories against ledger repositories) and must *)
(* tell the same story.                                                     *)
LedgersAgree == AccountNumbersAgree /\ InstanceNumbersAgree /\ DatabaseNumbersAgree /\ SideNumbersAgree /\ PagesAgree
=============================================================================
