------------------------------ MODULE RiskCenter ------------------------------
(* The risk center: what backup, capacity, audit, account, task and cluster *)
(* synchronisation have stored of every instance, the settings of the risk  *)
(* rules, and the summary and the list of cards that are built from both on *)
(* every request.                                                           *)
(*                                                                          *)
(* Ages are told apart by the limits of the code only (24 hours).  Names    *)
(* sort as the numbers of the instances.                                    *)
EXTENDS Naturals, Sequences, FiniteSets, FiniteSetsExt, SequencesExt

CONSTANTS
    Monitored,      \* the instances that are not deleted: numbers
    DbType,         \* instance -> its kind
    Cluster,        \* cluster -> the instances bound to it, in the order of the rows
    Named,          \* instance -> the names a replica may have: its name, its host
    CardLimit,      \* the cards of a page
    Severities,     \* bound: the severities requests set
    MaxEvents       \* bound: changes of facts and settings

ASSUME RiskAssumption ==
    /\ IsFiniteSet(Monitored) /\ Monitored \subseteq Nat /\ DOMAIN DbType = Monitored
    /\ CardLimit \in Nat \ {0}
    /\ Severities \subseteq {"high", "medium", "low"}

\* topology: what the MySQL cluster's row tells of its last synchronisation.
VARIABLES facts, replicaRows, databaseRows, settings, topology, events

riskVars == <<facts, replicaRows, databaseRows, settings, topology, events>>

Levels == <<"high", "medium", "low", "ok">>
RankOf(severity) == CHOOSE n \in DOMAIN Levels : Levels[n] = severity
Score == [high |-> 100, medium |-> 50, low |-> 10, ok |-> 0]

\* RISK_RULE_DEFINITIONS
Rule(category, severity) == [category |-> category, severity |-> severity]
Definitions ==
    [backup_missing |-> Rule("backup", "high"), backup_stale |-> Rule("backup", "medium"),
     capacity_growth_critical |-> Rule("capacity", "high"), capacity_growth_warning |-> Rule("capacity", "medium"),
     audit_disabled |-> Rule("audit", "medium"), audit_missing |-> Rule("audit", "medium"),
     access_superuser |-> Rule("access", "low"), access_recent_change |-> Rule("access", "medium"),
     cluster_abnormal |-> Rule("cluster", "medium"), task_failed |-> Rule("task", "medium")]
RuleKeys == DOMAIN Definitions
Categories == {Definitions[k].category : k \in RuleKeys}
RulesOf == [c \in Categories |-> {k \in RuleKeys : Definitions[k].category = c}]

\* get_rule_map: what is stored, or the default.
rule_map == [k \in RuleKeys |->
    IF k \in DOMAIN settings THEN settings[k] ELSE [enabled |-> TRUE, severity |-> Definitions[k].severity]]

\* The elements of a set in an order, which is the pairs of one before another.
Ordered(S, order) ==
    [n \in 1 .. Cardinality(S) |-> CHOOSE x \in S : Cardinality({y \in S : <<y, x>> \in order}) = n - 1]

-----------------------------------------------------------------------------
(* The risks of an instance, as the metrics of its card find them          *)

When(condition, key) == IF condition THEN {key} ELSE {}

\* _build_backup_metric
backup_risks(f) == When(f.backup = "missing", "backup_missing") \cup When(f.backup = "stale", "backup_stale")

\* _build_capacity_metric; growth without a size of the instance is not looked at.
capacity_risks(f) ==
    IF f.growth < 30 \/ ~f.sized THEN {}
    ELSE {IF f.growth >= 60 THEN "capacity_growth_critical" ELSE "capacity_growth_warning"}

\* _build_audit_metric
audit_risks(f) == When(f.audit = "disabled", "audit_disabled") \cup When(f.audit = "none", "audit_missing")

\* _build_access_metric
access_risks(f) == When(f.superusers > 0, "access_superuser") \cup When(f.changed, "access_recent_change")

\* _build_task_metric and _failed_task_map: a failed item of the last day,
\* whatever came after it.
task_risks(f) == When(f.failed, "task_failed")

\* _mysql_cluster_issues: the stored status and role, never the lag.
mysql_issues(f) ==
    When(f.replication # "healthy" /\ (f.role = "replica" \/ f.replication = "failed"), "cluster_abnormal")

\* instance_by_replica_scope: of the instances with a name or host the last bound.
resolve(c, server) ==
    LET bound == {n \in DOMAIN Cluster[c] : server \in Named[Cluster[c][n]]}
    IN IF bound = {} THEN {} ELSE {Cluster[c][Max(bound)]}

\* _sqlserver_cluster_issues: the secondary replicas of the instance that are
\* abnormal, and the abnormal databases on them.
secondaries(i) == {r \in replicaRows : r.secondary /\ i \in resolve(r.cluster, r.server)}
sqlserver_issues(i) ==
    LET here == secondaries(i)
        databases == {d \in databaseRows : \E r \in here : d.cluster = r.cluster /\ d.ag = r.ag /\ d.server = r.server}
    IN Cardinality({r \in here : r.abnormal}) + Cardinality(databases)

\* How many risks each rule finds: a metric at most one of each of its rules,
\* the clusters of SQL Server one for each issue.
found(i) ==
    LET f == facts[i]
        metrics == backup_risks(f) \cup capacity_risks(f) \cup audit_risks(f) \cup access_risks(f)
                   \cup task_risks(f) \cup mysql_issues(f)
    IN [k \in RuleKeys |-> (IF k \in metrics THEN 1 ELSE 0) + (IF k = "cluster_abnormal" THEN sqlserver_issues(i) ELSE 0)]

Item(k, times) == [severity |-> rule_map[k].severity, times |-> times]

\* Mutant of risk_items: a setting changes the severity, but does not disable.
risk_items_all(i) ==
    LET risks == found(i)
    IN [k \in {r \in RuleKeys : risks[r] > 0} |-> Item(k, risks[k])]

\* _apply_rule_settings: by rule, how severe and how many.
risk_items(i) ==
    LET risks == found(i)
    IN [k \in {r \in RuleKeys : risks[r] > 0 /\ rule_map[r].enabled} |-> Item(k, risks[k])]

\* _resolve_overall_severity
overall(items) ==
    IF DOMAIN items = {} THEN "ok" ELSE Levels[Min({RankOf(items[k].severity) : k \in DOMAIN items})]

risk_score(items) ==
    LET sum == SumFunction([k \in DOMAIN items |-> items[k].times * Score[items[k].severity]])
    IN IF sum < 999 THEN sum ELSE 999

\* _build_card
card(i) ==
    LET items == risk_items(i)
    IN [id |-> i, type |-> DbType[i], active |-> facts[i].active, severity |-> overall(items),
        score |-> risk_score(items), risks |-> found(i), items |-> items]

\* _resolve_metric_tone of a metric of a card; one without a risk is green or grey.
Tone == [high |-> "danger", medium |-> "warning", low |-> "info", ok |-> "success"]
tone(c, category) ==
    LET items == Restrict(c.items, RulesOf[category] \cap DOMAIN c.items)
        quiet == \A k \in RulesOf[category] : c.risks[k] = 0
    IN IF DOMAIN items # {} THEN Tone[overall(items)] ELSE IF quiet THEN "success" ELSE "muted"

\* _build_cards: worst first, and only what is not healthy.
Before(a, b) ==
    \/ RankOf(a.severity) < RankOf(b.severity)
    \/ a.severity = b.severity /\ a.score > b.score
    \/ a.severity = b.severity /\ a.score = b.score /\ a.id < b.id
cards ==
    LET listed == {c \in {card(i) : i \in Monitored} : c.severity # "ok"}
    IN Ordered(listed, {p \in listed \X listed : Before(p[1], p[2])})

-----------------------------------------------------------------------------
(* The two requests                                                        *)

\* A filter is the set of values it lets through.
Filter(values) == {values} \cup {{v} : v \in values}
Filters == Filter(Range(Levels)) \X Filter(Range(DbType)) \X Filter(BOOLEAN)
\* _matches_filters
matches(c, q) == c.severity \in q[1] /\ c.type \in q[2] /\ c.active \in q[3]

\* The cards of a list that pass the filters, in the order of the list.
filtered(list, q) ==
    LET places == {n \in DOMAIN list : matches(list[n], q)}
        kept == Ordered(places, {p \in places \X places : p[1] < p[2]})
    IN [n \in DOMAIN kept |-> list[kept[n]]]

\* Mutant of list_page: the page is cut before the filter.
list_page_first(list, q, page) ==
    filtered(SubSeq(list, (page - 1) * CardLimit + 1, Min({page * CardLimit, Len(list)})), q)

\* list_cards: a page, the total and the number of pages.
list_page(list, q, page) ==
    LET all == filtered(list, q)
    IN SubSeq(all, (page - 1) * CardLimit + 1, Min({page * CardLimit, Len(all)}))
pages(total) == Max({(total + CardLimit - 1) \div CardLimit, 1})

\* build_summary
Count(list, types, severity) ==
    Cardinality({n \in DOMAIN list : list[n].type \in types /\ list[n].severity = severity})
summary(list) ==
    [total |-> Len(list),
     severity_counts |-> [s \in Range(Levels) |-> Count(list, Range(DbType), s)],
     db_type_counts |-> [t \in Range(DbType) |-> [s \in Range(Levels) |-> Count(list, {t}, s)]],
     top_risks |-> UNION {{<<c.id, k>> : k \in {r \in DOMAIN c.items : c.items[r].severity \in {"high", "medium"}}}
                          : c \in Range(list)}]

-----------------------------------------------------------------------------
(* The topology of the MySQL cluster: MySQLTopologyDetector and            *)
(* MySQLClusterManagementService                                           *)

\* The cluster's instances, bound in one cluster that is enabled
Members == {i \in Monitored : DbType[i] = "mysql"}

\* What a server may do when it is asked: no connection; a query that fails
\* for want of a privilege or as unsupported in no known way; an old server
\* whose second query fails; or a full answer.  Lag is told apart by the
\* threshold.
Answers ==
    [state : {"down", "refused"}, replica : {"no"}, lag : {"none"}, read_only : {FALSE}]
    \cup [state : {"slave_fails"}, replica : {"running"}, lag : {"none"}, read_only : BOOLEAN]
    \cup [state : {"answers"}, replica : {"no"}, lag : {"none"}, read_only : BOOLEAN]
    \cup [state : {"answers"}, replica : {"running", "stopped"}, lag : {"none", "within", "over"}, read_only : {FALSE}]

Binding(role, replication, lag) == [role |-> role, replication |-> replication, lag |-> lag]

\* detect_non_replica
non_replica(a) == IF a.read_only THEN Binding("unknown", "unknown", "none") ELSE Binding("primary", "healthy", "none")

\* normalize_replica_status: both threads run, or not
replica_status(a) == Binding("replica", IF a.replica = "running" THEN "healthy" ELSE "unhealthy", a.lag)

\* detect: an old server whose SHOW SLAVE STATUS fails is taken for one that
\* replicates nothing.
detect(a) == IF a.state = "answers" /\ a.replica # "no" THEN replica_status(a) ELSE non_replica(a)

is_replica_lag_abnormal(b) == b.role = "replica" /\ b.lag = "over"
is_binding_abnormal(b) == is_replica_lag_abnormal(b) \/ b.replication # "healthy"

\* _apply_detection: the status that is stored tells of the lag too.
apply_detection(b) == IF is_replica_lag_abnormal(b) THEN [b EXCEPT !.replication = "unhealthy"] ELSE b

\* sync_topology: a failed query is stored of its instance, a connection that
\* is refused ends the whole request and nothing is stored.
sync_topology(answer) ==
    LET failed == {i \in Members : answer[i].state = "refused"}
        stored == [i \in Members |->
                     apply_detection(IF i \in failed THEN Binding("unknown", "failed", "none") ELSE detect(answer[i]))]
    IN IF \E i \in Members : answer[i].state = "down" THEN UNCHANGED <<facts, topology>>
       ELSE /\ facts' = [i \in Monitored |-> IF i \notin Members THEN facts[i]
                         ELSE [facts[i] EXCEPT !.role = stored[i].role, !.replication = stored[i].replication,
                                               !.lag = stored[i].lag]]
            /\ topology' = [status |-> IF failed = Members THEN "failed" ELSE "completed",
                            failed |-> Cardinality(failed)]
TopologySynced ==
    /\ Members # {}
    /\ \E answer \in [Members -> Answers] : sync_topology(answer)
    /\ UNCHANGED <<replicaRows, databaseRows, settings>>

\* _serialize_cluster_summary
cluster_summary ==
    LET replicas == {i \in Members : facts[i].role = "replica"}
    IN [instance_count |-> Cardinality(Members),
        abnormal_replica_count |-> Cardinality({i \in Members : is_binding_abnormal(facts[i])}),
        replica_count |-> Cardinality(replicas),
        unknown_replica_lag_count |-> Cardinality({i \in replicas : facts[i].lag = "none"}),
        lag_over |-> \E i \in replicas : facts[i].lag = "over"]

\* _serialize_bound_instance
bound_instance(i) ==
    [status |-> IF is_replica_lag_abnormal(facts[i]) THEN "unhealthy" ELSE facts[i].replication,
     lag_abnormal |-> is_replica_lag_abnormal(facts[i])]

-----------------------------------------------------------------------------
Fine == [backup |-> "fresh", sized |-> TRUE, growth |-> 0, audit |-> "enabled", superusers |-> 0,
         changed |-> FALSE, failed |-> FALSE, role |-> "replica", replication |-> "healthy", lag |-> "within",
         active |-> TRUE]

RiskInit ==
    /\ facts = [i \in Monitored |-> Fine]
    /\ replicaRows = {} /\ databaseRows = {}
    /\ settings = << >> /\ topology = [status |-> "never", failed |-> 0] /\ events = 0

\* A synchronisation stores something of an instance, or a day passes.
Stores ==
    /\ \E i \in Monitored :
          \/ \E b \in {"fresh", "missing"} : facts' = [facts EXCEPT ![i].backup = b]
          \/ \E g \in {0, 29, 30, 59, 60} : facts' = [facts EXCEPT ![i].growth = g]
          \/ \E b \in BOOLEAN : facts' = [facts EXCEPT ![i].sized = b]
          \/ \E a \in {"enabled", "disabled", "none"} : facts' = [facts EXCEPT ![i].audit = a]
          \/ \E n \in 0 .. 1 : facts' = [facts EXCEPT ![i].superusers = n]
          \/ facts' = [facts EXCEPT ![i].changed = TRUE]
          \/ facts' = [facts EXCEPT ![i].failed = TRUE]
          \/ facts' = [facts EXCEPT ![i].active = ~@]
    /\ UNCHANGED <<replicaRows, databaseRows, settings, topology>>
DayPasses ==
    /\ facts' = [i \in Monitored |->
          [facts[i] EXCEPT !.backup = IF @ = "fresh" THEN "stale" ELSE @, !.changed = FALSE, !.failed = FALSE]]
    /\ UNCHANGED <<replicaRows, databaseRows, settings, topology>>

\* The status synchronisation of a cluster replaces its rows.
ReplicaSynced ==
    /\ \E c \in DOMAIN Cluster, server \in UNION Range(Named), secondary, abnormal, broken \in BOOLEAN :
          /\ replicaRows' = {r \in replicaRows : r.cluster # c} \cup
                {[cluster |-> c, ag |-> "ag", server |-> server, secondary |-> secondary, abnormal |-> abnormal]}
          /\ databaseRows' = {d \in databaseRows : d.cluster # c} \cup
                (IF broken THEN {[cluster |-> c, ag |-> "ag", server |-> server]} ELSE {})
    /\ UNCHANGED <<facts, settings, topology>>

\* update_rules
update_rules ==
    /\ \E k \in RuleKeys, on \in BOOLEAN, severity \in Severities :
          settings' = [r \in DOMAIN settings \cup {k} |->
                         IF r = k THEN [enabled |-> on, severity |-> severity] ELSE settings[r]]
    /\ UNCHANGED <<facts, replicaRows, databaseRows, topology>>

RiskNext ==
    /\ events < MaxEvents /\ events' = events + 1
    /\ Stores \/ DayPasses \/ ReplicaSynced \/ TopologySynced \/ update_rules

RiskSpec == RiskInit /\ [][RiskNext]_riskVars

-----------------------------------------------------------------------------
(* build_summary and list_cards are two requests over one state: every     *)
(* number of the summary is the length of the list it links to, whatever   *)
(* the other filters are the pages put together are the list, and nothing  *)
(* that counts as high or medium is missing from the list.                 *)
NumbersMatchLists(list) ==
    LET any == <<Range(Levels), Range(DbType), BOOLEAN>>
        told == summary(list)
    IN /\ \A s \in Range(Levels) :
             /\ told.severity_counts[s] = Len(filtered(list, [any EXCEPT ![1] = {s}]))
             /\ \A t \in Range(DbType) :
                   told.db_type_counts[t][s] = Len(filtered(list, [any EXCEPT ![1] = {s}, ![2] = {t}]))
       /\ told.total = Len(list)
       /\ \A r \in told.top_risks : \E n \in DOMAIN list :
             list[n].id = r[1] /\ list[n].severity \in {"high", "medium"}
PagesAreList(list) ==
    \A q \in Filters :
        LET all == filtered(list, q)
        IN FlattenSeq([n \in 1 .. pages(Len(all)) |-> list_page(list, q, n)]) = all

(* _resolve_overall_severity and _resolve_metric_tone: an instance is as   *)
(* severe as the worst of its metrics, is listed before the less severe,   *)
(* and no green metric hides an enabled risk.                              *)
CardsTellWorst(list) ==
    /\ \A i \in Monitored :
          LET its == card(i)
              tones == {tone(its, c) : c \in Categories}
          IN IF \E n \in DOMAIN list : list[n].id = i
             THEN Tone[its.severity] \in tones /\ (its.severity # "high" => "danger" \notin tones)
             ELSE tones \subseteq {"success", "muted"}
    /\ \A n, m \in DOMAIN list : n < m => RankOf(list[n].severity) <= RankOf(list[m].severity)

(* _apply_detection and _mysql_cluster_issues: the cluster page and the     *)
(* risk center agree although they ask different questions.  What is a risk *)
(* counts as abnormal, every abnormal replica is a risk, a late one too,    *)
(* and the cluster tells as many failures as its instances.                 *)
TopologyTold ==
    LET told == cluster_summary
        risky == {i \in Members : mysql_issues(facts[i]) # {}}
    IN /\ \A i \in risky : is_binding_abnormal(facts[i])
       /\ \A i \in Members : facts[i].role = "replica" /\ is_binding_abnormal(facts[i]) => i \in risky
       /\ \A i \in Members : bound_instance(i).status = facts[i].replication
       /\ Cardinality(risky) <= told.abnormal_replica_count
       /\ told.lag_over => told.abnormal_replica_count > 0
       /\ told.unknown_replica_lag_count <= told.replica_count /\ told.replica_count <= told.instance_count
       /\ topology.status # "never" =>
            /\ topology.failed = Cardinality({i \in Members : facts[i].replication = "failed"})
            /\ (topology.status = "failed") = (topology.failed = told.instance_count)
RiskViewsAgree ==
    LET list == cards
    IN NumbersMatchLists(list) /\ PagesAreList(list) /\ CardsTellWorst(list) /\ TopologyTold

(* Switching a rule off or making it less severe makes no instance look    *)
(* worse, whatever other settings there are.                               *)
Weaker(new, old) == ~new.enabled \/ (old.enabled /\ RankOf(new.severity) >= RankOf(old.severity))
WeakerRulesCalm ==
    [][settings' # settings /\ (\A k \in RuleKeys : Weaker(rule_map'[k], rule_map[k])) =>
         \A i \in Monitored : RankOf(card(i)'.severity) >= RankOf(card(i).severity) /\ card(i)'.score <= card(i).score]_riskVars
=============================================================================
