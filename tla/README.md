# WhaleFall: a TLA+ verification project

WhaleFall manages fleets of database instances (MySQL, PostgreSQL, SQL Server, Oracle). Background
tasks synchronise accounts, databases, sizes, backups and cluster state from remote systems into one
PostgreSQL database; operators watch the tasks in a "task run centre" and can cancel them; alerts are
collected and sent as a daily digest. It is one Flask application: HTTP requests, one APScheduler
process and daemon threads share nothing but the rows of the database, so what makes it hard is how
their transactions interleave at READ COMMITTED. That is what most of these modules are about. The
others are about computations whose results are hard to test: permission facts and rules, calendars,
partitions, statistics, risks.

## 1. Inventory

| Component (under `src/app`) | State | Operations | Interacts with |
| --- | --- | --- | --- |
| Task run centre: `services/task_runs`, `models/task_run*.py` | `task_runs` row (status, progress, summary), `task_run_items` rows | `start_run`, `init_items`, item operations, `write_summary`, `finalize_run`, `finalize_run_with_summary`, `mark_run_failed`, `cancel_run` | every task, the cancel endpoint |
| Automatic classification: `tasks/account_classification_auto_tasks.py` | assignment rows | cleanup, a pass per rule, finalisation | run centre |
| Classification service and rule cache: `services/account_classification` | cached rules, assignments | `auto_classify_accounts`, invalidation | the requests that change rules |
| Sync sessions: `services/sync_session_service.py`, its models | `sync_sessions` row, `sync_instance_records` | create, start / complete / fail an instance, statistics, cancel | account, capacity and aggregation tasks |
| Account synchronisation: `tasks/accounts_sync_tasks.py`, `services/accounts_sync` | `instance_accounts`, `account_permission`, `account_change_log` | list, two-phase upsert, enrichment, difference | remote servers, run centre, sessions |
| Permission facts and rules: `services/accounts_permissions`, `utils/account_classification_dsl_v4.py` | facts of a snapshot | build facts, evaluate expressions | account synchronisation, classification |
| Capacity: `tasks/capacity_*`, `services/database_sync`, `services/aggregation`, `services/partition*` | database list, daily sizes and totals, aggregates, month partitions | collect, aggregate, create and drop partitions | run centre, sessions, the calendar |
| Daily classification statistics and their views | statistics per rule, classification and day | `calculate_account`; trends, contributions, overview | run centre, the calendar |
| Alert events and digest: `services/alerts`, `tasks/email_alert_tasks.py` | events, deliveries per channel | record, withdraw, digest on two channels | SMTP and Feishu |
| Veeam: `services/veeam` | source, machine snapshots | staged run of every source, single instance, matching | run centre, remote server |
| JumpServer, AD domains, cluster status | snapshots, events | one task each | run centre, remote servers |
| Scheduler: `scheduler.py`, `services/scheduler` | job store | start, reload, pause, edit, delete, run now | starts every task |
| Records written by requests: users, instances, credentials, tags, rules, clusters | their rows and constraints | create, update, recycle, restore, delete, bind | each other, by foreign keys |
| Risk center, ledgers | nothing of their own, rule settings | risks, cards, summary; lists, pages, statistics | what the tasks stored |
| REST API: `api/v1`, `infra/route_safety.py` | the transaction of a call, the thread it starts | every handler of every resource | all of the above |
| Logging worker: `infra/logging/queue_worker.py` | bounded queue, buffer | enqueue, drain, flush, close | everything, one way |
| Pages, exports, migrations | | presentation; DDL that runs once | |

What is hard here, and what the properties are for (`hazards` in `PROJECT.json` has each at its line):

* **Checks on loaded rows.** A status is tested on the row an ORM session loaded and written by a
  later statement. Cancel, finalisation, statistics and inventories all do this.
* **Two books for one fact.** Runs with items and sessions with records are written by different
  transactions and cancelled by different endpoints; items and the data behind them, change log and
  snapshot, deliveries and what really went out have to agree as well.
* **Row locks.** A failing rule locks its item and then the run; a cancel locks the run and then its
  items. Digests take the rows of a statement one by one and wait for each other.
* **Partial failure.** Savepoints, failure handlers that work in the transaction the exception
  interrupted, sources of which one fails in the middle, results that report on others.
* **Crashes.** Threads are daemons; the scheduler restarts; a digest is sent before it is committed.
* **Long sequences and boundaries.** Logs of differences, versions of rules, quarters, leap years,
  partitions judged by two dates.

## 2. Modules and how they correspond to the code

```
TaskRunsWriteService -- TaskThread -+- RunTask -- ServerSyncs, StatisticsTasks -- RunTasks
     |                 (ThreadProofs)  |                                               |  :
     +- AutoClassify                   +- SyncTask -- SessionTasks                CentreProofs
     |  (MC...; BatchProofs)               (SessionProofs)
     +- AlertDigest -- MCDigest             TaskRunCentre (abstract; RunTasks,
        (DigestProofs)                      SessionTasks and AutoClassify implement it)
LoginPermissions -- AccountPermissions; AccountInventory, ClassificationEngine -- MCAccounts  (AccountProofs)
CapacityData, PeriodCalendar -- TrendStats, AggregationRuns -- MCCapacity                  (BatchProofs)
Scheduler, LogQueue -- MCProcess                                                (ProcessProofs)
RequestTx -- InstanceRecords, RuleRecords, ClusterRecords -- AdminRecords -+
VeeamSnapshots, RiskCenter, ApiCalls, Ledgers ----------------------------+- MCRecords  (RecordProofs)
```

**Runs.** `TaskRunsWriteService` and the head of `SyncTask` are the two services (of runs, with the status
values, and of sync sessions) as functions on rows; neither commits, so transactions belong to their
callers. `UpdateChanged` is the UPDATE an ORM session emits: a column is sent when it differs from what
was loaded, any other column keeps what the database has by then. `TaskThread` is what every task has in
common: a thread on the items of one run (`run`, `items` are committed rows; `runSeen`, `stage` the run as
loaded and the item changes not committed yet) and the requests that cancel the run. Its steps take the
place they start from and the one they lead to, so that a task is written down as the path it takes
through them: `SessionTasks` has `sync_accounts`, `sync_databases` and `calculate_database` on top of
`SyncTask` (session and records), `RunTasks` has `sync_cluster_status`, `sync_ad_accounts`,
`sync_jumpserver_assets` and `sync_veeam_backups` (`ServerSyncs`), `capacity_aggregate_current` and
`calculate_account` (`StatisticsTasks`) on top of `RunTask`, whose `effect` is what a task commits beside
an item. `AutoClassify` has `auto_classify_accounts` with its row locks one by one, because there a task
and a cancel can deadlock; the other tasks commit every item change by itself and never hold an item's
lock while they wait for the run's. `TaskRunCentre` is the abstract promise about the status of a run:
whoever writes it has read "running" before, nobody writes twice, no run runs again. `Centre` in
`RunTasks`, `SessionTasks` and `AutoClassify` is the refinement mapping (`KeepsPromise`).

Names ending in `Read`, `Flush`, `Commit` are parts of one operation, cut where another transaction can
get in; each part contains everything the code does there. `Die` is the loss of a task; "escaped" is
where an exception leaves a task without a handler, or leaves a transaction its handler cannot use.

**Alerts.** `AlertDigest` is `email_alert`, run by several executions at once, and the tasks that record
and withdraw events meanwhile, over one day. A digest is one long transaction: `events`, `marked` and
`rows` are committed, `own[d]` and `mine[d]` what digest `d` has flushed, which it sees and which locks
out the others; `inbox` is what really went out, which no row knows. A statement about several rows is cut
where it can wait: it has chosen its rows, takes their locks one by one in any order (`left`), waits for
those in `Holders`, and looks at a row again but not at its deliveries. So two digests over several
backups, one refreshing and one purging, can wait for each other (`LockCycle`), or one that deletes an
event for one that marks it (`Crosses`): then `DeadlockVictim` is a digest the database aborts, which
fails its run in a transaction of its own. An upsert of a delivery and the update of `digest_sent_at` are
two statements.

**Accounts.** `AccountInventory` has both phases of overlapping synchronisations of an instance and its
availability groups with their row locks; `LoginPermissions` the statements that read the permissions of
the logins of a SQL Server, in batches of databases, while administrators change it (`past` is every state
of the server since the reading began, which no code knows); `AccountPermissions` one account of each kind
of server through any sequence of states: what its adapter makes of the answers, snapshot, facts, change
log, and rules over the facts, which are expressions nested to a depth (`Depth`); `ClassificationEngine`
the rules' cache and what a classification does with the matches.

**Capacity.** `CapacityData` has the rows of one instance under overlapping collections, aggregations,
partitions and midnight. The upsert of a day's total may fail in its savepoint and is then only answered
with False, while the sizes are committed: `stale` is the history of the days whose total that, a
collection overtaken by another, or a size stored after midnight has left behind. `PeriodCalendar` the
dates of periods and partitions; `TrendStats` the views of the daily statistics; `AggregationRuns` what
the three callers of the aggregation tell of their results.

**Process.** `Scheduler` is the job store and the requests on it through restarts; a cron that names years
runs out and takes its job with it (`RunsOut`). `LogQueue` is the logging threads, the worker and the
closing thread. A flush is three steps (copy the buffer, clear it, write the copy), which the worker and
`close` both take: `close` waits five seconds and then flushes whatever the worker is doing. `shared` is
what the buffer held from then on, and all that may be lost or stored twice.

**Requests.** `RequestTx` is a request as `safe_route_call` and the unit of work run it: reads and a
decision, then a flush and a commit that may be refused. `InstanceRecords`, `RuleRecords`,
`ClusterRecords` and the users in `AdminRecords` are the services on top of it. `ApiCalls` has every
handler of every resource as the steps of its body and lets any of them run. `VeeamSnapshots` is how the
objects of one Veeam source are read page by page while the server changes, matched, and their restore
points written by runs that overlap (a row is written under the id the map of names or of addresses gives,
both made of the rows as loaded). `Told` is where a run says that sizes are missing: in the stages, in its
summary only if it is about one source, and nowhere if it is about one instance. `RiskCenter` and
`Ledgers` are the read side over whatever is stored. In `RiskCenter` the metrics of an instance are a set,
and a rule finds one item or, for backups, sizes and accounts, as many as there are rows that are wrong:
`found` says how many risks a rule adds.

Left out of the rows: names, messages, timestamps, metrics. `summary_json` is reduced to whether a
finalisation has written it. Operators named as mutants in their comments are plausible bugs of the
operator before or after them; no action uses them.

## 3. Runs

A module `MC...` puts several small instances into one run: `subject` (or `task`, `area`, `resource`)
chooses in the first state what a behaviour is about, and the rest stays as it is (`Parts` in a
configuration is what it may choose). A property that is costly to evaluate is checked where its state
changes and not on the states of the others (`RisksTell`, `LedgersTell`, `CalendarTells`). Nothing is cut
off by a state constraint.

| Run | States | What it shows |
| --- | --- | --- |
| `classify` | 121,016 | two cancels interleaved with every read, flush and commit of a classification: a run in a final status tells the truth about its items (`EndedRunIsTrue`) and the assignments (`CompletedIsClassified`), is frozen but for a late cancel (`ClosedRunIsFrozen`), and is reached (`RunEnds`), deadlocks included; the run's status is written as `TaskRunCentre` promises (`KeepsPromise`) |
| `session_tasks` | 187,189 | run, items, session and records agree (`ClosedRunAgrees`, `SessionAgrees`) under cancels of run and session, exceptions and loss; both end (`RunAndSessionEnd`); `KeepsPromise` again |
| `run_tasks` | 506,595 | six tasks: a closed run accounts for its items, an item for the data behind it, a status for what was done (`ClosedRunAccounts`, `EffectBacksItem`, `StatusTellsEffects`); `RunEnds`; `KeepsPromise` is the refinement of `TaskRunCentre` |
| `alerts` | 441,185 | two digests beside the tasks that record and withdraw events: what counts as delivered went out (`DeliveriesAreHonest`), of two digests in sequence one reports an event (`ReportedOnce`), an e-mailed event stays (`EmailedIsKept`), digests end although they deadlock (`DigestsEnd`) |
| `process` | 274,672 | no job is lost without a deletion or an error (`NoJobLostSilently`), restarts repair and keep (`RestartRepairs`), requests end (`RequestsEnd`); log entries are stored once and in order (`StoredOnceInOrder`), except what two flushers share, and settle (`EntriesSettle`) |
| `accounts` | 1,108,604 | the change log explains and replays to what is stored (`LogExplainsSnapshot`, `LogReplays`), permissions tell what the server grants: what a login held throughout is read, what it never held is not (`LoginsTell`), and rules find it (`RulesMeanGrants`; both in `PermissionsTell`), the classification did what it says (`EngineTells`), a synchronisation alone converges (`SoloSyncConverges`), only absent accounts are deactivated (`DeactivatedWasAbsent`) |
| `records` | 197,486 | checks hold for a request that is not overtaken (`AloneKeepsRecords`), counted rules are history (`CountedRulesAreHistory`), backups agree with what was stored and a run about a source says what it could not read (`BackupsAreTold`), answers are true, only admitted calls change anything and a thread finds its run or says so (`CallsHold`); the views of the risk center agree (`RiskViewsAgree`, checked as `RisksTell`) and a weaker rule makes nothing worse (`WeakerRulesCalm`); statistics, lists and pages agree with the rows (`LedgersAgree`, checked as `LedgersTell`) |
| `capacity` | 655,355 | rows add up and a covered period is complete (`CapacityRowsHold`), periods and partitions follow the calendar (`CalendarHolds`, checked as `CalendarTells`) and views the days (`TrendsHold`), results tell what is committed (`AggregationTells`) |
| `last_admin` | violation | two requests that each demote or delete an administrator leave none |
| `quarter` | violation | the previous quarter ends a month too early |
| `database_grants` | violation | a rule on a database privilege misses accounts that have it |
| `snapshots_replaced` | violation | of two backup records that are given one row the first is lost |

The four violations contradict a comment, a docstring or a document of the repository, quoted in
`findings`.

**Bounds and why they are enough.** Classification: two rules that share a classification, two accounts,
every subset of them as input, two cancels (a cancel that finds the run locked or cancelled by another;
the requests are symmetric). Session tasks: two instances and one cluster with every subset of them, one
cancel of the run and one of the session: a session finished by its last instance after an earlier one
failed or succeeded; a second cancel of the same kind repeats the first. Run tasks: two subjects, a
subject for single sources, two stages, one cancel: partial failure needs two sources, an early and a late
stage differ in what follows. Alerts: two instances whose backups are checked, in the order of their ids,
so that one digest inserts them while another deletes them in any order; one cluster that may be withdrawn
and reported again (`MaxReports`), any events left of an earlier digest (`Reported`), two digests.
Settings switched off, failed channels, new events, failing messages and lost digests are `unusual`, and
one of them may happen in a behaviour (`MaxUnusual`): their combinations were looked at with one instance.
Two digests are needed to overlap, to follow each other and to wait for each other. Process: two jobs of
the configuration and one of an earlier version, two requests, two starts (`MaxRestarts`); two logging
threads, a queue and a batch of two, four entries, a worker that may be anywhere when `close` gives up.
Accounts: one group, two accounts, two synchronisations and one change on the server (`MaxChanges`): a
stale view needs one change, an overlap two synchronisations. Contents: some grants of every category of
each kind of server, at most three at a time where there are many (`FewOf`: what one category does to
another shows with two, and replacing one with three), any sequence of states; rules with every call and,
as second arguments, five of them, one an error and one that never has facts (`Seconds`). Logins: two and
one the filters leave out, two databases read one by one, users with another's name, another's SID or a
reused id, and one change between any two statements (`MaxAlters`). Engine: three rules (two of one
classification), three accounts, two classifications under way. Records: three requests on two users, two
clusters and one of each other record; two runs of the backup synchronisation with one change on the
server; two SQL Server instances on one host and two MySQL instances, two risk events, pages of two cards,
three edits of rules; one API call of any kind; two hosts with four logins and three schemas, pages of
two. Capacity: two databases of two sizes, two overlapping collections, three days in three months; a
calendar from the end of November 2023 to April 2024, with the turn of a year and a leap day; two
instances and every mixture of outcomes.

Deadlock checking is on where everybody has to end (`Terminating` stutters only then); it is off in
`process` and the runs of `MCAccounts`, `MCRecords` and `MCCapacity`, whose actors may have nothing left to do.
Symmetry is declared where model values are interchangeable and reducing by it costs less than it saves.

**Fairness.** `WF` on the steps of a task's thread: a live thread runs, and every wait is for a row lock
whose holder is itself fair. `WF` on what a request does after its first read: a request that has begun is
served; no fairness makes a request arrive, since otherwise a cancel would end every run. `WF` on the
resolution of a deadlock: PostgreSQL aborts one of a cycle (in `AutoClassify` and `AlertDigest`). A digest
and a DELETE that has started are weakly fair; so are the scheduler's load, the log worker, its clock and
the closing thread. `Die`, exceptions, lost writes, failing transactions and restarts have none.

## 4. Proofs

All for any values of the constants that satisfy the named assumptions: finite sets of keys, markers
that differ from what they mark, keys that are pairs of a subject and a stage, switches that are Boolean.

* **`BatchProofs`**: `TypeCorrect`, `EndedRunsAreTrue`, `ClosedFrozen`, and `CompletedClassified` (for
  `~MayLoseWrite`; without it `CompletedRuleHasRows` and the statement are false). `IInv == TypeOK /\
  ControlInv /\ ItemsInv /\ RunInv`. None of the properties is inductive: that the counters match the
  items follows from what the thread counted before it committed. `RunInv` carries the weight: what the
  thread is about to commit is an outcome counted while it holds the run's lock, and no request about to
  commit against a finished run has items to cancel. `ClassificationKeepsPromise` is the refinement of
  `TaskRunCentre`, step by step, with the transaction an aborted deadlock leaves behind. Also
  `ResultsAreTold == AggregationSpec => []AggregationTells`, for any number of instances. `AggregationInv`
  says that a plan lists each unit once and nothing is told yet of what is left of it (`Planned`), that
  the nightly run has the periods of an instance in one group, so that telling all of them as failed
  contradicts nothing that is committed (`InstanceByInstance`), and what a living transaction holds
  (`Accounted`). And `CapacityIsExact == CapacitySpec => []CapacityRowsHold`, for any number of databases,
  overlapping collections and days, any lengths of periods and months (`NoneIsNoRow`: the marker of a
  missing row is no row). `CapacityInv == Tables /\ Dated /\ ClosedAreExact /\ LongTogether /\
  TotalIsSumOfRows /\ TalliesHold`: nothing is stored of the future (`Dated`), so only a late size changes
  a period that is over and its aggregates stay exact (`ClosedAreExact`); the long periods of all
  databases are calculated at once, so one aggregate tells of all (`LongTogether`). No induction over sums
  is needed: an aggregate is exact because the sizes it was made of are still those, not because of what
  their sum is. `TotalIsSumOfRows` speaks of the days that are not `stale`: what a collection has counted
  is what the rows hold unless another one came in between, which it has `missed` then (`TalliesHold`).
  The daily periods have no `LongTogether`, which is why `CoveredDayIsComplete` fails. And
  `CalendarIsRegular == CalendarSpec => []CalendarHolds`, for any year and weekday it begins with, any
  dates and retentions: the first day of a month is brought into a closed form, so that months follow each
  other without a recursion over years, the month a date lies in exists by the least month that begins
  after it, and a clean-up's 31 days to the month are compared with the true length of the months it steps
  over.
* **`SessionProofs`**: `SessionTasksTyped`, `SessionsAgree`, `ClosedRunsAgree`, and the refinement
  `SessionTasksKeepPromise`. `Inv == TypeInv /\ SessionInv /\ RunInv`: what each place of the thread says of its
  locals; that the totals it carries are those of the records and that the session it loaded has the
  counters of the one it writes; which items can still be open at each place (`Remaining`).
* **`CentreProofs`**: `CentreKept == Spec => KeepsPromise`: every step of the six tasks and of the
  requests is a step of `TaskRunCentre` or a stutter. `CentreInv` says that a thread that is about to
  write has read "running" or the run's final status, and which sources the thread still has.
  `EffectsBackItems` by `EffectInv == Tables /\ Agreeing /\ FailsWithEffect /\ Fresh`: what the
  transaction holds of an item agrees with the effect it will commit with it (`Agreeing`), an effect that
  is about to be taken back has no item that tells of it, and a key the thread will still come to has
  none. Its second part is about the books: `RunTasksTyped`, `ClosedRunsAccount`, `StatusTells`, for all
  six tasks, any number of subjects, sources, stages and requests, with exceptions and loss at every step.
  `FullInv == CentreInv /\ TypeInv /\ EffectInv /\ WorkInv /\ TallyInv /\ Books /\ CancelsOK`. The
  properties speak of closed runs only, so the argument is about the thread before it closes one:
  `TypeInv` says which keys are whose and where rows exist, `WorkInv` that an open item was skipped or is
  still to be closed by the thread (`OpenIsLeft`), so that nothing is left where it finalises
  (`NothingLeft`), and that what is about to be committed leaves nothing open that it is meant to close
  (`Closes`), `TallyInv` that the totals a serial task decides by stand for committed effects and that the
  daily statistics are written last. The counters of a closing run are then those `finalize_run` counts
  (`Finalises`, `CountsBooked`), except after `mark_run_failed`, which counts its own (`FailBooks`). TLC
  checked the parts on the run before they were proved.
* **`ThreadProofs`**: the lemmas on the rows and on the steps every task takes (`TaskThread`), used by
  `SessionProofs` and `CentreProofs`.
* **`AccountProofs`**: `LogAlwaysExplains`, `SoloSyncsConverge`, `OnlyAbsentDeactivated`. `InventoryInv`
  says that rows are locked from their write to the commit (`Locked`), so that a difference taken against
  the stored snapshot is still one at the commit (`Differences`), that what is written follows from the
  listing, and that what a synchronisation has read is still true while it is alone (`Undisturbed`).
  `LogAlwaysReplays` is about the permission facts, for every kind of server and any answers of it that
  `ServersAssumption` admits: the replayed difference is `Base` plus what every difference adds
  (`ReplayAdds`), and the flags the log carries are those of the facts (`Flags`), except that PostgreSQL's
  expiry date passes without one (`Timeless`). `EngineAlwaysTells` is about the classification service,
  for any rules, accounts and owners: `EngineInv == EngineTyped /\ CacheInv /\ TurnsInv /\ RowsInv` says
  that what is cached or being loaded is what is stored while nothing outdated it, that the rules take
  their turns in order, and that after each turn the rows are those of the rules that have had theirs
  (`Assigned`), as long as nothing was lost. `LoginsAreTold` is about reading SQL Server's logins, for any
  logins, databases, batches and number of changes in between. `ReadingHolds` compares what has been read
  with every state the server had since the first statement: a user found for a login was its user at some
  time and one that was its user all along is found (`LookupHolds`), and the same for what has been taken
  of the databases that are done (`TakenWasHeld`, `HeldIsTaken`). The first attempt failed where an id is
  given to another user between the statement for the users and the one for the permissions: the
  permissions of the new user are then taken for the login's, so the property speaks of ids that were not
  (`Steady`). By name is read only after it is known that no login held anything throughout by its SID
  (`NothingBySid`). With it `PermissionsAreTold == PermissionSpec /\ LoginsSpec => []PermissionsTell`: a
  rule says of an account what its expression means on the server. Expressions are evaluated by a function
  of their depth, and the arguments of an expression are less deep than itself: such a function exists,
  and what holds of an expression whenever it holds of its arguments holds of all, both by a least
  counterexample. The leaves are lemmas on categories, capabilities and privileges, and `RuleInv` says
  that the facts are those of the last state that was read.
* **`DigestProofs`**: `DigestsTyped`, `EmailedStay`, `HonestDeliveries`, `NothingReportedTwice`, for any
  number of digests, instances, events and reports, with every order of locks and every abort. `Inv ==
  TypeOK /\ Placed /\ Stored /\ Owned /\ Mined`: what a digest holds where it is, that a changed row is
  changed by one digest only and from what is committed, that an uncommitted delivery refers to an event
  nobody is deleting, and a mail that is recorded gets its mark before the commit (`Mined`); beside it
  `Delivered`, and `Ended`, `Mailed` and `Reported`. The attempt to prove `ReportedOnce` as it was stated
  first failed for a reason: on Feishu a digest whose sending fails writes "failed" over the "sent" of a
  digest it overlapped (`src/app/repositories/email_alerts_repository.py:228`), so a third digest sends
  the event again; two digests cannot show it. `Overruled` names the case, which `ReportedOnce` excludes
  for Feishu only.
* **`RecordProofs`**: `RecordsTyped`, `AloneKeeps`, `CountedRulesStay`, of `Spec`, in which requests about
  all tables overlap (the run checks them one area at a time). `RecordsInv` says what a request that is
  under way has read and will write (`UserTx`, `InstanceTx`, `RuleTx`, `ClusterTx`): its checks held of
  what it has `seen`, and if that is still what the table holds they hold of what it writes. The proof of
  `AloneKeeps` turns on the UPDATE that names only changed columns (`Merged`): without an overtaking
  request it is the row that was checked. For the rules it adds that ids that were handed out are unused
  and distinct (`FreshIds`), and that no operation changes the expression, group or version of a row that
  is there (`Same`), which holds however stale the request is. `CallsAreTrue` goes through the handlers of
  the whole API: what each does is listed once (which steps, in which order, with which decorators), and
  `CallInv` follows the position of a call in its handler, what it has kept so far and what the thread it
  started was given. `WeakerRulesAreCalm` needs sums over finite sets: that one exists, that any element
  may be taken out of it, and that it grows with its terms, are proved from the definition of the fold by
  a least counterexample. `RiskViewsAgreeAlways` needs of the state little more than what a card may say
  (`RiskInv`, `CardsInv`), and of the MySQL servers that the last synchronisation which got through is
  what is stored (`TopologyInv`); the rest is about the lists. A set in an order is a sequence that has
  each element once (`OrderedIs`, since the ranks of a strict order are an injection into as many
  numbers), cards differ in severity, score or name (`CardsOrdered`), a filtered list is as long as what
  passes (`FilteredIs`), and the pages of a list, however long they are, put together are the list
  (`PagesAreWhole`, again by a least counterexample). `BackupsAlwaysTold == SnapshotSpec =>
  []BackupsAreTold`: `SnapshotInv` says that the objects a run has fetched have ids of their own and that
  no page to come has one of them, however objects are removed or exchange addresses (`GotInv`), that the
  records made of them can be told apart (`Keyed`), and that the table is unique whatever was written to
  it (`FlushKeepsUnique`: of two rows the one written last was compared with the other). Where names and
  addresses go together a session that has applied some of the records has them all, each under an id of
  its own (`Session`), so that flushing it clashes with nothing (`FlushedIs`); without that condition
  `ReplacedByResult` is false.
* **`ProcessProofs`**: `JobsKept`, `RestartKeeps`, `LogStored`. `SchedulerInv` says that somebody will add
  every job that is missing without an excuse. `LogInv == InOrder /\ Flushing /\ Placed /\ Turns`: the places
  an entry goes through are in order and hold every accepted one, a copy of the buffer is behind the
  rows until it is written, and nothing is `shared` before `close` has given up; after that every
  statement is about the entries that are not.

**Only model-checked.** Liveness (`RunEnds`, `RunAndSessionEnd`, `DigestsEnd`, `RequestsEnd`,
`EntriesSettle`, `RestartRepairs` with its fairness) needs fairness and `ENABLED`, which the prover does
not have. `LedgersTell` compares some fifty numbers of statistics and lists, and sorts its rankings with
`SortSeq`, whose definition the prover cannot expand, and `TrendsHold` adds up sums day by day and period
by period. Induction by the library's theorems is not available either, since they take an operator as a
parameter; the recursions of finite depth above were handled one by one with a least counterexample
(`Least`).

## 5. What the code does not do

Besides the findings, these statements are written down and do not hold; the comment above each quotes
what promises it: `CancelClosesItems`, `CancelledRunKeepsSummary`, `OnlyRunningIsCancelled`,
`CompletedRuleHasRows` (`AutoClassify`), `StatisticsKeepEndedStatus` (`SyncTask`), `DatabaseErrorFailsDomain`
(`RunTasks`), `OtherOwnersKept` (`AccountInventory`), `CoveredDayIsComplete` (`CapacityData`), `StaleGroupsGo`
(`AdminRecords`), `ClosedIsFlushed` (`LogQueue`), `AverageIsOfCollectedDays` (`TrendStats`).

Observed while modelling, in the models, and worth a look:

* A Veeam thread that does not find its run leaves it running; items of sources that were switched off
  stay pending in a completed run. JumpServer checks its binding outside the try block. An error of the
  database leaves the AD task. A cancelled `calculate_database` leaves its session running. Cluster, AD,
  JumpServer and Veeam tasks never ask whether they have been cancelled.
* Reading the privileges of one account that fails is stored as a revocation, and so is reading the roles
  of all (MySQL).
* SQL Server: permissions of the server are listed whether granted or denied, those of a database only
  where granted without the grant option; the names of schemas and objects are looked up in the connected
  database instead of the one they are in, so that an object may get another's name or none; an id that
  is given to another user while permissions are read brings its permissions to the old one's login.
* A connection that fails (`ExternalServiceError`) ends the whole `sync_topology` of a MySQL cluster, and an
  old server whose `SHOW SLAVE STATUS` fails reads as a healthy primary.
* `docs/Obsidian/API/instances-api-contract.md:85` says 已删除实例不参与统计/同步; classification statistics and
  the account ledger count accounts of recycled instances, tag counts include them, and the change-log's
  `affected_accounts` ignores owners.
* The averages of contributions and of the overview divide by different days; trends of quarters lose
  days; partitions are judged by the month in UTC.
* `src/app/services/accounts_permissions/facts_builder.py:253` grants SUPERUSER and GRANT_ADMIN with the reason
  "sqlserver_server_roles contains ..." although the roles it looks at hold those of the databases too: a
  database role of such a name counts.
* A total of a day that was not written is answered with False by `save_instance_stats`
  (`src/app/services/database_sync/persistence.py:134`); both callers commit the sizes and go on, so the
  day's total stays behind until the next collection. A collection that runs over midnight stores what it
  counted the day before as the total of the new day.
* `sync_instance_now` and Veeam runs about several sources report success although sizes are missing
  (`src/app/services/veeam/sync_actions_service.py:314` and `:376`); only the stages of the second say so.
* `close` of the log queue and a worker that is held up for more than five seconds flush the same buffer:
  entries between the copy and the clear are lost, or stored twice.
* A cron that names years ends, and APScheduler removes the job without a word to anybody.
* An empty list of types in a rule passes the validation of the API and is an error when it is evaluated
  (`src/app/utils/account_classification_dsl_v4.py:259`), which NOT turns into a match of every account.
* Services that commit inside a request keep their changes when the call answers an error.

## 6. Not modelled

Migrations are DDL that runs once; their constraints are in the modules of the rows they protect. Pages
and exports change no state. Remote protocols, SQL texts and LDAP paging are outcomes of the models. The
parts with status `partly` in `PROJECT.json` say what they leave out: growth rates of aggregates, texts of
alert events, the cancel of a digest's run (which the task never looks at), searches and sort orders of the
ledgers. A task's failure handler that fails itself (two faults of the database in a row) is not modelled;
nor is, in `VeeamSnapshots`, that SQLAlchemy only warns when a row it deletes is gone: such a run fails in the
model and does not in the code, and `BackupsAreTold` speaks of runs that nobody interfered with.

## 7. What could come next

1. Connection tests and the SQL Server audit synchronisation as modules of their own.
2. Theorems for the other views: the ledgers with an order of their own, as the lists of the risk center
   have, and the sums of the trends from the lemmas on sums in `RecordProofs`.
