---------------------------- MODULE AlertDigest ----------------------------
(***************************************************************************)
(* The alert events of one day and the digests that deliver them: the      *)
(* email_alert task, of which a scheduled and a manually started instance  *)
(* can run at the same time, and the tasks that record and withdraw events *)
(* meanwhile.                                                              *)
(*                                                                         *)
(* A digest does everything in one transaction at READ COMMITTED: it       *)
(* brings the backup issues up to date, lists what is pending on each      *)
(* channel, sends, records the deliveries and commits.  What it has        *)
(* flushed is visible to itself only and locks its rows.  Whoever needs a  *)
(* locked row, or a key another transaction is inserting, waits; then it   *)
(* goes on with what it read before.  A statement about several rows takes *)
(* their locks one by one, so digests can wait for each other; then the    *)
(* database aborts one of them.                                            *)
(*                                                                         *)
(* Only events of the current day are ever listed, so one day is modelled. *)
(* Events are known by who created them; their texts are left out.         *)
(***************************************************************************)
EXTENDS TaskRunsWriteService

CONSTANTS
    BackupKeys,   \* instances whose backups the digest itself checks
    IdOf,         \* their ids
    TaskKeys,     \* what other tasks report: growth, failures, accounts, clusters
    ClusterKeys,  \* those that are clusters: their events can be withdrawn
    Digests,      \* executions of email_alert
    MaxReports,   \* bound on the events other tasks record
    None,         \* no event
    Same,         \* a row a transaction has not touched
    Reported,     \* what there may be an event of when the digests start
    MaxUnusual    \* bound on what is unusual: settings switched off, channels an
                  \* earlier digest failed on, events recorded by other tasks,
                  \* messages that cannot be sent, digests lost

Keys == BackupKeys \cup TaskKeys
Ids == Keys \X (Digests \cup 0..MaxReports)
EMAIL == "email"
FEISHU == "feishu"
Channels == {EMAIL, FEISHU}
SENT == "sent"
DeliveryStatus == {SENT, FAILED}

ASSUME InstanceIds == IdOf \in [BackupKeys -> Nat]
ASSUME KindsDiffer == BackupKeys \cap TaskKeys = {} /\ ClusterKeys \subseteq TaskKeys
ASSUME ReportedKeys == Reported \subseteq Keys
ASSUME MarkersDiffer == None # Same /\ {None, Same} \cap Ids = {}
ASSUME ReportBound == MaxReports \in Nat
ASSUME IdsDiffer == Digests \cap (0..MaxReports) = {}
ASSUME UnusualBound == MaxUnusual \in Nat

VARIABLES
    \* settings: channels that are enabled, whether there are recipients, and
    \* whether backup issues are alerted
    enabled, recipients, backupOn,
    \* committed rows: the event of a key, the events with digest_sent_at, the
    \* delivery of an event on a channel
    events, marked, rows,
    inbox,      \* inbox[c]: who sent which event on channel c
    run,        \* status of each digest's run
    \* the digests: location, backup issues found, keys or channels left, the
    \* current one, what the last query returned, the rows the current statement
    \* has yet to lock
    pc, issues, todo, cur, seen, prior, left,
    pending,    \* pending[d][c]: the events listed for channel c
    sent, bad,  \* the outcome of the last sending, the channels that failed
    \* event and delivery rows a digest has written, and the events it has set
    \* digest_sent_at of
    own, mine, noted,
    before,     \* before[d]: the digests that had ended when d began
    reports, withdrawn, \* the other tasks: reports so far, event to delete
    unusual     \* how much has been unusual

settings == <<enabled, recipients, backupOn>>
tables == <<events, marked, rows>>
query == <<cur, seen, prior, left>>
progress == <<issues, todo, pending, sent, bad>>
written == <<own, mine, noted>>
others == <<reports, withdrawn, unusual>>
vars == <<settings, tables, inbox, run, pc, query, progress, written, before, others>>

Active(d) == pc[d] \notin {"done", "dead"}

\* The event of a key and the status of a delivery as digest d sees them.
EventOf(d, k) == IF own[d][k] = Same THEN events[k] ELSE own[d][k]
StatusOf(d, i, c) == IF mine[d][i, c] = ABSENT THEN rows[i, c] ELSE mine[d][i, c]

\* The other digests that have changed, inserted or deleted the event of key k.
Writers(d, k) == {e \in Digests \ {d} : Active(e) /\ own[e][k] # Same}

\* The digests that hold a lock on event i, or on its delivery on the current
\* channel, which the statement of d needs.  Deleting an event needs its deliveries
\* too, and writing a delivery an event that nobody is deleting.
Holders(d, i) ==
    {e \in Digests \ {d} : Active(e) /\
       \/ pc[d] \in {"purge", "mark"} /\ own[e][i[1]] # Same
       \/ pc[d] = "purge" /\ \E c \in Channels : mine[e][i, c] # ABSENT
       \/ pc[d] = "record_write" /\ (mine[e][i, cur[d]] # ABSENT \/ own[e][i[1]] = None)}

\* The digests d waits for, when none of the rows it has yet to lock is free.
WaitsFor(d) ==
    IF pc[d] = "upsert_write" THEN Writers(d, cur[d])
    ELSE IF \A i \in left[d] : Holders(d, i) # {} THEN UNION {Holders(d, i) : i \in left[d]} ELSE {}

\* Digests of which each waits for one of them; and a cycle of them.
Entangled(S) == S # {} /\ \A d \in S : WaitsFor(d) \cap S # {}
LockCycle(S) == Entangled(S) /\ \A T \in SUBSET S : Entangled(T) => T = S

\* A DELETE locks its events before the deliveries that go with them: it may have
\* the event that d is to mark, and need the delivery that d has updated.
Crosses(d, chosen) ==
    /\ pc[d] = "mark"
    /\ \E i \in left[d] \cap chosen, c \in Channels : mine[d][i, c] # ABSENT /\ rows[i, c] # ABSENT

Chosen(d) == IF pc[d] = "purge" THEN left[d] ELSE {}

Deadlocked(d) ==
    \/ \E S \in SUBSET Digests : d \in S /\ LockCycle(S)
    \/ \E e \in Digests \ {d} : Crosses(d, Chosen(e)) \/ Crosses(e, Chosen(d))
    \/ Crosses(d, {withdrawn})

NoRows == [x \in Ids \X Channels |-> ABSENT]
Untouched == [k \in Keys |-> Same]

\* Deleting an event deletes its deliveries.
WithoutEvents(gone, rs) == [x \in Ids \X Channels |-> IF x[1] \in gone THEN ABSENT ELSE rs[x]]

-----------------------------------------------------------------------------
\* The settings that switch something off.
SwitchedOff ==
    {s \in {"channel", "recipients", "backup"} :
       \/ s = "channel" /\ enabled # Channels
       \/ s = "recipients" /\ ~recipients
       \/ s = "backup" /\ ~backupOn}

\* The runs have been created with their items.  There may be events already,
\* and an earlier digest may have failed to send them on some of the channels.
Init ==
    /\ enabled \in SUBSET Channels /\ recipients \in BOOLEAN /\ backupOn \in BOOLEAN
    /\ \E old \in SUBSET Reported : events = [k \in Keys |-> IF k \in old THEN <<k, 0>> ELSE None]
    /\ marked = {}
    /\ \E tried \in SUBSET enabled :
         /\ unusual = Cardinality(SwitchedOff) + Cardinality(tried)
         /\ unusual <= MaxUnusual
         /\ rows = [x \in Ids \X Channels |->
                      IF x[2] \in tried /\ events[x[1][1]] = x[1] THEN FAILED ELSE ABSENT]
    /\ inbox = [c \in Channels |-> {}]
    /\ run = [d \in Digests |-> RUNNING]
    /\ pc = [d \in Digests |-> "begin"]
    /\ issues = [d \in Digests |-> {}]
    /\ todo = [d \in Digests |-> {}]
    /\ cur = [d \in Digests |-> None]
    /\ seen = [d \in Digests |-> None]
    /\ prior = [d \in Digests |-> NoRows]
    /\ left = [d \in Digests |-> {}]
    /\ pending = [d \in Digests |-> [c \in Channels |-> {}]]
    /\ sent = [d \in Digests |-> FALSE]
    /\ bad = [d \in Digests |-> {}]
    /\ own = [d \in Digests |-> Untouched]
    /\ mine = [d \in Digests |-> NoRows]
    /\ noted = [d \in Digests |-> {}]
    /\ before = [d \in Digests |-> {}]
    /\ reports = 0
    /\ withdrawn = None

\* One more thing that is unusual.
Unusually == unusual < MaxUnusual /\ unusual' = unusual + 1

\* Go to location l.
At(d, l) == pc' = [pc EXCEPT ![d] = l]

\* The locals of a digest that has ended are gone.
Forget(d) ==
    /\ cur' = [cur EXCEPT ![d] = None]
    /\ seen' = [seen EXCEPT ![d] = None]
    /\ prior' = [prior EXCEPT ![d] = NoRows]
    /\ left' = [left EXCEPT ![d] = {}]
    /\ issues' = [issues EXCEPT ![d] = {}]
    /\ todo' = [todo EXCEPT ![d] = {}]
    /\ sent' = [sent EXCEPT ![d] = FALSE]
    /\ bad' = [bad EXCEPT ![d] = {}]
    /\ own' = [own EXCEPT ![d] = Untouched]
    /\ noted' = [noted EXCEPT ![d] = {}]

\* Nothing a digest wrote remains.
RollBack(d) ==
    /\ Forget(d)
    /\ mine' = [mine EXCEPT ![d] = NoRows]
    /\ pending' = [pending EXCEPT ![d] = [c \in Channels |-> {}]]

\* Mutant of Fail: the transaction is not rolled back and stays open.
FailHolding(d) ==
    /\ At(d, "stuck")
    /\ run' = [run EXCEPT ![d] = FAILED]
    /\ UNCHANGED <<settings, tables, inbox, query, progress, written, before, others>>

\* An exception: email_alert rolls back and marks its run as failed.
Fail(d) ==
    /\ RollBack(d)
    /\ At(d, "done")
    /\ run' = [run EXCEPT ![d] = FAILED]
    /\ UNCHANGED <<settings, tables, inbox, before, others>>

\* The database ends a cycle of waits with an error in one of its statements.
DeadlockVictim(d) == Deadlocked(d) /\ Fail(d)

-----------------------------------------------------------------------------
\* sync_backup_issue_events_for_active_instances finds the instances with a
\* backup issue; without a channel or with the rule switched off it does nothing.
Begin(d) ==
    /\ pc[d] = "begin"
    /\ before' = [before EXCEPT ![d] = {e \in Digests : ~Active(e)}]
    /\ IF backupOn /\ enabled # {}
       THEN \E found \in SUBSET BackupKeys :
              /\ issues' = [issues EXCEPT ![d] = found]
              /\ todo' = [todo EXCEPT ![d] = found]
              /\ At(d, "upsert")
       ELSE /\ todo' = [todo EXCEPT ![d] = enabled]
            /\ At(d, IF enabled = {} THEN "deliver" ELSE "list")
            /\ UNCHANGED issues
    /\ UNCHANGED <<settings, tables, inbox, run, query, pending, sent, bad, written, others>>

\* The instances are visited in the order of their ids.
NextIssue(d, k) == k \in todo[d] /\ \A j \in todo[d] : IdOf[k] <= IdOf[j]

\* _upsert_pending_event reads the event of the next issue; one that has been
\* sent by e-mail is left alone.
UpsertRead(d) ==
    /\ pc[d] = "upsert"
    /\ \E k \in BackupKeys :
         /\ NextIssue(d, k)
         /\ todo' = [todo EXCEPT ![d] = @ \ {k}]
         /\ IF EventOf(d, k) \in marked THEN UNCHANGED <<pc, cur, seen>>
            ELSE /\ cur' = [cur EXCEPT ![d] = k]
                 /\ seen' = [seen EXCEPT ![d] = EventOf(d, k)]
                 /\ At(d, "upsert_write")
    /\ UNCHANGED <<settings, tables, inbox, run, prior, left, issues, pending, sent, bad,
                   written, before, others>>

\* The insert or update that follows waits for other transactions.  It fails if
\* the key has been inserted, or the row deleted, since it was read.
UpsertWrite(d) ==
    /\ pc[d] = "upsert_write"
    /\ Writers(d, cur[d]) = {}
    /\ events[cur[d]] = seen[d]
    /\ own' = [own EXCEPT ![d][cur[d]] = IF seen[d] = None THEN <<cur[d], d>> ELSE seen[d]]
    /\ seen' = [seen EXCEPT ![d] = None]
    /\ cur' = [cur EXCEPT ![d] = None]
    /\ At(d, "upsert")
    /\ UNCHANGED <<settings, tables, inbox, run, prior, left, progress, mine, noted, before, others>>

UpsertFails(d) ==
    /\ pc[d] = "upsert_write"
    /\ Writers(d, cur[d]) = {}
    /\ events[cur[d]] # seen[d]
    /\ Fail(d)

\* Mutant of Unmarked: the DELETE has no condition on digest_sent_at.
UnmarkedDropped(i) == TRUE

\* The condition on the event's own row: digest_sent_at is not set.
Unmarked(i) == i \notin marked

\* The events _delete_pending_events selects: not sent by e-mail and, as far as
\* the committed rows go, not delivered on any channel.
Undelivered(i) == Unmarked(i) /\ \A c \in Channels : rows[i, c] # SENT

\* The DELETE goes on with these rows; the last one ends it.
Purging(d, rest) ==
    /\ left' = [left EXCEPT ![d] = rest]
    /\ todo' = [todo EXCEPT ![d] = IF rest = {} THEN enabled ELSE {}]
    /\ At(d, IF rest = {} THEN "list" ELSE "purge")

\* delete_pending_backup_issue_events_not_in is one DELETE: the rows are chosen
\* when it starts, then locked one by one in an order of the database's.
PurgeRead(d) ==
    /\ pc[d] = "upsert"
    /\ todo[d] = {}
    /\ Purging(d, {i \in Ids : \E k \in BackupKeys \ issues[d] : i = EventOf(d, k) /\ Undelivered(i)})
    /\ UNCHANGED <<settings, tables, inbox, run, cur, seen, prior, issues, pending, sent, bad, written,
                   before, others>>

\* Once its lock is free a row is looked at again, but not its deliveries.
PurgeRow(d) ==
    /\ pc[d] = "purge"
    /\ \E i \in left[d] :
         /\ Holders(d, i) = {}
         /\ Purging(d, left[d] \ {i})
         /\ own' = IF events[i[1]] = i /\ Unmarked(i) THEN [own EXCEPT ![d][i[1]] = None] ELSE own
    /\ UNCHANGED <<settings, tables, inbox, run, cur, seen, prior, issues, pending, sent, bad, mine, noted,
                   before, others>>

-----------------------------------------------------------------------------
\* The channels are handled in a fixed order, e-mail first.
NextChannel(d, c) == c \in todo[d] /\ (c = EMAIL \/ EMAIL \notin todo[d])

\* Mutant of Pending: an event is pending until it has been sent by e-mail.
PendingUnmarked(d, c) ==
    {i \in Ids : (\E k \in Keys : i = EventOf(d, k)) /\ i \notin marked}

\* list_pending_digest_events.
Pending(d, c) ==
    {i \in Ids : /\ \E k \in Keys : i = EventOf(d, k)
                 /\ StatusOf(d, i, c) # SENT
                 /\ c = EMAIL => i \notin marked}

\* The channels with something pending and somebody to write to.
Addressed(listed) == {c \in enabled : listed[c] # {} /\ (c = EMAIL => recipients)}

\* Once every channel has its list the messages go out.
ListPending(d) ==
    /\ pc[d] = "list"
    /\ \E c \in Channels :
         /\ NextChannel(d, c)
         /\ pending' = [pending EXCEPT ![d][c] = Pending(d, c)]
         /\ IF todo[d] = {c}
            THEN /\ todo' = [todo EXCEPT ![d] = Addressed(pending'[d])]
                 /\ At(d, "deliver")
            ELSE /\ todo' = [todo EXCEPT ![d] = @ \ {c}]
                 /\ UNCHANGED pc
    /\ UNCHANGED <<settings, tables, inbox, run, query, issues, sent, bad, written, before, others>>

\* The text of every message: what is pending on any channel.
Text(d) == UNION {pending[d][c] : c \in Channels}

\* _send_email_digest, _send_feishu_digest: the message goes out, or the sender
\* is not configured or raises.
Send(d, ok) ==
    /\ pc[d] = "deliver"
    /\ \E c \in Channels :
         /\ NextChannel(d, c)
         /\ cur' = [cur EXCEPT ![d] = c]
         /\ inbox' = IF ok THEN [inbox EXCEPT ![c] = @ \cup ({d} \X Text(d))] ELSE inbox
    /\ sent' = [sent EXCEPT ![d] = ok]
    /\ At(d, "record")
    /\ IF ok THEN UNCHANGED unusual ELSE Unusually
    /\ UNCHANGED <<settings, tables, run, seen, prior, left, issues, todo, pending, bad, written,
                   before, reports, withdrawn>>

\* record_digest_delivery loads the deliveries that exist.
RecordRead(d) ==
    /\ pc[d] = "record"
    /\ prior' = [prior EXCEPT ![d] =
                   [x \in Ids \X Channels |-> IF x[1] \in pending[d][cur[d]] /\ x[2] = cur[d]
                                              THEN rows[x] ELSE ABSENT]]
    /\ left' = [left EXCEPT ![d] = pending[d][cur[d]]]
    /\ At(d, "record_write")
    /\ UNCHANGED <<settings, tables, inbox, run, cur, seen, progress, written, before, others>>

\* A delivery is inserted or updated for an event that has been deleted, or
\* inserted beside one that has been inserted meanwhile.
RecordConflict(d, i) ==
    \/ EventOf(d, i[1]) # i
    \/ prior[d][i, cur[d]] = ABSENT /\ rows[i, cur[d]] # ABSENT

\* Mutant of Outcome: a failed sending is recorded like a successful one.
OutcomeAlwaysSent(d) == SENT

\* The status recorded for the events of the channel.
Outcome(d) == IF sent[d] THEN SENT ELSE FAILED

\* An existing delivery whose status does not change keeps what the database
\* has by then.
Recorded(d, i) ==
    IF prior[d][i, cur[d]] = Outcome(d) THEN rows[i, cur[d]] ELSE Outcome(d)

\* The statement goes on with these rows.
Onward(d, l, rest) ==
    /\ At(d, l)
    /\ left' = [left EXCEPT ![d] = rest]
    /\ UNCHANGED <<cur, prior, todo, sent, bad>>

\* The channel has been handled.
Settle(d) ==
    /\ At(d, "deliver")
    /\ left' = [left EXCEPT ![d] = {}]
    /\ cur' = [cur EXCEPT ![d] = None]
    /\ prior' = [prior EXCEPT ![d] = NoRows]
    /\ todo' = [todo EXCEPT ![d] = @ \ {cur[d]}]
    /\ sent' = [sent EXCEPT ![d] = FALSE]
    /\ bad' = [bad EXCEPT ![d] = IF sent[d] THEN @ ELSE @ \cup {cur[d]}]

\* The flush of the deliveries, row by row: the order depends on when each event
\* occurred, which a digest sees in its own way.  What was sent by e-mail is then
\* to be marked.
RecordRow(d) ==
    /\ pc[d] = "record_write"
    /\ \E i \in left[d] :
         /\ Holders(d, i) = {}
         /\ ~RecordConflict(d, i)
         /\ mine' = [mine EXCEPT ![d][<<i, cur[d]>>] = Recorded(d, i)]
         /\ LET rest == left[d] \ {i} IN
              IF rest # {} THEN Onward(d, "record_write", rest)
              ELSE IF cur[d] = EMAIL /\ sent[d] THEN Onward(d, "mark", pending[d][EMAIL])
              ELSE Settle(d)
    /\ UNCHANGED <<settings, tables, inbox, run, seen, issues, pending, own, noted, before, others>>

RecordFails(d) ==
    /\ pc[d] = "record_write"
    /\ \E i \in left[d] : Holders(d, i) = {} /\ RecordConflict(d, i)
    /\ Fail(d)

\* mark_events_digest_sent is one UPDATE of the events that are there, row by row.
MarkRow(d) ==
    /\ pc[d] = "mark"
    /\ \E i \in left[d] :
         /\ Holders(d, i) = {}
         /\ IF EventOf(d, i[1]) = i
            THEN /\ own' = [own EXCEPT ![d][i[1]] = i]
                 /\ noted' = [noted EXCEPT ![d] = @ \cup {i}]
            ELSE UNCHANGED <<own, noted>>
         /\ IF left[d] # {i} THEN Onward(d, "mark", left[d] \ {i}) ELSE Settle(d)
    /\ UNCHANGED <<settings, tables, inbox, run, seen, issues, pending, mine, before, others>>

\* The items of the run are written from the steps, finalize_run derives the
\* run's status from them, and everything is committed.
Commit(d) ==
    /\ pc[d] = "deliver"
    /\ todo[d] = {}
    /\ events' = [k \in Keys |-> EventOf(d, k)]
    /\ marked' = marked \cup noted[d]
    /\ rows' = WithoutEvents({i \in Ids : own[d][i[1]] = None},
                             [x \in Ids \X Channels |-> StatusOf(d, x[1], x[2])])
    /\ run' = [run EXCEPT ![d] = IF bad[d] = {} THEN COMPLETED ELSE FAILED]
    /\ At(d, "done")
    /\ Forget(d)
    /\ UNCHANGED <<settings, inbox, pending, mine, before, others>>

\* The process ends before the commit; what has been sent has been sent.
Die(d) ==
    /\ Unusually
    /\ Active(d)
    /\ RollBack(d)
    /\ At(d, "dead")
    /\ UNCHANGED <<settings, tables, inbox, run, before, reports, withdrawn>>

-----------------------------------------------------------------------------
\* create_event, in a transaction of the task that met the occurrence.  A second
\* event of the day with the same key is refused by the unique key, or, for a
\* cluster, only gives the event that exists a new text.
CreateEvent ==
    /\ enabled # {}
    /\ reports < MaxReports
    /\ Unusually
    /\ withdrawn = None
    /\ \E k \in TaskKeys :
         events[k] = None /\ events' = [events EXCEPT ![k] = <<k, reports + 1>>]
    /\ reports' = reports + 1
    /\ UNCHANGED <<settings, marked, rows, inbox, run, pc, query, progress, written, before, withdrawn>>

\* The cluster has recovered: the DELETE of its undelivered event, cut like
\* that of the digest.
ClusterRecovers ==
    /\ enabled # {}
    /\ withdrawn = None
    /\ \E k \in ClusterKeys :
         events[k] # None /\ Undelivered(events[k]) /\ withdrawn' = events[k]
    /\ UNCHANGED <<settings, tables, inbox, run, pc, query, progress, written, before, reports, unusual>>

Withdraw ==
    /\ withdrawn # None
    /\ \A d \in Digests : Active(d) =>
         /\ own[d][withdrawn[1]] = Same
         /\ \A c \in Channels : mine[d][withdrawn, c] = ABSENT
    /\ IF Unmarked(withdrawn)
       THEN /\ events' = [events EXCEPT ![withdrawn[1]] = None]
            /\ rows' = WithoutEvents({withdrawn}, rows)
       ELSE UNCHANGED <<events, rows>>
    /\ withdrawn' = None
    /\ UNCHANGED <<settings, marked, inbox, run, pc, query, progress, written, before, reports, unusual>>

\* The DELETE is the victim of a deadlock with a digest.
WithdrawVictim ==
    /\ \E d \in Digests : Crosses(d, {withdrawn})
    /\ withdrawn' = None
    /\ UNCHANGED <<settings, tables, inbox, run, pc, query, progress, written, before, reports, unusual>>

-----------------------------------------------------------------------------
DigestStep(d) ==
    \/ Begin(d) \/ UpsertRead(d) \/ UpsertWrite(d) \/ UpsertFails(d)
    \/ PurgeRead(d) \/ PurgeRow(d)
    \/ ListPending(d) \/ (\E ok \in BOOLEAN : Send(d, ok))
    \/ RecordRead(d) \/ RecordRow(d) \/ RecordFails(d) \/ MarkRow(d)
    \/ Commit(d)

Terminating == (\A d \in Digests : ~Active(d)) /\ withdrawn = None /\ UNCHANGED vars

Next ==
    \/ \E d \in Digests : DigestStep(d) \/ DeadlockVictim(d) \/ Die(d)
    \/ CreateEvent \/ ClusterRecovers \/ Withdraw \/ WithdrawVictim
    \/ Terminating

Spec == Init /\ [][Next]_vars

\* A digest that has been started keeps running, and so does a DELETE; the
\* database looks for cycles of waits.
FairSpec ==
    /\ Spec
    /\ WF_vars(Withdraw) /\ WF_vars(\E d \in Digests : DeadlockVictim(d))
    /\ \A d \in Digests : WF_vars(DigestStep(d))

-----------------------------------------------------------------------------
Locations ==
    {"begin", "upsert", "upsert_write", "purge", "list", "deliver", "record", "record_write", "mark",
     "done", "dead"}

\* Every row and every local of a digest is of its kind.
TypeOK ==
    /\ enabled \in SUBSET Channels /\ recipients \in BOOLEAN /\ backupOn \in BOOLEAN
    /\ events \in [Keys -> Ids \cup {None}]
    /\ marked \in SUBSET Ids
    /\ rows \in [Ids \X Channels -> DeliveryStatus \cup {ABSENT}]
    /\ inbox \in [Channels -> SUBSET (Digests \X Ids)]
    /\ run \in [Digests -> {RUNNING, COMPLETED, FAILED}]
    /\ pc \in [Digests -> Locations]
    /\ issues \in [Digests -> SUBSET BackupKeys]
    /\ todo \in [Digests -> SUBSET (BackupKeys \cup Channels)]
    /\ cur \in [Digests -> BackupKeys \cup Channels \cup {None}]
    /\ seen \in [Digests -> Ids \cup {None}]
    /\ left \in [Digests -> SUBSET Ids]
    /\ prior \in [Digests -> [Ids \X Channels -> DeliveryStatus \cup {ABSENT}]]
    /\ pending \in [Digests -> [Channels -> SUBSET Ids]]
    /\ sent \in [Digests -> BOOLEAN]
    /\ bad \in [Digests -> SUBSET Channels]
    /\ own \in [Digests -> [Keys -> Ids \cup {None, Same}]]
    /\ mine \in [Digests -> [Ids \X Channels -> DeliveryStatus \cup {ABSENT}]]
    /\ noted \in [Digests -> SUBSET Ids]
    /\ before \in [Digests -> SUBSET Digests]
    /\ reports \in 0..MaxReports
    /\ withdrawn \in Ids \cup {None}
    /\ unusual \in 0..MaxUnusual

\* An event that counts as delivered on a channel, and so will not be listed for
\* it again, has gone out on that channel: no crash, failed sending, conflict
\* with another digest or withdrawn event makes an alert disappear unsent.
CountedIsDelivered ==
    \A i \in Ids, c \in Channels :
        rows[i, c] = SENT \/ (c = EMAIL /\ i \in marked) => \E d \in Digests : <<d, i>> \in inbox[c]

\* A digest whose run reads "completed" has itself sent every event it listed
\* on every channel it had somebody to send to.
CompletedDigestSentAll ==
    \A d \in Digests, c \in Channels :
        run[d] = COMPLETED /\ (c = EMAIL => recipients) => {d} \X pending[d][c] \subseteq inbox[c]

\* What the rows and the run say of a delivery is so (both of the above).
DeliveriesAreHonest == CountedIsDelivered /\ CompletedDigestSentAll

\* Digest f, which began before e had ended, has recorded a failure for event i on
\* channel c, over what e had recorded if that was committed first.
Overruled(e, i, c) == \E f \in Digests : run[f] # RUNNING /\ e \notin before[f] /\ mine[f][i, c] = FAILED

\* Of two digests of which one began after the other had ended, never both
\* commit the same event as sent by e-mail, nor on another channel unless a third
\* one overruled the first; in particular the digest after a crash or a
\* conflict repeats only what was not committed.
ReportedOnce ==
    \A d \in Digests : \A e \in before[d] : \A i \in Ids, c \in Channels :
        /\ run[d] # RUNNING /\ run[e] # RUNNING
        /\ mine[d][i, c] = SENT /\ mine[e][i, c] = SENT
        => c # EMAIL /\ Overruled(e, i, c)

\* An event sent by e-mail is never deleted, although the recovery of a cluster
\* or of a backup may have chosen it for deletion before it was sent.
EmailedIsKept ==
    [][\A k \in Keys : events[k] \in marked => events'[k] = events[k]]_vars

\* All digests that are not lost end, although they wait for each other's rows
\* and can do so in a circle: one that writes the backup issues in the order of the
\* instances meets one that deletes, or marks as sent, the same events.
DigestsEnd == <>(\A d \in Digests : ~Active(d))
=============================================================================
