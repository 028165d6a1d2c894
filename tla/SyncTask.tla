------------------------------ MODULE SyncTask ------------------------------
(***************************************************************************)
(* What the tasks that keep a sync session have in common (sync_accounts,  *)
(* sync_databases and calculate_database): the task run of TaskThread with *)
(* an item per instance, one sync session with a record per instance, and  *)
(* requests that cancel the session in the session history.                *)
(*                                                                         *)
(* The window that lasts is the one around the work on an instance: two of *)
(* the tasks load the session row before it and write its statistics       *)
(* after it.                                                               *)
(***************************************************************************)
EXTENDS TaskThread

-----------------------------------------------------------------------------
(* The operations of SyncSessionService and of its two models, as functions *)
(* on the rows they touch: one sync_sessions row and the                    *)
(* sync_instance_records rows of its instances.  Like the service, they say *)
(* nothing of transactions: the tasks that call them commit.                *)

\* What the sync_sessions row says; ABSENT before create_session.
SyncSession == [status : SyncSessionStatus \cup {ABSENT}, total_instances : Nat,
                successful_instances : Nat, failed_instances : Nat]

NoSession == [status |-> ABSENT, total_instances |-> 0,
              successful_instances |-> 0, failed_instances |-> 0]

\* create_session, and the total the task writes before it commits.
create_session(total) == [status |-> RUNNING, total_instances |-> total,
                          successful_instances |-> 0, failed_instances |-> 0]

\* add_instance_records: one pending record for each instance of the task.
add_instance_records(recs, insts) ==
    [i \in DOMAIN recs |-> IF i \in insts THEN PENDING ELSE recs[i]]

\* The records of a session in one of the statuses S.
RecordsIn(recs, S) == {i \in DOMAIN recs : recs[i] \in S}

\* update_statistics: the counters always, the status only of a session that is
\* still running and whose instances are all accounted for.
update_statistics(sess, ok, bad) ==
    [status |-> IF sess.status \in SESSION_TERMINAL \/ ok + bad # sess.total_instances
                THEN sess.status
                ELSE IF bad > 0 THEN FAILED ELSE COMPLETED,
     total_instances |-> sess.total_instances,
     successful_instances |-> ok, failed_instances |-> bad]

\* _update_session_statistics: recount the records of the session.
update_session_statistics(sess, recs) ==
    update_statistics(sess, Cardinality(RecordsIn(recs, {COMPLETED})),
                            Cardinality(RecordsIn(recs, {FAILED})))

\* start_instance_sync touches the record only; complete_instance_sync and
\* fail_instance_sync also recount.  st holds the records and the session.
start_instance_sync(recs, i) == [recs EXCEPT ![i] = RUNNING]

\* Mutant of SetRecord: the recount runs before the record's change is flushed.
SetRecordUnflushed(st, i, status) ==
    [recs |-> [st.recs EXCEPT ![i] = status],
     sess |-> update_session_statistics(st.sess, st.recs)]

\* A record gets its outcome, then the session is recounted.
SetRecord(st, i, status) ==
    LET recs == [st.recs EXCEPT ![i] = status]
    IN  [recs |-> recs, sess |-> update_session_statistics(st.sess, recs)]

complete_instance_sync(st, i) == SetRecord(st, i, COMPLETED)
fail_instance_sync(st, i) == SetRecord(st, i, FAILED)

\* The column-wise UPDATE of a session row: a column is written when it differs
\* from the value that was loaded.
UpdateSession(db, loaded, mine) ==
    [status |-> IF mine.status # loaded.status THEN mine.status ELSE db.status,
     total_instances |-> db.total_instances,
     successful_instances |-> IF mine.successful_instances # loaded.successful_instances
                              THEN mine.successful_instances ELSE db.successful_instances,
     failed_instances |-> IF mine.failed_instances # loaded.failed_instances
                          THEN mine.failed_instances ELSE db.failed_instances]

-----------------------------------------------------------------------------
(* The tasks                                                                *)

CONSTANTS
    Instances,      \* database instances
    SessionCancels  \* requests that cancel the session

ASSUME InstancesAreKeys == Instances \subseteq ItemKeys

VARIABLES
    sess, recs,     \* committed rows
    sessSeen,       \* the session as the task has loaded it
    spc             \* session cancel requests: location

session == <<sess, recs, sessSeen, spc>>
vars == <<threadVars, session>>

insts == keys \cap Instances

-----------------------------------------------------------------------------
TaskInit ==
    /\ ThreadInit({})
    /\ sess = NoSession
    /\ recs = [i \in Instances |-> ABSENT]
    /\ sessSeen = NoSession
    /\ spc = [s \in SessionCancels |-> "read"]

\* The session and its records, in one transaction.
CreateSession ==
    /\ BeginLoop("create_session", insts, "loop")
    /\ sess' = create_session(Cardinality(insts))
    /\ recs' = add_instance_records(recs, insts)
    /\ UNCHANGED <<sessSeen, spc>>

\* The loop over the instances asks is_cancelled before each of them and ends
\* early, at location after, when the run has been cancelled.
LoopNext ==
    /\ run.status # CANCELLED
    /\ TakeNext("loop", "start_read")
    /\ UNCHANGED session

LoopExit(after) ==
    /\ todo = {} \/ run.status = CANCELLED
    /\ Goto("loop", after)
    /\ UNCHANGED session

\* start_item of the current instance: the read, then the commit.
StartRead ==
    /\ pc = "start_read"
    /\ LoadItem("start_read", start_item(items[cur]), "start_commit")
    /\ UNCHANGED session

StartCommit == CommitItems("start_commit", "start_record") /\ UNCHANGED session

\* start_instance_sync and its commit; in two of the tasks the next transaction
\* begins by loading the session row, which stays in the ORM session during the
\* work on the instance.
StartRecord ==
    /\ Goto("start_record", "sync")
    /\ recs' = start_instance_sync(recs, cur)
    /\ sessSeen' = sess
    /\ UNCHANGED <<sess, spc>>

\* The end of the work on an instance: st is what the session operations made
\* of the records and of the session as it was loaded, ok the outcome counted.
FinishInstance(st, seen, ok) ==
    /\ pc = "sync"
    /\ pc' = "item_read"
    /\ recs' = st.recs
    /\ sess' = UpdateSession(sess, seen, st.sess)
    /\ synced' = synced + (IF ok THEN 1 ELSE 0)
    /\ failed' = failed + (IF ok THEN 0 ELSE 1)
    /\ UNCHANGED <<plan, runRows, focus, runSeen, stage, cancels, sessSeen, spc>>

\* Mutant of ItemRead: the item is completed whatever the record shows.
ItemReadBlind ==
    /\ pc = "item_read"
    /\ LoadItem("item_read", complete_item(items[cur]), "item_commit")
    /\ UNCHANGED session

\* complete_item or fail_item after the instance, from the outcome its record
\* shows: the read, then the commit.
ItemRead ==
    /\ pc = "item_read"
    /\ LoadItem("item_read", Outcome(recs[cur] = COMPLETED, items[cur]), "item_commit")
    /\ UNCHANGED session

ItemCommit == CommitItems("item_commit", "loop") /\ UNCHANGED session

-----------------------------------------------------------------------------
\* The session row with the totals of the task and a final status.
ClosedSession(status) ==
    [status |-> status, total_instances |-> sess.total_instances,
     successful_instances |-> synced, failed_instances |-> failed]

FinishSession ==
    /\ Goto("finish_session", "final_read")
    /\ sess' = ClosedSession(IF failed = 0 THEN COMPLETED ELSE FAILED)
    /\ UNCHANGED <<recs, sessSeen, spc>>

\* finalize_run_with_summary and its commit.
FinishRun ==
    /\ FinalRead("final_read", "final_commit") \/ FinalCommit("final_commit", NoOverride)
    /\ UNCHANGED session

-----------------------------------------------------------------------------
\* Mutant of FailSession: the handler ends without failing the run.
FailSessionOnly ==
    /\ CommitItems("fail_session", "done")
    /\ sess' = IF sess.status = ABSENT THEN sess
               ELSE [status |-> FAILED, total_instances |-> sess.total_instances,
                     successful_instances |-> sess.successful_instances,
                     failed_instances |-> Cardinality(insts)]
    /\ UNCHANGED <<recs, sessSeen, spc>>

\* The handler of sync_accounts and sync_databases fails the session, if there
\* is one, and counts every instance of the task as failed.  The commit also
\* sends pending item changes.
FailSession ==
    /\ CommitItems("fail_session", "mark_read")
    /\ sess' = IF sess.status = ABSENT THEN sess
               ELSE [status |-> FAILED, total_instances |-> sess.total_instances,
                     successful_instances |-> sess.successful_instances,
                     failed_instances |-> Cardinality(insts)]
    /\ UNCHANGED <<recs, sessSeen, spc>>

\* Then the run is marked as failed.
FailRun(after) ==
    /\ MarkRead("mark_read", after) \/ MarkCommit(after)
    /\ UNCHANGED session

TaskDies == Die /\ UNCHANGED session

-----------------------------------------------------------------------------
RunCancel(c) == RunCancelStep(c) /\ UNCHANGED session

\* cancel_session: the status is checked when it is read, and written later.
SessionCancelRead(s) ==
    /\ spc[s] = "read"
    /\ spc' = [spc EXCEPT ![s] = IF sess.status = RUNNING THEN "write" ELSE "refused"]
    /\ UNCHANGED <<threadVars, sess, recs, sessSeen>>

SessionCancelWrite(s) ==
    /\ spc[s] = "write"
    /\ sess' = [sess EXCEPT !.status = CANCELLED]
    /\ spc' = [spc EXCEPT ![s] = "done"]
    /\ UNCHANGED <<threadVars, recs, sessSeen>>

SessionCancelStep(s) == SessionCancelRead(s) \/ SessionCancelWrite(s)

CommonStep ==
    \/ InitItems("init_items", "create_session") /\ UNCHANGED session
    \/ CreateSession
    \/ LoopNext \/ StartRead \/ StartCommit \/ StartRecord
    \/ ItemRead \/ ItemCommit
    \/ FinishSession \/ FinishRun

Request == (\E c \in RunCancels : RunCancel(c)) \/ (\E s \in SessionCancels : SessionCancelStep(s))

\* Nobody has a step left.
Finished ==
    /\ pc \in {"done", "dead"}
    /\ CancelsFinished
    /\ \A s \in SessionCancels : spc[s] \in {"refused", "done"}

Terminating == Finished /\ UNCHANGED vars

\* A request that has begun is served; none needs to arrive.
RequestFairness ==
    /\ \A c \in RunCancels : WF_vars((CancelFlush(c) \/ CancelCommit(c)) /\ UNCHANGED session)
    /\ \A s \in SessionCancels : WF_vars(SessionCancelWrite(s))

-----------------------------------------------------------------------------
\* Every row and every local of the task is of its kind.
TypeOK ==
    /\ ThreadTypeOK
    /\ sess \in SyncSession /\ sessSeen \in SyncSession
    /\ recs \in [Instances -> SyncStatus \cup {ABSENT}]
    /\ spc \in [SessionCancels -> {"read", "write", "refused", "done"}]

\* A run that reads "completed" is backed by the session's side of the books:
\* every item completed, every instance's record completed, and a session that
\* counts them all, even if cancel_session wrote its status last.
CompletedRunIsBacked ==
    run.status = COMPLETED =>
        /\ \A i \in DOMAIN items : items[i] \in {ABSENT, COMPLETED}
        /\ \A i \in Instances : recs[i] \in {ABSENT, COMPLETED}
        /\ sess # NoSession => /\ sess.status \in {COMPLETED, CANCELLED}
                               /\ sess.successful_instances = Cardinality(insts)
                               /\ sess.failed_instances = 0

\* A run in a final status agrees with its items and its session, whichever
\* way it got there (CompletedRunIsBacked and TaskThread's ClosedRunCounts).
ClosedRunAgrees == CompletedRunIsBacked /\ ClosedRunCounts

\* The counters of a session are the numbers of its completed and of its failed
\* records, through statistics written from a session row that was loaded
\* before the remote work and through the totals the task writes at the end;
\* only the task's failure handler replaces the second by all its instances.
SessionCountsRecords ==
    /\ sess.successful_instances = Cardinality(RecordsIn(recs, {COMPLETED}))
    /\ sess.failed_instances \in {Cardinality(RecordsIn(recs, {FAILED})), Cardinality(insts)}

\* When everybody has finished and the task was not lost, a session that reads
\* "completed" has no failed record.
CompletedSessionHasNoFailure ==
    Finished /\ pc = "done" /\ sess.status = COMPLETED => RecordsIn(recs, {FAILED}) = {}

\* Both: a session says what its records say.
SessionAgrees == SessionCountsRecords /\ CompletedSessionHasNoFailure

\* If the task is not lost, run and session leave "running" for good, also when
\* an exception ends the task or the run is cancelled half-way.  The one way
\* out: calculate_database leaves its session alone when the run is cancelled.
RunAndSessionEnd ==
    <>[](\/ pc = "dead"
         \/ /\ run.status \in TERMINAL
            /\ \/ sess.status # RUNNING
               \/ task = "calculate_database" /\ run.status = CANCELLED)

\* update_statistics' comment: a session that has ended keeps its status when
\* the statistics of an instance are written.
StatisticsKeepEndedStatus ==
    [][recs' # recs /\ sess.status \in SESSION_TERMINAL => sess'.status = sess.status]_vars
=============================================================================
