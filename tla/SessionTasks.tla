---------------------------- MODULE SessionTasks ----------------------------
(***************************************************************************)
(* The three tasks that keep a sync session, each on a run of its own:     *)
(* sync_accounts, sync_databases and calculate_database.                   *)
(***************************************************************************)
EXTENDS SyncTask

-----------------------------------------------------------------------------
\* The sync_accounts task: the accounts of every active instance are
\* synchronised one instance after the other, then the contained
\* availability groups of the SQL Server clusters those instances belong
\* to.  A cluster has an item of the run and no record in the session.

clusters == keys \ Instances

\* Clusters are found through the instances of the run.
AccountsInit == insts = {} => clusters = {}

\* is_cancelled, then the list of active instances: a cancelled run is left as
\* it is, and without instances there is only the run to finalise.
CheckStart ==
    /\ Goto("launched", IF run.status = CANCELLED THEN "done"
                        ELSE IF insts = {} THEN "final_read" ELSE "init_items")
    /\ UNCHANGED session

\* The rows as the transaction of the current instance has loaded them.
Loaded == [recs |-> recs, sess |-> sessSeen]

\* _sync_single_instance: the coordinator succeeds, or raises an error that is
\* turned into a failed record.
SyncInstance(ok) ==
    FinishInstance(IF ok THEN complete_instance_sync(Loaded, cur) ELSE fail_instance_sync(Loaded, cur),
                   sessSeen, ok)

\* The coordinator succeeds and the alerts about its privileged accounts raise
\* an error: the record is completed and failed in one transaction.
AlertsFail ==
    FinishInstance(fail_instance_sync(complete_instance_sync(Loaded, cur), cur), sessSeen, FALSE)

\* is_cancelled once more, before the clusters; never between them.
AgCheck ==
    /\ IF run.status = CANCELLED THEN Goto("ag_check", "finish_session")
       ELSE BeginLoop("ag_check", clusters, "ag_loop")
    /\ UNCHANGED session

\* start_item of the next cluster: the read, then the commit.
AgStart ==
    /\ \/ TakeNext("ag_loop", "ag_start")
       \/ pc = "ag_start" /\ LoadItem("ag_start", start_item(items[cur]), "ag_start_commit")
       \/ CommitItems("ag_start_commit", "ag_sync")
    /\ UNCHANGED session

\* The cluster's groups are synchronised, and complete_item or fail_item loads
\* its item; then the commit.
AgSync(ok) ==
    /\ pc = "ag_sync"
    /\ LoadItem("ag_sync", Outcome(ok, items[cur]), "ag_commit")
    /\ UNCHANGED session

AgCommit == CommitItems("ag_commit", "ag_loop") /\ UNCHANGED session

AgDone == todo = {} /\ Goto("ag_loop", "finish_session") /\ UNCHANGED session

\* Where an exception can leave the try block with a usable transaction: the
\* handler does not roll back, so what the transaction holds is committed.
AccountsGuarded ==
    {"launched", "init_items", "create_session", "loop", "start_read", "start_record",
     "sync", "item_read", "item_commit", "ag_check", "ag_loop", "ag_start", "ag_sync",
     "finish_session", "final_read"}

AccountsRaises == Raise(AccountsGuarded, stage, "fail_session") /\ UNCHANGED session

\* The session has been inserted and its records cannot be: the handler commits
\* the session with a total of 0 that counts every instance as failed.
RecordsFail ==
    /\ MayRaise
    /\ Goto("create_session", "mark_read")
    /\ sess' = [status |-> FAILED, total_instances |-> 0,
                successful_instances |-> 0, failed_instances |-> Cardinality(insts)]
    /\ UNCHANGED <<recs, sessSeen, spc>>

AccountsStep ==
    \/ CheckStart
    \/ LoopExit("ag_check")
    \/ \E ok \in BOOLEAN : SyncInstance(ok) \/ AgSync(ok)
    \/ AlertsFail
    \/ AgCheck \/ AgStart \/ AgCommit \/ AgDone
    \/ FailSession \/ FailRun("done")

-----------------------------------------------------------------------------
\* The sync_databases task: for every active instance the list of
\* databases is synchronised and their sizes are collected.  The record of
\* an instance is completed after the first of the two and completed or
\* failed again after the second, in one transaction.

\* is_cancelled, then the list of active instances.
CollectionStart ==
    /\ Goto("launched", IF run.status = CANCELLED THEN "done"
                        ELSE IF insts = {} THEN "final_read" ELSE "init_items")
    /\ UNCHANGED session

\* No connection, or an error before the list of databases is stored.
Unreachable == FinishInstance(fail_instance_sync(Loaded, cur), sessSeen, FALSE)

\* The list is stored and, unless it is empty, so are the sizes.
Collected ==
    FinishInstance(complete_instance_sync(complete_instance_sync(Loaded, cur), cur), sessSeen, TRUE)

\* The list is stored, no size can be collected or an error follows.
OnlyInventory ==
    FinishInstance(fail_instance_sync(complete_instance_sync(Loaded, cur), cur), sessSeen, FALSE)

\* An error nobody expects rolls the transaction back; the record is failed in
\* a new one, which loads the session again.
Fallback ==
    FinishInstance(fail_instance_sync([recs |-> recs, sess |-> sess], cur), sess, FALSE)

\* Where an exception can leave the try block; the handler rolls back first.
CollectionGuarded ==
    {"launched", "init_items", "create_session", "loop", "start_read", "start_commit",
     "start_record", "sync", "item_read", "item_commit", "finish_session",
     "final_read", "final_commit"}

CollectionRaises == Raise(CollectionGuarded, NoChange, "fail_session") /\ UNCHANGED session

CollectionStep ==
    \/ CollectionStart
    \/ LoopExit("finish_session")
    \/ Unreachable \/ Collected \/ OnlyInventory \/ Fallback
    \/ FailSession \/ FailRun("done")

-----------------------------------------------------------------------------
\* The calculate_database task: the capacity statistics of every active
\* instance are aggregated over the periods that are due.  Unlike the
\* other tasks with a session it reads the session row only after the work
\* on an instance, stops without touching the session when the run is
\* cancelled, and fails the run before the session.

\* is_cancelled, then _prepare_aggregation_run: the run is skipped, that is
\* finalised without items, when aggregation is disabled, when no instance is
\* active and when no period is left to aggregate.
AggStart(skip) ==
    /\ Goto("launched", IF run.status = CANCELLED THEN "done"
                        ELSE IF skip \/ insts = {} THEN "final_read" ELSE "init_items")
    /\ UNCHANGED session

\* calculate_instance_aggregation never raises; the instance succeeds when none
\* of its periods failed.
AggInstance(ok) ==
    LET st == [recs |-> recs, sess |-> sess]
    IN  FinishInstance(IF ok THEN complete_instance_sync(st, cur) ELSE fail_instance_sync(st, cur),
                       sess, ok)

\* is_cancelled after the loop: a cancelled run is only recounted.
AggCheck ==
    /\ CheckCancelled("agg_check", "agg_recount", "finish_session")
    /\ UNCHANGED session

AggRecount == RecountCancelled("agg_recount") /\ UNCHANGED session

\* An exception leaves the try block; the handler rolls back.  Records that were
\* started and not finalised are remembered: a record counts as started, and as
\* finalised, just before the commit that makes it so.
AggGuarded ==
    {"launched", "init_items", "create_session", "loop", "start_read", "start_commit",
     "start_record", "sync", "item_read", "item_commit", "agg_check", "agg_recount",
     "finish_session", "final_read", "final_commit"}

AggRaises ==
    /\ MayRaise
    /\ pc \in AggGuarded
    /\ todo' \in SUBSET (IF pc \in {"start_record", "sync"} THEN {cur} ELSE {})
    /\ stage' = NoChange
    /\ pc' = "mark_read"
    /\ UNCHANGED <<plan, runRows, cur, runSeen, totals, cancels, session>>

\* The handler fails what was left over, then the session if it was created.
AggFailSession ==
    LET rows == [recs |-> recs, sess |-> sess]
        st == IF todo = {} THEN rows ELSE fail_instance_sync(rows, cur)
    IN  /\ Goto("agg_fail_session", "done")
        /\ recs' = st.recs
        /\ sess' = IF sess = NoSession THEN sess ELSE [st.sess EXCEPT !.status = FAILED]
        /\ UNCHANGED <<sessSeen, spc>>

AggStep ==
    \/ \E skip \in BOOLEAN : AggStart(skip)
    \/ \E ok \in BOOLEAN : AggInstance(ok)
    \/ LoopExit("agg_check")
    \/ AggCheck \/ AggRecount
    \/ FailRun("agg_fail_session") \/ AggFailSession

-----------------------------------------------------------------------------
\* One of the three, with the requests beside it.
Init ==
    /\ task \in {"sync_accounts", "sync_databases", "calculate_database"}
    /\ keys \in SUBSET ItemKeys
    /\ IF task = "sync_accounts" THEN AccountsInit ELSE keys \subseteq Instances
    /\ TaskInit

TaskStep ==
    \/ CommonStep
    \/ task = "sync_accounts" /\ AccountsStep
    \/ task = "sync_databases" /\ CollectionStep
    \/ task = "calculate_database" /\ AggStep

TaskRaises ==
    \/ task = "sync_accounts" /\ (AccountsRaises \/ RecordsFail)
    \/ task = "sync_databases" /\ CollectionRaises
    \/ task = "calculate_database" /\ AggRaises

Next == TaskStep \/ TaskRaises \/ TaskDies \/ Request \/ Terminating

Spec == Init /\ [][Next]_vars

\* The scheduler keeps running the task's thread.
FairSpec == Spec /\ WF_vars(TaskStep) /\ RequestFairness

-----------------------------------------------------------------------------
\* Where the task is about to write the status of the run it has read.
AtWrite == {"final_commit", "mark_commit"}

\* The writers of the status that have read "running".
Holding ==
    {c \in RunCancels : cpc[c] \in {"flush", "commit"}} \cup
    {w \in {Thread} : pc \in AtWrite /\ runSeen.status = RUNNING}

Centre == INSTANCE TaskRunCentre WITH
    Writers <- RunCancels \cup {Thread}, Task <- Thread,
    status <- run.status, holding <- Holding

\* The three tasks and the requests beside them treat the status of the run as
\* TaskRunCentre promises, whatever becomes of the session.
KeepsPromise == Centre!Spec
=============================================================================
