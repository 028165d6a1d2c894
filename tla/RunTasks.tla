------------------------------ MODULE RunTasks ------------------------------
(***************************************************************************)
(* The tasks without a sync session, each on a run of its own, and the     *)
(* requests that cancel that run.                                          *)
(***************************************************************************)
EXTENDS ServerSyncs, StatisticsTasks

\* The keys: every subject in every stage.
Keys == Subjects \X (1..LastStage)

PlainTasks == {"sync_cluster_status", "sync_ad_accounts", "capacity_aggregate_current", "calculate_account"}

Init ==
    /\ EffectInit
    /\ \/ task \in PlainTasks /\ keys \in SUBSET PlainKeys /\ ThreadInit({})
       \/ task = "sync_jumpserver_assets" /\ JumpServerInit
       \/ task = "sync_veeam_backups" /\ VeeamInit

TaskStep ==
    \/ task = "sync_cluster_status" /\ ClusterStep
    \/ task = "sync_ad_accounts" /\ ADStep
    \/ task = "sync_jumpserver_assets" /\ JumpServerStep
    \/ task = "sync_veeam_backups" /\ VeeamStep
    \/ task = "capacity_aggregate_current" /\ CurrentStep
    \/ task = "calculate_account" /\ DailyStep

TaskRaises ==
    \/ task = "sync_cluster_status" /\ ClusterRaises
    \/ task = "sync_ad_accounts" /\ ADEscapes
    \/ task = "sync_jumpserver_assets" /\ JumpServerRaises
    \/ task = "sync_veeam_backups" /\ VeeamRaises
    \/ task = "capacity_aggregate_current" /\ CurrentRaises
    \/ task = "calculate_account" /\ DailyRaises

TaskDies == Die /\ UNCHANGED effects

Request(c) == (RunCancelStep(c) \/ CancelAborts(c)) /\ UNCHANGED effects

\* Nobody has a step left.
Terminating == pc \in {"done", "dead", "escaped"} /\ CancelsFinished /\ UNCHANGED vars

Next == TaskStep \/ TaskRaises \/ TaskDies \/ (\E c \in RunCancels : Request(c)) \/ Terminating

Spec == Init /\ [][Next]_vars

\* The thread keeps running, and a request that has begun is served.
FairSpec ==
    /\ Spec
    /\ WF_vars(TaskStep)
    /\ \A c \in RunCancels : WF_vars((CancelFlush(c) \/ CancelCommit(c) \/ CancelAborts(c)) /\ UNCHANGED effects)

-----------------------------------------------------------------------------
\* Every row and every local of the thread is of its kind.
TypeOK ==
    /\ ThreadTypeOK
    /\ task \in PlainTasks \cup {"sync_jumpserver_assets", "sync_veeam_backups"}
    /\ effect \in [ItemKeys -> {"none", "skipped", COMPLETED, FAILED}]
    /\ verdict \in {"none", COMPLETED, FAILED}

\* A run the task has closed counts exactly its items, and an item is open in
\* it only if the thread never came to it: an instance its runners did not list
\* any more, a source switched off or without a credential.
ClosedRunAccounts ==
    run.status \in {COMPLETED, COMPLETED_WITH_ERRORS, FAILED} =>
        /\ \A k \in ItemsIn(items, IN_PROGRESS) : effect[k] = "skipped"
        /\ run.progress_completed = Cardinality(ItemsIn(items, {COMPLETED}))
        /\ run.progress_failed = Cardinality(ItemsIn(items, {FAILED, CANCELLED}))

\* The keys whose item and effect are committed together.
PairedKeys == {k \in keys \cap PlainKeys : task # "calculate_account"}

\* Whatever the moment at which the process dies or the run is cancelled, an
\* item that reads "completed" has its effect in the database and an item that
\* the task has failed has not.
EffectBacksItem ==
    \A k \in PairedKeys :
        /\ items[k] = COMPLETED => effect[k] = COMPLETED
        /\ effect[k] = COMPLETED => items[k] # FAILED

\* What the final status says was done: all of it, a part of it, and for Veeam
\* at least one source.  A failed run leaves no account statistics behind,
\* unless a request cancelled its items between the read of the run and the
\* commit that carries the statistics.
StatusTellsEffects ==
    LET worked == {k \in keys \cap PlainKeys : effect[k] # "skipped"}
        did == {k \in worked : effect[k] = COMPLETED}
    IN  /\ run.status = COMPLETED => did = worked \/ (task = "sync_veeam_backups" /\ did # {})
        /\ run.status = COMPLETED_WITH_ERRORS => did # {} /\ did # worked
        /\ run.status = FAILED /\ task = "calculate_account" =>
               did = {} \/ ItemsIn(items, {CANCELLED}) # {}

\* The design of the AD synchronisation: an error of the database while a
\* domain is matched rolls back and fails the domain.
DatabaseErrorFailsDomain ==
    pc = "escaped" /\ task = "sync_ad_accounts" /\ cur # NoKey => items[cur] \in TERMINAL

\* A task that is not lost closes its run, or leaves it to a request that does,
\* unless an exception escaped it.
RunEnds == <>[](pc \in {"dead", "escaped"} \/ run.status \in TERMINAL)

-----------------------------------------------------------------------------
\* Where the task is about to write the status of the run it has read.
AtWrite == {"final_commit", "mark_commit", "js_close", "vb_close", "vb_final_commit",
            "cur_final_commit", "dl_rule_failed", "dl_final_commit"}

\* The writers of the status that have read "running".
Holding ==
    {c \in RunCancels : cpc[c] \in {"flush", "commit"}} \cup
    {w \in {Thread} : pc \in AtWrite /\ runSeen.status = RUNNING
                      /\ ~(pc = "vb_close" /\ cur[1] # Only)}

Centre == INSTANCE TaskRunCentre WITH
    Writers <- RunCancels \cup {Thread}, Task <- Thread,
    status <- run.status, holding <- Holding

\* All tasks and requests together treat the status of a run as TaskRunCentre
\* promises.
KeepsPromise == Centre!Spec
=============================================================================
