---------------------------- MODULE AutoClassify ----------------------------
(***************************************************************************)
(* One manual auto-classification run and the requests that try to cancel  *)
(* it: the background thread that executes auto_classify_accounts, and any *)
(* number of POST /task-runs/<id>/actions/cancel requests.                 *)
(*                                                                         *)
(* Every process works in database transactions at READ COMMITTED through  *)
(* an ORM session.  A step of the model is what happens between two        *)
(* statements at which another process can get in: a read that loads rows  *)
(* into the session, a flush that sends the changed columns and takes row  *)
(* locks, and the commit that publishes them.  A process that needs a row  *)
(* lock held by another one waits, and the database aborts one of the two  *)
(* when they wait for each other.                                          *)
(***************************************************************************)
EXTENDS TaskRunsWriteService

CONSTANTS
    Rules,       \* classification rules
    Accounts,    \* account permission rows
    Classes,     \* account classifications
    Class,       \* Class[r]: the classification rule r assigns
    Match,       \* Match[r]: the accounts whose facts satisfy r's expression
    Cancellers,  \* cancel requests
    Worker,      \* the background thread
    NoOne,       \* no process
    MayDie,      \* may the thread end by an exception nothing handles?
    MayLoseWrite \* may upsert_assignments run into a database error?

ASSUME RulesFinite == IsFiniteSet(Rules)
ASSUME RuleEffects == Class \in [Rules -> Classes] /\ Match \in [Rules -> SUBSET Accounts]
ASSUME ProcessesDiffer == Worker \notin Cancellers /\ NoOne \notin Cancellers \cup {Worker}
ASSUME SwitchesAreBoolean == MayDie \in BOOLEAN /\ MayLoseWrite \in BOOLEAN

VARIABLES
    \* the inputs of the run: active rules, active accounts of its scope, and
    \* whether it was started for all accounts or for a narrower scope
    rules, accts, full,
    \* committed rows
    run, items, assigned,
    \* row locks: the holder of the run's lock, the items the thread has locked
    runLock, held,
    \* the thread: location, rules left, current rule, the run as loaded and as
    \* changed in its session, the items as it changed them and which of them
    pc, todo, cur, loaded, mine, witems, dirty,
    \* the requests: location, items as loaded
    cpc, csnap

inputs == <<rules, accts, full>>
session == <<loaded, mine, witems, dirty>>
thread == <<pc, todo, cur, session>>
requests == <<cpc, csnap>>
vars == <<inputs, run, items, assigned, runLock, held, thread, requests>>

ItemStatus == TaskRunStatus \cup {ABSENT}

\* The assignment rows a rule writes for the accounts of this run.
RuleRows(r) == {<<a, Class[r]>> : a \in Match[r] \cap accts}

\* The items as the thread's own transaction sees them.
View == [i \in Rules |-> IF i \in dirty THEN witems[i] ELSE items[i]]

-----------------------------------------------------------------------------
\* prepare_background_auto_classify has committed the run row and the thread
\* has been launched; older runs may have left assignments of any accounts.
Init ==
    /\ rules \in SUBSET Rules
    /\ accts \in SUBSET Accounts
    /\ full \in BOOLEAN
    /\ run = start_run
    /\ items = [i \in Rules |-> ABSENT]
    /\ assigned \in SUBSET (Accounts \X Classes)
    /\ runLock = NoOne
    /\ held = {}
    /\ pc = "launched"
    /\ todo = rules
    /\ cur = NoOne
    /\ loaded = start_run
    /\ mine = start_run
    /\ witems = items
    /\ dirty = {}
    /\ cpc = [c \in Cancellers |-> "read"]
    /\ csnap = [c \in Cancellers |-> items]

\* is_cancelled before any work: a run cancelled in time is left as it is.
CheckStart ==
    /\ pc = "launched"
    /\ pc' = IF run.status = CANCELLED THEN "done" ELSE "fetched"
    /\ UNCHANGED <<inputs, run, items, assigned, runLock, held, todo, cur, session, requests>>

\* No active rule: the run goes straight to mark_run_failed.
NoRules ==
    /\ pc = "fetched"
    /\ rules = {}
    /\ pc' = "mark_read"
    /\ UNCHANGED <<inputs, run, items, assigned, runLock, held, todo, cur, session, requests>>

\* init_items and its commit, which updates the run row and so needs its lock.
InitItems ==
    /\ pc = "fetched"
    /\ rules # {}
    /\ runLock = NoOne
    /\ items' = init_items(items, rules)
    /\ run' = [run EXCEPT !.progress_total = Cardinality(rules)]
    /\ pc' = IF accts = {} THEN "skip_read" ELSE "cleanup"
    /\ UNCHANGED <<inputs, assigned, runLock, held, todo, cur, session, requests>>

\* Mutant of Cleanup: a run for a narrower scope skips the cleanup.
CleanupFullOnly ==
    /\ pc = "cleanup"
    /\ assigned' = IF full THEN {} ELSE assigned
    /\ pc' = "loop"
    /\ UNCHANGED <<inputs, run, items, runLock, held, todo, cur, session, requests>>

\* _cleanup_assignments_for_run, committed before any rule is evaluated.
Cleanup ==
    /\ pc = "cleanup"
    /\ assigned' = IF full THEN {} ELSE {p \in assigned : p[1] \notin accts}
    /\ pc' = "loop"
    /\ UNCHANGED <<inputs, run, items, runLock, held, todo, cur, session, requests>>

\* Load an item into the session and keep the status an operation gives it;
\* the change is sent only at the next flush.
StageItem(i, st) ==
    /\ witems' = [witems EXCEPT ![i] = st]
    /\ dirty' = IF st # items[i] THEN dirty \cup {i} ELSE dirty

\* Write the staged items to the table.
PublishItems == items' = View

-----------------------------------------------------------------------------
\* No account in scope: every rule is started and completed without work, in
\* the same transaction as the finalisation that follows.
SkipRead ==
    /\ pc = "skip_read"
    /\ witems' = [i \in Rules |-> IF i \in rules THEN complete_item(start_item(items[i]))
                                  ELSE items[i]]
    /\ dirty' = {i \in Rules : witems'[i] # items[i]}
    /\ pc' = "skip_flush"
    /\ UNCHANGED <<inputs, run, items, assigned, runLock, held, todo, cur, loaded, mine, requests>>

\* The next query flushes the staged items and so locks their rows.
SkipFlush ==
    /\ pc = "skip_flush"
    /\ held' = dirty
    /\ pc' = "final_read"
    /\ UNCHANGED <<inputs, run, items, assigned, runLock, todo, cur, session, requests>>

-----------------------------------------------------------------------------
\* The head of the rule loop asks is_cancelled before each rule.
LoopNext ==
    /\ pc = "loop"
    /\ todo # {}
    /\ run.status # CANCELLED
    /\ cur' \in todo
    /\ pc' = "start_read"
    /\ UNCHANGED <<inputs, run, items, assigned, runLock, held, todo, session, requests>>

\* A cancelled run is recounted by finalize_run and the thread returns.
LoopCancelled ==
    /\ pc = "loop"
    /\ todo # {}
    /\ run.status = CANCELLED
    /\ loaded' = run
    /\ mine' = finalize_run(run, items)
    /\ pc' = "commit"
    /\ UNCHANGED <<inputs, run, items, assigned, runLock, held, todo, cur, witems, dirty, requests>>

LoopEnd ==
    /\ pc = "loop"
    /\ todo = {}
    /\ pc' = "final_read"
    /\ UNCHANGED <<inputs, run, items, assigned, runLock, held, todo, cur, session, requests>>

\* start_item of the current rule: the read, then the commit.
StartRead ==
    /\ pc = "start_read"
    /\ StageItem(cur, start_item(items[cur]))
    /\ pc' = "start_commit"
    /\ UNCHANGED <<inputs, run, items, assigned, runLock, held, todo, cur, loaded, mine, requests>>

StartCommit ==
    /\ pc = "start_commit"
    /\ PublishItems
    /\ dirty' = {}
    /\ pc' = "process"
    /\ UNCHANGED <<inputs, run, assigned, runLock, held, todo, cur, loaded, mine, witems, requests>>

\* _process_rule succeeds and complete_item loads the item.
ProcessRule ==
    /\ pc = "process"
    /\ StageItem(cur, complete_item(items[cur]))
    /\ pc' = "complete_commit"
    /\ UNCHANGED <<inputs, run, items, assigned, runLock, held, todo, cur, loaded, mine, requests>>

\* The rule's assignments and its item are committed together.  With rows TRUE
\* upsert_assignments wrote its rows; with rows FALSE it met a database error,
\* rolled its savepoint back and returned 0 like a rule without matches.
CompleteCommit(rows) ==
    /\ pc = "complete_commit"
    /\ rows \/ MayLoseWrite
    /\ assigned' = IF rows THEN assigned \cup RuleRows(cur) ELSE assigned
    /\ PublishItems
    /\ dirty' = {}
    /\ todo' = todo \ {cur}
    /\ pc' = "loop"
    /\ UNCHANGED <<inputs, run, runLock, held, cur, loaded, mine, witems, requests>>

\* _process_rule raises (invalid expression, missing facts): fail_item loads
\* the item and mark_run_failed follows in the same transaction.
ProcessFail ==
    /\ pc = "process"
    /\ StageItem(cur, fail_item(items[cur]))
    /\ pc' = "mark_read"
    /\ UNCHANGED <<inputs, run, items, assigned, runLock, held, todo, cur, loaded, mine, requests>>

-----------------------------------------------------------------------------
\* Mutant of MarkRead: the items that are still open are left as they are.
MarkReadKeepsOpen ==
    /\ pc = "mark_read"
    /\ held' = dirty
    /\ loaded' = run
    /\ pc' = IF run.status = CANCELLED THEN "commit" ELSE "mark_flush"
    /\ mine' = IF run.status = CANCELLED THEN run ELSE [run EXCEPT !.status = FAILED]
    /\ UNCHANGED <<inputs, run, items, assigned, runLock, todo, cur, witems, dirty, requests>>

\* mark_run_failed, first half.  Loading the run flushes the item fail_item
\* staged.  Unless the run is cancelled every open item is staged as failed.
MarkRead ==
    /\ pc = "mark_read"
    /\ held' = dirty
    /\ loaded' = run
    /\ IF run.status = CANCELLED
       THEN /\ pc' = "commit"
            /\ mine' = run
            /\ UNCHANGED <<witems, dirty>>
       ELSE /\ pc' = "mark_flush"
            /\ mine' = [IF rules = {} THEN write_summary(run) ELSE run EXCEPT !.status = FAILED]
            /\ witems' = [i \in Rules |-> IF View[i] \in IN_PROGRESS THEN FAILED ELSE View[i]]
            /\ dirty' = dirty \cup ItemsIn(View, IN_PROGRESS)
    /\ UNCHANGED <<inputs, run, items, assigned, runLock, todo, cur, requests>>

\* mark_run_failed, second half: finalize_run's first query flushes the run
\* and the staged items, then the items are counted.
MarkFlush ==
    /\ pc = "mark_flush"
    /\ runLock = NoOne
    /\ runLock' = Worker
    /\ held' = dirty
    /\ mine' = finalize_run(mine, View)
    /\ pc' = "commit"
    /\ UNCHANGED <<inputs, run, items, assigned, todo, cur, loaded, witems, dirty, requests>>

\* finalize_run_with_summary, first half: a cancelled run is left alone, any
\* other one gets its summary.
FinalRead ==
    /\ pc = "final_read"
    /\ loaded' = run
    /\ IF run.status = CANCELLED
       THEN pc' = "commit" /\ mine' = run
       ELSE pc' = "final_flush" /\ mine' = write_summary(run)
    /\ UNCHANGED <<inputs, run, items, assigned, runLock, held, todo, cur, witems, dirty, requests>>

\* Second half: finalize_run's first query flushes the summary, then the items
\* are counted while the run's row is locked.
FinalFlush ==
    /\ pc = "final_flush"
    /\ runLock = NoOne
    /\ runLock' = Worker
    /\ mine' = finalize_run(mine, View)
    /\ pc' = "commit"
    /\ UNCHANGED <<inputs, run, items, assigned, held, todo, cur, loaded, witems, dirty, requests>>

\* The last commit of the thread: changed columns, staged items, all locks.
Commit ==
    /\ pc = "commit"
    /\ mine = loaded \/ runLock \in {NoOne, Worker}
    /\ run' = UpdateChanged(run, loaded, mine)
    /\ PublishItems
    /\ dirty' = {}
    /\ held' = {}
    /\ runLock' = IF runLock = Worker THEN NoOne ELSE runLock
    /\ pc' = "done"
    /\ UNCHANGED <<inputs, assigned, todo, cur, loaded, mine, witems, requests>>

\* The thread ends without having finalised the run: an exception outside the
\* rule's try block, or the end of the process.  Its transaction is rolled back.
Abandon ==
    /\ pc' = "dead"
    /\ dirty' = {}
    /\ held' = {}
    /\ runLock' = IF runLock = Worker THEN NoOne ELSE runLock
    /\ UNCHANGED <<inputs, run, items, assigned, todo, cur, loaded, mine, witems, requests>>

Die ==
    /\ MayDie
    /\ pc \notin {"done", "dead"}
    /\ Abandon

-----------------------------------------------------------------------------
\* cancel_run: only a run that is read as running is cancelled.
CancelRead(c) ==
    /\ cpc[c] = "read"
    /\ cpc' = [cpc EXCEPT ![c] = IF run.status = RUNNING THEN "flush" ELSE "refused"]
    /\ UNCHANGED <<inputs, run, items, assigned, runLock, held, thread, csnap>>

\* Listing the items flushes the new status, which locks the run's row.
CancelFlush(c) ==
    /\ cpc[c] = "flush"
    /\ runLock = NoOne
    /\ runLock' = c
    /\ csnap' = [csnap EXCEPT ![c] = items]
    /\ cpc' = [cpc EXCEPT ![c] = "commit"]
    /\ UNCHANGED <<inputs, run, items, assigned, held, thread>>

\* Mutant of CancelWrites: every item but the cancelled ones is cancelled.
CancelWritesAll(c) == ItemsIn(csnap[c], TaskRunStatus \ {CANCELLED})

\* The items a request has staged as cancelled.
CancelWrites(c) == ItemsIn(csnap[c], IN_PROGRESS)

\* The commit sends them, and needs the locks of their rows.
CancelCommit(c) ==
    /\ cpc[c] = "commit"
    /\ CancelWrites(c) \cap held = {}
    /\ run' = [run EXCEPT !.status = CANCELLED]
    /\ items' = [i \in Rules |-> IF i \in CancelWrites(c) THEN CANCELLED ELSE items[i]]
    /\ runLock' = NoOne
    /\ cpc' = [cpc EXCEPT ![c] = "done"]
    /\ UNCHANGED <<inputs, assigned, held, thread, csnap>>

\* The thread holds an item the request needs and waits for the run's row,
\* which the request holds.
Deadlocked(c) ==
    /\ pc \in {"mark_flush", "final_flush"}
    /\ runLock = c
    /\ cpc[c] = "commit"
    /\ CancelWrites(c) \cap held # {}

\* The database aborts the thread's transaction: the error leaves the task.
DeadlockKillsThread(c) == Deadlocked(c) /\ Abandon

\* Mutant of DeadlockKillsRequest: the session is not rolled back.
DeadlockKeepsLock(c) ==
    /\ Deadlocked(c)
    /\ cpc' = [cpc EXCEPT ![c] = "error"]
    /\ UNCHANGED <<inputs, run, items, assigned, runLock, held, thread, csnap>>

\* Or the request's: safe_call rolls back and answers with an error.
DeadlockKillsRequest(c) ==
    /\ Deadlocked(c)
    /\ runLock' = NoOne
    /\ cpc' = [cpc EXCEPT ![c] = "error"]
    /\ UNCHANGED <<inputs, run, items, assigned, held, thread, csnap>>

-----------------------------------------------------------------------------
RuleStep ==
    \/ StartRead \/ StartCommit \/ ProcessRule \/ ProcessFail
    \/ \E rows \in BOOLEAN : CompleteCommit(rows)

ThreadStep ==
    \/ CheckStart \/ NoRules \/ InitItems \/ Cleanup
    \/ SkipRead \/ SkipFlush
    \/ LoopNext \/ LoopCancelled \/ LoopEnd
    \/ RuleStep
    \/ MarkRead \/ MarkFlush \/ FinalRead \/ FinalFlush \/ Commit

RequestStep(c) == CancelRead(c) \/ CancelFlush(c) \/ CancelCommit(c)

DeadlockStep(c) == DeadlockKillsThread(c) \/ DeadlockKillsRequest(c)

\* Nobody has a step left.
Finished ==
    /\ pc \in {"done", "dead"}
    /\ \A c \in Cancellers : cpc[c] \in {"refused", "done", "error"}

Terminating == Finished /\ UNCHANGED vars

Next ==
    \/ ThreadStep
    \/ Die
    \/ \E c \in Cancellers : RequestStep(c) \/ DeadlockStep(c)
    \/ Terminating

Spec == Init /\ [][Next]_vars

\* The thread is scheduled, a request that has begun is served (none needs to
\* arrive), and the database resolves every deadlock.
Fairness ==
    /\ WF_vars(ThreadStep)
    /\ \A c \in Cancellers : /\ WF_vars(CancelFlush(c) \/ CancelCommit(c))
                              /\ WF_vars(DeadlockStep(c))

FairSpec == Spec /\ Fairness

-----------------------------------------------------------------------------
Locations ==
    {"launched", "fetched", "cleanup", "loop", "start_read", "start_commit",
     "process", "complete_commit", "skip_read", "skip_flush", "mark_read",
     "mark_flush", "final_read", "final_flush", "commit", "done", "dead"}

\* Every row, lock and session value is of its kind.
TypeOK ==
    /\ rules \in SUBSET Rules /\ accts \in SUBSET Accounts /\ full \in BOOLEAN
    /\ run \in TaskRun
    /\ items \in [Rules -> ItemStatus]
    /\ assigned \in SUBSET (Accounts \X Classes)
    /\ runLock \in Cancellers \cup {Worker, NoOne}
    /\ held \in SUBSET Rules
    /\ pc \in Locations
    /\ todo \in SUBSET Rules
    /\ cur \in Rules \cup {NoOne}
    /\ loaded \in TaskRun /\ mine \in TaskRun
    /\ witems \in [Rules -> ItemStatus]
    /\ dirty \in SUBSET Rules
    /\ cpc \in [Cancellers -> {"read", "flush", "commit", "refused", "done", "error"}]
    /\ csnap \in [Cancellers -> [Rules -> ItemStatus]]

\* The progress columns of a run row say what its item rows say.
CountsMatch(row, its) ==
    /\ row.progress_total = Cardinality(ItemsIn(its, TaskRunStatus))
    /\ row.progress_completed = Cardinality(ItemsIn(its, {COMPLETED}))
    /\ row.progress_failed = Cardinality(ItemsIn(its, {FAILED, CANCELLED}))

\* A run that reads "completed" has every rule completed and its counters say
\* so, however the requests that try to cancel it interleave with finalize_run.
CompletedIsHonest ==
    run.status = COMPLETED =>
        /\ CountsMatch(run, items)
        /\ \A r \in rules : items[r] = COMPLETED

\* A run that reads "failed" has no item left open, and its counters include
\* at least one item that did not succeed unless there was nothing to run.
FailedIsClosed ==
    run.status = FAILED =>
        /\ CountsMatch(run, items)
        /\ ItemsIn(items, IN_PROGRESS) = {}
        /\ run.progress_failed > 0 \/ rules = {}

\* Both: what a run that ended by itself says is so.
EndedRunIsTrue == CompletedIsHonest /\ FailedIsClosed

\* A completed run has left exactly the assignments its rules call for on the
\* accounts in its scope (cleanup first, then one upsert per rule).
CompletedIsClassified ==
    run.status = COMPLETED =>
        {p \in assigned : p[1] \in accts} = UNION {RuleRows(r) : r \in rules}

\* upsert_assignments' docstring: it raises when the write fails, so a rule that
\* is marked completed has its assignment rows.
CompletedRuleHasRows ==
    \A r \in rules : items[r] = COMPLETED => RuleRows(r) \subseteq assigned

\* Once a run reads "completed" or "failed" its items and counters are frozen;
\* a late cancel request can still change the status and nothing else.
ClosedRunIsFrozen ==
    [][run.status \in {COMPLETED, FAILED} =>
         /\ items' = items
         /\ run' = run \/ run' = [run EXCEPT !.status = CANCELLED]]_vars

\* Unless the thread is lost, the run leaves "running" for good, deadlocks
\* between the thread and a cancel request included.
RunEnds == <>[](run.status \in TERMINAL \/ pc = "dead")

\* cancel_run's docstring: pending and running items become cancelled, so once
\* everybody has finished a cancelled run has no open item.
CancelClosesItems ==
    Finished /\ run.status = CANCELLED => ItemsIn(items, IN_PROGRESS) = {}

\* write_summary's docstring: a cancelled run stays as it is.
CancelledRunKeepsSummary ==
    [][run.status = CANCELLED => run'.summary = run.summary]_vars

\* cancel_run's docstring: only a running run can be cancelled.
OnlyRunningIsCancelled ==
    [][run'.status = CANCELLED /\ run.status # CANCELLED => run.status = RUNNING]_vars

-----------------------------------------------------------------------------
\* Where the thread is about to write the status of the run it has loaded.
AtWrite == {"mark_flush", "final_flush", "commit"}

\* The writers of the status that have read "running".
Holding ==
    {c \in Cancellers : cpc[c] \in {"flush", "commit"}} \cup
    {w \in {Worker} : pc \in AtWrite /\ loaded.status = RUNNING}

Centre == INSTANCE TaskRunCentre WITH
    Writers <- Cancellers \cup {Worker}, Task <- Worker,
    status <- run.status, holding <- Holding

\* The thread and the requests treat the status of the run as TaskRunCentre
\* promises, also when the database ends one of them to resolve a deadlock.
KeepsPromise == Centre!Spec
=============================================================================
