----------------------------- MODULE TaskThread -----------------------------
(***************************************************************************)
(* What every background task has in common: a thread that works through   *)
(* the items of one task run, and the requests of the task run centre that *)
(* cancel the run meanwhile.                                               *)
(*                                                                         *)
(* The rows are written in short transactions at READ COMMITTED.  A step   *)
(* is a transaction, cut in two wherever a row is loaded into the ORM      *)
(* session by one statement and written from there by a later one.  The    *)
(* steps take the location they start from and the one they lead to, so    *)
(* that each task is written down as the path it takes through them.       *)
(***************************************************************************)
EXTENDS TaskRunsWriteService

CONSTANTS
    ItemKeys,       \* keys of run items
    NoKey,          \* no item
    RunCancels,     \* requests that cancel the run
    Thread,         \* the task itself, as a writer of the run's status
    MayRaise,       \* may an exception reach the handler of the task?
    MayDie          \* may the task end without its handler?

ASSUME KeysFinite == IsFiniteSet(ItemKeys) /\ NoKey \notin ItemKeys
ASSUME ThreadIsNoRequest == Thread \notin RunCancels
ASSUME TaskSwitches == MayRaise \in BOOLEAN /\ MayDie \in BOOLEAN

VARIABLES
    task,           \* the task_key of the run
    keys,           \* the item keys this run is about
    run, items,     \* committed rows
    \* the thread: location, keys left, current key, the run as loaded, item
    \* changes not committed yet, successes and failures counted so far
    pc, todo, cur, runSeen, stage, synced, failed,
    cpc, csnap      \* cancel requests: location, items as loaded

plan == <<task, keys>>
runRows == <<run, items>>
focus == <<todo, cur>>
totals == <<synced, failed>>
cancels == <<cpc, csnap>>
threadVars == <<plan, runRows, pc, focus, runSeen, stage, totals, cancels>>

NoChange == [i \in {} |-> RUNNING]

\* Item i is given status st by an operation of the run centre; nothing is
\* left to write when it has that status already.
Change(i, st) == [j \in {k \in {i} : items[k] # st} |-> st]

\* The items as the thread's own transaction sees them.
View == [i \in ItemKeys |-> IF i \in DOMAIN stage THEN stage[i] ELSE items[i]]

\* A cancel request has updated the run's row and not committed yet.
RunLocked == \E c \in RunCancels : cpc[c] = "commit"

\* Where the thread has flushed its item changes before it commits them, which
\* locks their rows.  A request that means to cancel one of them waits.
FlushedAt == {"js_close", "vb_close"}
Waits(c) == pc \in FlushedAt /\ \E i \in DOMAIN stage : csnap[c][i] \in IN_PROGRESS

\* The outcome of the work on an item, as an operation on its status.
Outcome(ok, st) == IF ok THEN complete_item(st) ELSE fail_item(st)

-----------------------------------------------------------------------------
\* The run has been created and committed, by the request that launches the
\* task or by the task itself; prepared are the items inserted with it.
ThreadInit(prepared) ==
    /\ run = [start_run EXCEPT !.progress_total = Cardinality(prepared)]
    /\ items = init_items([i \in ItemKeys |-> ABSENT], prepared)
    /\ pc = "launched"
    /\ todo = {}
    /\ cur = NoKey
    /\ runSeen = run
    /\ stage = NoChange
    /\ synced = 0
    /\ failed = 0
    /\ cpc = [c \in RunCancels |-> "read"]
    /\ csnap = [c \in RunCancels |-> items]

\* Control moves on and nothing else happens.
Goto(at, after) ==
    /\ pc = at
    /\ pc' = after
    /\ UNCHANGED <<plan, runRows, focus, runSeen, stage, totals, cancels>>

\* is_cancelled, read from the database at the start of a transaction.
CheckCancelled(at, yes, no) == Goto(at, IF run.status = CANCELLED THEN yes ELSE no)

\* init_items and its commit, which updates the run's row.
InitItems(at, after) ==
    /\ pc = at
    /\ ~RunLocked
    /\ items' = init_items(items, keys)
    /\ run' = [run EXCEPT !.progress_total = Cardinality(keys)]
    /\ pc' = after
    /\ UNCHANGED <<plan, focus, runSeen, stage, totals, cancels>>

\* The loop over a set of keys: begin it, take the next key, leave it.
BeginLoop(at, over, after) ==
    /\ pc = at
    /\ todo' = over
    /\ pc' = after
    /\ UNCHANGED <<plan, runRows, cur, runSeen, stage, totals, cancels>>

TakeNext(at, after) ==
    /\ pc = at
    /\ cur' \in todo
    /\ todo' = todo \ {cur'}
    /\ pc' = after
    /\ UNCHANGED <<plan, runRows, runSeen, stage, totals, cancels>>

\* An operation of the run centre on the current item, not committed yet: the
\* item's row is loaded now and its new status st waits for the commit.
LoadItem(at, st, after) ==
    /\ pc = at
    /\ stage' = Change(cur, st)
    /\ pc' = after
    /\ UNCHANGED <<plan, runRows, focus, runSeen, totals, cancels>>

\* The same, with the outcome counted in the totals of the task.
LoadOutcome(at, ok, after) ==
    /\ pc = at
    /\ stage' = Change(cur, Outcome(ok, items[cur]))
    /\ synced' = synced + (IF ok THEN 1 ELSE 0)
    /\ failed' = failed + (IF ok THEN 0 ELSE 1)
    /\ pc' = after
    /\ UNCHANGED <<plan, runRows, focus, runSeen, cancels>>

\* Commit the item changes of the transaction.
CommitItems(at, after) ==
    /\ pc = at
    /\ items' = View
    /\ stage' = NoChange
    /\ pc' = after
    /\ UNCHANGED <<plan, run, focus, runSeen, totals, cancels>>

-----------------------------------------------------------------------------
\* Mutant of FinalRead: the status override is applied to a cancelled run too.
FinalReadBlind(at, after) ==
    /\ pc = at
    /\ runSeen' = run
    /\ pc' = after
    /\ UNCHANGED <<plan, runRows, focus, stage, totals, cancels>>

\* finalize_run_with_summary: a cancelled run is left alone; otherwise the items
\* are counted once the summary has been flushed and the run's row is locked.
FinalRead(at, after) ==
    /\ pc = at
    /\ runSeen' = run
    /\ pc' = IF run.status = CANCELLED THEN "done" ELSE after
    /\ UNCHANGED <<plan, runRows, focus, stage, totals, cancels>>

\* Its commit, with the status the task insists on, if any.
FinalCommit(at, override) ==
    /\ pc = at
    /\ ~RunLocked
    /\ run' = UpdateChanged(run, runSeen, finalize_run_with_summary(runSeen, View, override))
    /\ items' = View
    /\ stage' = NoChange
    /\ pc' = "done"
    /\ UNCHANGED <<plan, focus, runSeen, totals, cancels>>

\* finalize_run alone, on a run that has been cancelled: only the counters.
RecountCancelled(at) ==
    /\ pc = at
    /\ ~RunLocked
    /\ run' = finalize_run(run, items)
    /\ pc' = "done"
    /\ UNCHANGED <<plan, items, focus, runSeen, stage, totals, cancels>>

\* mark_run_failed: open items fail with the run, unless it is cancelled.
MarkRead(at, after) ==
    /\ pc = at
    /\ runSeen' = run
    /\ IF run.status = CANCELLED
       THEN pc' = after /\ UNCHANGED stage
       ELSE pc' = "mark_commit" /\ stage' = mark_items_failed(items)
    /\ UNCHANGED <<plan, runRows, focus, totals, cancels>>

MarkCommit(after) ==
    /\ pc = "mark_commit"
    /\ ~RunLocked
    /\ run' = UpdateChanged(run, runSeen, mark_run_failed(runSeen, View))
    /\ items' = View
    /\ stage' = NoChange
    /\ pc' = after
    /\ UNCHANGED <<plan, focus, runSeen, totals, cancels>>

-----------------------------------------------------------------------------
\* An exception reaches the handler of the task from one of the locations at;
\* pending is what the handler leaves of the open transaction's item changes.
Raise(at, pending, handler) ==
    /\ MayRaise
    /\ pc \in at
    /\ stage' = pending
    /\ pc' = handler
    /\ UNCHANGED <<plan, runRows, focus, runSeen, totals, cancels>>

\* The process ends, or an error breaks the transaction the handler still
\* needs: nothing more is written.
Die ==
    /\ MayDie
    /\ pc \notin {"done", "dead", "escaped"}
    /\ pc' = "dead"
    /\ stage' = NoChange
    /\ UNCHANGED <<plan, runRows, focus, runSeen, totals, cancels>>

-----------------------------------------------------------------------------
\* cancel_run: only a run that is read as running is cancelled.  Listing the
\* items flushes the new status, and the commit sends the open ones.
CancelRead(c) ==
    /\ cpc[c] = "read"
    /\ cpc' = [cpc EXCEPT ![c] = IF run.status = RUNNING THEN "flush" ELSE "refused"]
    /\ UNCHANGED <<plan, runRows, pc, focus, runSeen, stage, totals, csnap>>

CancelFlush(c) ==
    /\ cpc[c] = "flush"
    /\ ~RunLocked
    /\ csnap' = [csnap EXCEPT ![c] = items]
    /\ cpc' = [cpc EXCEPT ![c] = "commit"]
    /\ UNCHANGED <<plan, runRows, pc, focus, runSeen, stage, totals>>

CancelCommit(c) ==
    /\ cpc[c] = "commit"
    /\ ~Waits(c)
    /\ run' = [run EXCEPT !.status = CANCELLED]
    /\ items' = [i \in ItemKeys |-> IF csnap[c][i] \in IN_PROGRESS THEN CANCELLED ELSE items[i]]
    /\ cpc' = [cpc EXCEPT ![c] = "done"]
    /\ UNCHANGED <<plan, pc, focus, runSeen, stage, totals, csnap>>

\* A thread that waits for the run's row and a request that waits for an item's
\* row: the database aborts one of them, here the request.
CancelAborts(c) ==
    /\ cpc[c] = "commit"
    /\ Waits(c)
    /\ cpc' = [cpc EXCEPT ![c] = "refused"]
    /\ UNCHANGED <<plan, runRows, pc, focus, runSeen, stage, totals, csnap>>

RunCancelStep(c) == CancelRead(c) \/ CancelFlush(c) \/ CancelCommit(c)

CancelsFinished == \A c \in RunCancels : cpc[c] \in {"refused", "done"}

-----------------------------------------------------------------------------
\* Every row and every local of the thread is of its kind.
ThreadTypeOK ==
    /\ keys \in SUBSET ItemKeys
    /\ run \in TaskRun /\ runSeen \in TaskRun
    /\ items \in [ItemKeys -> TaskRunStatus \cup {ABSENT}]
    /\ todo \in SUBSET ItemKeys /\ cur \in ItemKeys \cup {NoKey}
    /\ DOMAIN stage \in SUBSET ItemKeys /\ \A i \in DOMAIN stage : stage[i] \in TaskRunStatus
    /\ synced \in Nat /\ failed \in Nat
    /\ cpc \in [RunCancels -> {"read", "flush", "commit", "refused", "done"}]
    /\ csnap \in [RunCancels -> [ItemKeys -> TaskRunStatus \cup {ABSENT}]]

\* A run that reads "completed" or "failed" has no item left open and counts
\* exactly its items, however a cancel request interleaves with finalize_run
\* and mark_run_failed.
ClosedRunCounts ==
    run.status \in {COMPLETED, FAILED} =>
        /\ ItemsIn(items, IN_PROGRESS) = {}
        /\ run.progress_completed = Cardinality(ItemsIn(items, {COMPLETED}))
        /\ run.progress_failed = Cardinality(ItemsIn(items, {FAILED, CANCELLED}))
=============================================================================
