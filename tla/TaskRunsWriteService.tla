------------------------ MODULE TaskRunsWriteService ------------------------
(***************************************************************************)
(* The operations of TaskRunsWriteService as functions on the rows they    *)
(* touch: one task_runs row and the task_run_items rows that belong to it. *)
(* The service never commits; the modules that use these operators decide  *)
(* when a row is read, when a change is flushed and when it is committed.  *)
(*                                                                         *)
(* Columns that only describe a run (names, timestamps, messages) are left *)
(* out.  summary_json is kept as the writer that produced it: "base" as    *)
(* start_run left it, "final" once a finalisation has replaced it.         *)
(***************************************************************************)
EXTENDS Naturals, FiniteSets

-----------------------------------------------------------------------------
(* The status values of runs, items, sessions and records                  *)

PENDING == "pending"
RUNNING == "running"
COMPLETED == "completed"
COMPLETED_WITH_ERRORS == "completed_with_errors"
FAILED == "failed"
CANCELLED == "cancelled"

\* task_runs and task_run_items
TERMINAL == {COMPLETED, COMPLETED_WITH_ERRORS, FAILED, CANCELLED}
IN_PROGRESS == {PENDING, RUNNING}
TaskRunStatus == TERMINAL \cup IN_PROGRESS

\* sync_sessions, and the instance records of a session
SESSION_TERMINAL == {COMPLETED, FAILED, CANCELLED}
SyncSessionStatus == {RUNNING} \cup SESSION_TERMINAL
SyncStatus == {PENDING} \cup SyncSessionStatus

\* The status of a row that has not been inserted yet.
ABSENT == "absent"

-----------------------------------------------------------------------------
(* The service                                                             *)

\* What the task_runs row says of a run.
TaskRun == [status : TaskRunStatus, progress_total : Nat, progress_completed : Nat,
            progress_failed : Nat, summary : {"base", "final"}]

\* start_run: a new run is running, has no items and carries the base summary.
start_run == [status |-> RUNNING, progress_total |-> 0, progress_completed |-> 0,
              progress_failed |-> 0, summary |-> "base"]

\* The items of a run in one of the statuses S.
ItemsIn(items, S) == {i \in DOMAIN items : items[i] \in S}

\* init_items: the chosen items are inserted as pending.
init_items(items, chosen) == [i \in DOMAIN items |-> IF i \in chosen THEN PENDING ELSE items[i]]

\* The status an item has after each of the item operations.
start_item(st) == IF st \in TERMINAL THEN st ELSE RUNNING
complete_item(st) == IF st \in {FAILED, CANCELLED} THEN st ELSE COMPLETED
fail_item(st) == IF st = CANCELLED THEN st ELSE FAILED
cancel_item(st) == IF st \in TERMINAL THEN st ELSE CANCELLED

\* Mutant of finalize_run: a run that is cancelled already gets a status too.
finalize_run_derives(run, items) ==
    LET failed == Cardinality(ItemsIn(items, {FAILED, CANCELLED}))
    IN  [status |-> IF failed > 0 THEN FAILED ELSE COMPLETED,
         progress_total |-> Cardinality(ItemsIn(items, TaskRunStatus)),
         progress_completed |-> Cardinality(ItemsIn(items, {COMPLETED})),
         progress_failed |-> failed,
         summary |-> run.summary]

\* finalize_run: recount the items and, unless the run is already cancelled or
\* failed, derive its status from the number of items that did not succeed.
finalize_run(run, items) ==
    LET failed == Cardinality(ItemsIn(items, {FAILED, CANCELLED}))
    IN  [status |-> IF run.status \in {CANCELLED, FAILED} THEN run.status
                    ELSE IF failed > 0 THEN FAILED ELSE COMPLETED,
         progress_total |-> Cardinality(ItemsIn(items, TaskRunStatus)),
         progress_completed |-> Cardinality(ItemsIn(items, {COMPLETED})),
         progress_failed |-> failed,
         summary |-> run.summary]

\* write_summary on a run that is not cancelled.
write_summary(run) == [run EXCEPT !.summary = "final"]

\* No status_override was passed.
NoOverride == "none"

\* Mutant of finalize_run_with_summary: a status is written only if one is given.
finalize_run_with_summary_given(run, items, override) ==
    LET final == finalize_run(write_summary(run), items)
    IN  [final EXCEPT !.status = IF override = NoOverride THEN run.status ELSE override]

\* finalize_run_with_summary on a run that is not cancelled: the summary, the
\* recount, and then the status the caller insists on.
finalize_run_with_summary(run, items, override) ==
    LET final == finalize_run(write_summary(run), items)
    IN  [final EXCEPT !.status = IF override = NoOverride THEN @ ELSE override]

\* mark_run_failed on a run that is not cancelled: its open items fail, then
\* the run does, and is recounted.
mark_items_failed(items) == [i \in ItemsIn(items, IN_PROGRESS) |-> FAILED]
mark_run_failed(run, items) == finalize_run([run EXCEPT !.status = FAILED], items)

\* The column-wise UPDATE the ORM emits: a column is written when its value
\* differs from the one that was loaded, every other column keeps what the
\* database has by then.
UpdateChanged(db, loaded, mine) ==
    [status |-> IF mine.status # loaded.status THEN mine.status ELSE db.status,
     progress_total |-> IF mine.progress_total # loaded.progress_total
                        THEN mine.progress_total ELSE db.progress_total,
     progress_completed |-> IF mine.progress_completed # loaded.progress_completed
                            THEN mine.progress_completed ELSE db.progress_completed,
     progress_failed |-> IF mine.progress_failed # loaded.progress_failed
                         THEN mine.progress_failed ELSE db.progress_failed,
     summary |-> IF mine.summary # loaded.summary THEN mine.summary ELSE db.summary]
=============================================================================
