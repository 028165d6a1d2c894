-------------------------- MODULE StatisticsTasks ---------------------------
(* Two tasks that compute: the aggregates of the current period and the     *)
(* daily statistics of the classification.                                  *)
EXTENDS RunTask

\* The capacity_aggregate_current task: the aggregates of today are
\* computed by a runner over databases, one over instances, or both, each
\* of which lists the active instances itself and reports to the run
\* through callbacks.  A callback that finds the run cancelled ends the
\* task.

\* is_cancelled, init_items and the first summary, each in its transaction.
CurSummary(at, after) ==
    /\ pc = at
    /\ ~RunLocked
    /\ run' = IF run.status = CANCELLED THEN run ELSE write_summary(run)
    /\ pc' = after
    /\ UNCHANGED <<plan, items, focus, runSeen, stage, totals, cancels, effects>>

CurBegin ==
    \/ /\ CheckCancelled("launched", "done", "cur_init") \/ InitItems("cur_init", "cur_summary")
       /\ UNCHANGED effects
    \/ CurSummary("cur_summary", "cur_list")

\* A runner lists the active instances, which need not be those of init_items;
\* an instance no runner lists keeps its item pending.  synced counts runners.
CurList(listed) ==
    /\ pc = "cur_list"
    /\ todo' = listed
    /\ effect' = [k \in ItemKeys |-> IF k \in keys \ listed /\ effect[k] = "none"
                                     THEN "skipped" ELSE effect[k]]
    /\ synced' = synced + 1
    /\ pc' = "cur_loop"
    /\ UNCHANGED <<plan, runRows, cur, runSeen, stage, failed, cancels, verdict>>

\* The scope asks for one runner or for both.
CurRunnerDone ==
    /\ todo = {}
    /\ \/ synced = 1 /\ Goto("cur_loop", "cur_list")
       \/ Goto("cur_loop", "cur_end")
    /\ UNCHANGED effects

CurTake == TakeNext("cur_loop", "cur_start") /\ UNCHANGED effects

\* on_start: the question whether the run is cancelled, start_item, its commit.
CurStart ==
    /\ \/ run.status = CANCELLED /\ Goto("cur_start", "cur_cancelled")
       \/ /\ run.status # CANCELLED /\ pc = "cur_start" /\ items[cur] # ABSENT
          /\ LoadItem("cur_start", start_item(items[cur]), "cur_start_commit")
       \/ CommitItems("cur_start_commit", "cur_work")
    /\ UNCHANGED effects

\* An instance that has no item: the callback raises what no runner catches.
CurUnknown ==
    /\ run.status # CANCELLED /\ pc = "cur_start" /\ items[cur] = ABSENT
    /\ Goto("cur_start", "mark_read")
    /\ UNCHANGED effects

\* on_complete or on_error: the question again, then the outcome of the item.
CurReport(ok) ==
    /\ pc = "cur_work"
    /\ IF run.status = CANCELLED
       THEN pc' = "cur_cancelled" /\ UNCHANGED <<stage, verdict>>
       ELSE /\ stage' = Change(cur, Outcome(ok, items[cur]))
            /\ verdict' = Verdict(ok)
            /\ pc' = "cur_commit"
    /\ UNCHANGED <<plan, runRows, focus, runSeen, totals, cancels, effect>>

\* The aggregates of the instance are committed with its item.
CurCommit ==
    /\ CommitItems("cur_commit", "cur_loop")
    /\ effect' = [effect EXCEPT ![cur] = IF @ = FAILED THEN FAILED ELSE verdict]
    /\ UNCHANGED verdict

CurCancelled == RecountCancelled("cur_cancelled") /\ UNCHANGED effects

\* The last summary, then finalize_run: the read and the commit.
CurEnd == CurSummary("cur_end", "cur_final_read")

CurFinal ==
    /\ \/ /\ pc = "cur_final_read"
          /\ runSeen' = run
          /\ pc' = "cur_final_commit"
          /\ UNCHANGED <<run, items>>
       \/ /\ pc = "cur_final_commit"
          /\ ~RunLocked
          /\ run' = UpdateChanged(run, runSeen, finalize_run(runSeen, items))
          /\ pc' = "done"
          /\ UNCHANGED <<items, runSeen>>
    /\ UNCHANGED <<plan, focus, stage, totals, cancels, effects>>

CurrentStep ==
    \/ CurBegin
    \/ \E listed \in SUBSET PlainKeys : CurList(listed)
    \/ CurRunnerDone \/ CurTake \/ CurStart \/ CurUnknown
    \/ \E ok \in BOOLEAN : CurReport(ok)
    \/ CurCommit \/ CurCancelled \/ CurEnd \/ CurFinal
    \/ FailRun

\* What the runners do not catch fails the run; what happens around them is not
\* handled at all, and neither is an error of the database in a callback, which
\* the runners swallow and which breaks every later step.
CurrentRaises ==
    /\ \/ Raise({"cur_list", "cur_loop", "cur_work"}, NoChange, "mark_read")
       \/ Raise({"launched", "cur_init", "cur_summary", "cur_start_commit", "cur_commit", "cur_end",
                 "cur_final_read", "cur_final_commit"}, NoChange, "escaped")
    /\ UNCHANGED effects

-----------------------------------------------------------------------------
\* The calculate_account task: for every active rule the matching accounts
\* are counted.  The statistics of all rules are written at the end, in
\* the transaction that finalises the run; the first rule that fails ends
\* the task.

\* is_cancelled, then the rules: without any the run fails.
DlStart ==
    /\ Goto("launched", IF run.status = CANCELLED THEN "done"
                        ELSE IF keys = {} THEN "mark_read" ELSE "dl_init")
    /\ UNCHANGED effects

\* The items are created before the accounts are counted: without any of those
\* the run and its items fail.
DlItems ==
    /\ InitItems("dl_init", "dl_accounts") \/ Goto("dl_accounts", "mark_read")
       \/ BeginLoop("dl_accounts", keys, "dl_loop")
    /\ UNCHANGED effects

\* is_cancelled before each rule: a cancelled run is recounted and left.
DlCancelled == todo # {} /\ run.status = CANCELLED /\ RecountCancelled("dl_loop") /\ UNCHANGED effects

DlRule ==
    /\ \/ run.status # CANCELLED /\ TakeNext("dl_loop", "dl_start")
       \/ pc = "dl_start" /\ LoadItem("dl_start", start_item(items[cur]), "dl_start_commit")
       \/ CommitItems("dl_start_commit", "dl_work")
       \/ pc = "dl_work" /\ LoadItem("dl_work", complete_item(items[cur]), "dl_commit")
       \/ CommitItems("dl_commit", "dl_loop")
       \/ todo = {} /\ Goto("dl_loop", "dl_stats")
    /\ UNCHANGED effects

\* _finalize_rule_failure: the item fails and the run with it, without a
\* rollback; the exception goes on to the handler of the task, which marks the
\* run as failed once more.
DlRuleFails ==
    /\ MayRaise
    /\ pc = "dl_work"
    /\ LET mine == [items EXCEPT ![cur] = fail_item(@)]
           new == IF run.status = CANCELLED THEN mine
                  ELSE [k \in ItemKeys |-> IF mine[k] \in IN_PROGRESS THEN FAILED ELSE mine[k]]
       IN  stage' = [k \in {k \in ItemKeys : new[k] # items[k]} |-> new[k]]
    /\ runSeen' = run
    /\ pc' = "dl_rule_failed"
    /\ UNCHANGED <<plan, runRows, focus, totals, cancels, effects>>

DlRuleFailed ==
    /\ pc = "dl_rule_failed"
    /\ IF runSeen.status = CANCELLED THEN UNCHANGED run
       ELSE ~RunLocked /\ run' = UpdateChanged(run, runSeen, mark_run_failed(runSeen, View))
    /\ items' = View
    /\ stage' = NoChange
    /\ pc' = "mark_read"
    /\ UNCHANGED <<plan, focus, runSeen, totals, cancels, effects>>

\* The statistics are flushed; is_cancelled drops them again.
DlStats ==
    /\ CheckCancelled("dl_stats", "done", "dl_final_read")
    /\ UNCHANGED effects

\* finalize_run_with_summary, and the commit of the statistics, which happens
\* also when the run turns out to be cancelled by now.
DlFinalRead ==
    /\ pc = "dl_final_read"
    /\ runSeen' = run
    /\ pc' = "dl_final_commit"
    /\ UNCHANGED <<plan, runRows, focus, stage, totals, cancels, effects>>

\* Mutant of DlFinalCommit: the statistics of the last rule only.
DlFinalCommitLast ==
    /\ pc = "dl_final_commit"
    /\ runSeen.status # CANCELLED => ~RunLocked
    /\ run' = IF runSeen.status = CANCELLED THEN run
              ELSE UpdateChanged(run, runSeen, finalize_run_with_summary(runSeen, items, NoOverride))
    /\ effect' = [k \in ItemKeys |-> IF k = cur THEN COMPLETED ELSE effect[k]]
    /\ pc' = "done"
    /\ UNCHANGED <<plan, items, focus, runSeen, stage, totals, cancels, verdict>>

DlFinalCommit ==
    /\ pc = "dl_final_commit"
    /\ runSeen.status # CANCELLED => ~RunLocked
    /\ run' = IF runSeen.status = CANCELLED THEN run
              ELSE UpdateChanged(run, runSeen, finalize_run_with_summary(runSeen, items, NoOverride))
    /\ effect' = [k \in ItemKeys |-> IF k \in keys THEN COMPLETED ELSE effect[k]]
    /\ pc' = "done"
    /\ UNCHANGED <<plan, items, focus, runSeen, stage, totals, cancels, verdict>>

DailyStep ==
    \/ DlStart \/ DlItems \/ DlCancelled \/ DlRule \/ DlRuleFailed
    \/ DlStats \/ DlFinalRead \/ DlFinalCommit
    \/ FailRun

DailyRaises ==
    \/ DlRuleFails
    \/ /\ Raise({"launched", "dl_init", "dl_accounts", "dl_loop", "dl_start", "dl_start_commit",
                 "dl_commit", "dl_rule_failed", "dl_stats", "dl_final_read", "dl_final_commit"},
                NoChange, "mark_read")
       /\ UNCHANGED effects
=============================================================================
