----------------------------- MODULE BatchProofs -----------------------------
(***************************************************************************)
(* Proofs about work that is done part by part, a part at a time in its    *)
(* own transaction or savepoint: AutoClassify for any finite set of rules, *)
(* any accounts and any number of cancel requests, AggregationRuns for any *)
(* number of instances, and CapacityData for any number of databases, of   *)
(* collections that overlap, and of days; and PeriodCalendar, by which the *)
(* days become periods and partitions, for any date and any retention.     *)
(***************************************************************************)
EXTENDS AutoClassify, AggregationRuns, CapacityData, PeriodCalendar, FiniteSetTheorems, WellFoundedInduction, TLAPS

----------------------------------------------------------------------------
(* Automatic classification                                                *)

Settled == {COMPLETED, FAILED, CANCELLED}

\* Where the thread is, and what it may have locked, staged or left to do.
ControlInv ==
    /\ runLock = Worker => pc = "commit"
    /\ \A c \in Cancellers : cpc[c] = "commit" => runLock = c
    /\ todo \subseteq rules
    /\ dirty \subseteq rules
    /\ pc \in {"start_read", "start_commit", "process", "complete_commit"} => cur \in todo
    /\ pc \in {"launched", "fetched", "cleanup", "loop", "start_read", "process",
               "skip_read", "done", "dead"} => dirty = {}
    /\ pc \in {"launched", "fetched", "cleanup"} => todo = rules
    /\ pc \in {"start_commit", "complete_commit"} => dirty \subseteq {cur}

\* Which items are settled, in the table or in the thread's own view.
ItemsInv ==
    /\ \A r \in Rules \ rules : /\ items[r] = ABSENT
                                /\ \A c \in Cancellers : csnap[c][r] = ABSENT
    /\ pc \in {"loop", "start_read", "start_commit", "process", "complete_commit"}
         => \A r \in rules \ todo : items[r] \in Settled
    /\ pc = "complete_commit" => View[cur] \in Settled
    /\ pc \in {"skip_flush", "final_read", "final_flush"}
         => \A r \in rules : View[r] \in Settled
    /\ pc \in {"mark_read", "mark_flush"} /\ rules # {}
         => cur \in rules /\ View[cur] \in {FAILED, CANCELLED}
    /\ pc = "mark_flush" => \A r \in Rules : View[r] \notin IN_PROGRESS

\* A run row that a finalisation has closed, with the items it was counted from.
Outcome(row, its, rs) ==
    /\ row.status \in {COMPLETED, FAILED}
    /\ CountsMatch(row, its)
    /\ ItemsIn(its, IN_PROGRESS) = {}
    /\ row.status = COMPLETED => \A r \in rs : its[r] = COMPLETED
    /\ row.status = FAILED => row.progress_failed > 0 \/ rs = {}

\* What the thread has loaded is still true of the columns it alone writes, and
\* what it is about to commit is either an outcome computed under the run's
\* lock or no change of the status of a cancelled run.
RunInv ==
    /\ pc # "done" => run.status \in {RUNNING, CANCELLED}
    /\ pc \in {"mark_flush", "final_flush", "commit"} =>
         /\ loaded.progress_total = run.progress_total
         /\ loaded.progress_completed = run.progress_completed
         /\ loaded.progress_failed = run.progress_failed
    /\ pc = "mark_flush" => loaded.status = RUNNING /\ mine.status = FAILED
    /\ pc = "final_flush" => loaded.status = RUNNING /\ mine.status = RUNNING
    /\ pc = "commit" =>
         \/ loaded.status = CANCELLED /\ mine.status = CANCELLED /\ run.status = CANCELLED
         \/ loaded.status = RUNNING /\ runLock = Worker /\ Outcome(mine, View, rules)
    /\ run.status \in {COMPLETED, FAILED} =>
         /\ Outcome(run, items, rules)
         /\ \A c \in Cancellers : cpc[c] = "commit" => CancelWrites(c) = {}

\* The inductive invariant.
IInv == TypeOK /\ ControlInv /\ ItemsInv /\ RunInv

-----------------------------------------------------------------------------
\* Counting items yields natural numbers, zero exactly when there are none.
LEMMA CountItems ==
    ASSUME NEW its \in [Rules -> ItemStatus], NEW S
    PROVE  /\ Cardinality(ItemsIn(its, S)) \in Nat
           /\ Cardinality(ItemsIn(its, S)) = 0 <=> ItemsIn(its, S) = {}
<1>1. ItemsIn(its, S) \subseteq Rules
  BY DEF ItemsIn
<1>2. IsFiniteSet(ItemsIn(its, S))
  BY <1>1, RulesFinite, FS_Subset
<1> QED
  BY <1>2, FS_CardinalityType, FS_EmptySet

\* finalize_run yields a task_runs row and the counters of the items it read.
LEMMA FinalizeRow ==
    ASSUME NEW row \in TaskRun, NEW its \in [Rules -> ItemStatus]
    PROVE  /\ finalize_run(row, its) \in TaskRun
           /\ CountsMatch(finalize_run(row, its), its)
           /\ finalize_run(row, its).summary = row.summary
           /\ row.status \in {CANCELLED, FAILED} => finalize_run(row, its).status = row.status
<1>1. /\ Cardinality(ItemsIn(its, TaskRunStatus)) \in Nat
      /\ Cardinality(ItemsIn(its, {COMPLETED})) \in Nat
      /\ Cardinality(ItemsIn(its, {FAILED, CANCELLED})) \in Nat
  BY CountItems
<1> QED
  BY <1>1 DEF finalize_run, TaskRun, CountsMatch, TaskRunStatus, TERMINAL, IN_PROGRESS, FAILED,
              COMPLETED, CANCELLED

\* finalize_run on a running run whose rules are all settled yields an outcome.
LEMMA FinalizeRunning ==
    ASSUME NEW row \in TaskRun, NEW its \in [Rules -> ItemStatus], NEW rs \in SUBSET Rules,
           row.status = RUNNING,
           \A r \in rs : its[r] \in Settled,
           \A r \in Rules \ rs : its[r] = ABSENT
    PROVE  Outcome(finalize_run(row, its), its, rs)
<1> DEFINE bad == ItemsIn(its, {FAILED, CANCELLED})
<1> DEFINE fin == finalize_run(row, its)
<1>1. CountsMatch(fin, its)
  BY FinalizeRow
<1>2. Cardinality(bad) \in Nat /\ (Cardinality(bad) = 0 <=> bad = {})
  BY CountItems
<1>3. fin.status = IF Cardinality(bad) > 0 THEN FAILED ELSE COMPLETED
  BY DEF finalize_run, TaskRun, RUNNING, CANCELLED, FAILED
<1>4. fin.progress_failed = Cardinality(bad)
  BY <1>1 DEF CountsMatch
<1>5. ItemsIn(its, IN_PROGRESS) = {}
  BY DEF ItemsIn, IN_PROGRESS, Settled, ABSENT, PENDING, RUNNING, COMPLETED, FAILED, CANCELLED
<1>6. ASSUME fin.status = COMPLETED
      PROVE  \A r \in rs : its[r] = COMPLETED
  <2>1. Cardinality(bad) = 0
    BY <1>2, <1>3, <1>6 DEF COMPLETED, FAILED
  <2>2. bad = {}
    BY <1>2, <2>1
  <2> QED
    BY <2>2 DEF ItemsIn, Settled
<1>7. fin.status = FAILED => fin.progress_failed > 0
  BY <1>2, <1>3, <1>4 DEF COMPLETED, FAILED
<1> QED
  BY <1>1, <1>3, <1>5, <1>6, <1>7 DEF Outcome

\* finalize_run on a run that mark_run_failed has failed and closed.
LEMMA FinalizeFailed ==
    ASSUME NEW row \in TaskRun, NEW its \in [Rules -> ItemStatus], NEW rs \in SUBSET Rules,
           row.status = FAILED,
           \A r \in Rules : its[r] \notin IN_PROGRESS,
           rs = {} \/ \E r \in rs : its[r] \in {FAILED, CANCELLED}
    PROVE  Outcome(finalize_run(row, its), its, rs)
<1> DEFINE bad == ItemsIn(its, {FAILED, CANCELLED})
<1> DEFINE fin == finalize_run(row, its)
<1>1. CountsMatch(fin, its) /\ fin.status = FAILED
  BY FinalizeRow
<1>2. Cardinality(bad) \in Nat /\ (Cardinality(bad) = 0 <=> bad = {})
  BY CountItems
<1>3. ItemsIn(its, IN_PROGRESS) = {}
  BY DEF ItemsIn
<1>4. rs = {} \/ bad # {}
  BY DEF ItemsIn
<1>5. fin.progress_failed > 0 \/ rs = {}
  BY <1>1, <1>2, <1>4 DEF CountsMatch
<1> QED
  BY <1>1, <1>3, <1>5 DEF Outcome, COMPLETED, FAILED

\* The column-wise UPDATE keeps the row a task_runs row.
LEMMA UpdateRow ==
    ASSUME NEW db \in TaskRun, NEW old \in TaskRun, NEW new \in TaskRun
    PROVE  UpdateChanged(db, old, new) \in TaskRun
BY DEF UpdateChanged, TaskRun

-----------------------------------------------------------------------------
\* The item operations yield item statuses.
LEMMA ItemOps ==
    ASSUME NEW st
    PROVE  /\ start_item(st) \in TaskRunStatus
           /\ start_item(st) \in ItemStatus
           /\ complete_item(st) \in Settled
           /\ complete_item(st) \in ItemStatus
           /\ fail_item(st) \in {FAILED, CANCELLED}
           /\ fail_item(st) \in ItemStatus
BY DEF start_item, complete_item, fail_item, Settled, ItemStatus, TaskRunStatus, TERMINAL,
       IN_PROGRESS, PENDING, RUNNING, COMPLETED, COMPLETED_WITH_ERRORS, FAILED, CANCELLED, ABSENT

\* The thread's view of the items is a table of item statuses.
LEMMA ViewType == TypeOK => View \in [Rules -> ItemStatus]
BY DEF TypeOK, View

\* Every step keeps every row, lock and session value of its kind.
LEMMA TypeStep == TypeOK /\ ControlInv /\ [Next]_vars => TypeOK'
<1> SUFFICES ASSUME TypeOK, ControlInv, [Next]_vars PROVE TypeOK'
  OBVIOUS
<1> USE DEF TypeOK, Locations, inputs, session, thread, requests
<1>1. CASE CheckStart
  BY <1>1 DEF CheckStart
<1>2. CASE NoRules
  BY <1>2 DEF NoRules
<1>3. CASE InitItems
  BY FS_Subset, FS_CardinalityType, RulesFinite, <1>3 DEF InitItems, init_items, TaskRun, ItemStatus, TaskRunStatus, IN_PROGRESS, PENDING
<1>4. CASE Cleanup
  BY <1>4 DEF Cleanup
<1>5. CASE SkipRead
  BY ItemOps, <1>5 DEF SkipRead
<1>6. CASE SkipFlush
  BY <1>6 DEF SkipFlush
<1>7. CASE LoopNext
  BY <1>7 DEF LoopNext
<1>8. CASE LoopCancelled
  BY FinalizeRow, <1>8 DEF LoopCancelled
<1>9. CASE LoopEnd
  BY <1>9 DEF LoopEnd
<1>10. CASE StartRead
  <2>1. start_item(items[cur]) \in ItemStatus
    BY ItemOps
  <2>2. cur \in Rules
    BY <1>10 DEF StartRead, ControlInv
  <2> QED
    BY <1>10, <2>1, <2>2 DEF StartRead, StageItem
<1>11. CASE StartCommit
  BY ViewType, <1>11 DEF StartCommit, PublishItems
<1>12. CASE ProcessRule
  <2>1. complete_item(items[cur]) \in ItemStatus
    BY ItemOps
  <2>2. cur \in Rules
    BY <1>12 DEF ProcessRule, ControlInv
  <2> QED
    BY <1>12, <2>1, <2>2 DEF ProcessRule, StageItem
<1>13. CASE ProcessFail
  <2>1. fail_item(items[cur]) \in ItemStatus
    BY ItemOps
  <2>2. cur \in Rules
    BY <1>13 DEF ProcessFail, ControlInv
  <2> QED
    BY <1>13, <2>1, <2>2 DEF ProcessFail, StageItem
<1>14. CASE MarkRead
  BY ViewType, <1>14 DEF MarkRead, ItemsIn, write_summary, TaskRun, ItemStatus, TaskRunStatus, TERMINAL
<1>15. CASE MarkFlush
  BY FinalizeRow, ViewType, <1>15 DEF MarkFlush
<1>16. CASE FinalRead
  BY <1>16 DEF FinalRead, write_summary, TaskRun
<1>17. CASE FinalFlush
  BY FinalizeRow, ViewType, <1>17 DEF FinalFlush
<1>18. CASE Commit
  BY ViewType, UpdateRow, <1>18 DEF Commit, PublishItems
<1>19. CASE Die
  BY <1>19 DEF Die, Abandon
<1>20. ASSUME NEW wrote \in BOOLEAN, CompleteCommit(wrote)
      PROVE  TypeOK'
  <2>1. cur \in Rules
    BY <1>20 DEF CompleteCommit, ControlInv
  <2>2. RuleRows(cur) \subseteq Accounts \X Classes
    BY <2>1, RuleEffects DEF RuleRows
  <2> QED
    BY <1>20, <2>2, ViewType DEF CompleteCommit, PublishItems
<1>21. ASSUME NEW c \in Cancellers, RequestStep(c) \/ DeadlockStep(c)
      PROVE  TypeOK'
  <2>1. CASE CancelRead(c)
    BY <2>1 DEF CancelRead
  <2>2. CASE CancelFlush(c)
    BY <2>2 DEF CancelFlush
  <2>3. CASE CancelCommit(c)
    BY <2>3 DEF CancelCommit, TaskRun, ItemStatus, TaskRunStatus, TERMINAL
  <2>4. CASE DeadlockKillsThread(c)
    BY <2>4 DEF DeadlockKillsThread, Abandon
  <2>5. CASE DeadlockKillsRequest(c)
    BY <2>5 DEF DeadlockKillsRequest
  <2> QED
    BY <1>21, <2>1, <2>2, <2>3, <2>4, <2>5 DEF RequestStep, DeadlockStep
<1>22. CASE UNCHANGED vars
  BY <1>22 DEF vars
<1> QED
  BY <1>1, <1>2, <1>3, <1>4, <1>5, <1>6, <1>7, <1>8, <1>9, <1>10, <1>11, <1>12, <1>13, <1>14, <1>15, <1>16, <1>17, <1>18, <1>19, <1>20, <1>21, <1>22
  DEF Next, ThreadStep, RuleStep, Terminating

\* Every step keeps the thread's locations, locks and staged items consistent.
LEMMA ControlStep == TypeOK /\ ControlInv /\ ItemsInv /\ [Next]_vars => ControlInv'
<1> SUFFICES ASSUME TypeOK, ControlInv, ItemsInv, [Next]_vars PROVE ControlInv'
  OBVIOUS
<1> USE ProcessesDiffer DEF ControlInv, TypeOK, inputs, session, thread, requests
<1>1. CASE CheckStart
  BY <1>1 DEF CheckStart
<1>2. CASE NoRules
  BY <1>2 DEF NoRules
<1>3. CASE InitItems
  BY <1>3 DEF InitItems
<1>4. CASE Cleanup
  BY <1>4 DEF Cleanup
<1>5. CASE SkipRead
  BY <1>5 DEF SkipRead, ItemsInv
<1>6. CASE SkipFlush
  BY <1>6 DEF SkipFlush
<1>7. CASE LoopNext
  BY <1>7 DEF LoopNext
<1>8. CASE LoopCancelled
  BY <1>8 DEF LoopCancelled
<1>9. CASE LoopEnd
  BY <1>9 DEF LoopEnd
<1>10. CASE StartRead
  BY <1>10 DEF StartRead, StageItem
<1>11. CASE StartCommit
  BY <1>11 DEF StartCommit
<1>12. CASE ProcessRule
  BY <1>12 DEF ProcessRule, StageItem
<1>13. CASE ProcessFail
  BY <1>13 DEF ProcessFail, StageItem
<1>14. CASE MarkRead
  BY <1>14 DEF MarkRead, ItemsInv, ItemsIn, View, IN_PROGRESS, PENDING, RUNNING, ABSENT
<1>15. CASE MarkFlush
  BY <1>15 DEF MarkFlush
<1>16. CASE FinalRead
  BY <1>16 DEF FinalRead
<1>17. CASE FinalFlush
  BY <1>17 DEF FinalFlush
<1>18. CASE Commit
  BY <1>18 DEF Commit
<1>19. CASE Die
  BY <1>19 DEF Die, Abandon
<1>20. ASSUME NEW wrote \in BOOLEAN, CompleteCommit(wrote)
      PROVE  ControlInv'
  BY <1>20 DEF CompleteCommit
<1>21. ASSUME NEW c \in Cancellers, RequestStep(c) \/ DeadlockStep(c)
      PROVE  ControlInv'
  <2>1. CASE CancelRead(c)
    BY <2>1 DEF CancelRead
  <2>2. CASE CancelFlush(c)
    BY <2>2 DEF CancelFlush
  <2>3. CASE CancelCommit(c)
    BY <2>3 DEF CancelCommit
  <2>4. CASE DeadlockKillsThread(c)
    BY <2>4 DEF DeadlockKillsThread, Deadlocked, Abandon
  <2>5. CASE DeadlockKillsRequest(c)
    BY <2>5 DEF DeadlockKillsRequest, Deadlocked
  <2> QED
    BY <1>21, <2>1, <2>2, <2>3, <2>4, <2>5 DEF RequestStep, DeadlockStep
<1>22. CASE UNCHANGED vars
  BY <1>22 DEF vars
<1> QED
  BY <1>1, <1>2, <1>3, <1>4, <1>5, <1>6, <1>7, <1>8, <1>9, <1>10, <1>11, <1>12, <1>13, <1>14, <1>15, <1>16, <1>17, <1>18, <1>19, <1>20, <1>21, <1>22
  DEF Next, ThreadStep, RuleStep, Terminating

\* Every step keeps the settled items settled, whoever writes them.
LEMMA ItemsStep == TypeOK /\ ControlInv /\ ItemsInv /\ [Next]_vars => ItemsInv'
<1> SUFFICES ASSUME TypeOK, ControlInv, ItemsInv, [Next]_vars PROVE ItemsInv'
  OBVIOUS
<1> USE DEF ItemsInv, ControlInv, TypeOK, View, inputs, session, thread, requests
<1>1. CASE CheckStart
  BY <1>1 DEF CheckStart
<1>2. CASE NoRules
  BY <1>2 DEF NoRules
<1>3. CASE InitItems
  BY <1>3 DEF InitItems, init_items
<1>4. CASE Cleanup
  BY <1>4 DEF Cleanup
<1>5. CASE SkipRead
  BY <1>5, ItemOps DEF SkipRead
<1>6. CASE SkipFlush
  BY <1>6 DEF SkipFlush
<1>7. CASE LoopNext
  BY <1>7 DEF LoopNext
<1>8. CASE LoopCancelled
  BY <1>8 DEF LoopCancelled
<1>9. CASE LoopEnd
  BY <1>9 DEF LoopEnd
<1>10. CASE StartRead
  BY <1>10 DEF StartRead, StageItem
<1>11. CASE StartCommit
  BY <1>11 DEF StartCommit, PublishItems
<1>12. CASE ProcessRule
  BY <1>12, ItemOps DEF ProcessRule, StageItem
<1>13. CASE ProcessFail
  BY <1>13, ItemOps DEF ProcessFail, StageItem
<1>14. CASE MarkRead
  <2>1. CASE run.status = CANCELLED
    BY <1>14, <2>1 DEF MarkRead
  <2>2. CASE run.status # CANCELLED
    <3>1. pc' = "mark_flush" /\ UNCHANGED <<rules, items, csnap, cur>>
      BY <1>14, <2>2 DEF MarkRead
    <3>2. \A r \in Rules : View'[r] = IF View[r] \in IN_PROGRESS THEN FAILED ELSE View[r]
      BY <1>14, <2>2, <3>1 DEF MarkRead, ItemsIn
    <3>3. rules # {} => cur \in rules /\ View[cur] \in {FAILED, CANCELLED}
      BY <1>14 DEF MarkRead
    <3> HIDE DEF View
    <3> QED
      BY <3>1, <3>2, <3>3 DEF IN_PROGRESS, PENDING, RUNNING, FAILED, CANCELLED
  <2> QED
    BY <2>1, <2>2
<1>15. CASE MarkFlush
  BY <1>15 DEF MarkFlush
<1>16. CASE FinalRead
  BY <1>16 DEF FinalRead
<1>17. CASE FinalFlush
  BY <1>17 DEF FinalFlush
<1>18. CASE Commit
  BY <1>18 DEF Commit, PublishItems
<1>19. CASE Die
  BY <1>19 DEF Die, Abandon
<1>20. ASSUME NEW wrote \in BOOLEAN, CompleteCommit(wrote)
      PROVE  ItemsInv'
  BY <1>20 DEF CompleteCommit, PublishItems
<1>21. ASSUME NEW c \in Cancellers, RequestStep(c) \/ DeadlockStep(c)
      PROVE  ItemsInv'
  <2>1. CASE CancelRead(c)
    BY <2>1 DEF CancelRead
  <2>2. CASE CancelFlush(c)
    BY <2>2 DEF CancelFlush
  <2>3. CASE CancelCommit(c)
    BY <2>3 DEF CancelCommit, CancelWrites, ItemsIn, IN_PROGRESS, PENDING, RUNNING, ABSENT, FAILED, CANCELLED, COMPLETED, Settled
  <2>4. CASE DeadlockKillsThread(c)
    BY <2>4 DEF DeadlockKillsThread, Deadlocked, Abandon
  <2>5. CASE DeadlockKillsRequest(c)
    BY <2>5 DEF DeadlockKillsRequest, Deadlocked
  <2> QED
    BY <1>21, <2>1, <2>2, <2>3, <2>4, <2>5 DEF RequestStep, DeadlockStep
<1>22. CASE UNCHANGED vars
  BY <1>22 DEF vars
<1> QED
  BY <1>1, <1>2, <1>3, <1>4, <1>5, <1>6, <1>7, <1>8, <1>9, <1>10, <1>11, <1>12, <1>13, <1>14, <1>15, <1>16, <1>17, <1>18, <1>19, <1>20, <1>21, <1>22
  DEF Next, ThreadStep, RuleStep, Terminating

\* Every step keeps the run row in agreement with what is staged for it.
LEMMA RunStep == IInv /\ [Next]_vars => RunInv'
<1> SUFFICES ASSUME IInv, [Next]_vars PROVE RunInv'
  OBVIOUS
<1> USE DEF IInv, RunInv, TypeOK, ControlInv, inputs, session, thread, requests
<1>1. ASSUME pc' \notin {"mark_flush", "final_flush", "commit", "done"},
             run.status \in {RUNNING, CANCELLED},
             run'.status = run.status
      PROVE  RunInv'
  BY <1>1 DEF RUNNING, COMPLETED, FAILED, CANCELLED
<1>2. CASE CheckStart
  BY <1>2 DEF CheckStart, RUNNING, COMPLETED, FAILED, CANCELLED
<1>3. CASE NoRules
  BY <1>1, <1>3 DEF NoRules, RUNNING, COMPLETED, FAILED, CANCELLED
<1>4. CASE Cleanup
  BY <1>1, <1>4 DEF Cleanup, RUNNING, COMPLETED, FAILED, CANCELLED
<1>5. CASE SkipRead
  BY <1>1, <1>5 DEF SkipRead, RUNNING, COMPLETED, FAILED, CANCELLED
<1>6. CASE SkipFlush
  BY <1>1, <1>6 DEF SkipFlush, RUNNING, COMPLETED, FAILED, CANCELLED
<1>7. CASE LoopNext
  BY <1>1, <1>7 DEF LoopNext, RUNNING, COMPLETED, FAILED, CANCELLED
<1>8. CASE LoopEnd
  BY <1>1, <1>8 DEF LoopEnd, RUNNING, COMPLETED, FAILED, CANCELLED
<1>9. CASE StartRead
  BY <1>1, <1>9 DEF StartRead, RUNNING, COMPLETED, FAILED, CANCELLED
<1>10. CASE StartCommit
  BY <1>1, <1>10 DEF StartCommit, RUNNING, COMPLETED, FAILED, CANCELLED
<1>11. CASE ProcessRule
  BY <1>1, <1>11 DEF ProcessRule, RUNNING, COMPLETED, FAILED, CANCELLED
<1>12. CASE ProcessFail
  BY <1>1, <1>12 DEF ProcessFail, RUNNING, COMPLETED, FAILED, CANCELLED
<1>13. CASE InitItems
  BY <1>1, <1>13 DEF InitItems, TaskRun, RUNNING, COMPLETED, FAILED, CANCELLED
<1>14. CASE LoopCancelled
  BY <1>14, FinalizeRow DEF LoopCancelled, RUNNING, COMPLETED, FAILED, CANCELLED
<1>15. CASE MarkRead
  BY <1>15 DEF MarkRead, write_summary, TaskRun, RUNNING, COMPLETED, FAILED, CANCELLED
<1>16. CASE MarkFlush
  <2>1. View' = View
    BY <1>16 DEF MarkFlush, View
  <2>2. Outcome(finalize_run(mine, View), View, rules)
    BY <1>16, FinalizeFailed, ViewType DEF MarkFlush, ItemsInv
  <2> QED
    BY <1>16, <2>1, <2>2 DEF MarkFlush, RUNNING, COMPLETED, FAILED, CANCELLED
<1>17. CASE FinalRead
  BY <1>17 DEF FinalRead, write_summary, TaskRun, RUNNING, COMPLETED, FAILED, CANCELLED
<1>18. CASE FinalFlush
  <2>1. View' = View
    BY <1>18 DEF FinalFlush, View
  <2>2. /\ \A r \in rules : View[r] \in Settled
        /\ \A r \in Rules \ rules : View[r] = ABSENT
    BY <1>18 DEF FinalFlush, ItemsInv, View
  <2>3. Outcome(finalize_run(mine, View), View, rules)
    BY <1>18, <2>2, FinalizeRunning, ViewType DEF FinalFlush
  <2> QED
    BY <1>18, <2>1, <2>3 DEF FinalFlush, RUNNING, COMPLETED, FAILED, CANCELLED
<1>19. CASE Commit
  <2>1. CASE loaded.status = CANCELLED
    <3>1. run'.status = CANCELLED
      BY <1>19, <2>1 DEF Commit, UpdateChanged, RUNNING, COMPLETED, FAILED, CANCELLED
    <3> QED
      BY <1>19, <3>1 DEF Commit, RUNNING, COMPLETED, FAILED, CANCELLED
  <2>2. CASE loaded.status = RUNNING
    <3>1. runLock = Worker /\ Outcome(mine, View, rules)
      BY <1>19, <2>2 DEF Commit, RUNNING, COMPLETED, FAILED, CANCELLED
    <3>2. /\ run'.status = mine.status
          /\ run'.progress_total = mine.progress_total
          /\ run'.progress_completed = mine.progress_completed
          /\ run'.progress_failed = mine.progress_failed
      BY <1>19, <2>2, <3>1 DEF Commit, UpdateChanged, Outcome, RUNNING, COMPLETED, FAILED, CANCELLED
    <3>3. Outcome(run', items', rules')
      BY <1>19, <3>1, <3>2 DEF Commit, PublishItems, Outcome, CountsMatch
    <3>4. \A c \in Cancellers : cpc'[c] # "commit"
      BY <1>19, <3>1, ProcessesDiffer DEF Commit
    <3> QED
      BY <1>19, <3>3, <3>4 DEF Commit
  <2> QED
    BY <1>19, <2>1, <2>2 DEF Commit
<1>20. CASE Die
  BY <1>1, <1>20 DEF Die, Abandon, RUNNING, COMPLETED, FAILED, CANCELLED
<1>21. ASSUME NEW wrote \in BOOLEAN, CompleteCommit(wrote)
      PROVE  RunInv'
  BY <1>1, <1>21 DEF CompleteCommit, RUNNING, COMPLETED, FAILED, CANCELLED
<1>22. ASSUME NEW c \in Cancellers, RequestStep(c) \/ DeadlockStep(c)
      PROVE  RunInv'
  <2>1. CASE CancelRead(c)
    BY <2>1 DEF CancelRead, CancelWrites, View
  <2>2. CASE CancelFlush(c)
    <3>1. run.status \in {COMPLETED, FAILED} => ItemsIn(items, IN_PROGRESS) = {}
      BY DEF Outcome
    <3> QED
      BY <2>2, <3>1, ProcessesDiffer DEF CancelFlush, CancelWrites, View
  <2>3. CASE CancelCommit(c)
    <3>1. runLock = c /\ runLock # Worker
      BY <2>3, ProcessesDiffer DEF CancelCommit
    <3>2. run' = [run EXCEPT !.status = CANCELLED] /\ run'.status = CANCELLED
      BY <2>3 DEF CancelCommit, TaskRun
    <3> QED
      BY <2>3, <3>1, <3>2 DEF CancelCommit, TaskRun, RUNNING, COMPLETED, FAILED, CANCELLED
  <2>4. CASE DeadlockKillsThread(c)
    BY <1>1, <2>4 DEF DeadlockKillsThread, Deadlocked, Abandon, RUNNING, COMPLETED, FAILED, CANCELLED
  <2>5. CASE DeadlockKillsRequest(c)
    BY <2>5, ProcessesDiffer DEF DeadlockKillsRequest, Deadlocked, CancelWrites, View, RUNNING, COMPLETED, FAILED, CANCELLED
  <2> QED
    BY <1>22, <2>1, <2>2, <2>3, <2>4, <2>5 DEF RequestStep, DeadlockStep
<1>23. CASE UNCHANGED vars
  BY <1>23 DEF vars, View, CancelWrites
<1> QED
  BY <1>2, <1>3, <1>4, <1>5, <1>6, <1>7, <1>8, <1>9, <1>10, <1>11, <1>12, <1>13, <1>14, <1>15, <1>16, <1>17, <1>18, <1>19, <1>20, <1>21, <1>22, <1>23
  DEF Next, ThreadStep, RuleStep, Terminating

-----------------------------------------------------------------------------
\* The initial states satisfy the invariant.
LEMMA InitInv == Init => IInv
<1> SUFFICES ASSUME Init PROVE IInv
  OBVIOUS
<1> USE DEF Init
<1>1. start_run \in TaskRun /\ start_run.status = RUNNING
  BY DEF start_run, TaskRun, TaskRunStatus, IN_PROGRESS
<1>2. TypeOK
  BY <1>1 DEF TypeOK, Locations, ItemStatus
<1>3. ControlInv
  BY ProcessesDiffer DEF ControlInv
<1>4. ItemsInv
  BY DEF ItemsInv
<1>5. RunInv
  BY <1>1 DEF RunInv, RUNNING, COMPLETED, FAILED
<1> QED
  BY <1>2, <1>3, <1>4, <1>5 DEF IInv

\* IInv is an inductive invariant of the thread and the requests.
THEOREM Invariance == Spec => []IInv
<1>1. Init => IInv
  BY InitInv
<1>2. IInv /\ [Next]_vars => IInv'
  BY TypeStep, ControlStep, ItemsStep, RunStep DEF IInv
<1> QED
  BY <1>1, <1>2, PTL DEF Spec

\* Type correctness of the rows, the locks and the sessions, for any number of
\* rules, accounts and cancel requests.
THEOREM TypeCorrect == Spec => []TypeOK
<1>1. IInv => TypeOK
  BY DEF IInv
<1> QED
  BY <1>1, Invariance, PTL

\* finalize_run never reports a run as completed whose rules did not all
\* complete, whatever the number and the timing of the cancel requests; and a
\* run that finalize_run or mark_run_failed has failed has no open item and
\* counts at least one failure unless it had no rule.
THEOREM EndedRunsAreTrue == Spec => []EndedRunIsTrue
<1>1. IInv => CompletedIsHonest
  BY DEF IInv, RunInv, Outcome, CompletedIsHonest, COMPLETED, FAILED
<1>2. IInv => FailedIsClosed
  BY DEF IInv, RunInv, Outcome, FailedIsClosed, COMPLETED, FAILED
<1>3. IInv => EndedRunIsTrue
  BY <1>1, <1>2 DEF EndedRunIsTrue
<1> QED
  BY <1>3, Invariance, PTL

\* A run that reads completed or failed is frozen: only a late cancel request
\* can still change it, and only its status.
THEOREM ClosedFrozen == Spec => ClosedRunIsFrozen
<1> DEFINE Frozen == run.status \in {COMPLETED, FAILED} =>
                       /\ items' = items
                       /\ run' = run \/ run' = [run EXCEPT !.status = CANCELLED]
<1>1. IInv /\ [Next]_vars => Frozen
  <2> SUFFICES ASSUME IInv, [Next]_vars, run.status \in {COMPLETED, FAILED}
               PROVE  /\ items' = items
                      /\ run' = run \/ run' = [run EXCEPT !.status = CANCELLED]
    OBVIOUS
  <2>1. pc = "done"
    BY DEF IInv, RunInv, RUNNING, COMPLETED, FAILED, CANCELLED
  <2>2. ~ThreadStep /\ ~Die
    BY <2>1 DEF ThreadStep, RuleStep, Die, CheckStart, NoRules, InitItems, Cleanup, SkipRead, SkipFlush, LoopNext, LoopCancelled, LoopEnd, StartRead, StartCommit, ProcessRule, ProcessFail, MarkRead, MarkFlush, FinalRead, FinalFlush, Commit, CompleteCommit
  <2>3. ASSUME NEW c \in Cancellers, RequestStep(c) \/ DeadlockStep(c)
        PROVE  /\ items' = items
               /\ run' = run \/ run' = [run EXCEPT !.status = CANCELLED]
    <3>1. CASE CancelRead(c) \/ CancelFlush(c)
      BY <3>1 DEF CancelRead, CancelFlush
    <3>2. CASE CancelCommit(c)
      <4>1. CancelWrites(c) = {}
        BY <3>2 DEF CancelCommit, IInv, RunInv
      <4>2. items = [i \in Rules |-> items[i]]
        BY DEF IInv, TypeOK
      <4> QED
        BY <3>2, <4>1, <4>2 DEF CancelCommit
    <3>3. ~DeadlockStep(c)
      BY <2>1 DEF DeadlockStep, DeadlockKillsThread, DeadlockKillsRequest, Deadlocked
    <3> QED
      BY <2>3, <3>1, <3>2, <3>3 DEF RequestStep
  <2> QED
    BY <2>2, <2>3 DEF Next, Terminating, vars
<1> QED
  BY <1>1, Invariance, PTL DEF Spec, ClosedRunIsFrozen

-----------------------------------------------------------------------------
\* The thread is a writer that has read "running", and the requests that have.
WorkerHolds == pc \in AtWrite /\ loaded.status = RUNNING
Requesting == {c \in Cancellers : cpc[c] \in {"flush", "commit"}}

LEMMA Holders ==
    /\ Holding = IF WorkerHolds THEN Requesting \cup {Worker} ELSE Requesting
    /\ Holding' = IF WorkerHolds' THEN Requesting' \cup {Worker} ELSE Requesting'
    /\ Worker \notin Requesting /\ Worker \notin Requesting'
  BY ProcessesDiffer DEF Holding, WorkerHolds, Requesting

\* What a step of the thread may do about the status of the run.
WorkerMove ==
    /\ UNCHANGED cpc
    /\ \/ run'.status = run.status /\ (WorkerHolds' => WorkerHolds \/ run.status = RUNNING)
       \/ WorkerHolds /\ ~WorkerHolds' /\ run'.status \in {COMPLETED, FAILED}

\* The thread reads, writes or gives up, or nothing happens.
LEMMA WorkerMoveAllowed == WorkerMove => [Centre!Next]_(Centre!statusVars)
<1> SUFFICES ASSUME WorkerMove PROVE [Centre!Next]_(Centre!statusVars)
  OBVIOUS
<1>0. Requesting' = Requesting
  BY DEF WorkerMove, Requesting
<1>1. CASE run'.status = run.status /\ (WorkerHolds' => WorkerHolds \/ run.status = RUNNING)
  <2>1. CASE WorkerHolds' <=> WorkerHolds
    BY <1>0, <1>1, <2>1, Holders DEF Centre!statusVars
  <2>2. CASE WorkerHolds /\ ~WorkerHolds'
    <3>1. Centre!GiveUp(Worker)
      BY <1>0, <1>1, <2>2, Holders DEF Centre!GiveUp
    <3> QED BY <3>1 DEF Centre!Next
  <2>3. CASE ~WorkerHolds /\ WorkerHolds'
    <3>1. Centre!Read(Worker)
      BY <1>0, <1>1, <2>3, Holders DEF Centre!Read, RUNNING, Centre!RUNNING
    <3> QED BY <3>1 DEF Centre!Next
  <2> QED BY <2>1, <2>2, <2>3
<1>2. CASE WorkerHolds /\ ~WorkerHolds' /\ run'.status \in {COMPLETED, FAILED}
  <2>1. Centre!Write(Worker)
    BY <1>0, <1>2, Holders DEF Centre!Write, Centre!Verdicts, COMPLETED, FAILED, Centre!COMPLETED, Centre!FAILED
  <2> QED BY <2>1 DEF Centre!Next
<1> QED BY <1>1, <1>2 DEF WorkerMove

\* Every step of the thread is such a move.
LEMMA WorkerMoves == IInv /\ (ThreadStep \/ Die) => WorkerMove
<1> SUFFICES ASSUME IInv, ThreadStep \/ Die PROVE WorkerMove
  OBVIOUS
<1> USE DEF WorkerMove, WorkerHolds, AtWrite, requests, session
<1>1. /\ pc # "done" => run.status \in {RUNNING, CANCELLED}
      /\ pc \in {"mark_flush", "final_flush"} => loaded.status = RUNNING
      /\ pc = "commit" => \/ loaded.status = CANCELLED /\ mine.status = CANCELLED
                          \/ loaded.status = RUNNING /\ mine.status \in {COMPLETED, FAILED}
  BY DEF IInv, RunInv, Outcome
<1>2. run \in TaskRun
  BY DEF IInv, TypeOK
<1>3. CASE CheckStart \/ NoRules \/ Cleanup \/ SkipRead \/ SkipFlush \/ LoopNext \/ LoopEnd
  BY <1>3 DEF CheckStart, NoRules, Cleanup, SkipRead, SkipFlush, LoopNext, LoopEnd
<1>4. CASE InitItems
  <2>1. run'.status = run.status
    BY <1>2, <1>4 DEF InitItems, TaskRun
  <2> QED BY <1>4, <2>1 DEF InitItems
<1>5. CASE RuleStep
  BY <1>5 DEF RuleStep, StartRead, StartCommit, ProcessRule, ProcessFail, CompleteCommit
<1>6. CASE LoopCancelled
  BY <1>6 DEF LoopCancelled, RUNNING, CANCELLED
<1>7. CASE MarkRead \/ FinalRead
  BY <1>1, <1>7 DEF MarkRead, FinalRead, RUNNING, CANCELLED
<1>8. CASE MarkFlush \/ FinalFlush
  BY <1>1, <1>8 DEF MarkFlush, FinalFlush
<1>9. CASE Commit
  <2>1. pc = "commit" /\ pc' = "done" /\ UNCHANGED cpc
        /\ run'.status = IF mine.status # loaded.status THEN mine.status ELSE run.status
    BY <1>9 DEF Commit, UpdateChanged
  <2> QED BY <1>1, <2>1 DEF RUNNING, CANCELLED, COMPLETED, FAILED
<1>10. CASE Die
  BY <1>10 DEF Die, Abandon
<1> QED BY <1>3, <1>4, <1>5, <1>6, <1>7, <1>8, <1>9, <1>10 DEF ThreadStep

\* A request reads, writes or gives up as the promise says; a deadlock makes the
\* thread or the request give up.
LEMMA CancellersMove ==
    ASSUME IInv, NEW c \in Cancellers, RequestStep(c) \/ DeadlockStep(c)
    PROVE  [Centre!Next]_(Centre!statusVars)
<1>1. cpc \in [Cancellers -> {"read", "flush", "commit", "refused", "done", "error"}] /\ run \in TaskRun /\ c # Worker
  BY ProcessesDiffer DEF IInv, TypeOK
<1>2. CASE DeadlockKillsThread(c)
  <2>1. WorkerMove
    BY <1>2 DEF DeadlockKillsThread, Abandon, WorkerMove, WorkerHolds, AtWrite, requests
  <2> QED BY <2>1, WorkerMoveAllowed
<1>3. CASE CancelRead(c)
  <2>0. UNCHANGED run /\ (WorkerHolds' <=> WorkerHolds)
    BY <1>3 DEF CancelRead, WorkerHolds, thread, session
  <2>1. CASE run.status = RUNNING
    <3>1. Requesting' = Requesting \cup {c}
      BY <1>1, <1>3, <2>1 DEF CancelRead, Requesting
    <3>2. Centre!Read(c)
      BY <1>1, <2>0, <2>1, <3>1, Holders DEF Centre!Read, RUNNING, Centre!RUNNING
    <3> QED BY <3>2 DEF Centre!Next
  <2>2. CASE run.status # RUNNING
    <3>1. Requesting' = Requesting
      BY <1>1, <1>3, <2>2 DEF CancelRead, Requesting
    <3> QED BY <2>0, <3>1, Holders DEF Centre!statusVars
  <2> QED BY <2>1, <2>2
<1>4. CASE CancelFlush(c)
  <2>1. Requesting' = Requesting /\ UNCHANGED run /\ (WorkerHolds' <=> WorkerHolds)
    BY <1>1, <1>4 DEF CancelFlush, Requesting, WorkerHolds, thread, session
  <2> QED BY <2>1, Holders DEF Centre!statusVars
<1>5. CASE CancelCommit(c)
  <2>1. c \in Requesting /\ Requesting' = Requesting \ {c} /\ run'.status = CANCELLED
    BY <1>1, <1>5 DEF CancelCommit, Requesting, TaskRun
  <2>2. WorkerHolds' <=> WorkerHolds
    BY <1>5 DEF CancelCommit, WorkerHolds, thread, session
  <2>3. Centre!Write(c)
    BY <1>1, <2>1, <2>2, Holders DEF Centre!Write, Centre!Verdicts, CANCELLED, Centre!CANCELLED
  <2> QED BY <2>3 DEF Centre!Next
<1>6. CASE DeadlockKillsRequest(c)
  <2>1. Requesting' = Requesting \ {c} /\ UNCHANGED run /\ (WorkerHolds' <=> WorkerHolds)
    BY <1>1, <1>6 DEF DeadlockKillsRequest, Requesting, WorkerHolds, thread, session
  <2>2. Centre!GiveUp(c)
    BY <1>1, <2>1, Holders DEF Centre!GiveUp
  <2> QED BY <2>2 DEF Centre!Next
<1> QED BY <1>2, <1>3, <1>4, <1>5, <1>6 DEF RequestStep, DeadlockStep

\* The manual classification and the requests that cancel it implement
\* TaskRunCentre: the thread writes a status only if it loaded the run as running
\* before it took the run's lock, and a cancelled run is recounted and not closed
\* again, whichever transaction the database aborts in a deadlock.
THEOREM ClassificationKeepsPromise == Spec => KeepsPromise
<1>1. Init => Centre!Init
  <2> SUFFICES ASSUME Init PROVE Centre!Init
    OBVIOUS
  <2>1. run.status = RUNNING /\ pc = "launched" /\ \A c \in Cancellers : cpc[c] = "read"
    BY DEF Init, start_run
  <2> QED BY <2>1 DEF Centre!Init, Holding, AtWrite, RUNNING, Centre!RUNNING
<1>2. IInv /\ [Next]_vars => [Centre!Next]_(Centre!statusVars)
  <2> SUFFICES ASSUME IInv, [Next]_vars PROVE [Centre!Next]_(Centre!statusVars)
    OBVIOUS
  <2>1. CASE ThreadStep \/ Die
    BY <2>1, WorkerMoves, WorkerMoveAllowed
  <2>2. CASE UNCHANGED vars
    <3>1. UNCHANGED <<run, loaded, pc, cpc>>
      BY <2>2 DEF vars, thread, session, requests
    <3>2. UNCHANGED Holding
      BY <3>1 DEF Holding
    <3> QED BY <3>1, <3>2 DEF Centre!statusVars
  <2> QED BY <2>1, <2>2, CancellersMove DEF Next, Terminating
<1> QED BY <1>1, <1>2, Invariance, PTL DEF Spec, KeepsPromise, Centre!Spec

-----------------------------------------------------------------------------
\* The assignments of the accounts in scope are those of the rules done so far.
ScopeRows == {p \in assigned : p[1] \in accts}

AssignInv ==
    /\ pc \in {"loop", "start_read", "start_commit", "process", "complete_commit"}
         => ScopeRows = UNION {RuleRows(r) : r \in rules \ todo}
    /\ pc \in {"skip_read", "skip_flush"} => accts = {}
    /\ pc \in {"final_read", "final_flush"} \/ (pc = "commit" /\ mine.status = COMPLETED)
         => ScopeRows = UNION {RuleRows(r) : r \in rules}
    /\ run.status = COMPLETED => ScopeRows = UNION {RuleRows(r) : r \in rules}

\* Every step keeps them so, unless upsert_assignments loses a write.
LEMMA AssignStep == ~MayLoseWrite /\ IInv /\ AssignInv /\ [Next]_vars => AssignInv'
<1> SUFFICES ASSUME ~MayLoseWrite, IInv, AssignInv, [Next]_vars PROVE AssignInv'
  OBVIOUS
<1> USE DEF AssignInv, ScopeRows, RuleRows, IInv, RunInv, inputs, session, thread, requests
<1>1. CASE CheckStart
  BY <1>1 DEF CheckStart, RUNNING, COMPLETED, FAILED, CANCELLED
<1>2. CASE NoRules
  BY <1>2 DEF NoRules, RUNNING, COMPLETED, FAILED, CANCELLED
<1>3. CASE InitItems
  BY <1>3 DEF InitItems, TypeOK, TaskRun, RUNNING, COMPLETED, FAILED, CANCELLED
<1>4. CASE Cleanup
  BY <1>4 DEF Cleanup, ControlInv, RUNNING, COMPLETED, FAILED, CANCELLED
<1>5. CASE SkipRead
  BY <1>5 DEF SkipRead, RUNNING, COMPLETED, FAILED, CANCELLED
<1>6. CASE SkipFlush
  BY <1>6 DEF SkipFlush, RUNNING, COMPLETED, FAILED, CANCELLED
<1>7. CASE LoopNext
  BY <1>7 DEF LoopNext, RUNNING, COMPLETED, FAILED, CANCELLED
<1>8. CASE LoopCancelled
  BY <1>8, FinalizeRow DEF LoopCancelled, TypeOK, RUNNING, COMPLETED, FAILED, CANCELLED
<1>9. CASE LoopEnd
  BY <1>9 DEF LoopEnd, RUNNING, COMPLETED, FAILED, CANCELLED
<1>10. CASE StartRead
  BY <1>10 DEF StartRead, RUNNING, COMPLETED, FAILED, CANCELLED
<1>11. CASE StartCommit
  BY <1>11 DEF StartCommit, RUNNING, COMPLETED, FAILED, CANCELLED
<1>12. CASE ProcessRule
  BY <1>12 DEF ProcessRule, RUNNING, COMPLETED, FAILED, CANCELLED
<1>13. CASE ProcessFail
  BY <1>13 DEF ProcessFail, RUNNING, COMPLETED, FAILED, CANCELLED
<1>14. CASE MarkRead
  BY <1>14 DEF MarkRead, write_summary, TypeOK, TaskRun, RUNNING, COMPLETED, FAILED, CANCELLED
<1>15. CASE MarkFlush
  BY <1>15, FinalizeRow, ViewType DEF MarkFlush, TypeOK, RUNNING, COMPLETED, FAILED, CANCELLED
<1>16. CASE FinalRead
  BY <1>16 DEF FinalRead, write_summary, RUNNING, COMPLETED, FAILED, CANCELLED
<1>17. CASE FinalFlush
  BY <1>17 DEF FinalFlush, RUNNING, COMPLETED, FAILED, CANCELLED
<1>18. CASE Commit
  BY <1>18 DEF Commit, UpdateChanged, RUNNING, COMPLETED, FAILED, CANCELLED
<1>19. CASE Die
  BY <1>19 DEF Die, Abandon, RUNNING, COMPLETED, FAILED, CANCELLED
<1>20. ASSUME NEW wrote \in BOOLEAN, CompleteCommit(wrote)
      PROVE  AssignInv'
  <2>1. cur \in rules /\ cur \in todo
    BY <1>20 DEF CompleteCommit, ControlInv
  <2>2. assigned' = assigned \cup RuleRows(cur) /\ todo' = todo \ {cur}
    BY <1>20 DEF CompleteCommit
  <2>3. \A p \in RuleRows(cur) : p[1] \in accts
    OBVIOUS
  <2>4. ScopeRows' = ScopeRows \cup RuleRows(cur)
    BY <1>20, <2>2, <2>3 DEF CompleteCommit
  <2>5. rules' \ todo' = (rules \ todo) \cup {cur}
    BY <1>20, <2>1, <2>2 DEF CompleteCommit
  <2>6. ScopeRows' = UNION {RuleRows(r) : r \in rules' \ todo'}
    <3> HIDE DEF ScopeRows, RuleRows
    <3> QED
      BY <1>20, <2>4, <2>5 DEF CompleteCommit
  <2> QED
    BY <1>20, <2>6 DEF CompleteCommit, RUNNING, COMPLETED, FAILED, CANCELLED
<1>21. ASSUME NEW c \in Cancellers, RequestStep(c) \/ DeadlockStep(c)
      PROVE  AssignInv'
  BY <1>21 DEF RequestStep, DeadlockStep, CancelRead, CancelFlush, CancelCommit,
        DeadlockKillsThread, DeadlockKillsRequest, Deadlocked, Abandon, TypeOK, TaskRun, RUNNING, COMPLETED, FAILED, CANCELLED
<1>22. CASE UNCHANGED vars
  BY <1>22 DEF vars
<1> QED
  BY <1>1, <1>2, <1>3, <1>4, <1>5, <1>6, <1>7, <1>8, <1>9, <1>10, <1>11, <1>12, <1>13, <1>14, <1>15, <1>16, <1>17, <1>18, <1>19, <1>20, <1>21, <1>22
  DEF Next, ThreadStep, RuleStep, Terminating

\* If no write of upsert_assignments is lost, a completed run has left exactly
\* the assignments its rules call for on the accounts in its scope.
THEOREM CompletedClassified == ~MayLoseWrite => (Spec => []CompletedIsClassified)
<1> SUFFICES ASSUME ~MayLoseWrite PROVE Spec => []CompletedIsClassified
  OBVIOUS
<1>1. Init => AssignInv
  BY DEF Init, AssignInv, start_run, RUNNING, COMPLETED
<1>2. IInv /\ AssignInv /\ [Next]_vars => AssignInv'
  BY AssignStep
<1>3. AssignInv => CompletedIsClassified
  BY DEF AssignInv, ScopeRows, CompletedIsClassified
<1> QED
  BY <1>1, <1>2, <1>3, Invariance, PTL DEF Spec

----------------------------------------------------------------------------
(* Results of the aggregations                                             *)

(* The plan lists every unit at most once, and nothing is told yet of a unit *)
(* that is still to do.                                                      *)
Planned ==
    /\ plan \in Seq(Seq(Unit))
    /\ \A k, l \in DOMAIN plan : \A m \in DOMAIN plan[k], n \in DOMAIN plan[l] :
         plan[k][m] = plan[l][n] => k = l /\ m = n
    /\ phase = "work" => \A k \in DOMAIN plan : \A m \in DOMAIN plan[k] : told[plan[k][m]] = "nothing"

SameInstance(u, v) == u.kind = "instance" /\ v.kind = "instance" /\ u.instance = v.instance

(* In the nightly run the periods of an instance are one group: what is told *)
(* or committed of them is told while the group is done.                     *)
InstanceByInstance ==
    \A k \in DOMAIN plan : \A m \in DOMAIN plan[k] :
      /\ \A l \in DOMAIN plan : \A n \in DOMAIN plan[l] : SameInstance(plan[k][m], plan[l][n]) => k = l
      /\ k # 1 => \A u \in Unit : SameInstance(plan[k][m], u) => told[u] = "nothing"
      /\ \A u \in kept : ~SameInstance(plan[k][m], u)

\* The aggregation of the current day is about that day.
OfToday ==
    /\ \A k \in DOMAIN plan : \A m \in DOMAIN plan[k] : plan[k][m].period = "daily"
    /\ \A u \in Unit : told[u] # "nothing" => u.period = "daily"

(* What was stored is told as completed or was overtaken, and the other way  *)
(* round as long as the transaction lives.                                   *)
Accounted ==
    /\ kept \cup stored \subseteq Claimed(Unit) \cup overtaken
    /\ \A u \in overtaken : told[u] = "failed"
    /\ phase # "escaped" /\ ~broken => Claimed(Unit) \subseteq kept \cup stored
    /\ plan = <<>> => stored = {}
    /\ phase = "ended" => plan = <<>> /\ (broken => caller = "single")
    /\ caller = "current" => ~broken
    /\ caller # "nightly" => overtaken = {}

AggregationInv ==
    /\ AggregationTypeOK
    /\ Planned
    /\ caller = "nightly" => InstanceByInstance
    /\ caller = "current" => OfToday
    /\ Accounted

\* What is left of the first group takes its place.
LEMMA RestFacts ==
    ASSUME NEW pl \in Seq(Seq(Unit)), pl # <<>>, NEW g \in Seq(Unit)
    PROVE  LET q == <<g>> \o Tail(pl)
           IN  /\ q \in Seq(Seq(Unit)) /\ q # <<>> /\ DOMAIN q = DOMAIN pl
               /\ 1 \in DOMAIN pl /\ q[1] = g /\ Head(pl) = pl[1] /\ pl[1] \in Seq(Unit)
               /\ \A k \in DOMAIN pl : k # 1 => q[k] = pl[k]
  OBVIOUS

\* A group without its first unit.
LEMMA TailFacts ==
    ASSUME NEW g \in Seq(Unit), g # <<>>
    PROVE  /\ Tail(g) \in Seq(Unit) /\ Head(g) = g[1] /\ 1 \in DOMAIN g /\ g[1] \in Unit
           /\ \A n \in DOMAIN Tail(g) : n # 0 /\ n + 1 \in DOMAIN g /\ n + 1 # 1 /\ Tail(g)[n] = g[n + 1] /\ n \in Nat
  OBVIOUS

\* A plan without its first group.
LEMMA PlanTail ==
    ASSUME NEW pl \in Seq(Seq(Unit)), pl # <<>>
    PROVE  /\ Tail(pl) \in Seq(Seq(Unit))
           /\ \A k \in DOMAIN Tail(pl) : k + 1 \in DOMAIN pl /\ k + 1 # 1 /\ Tail(pl)[k] = pl[k + 1] /\ k \in Nat
  OBVIOUS

\* A function on 1..n is a sequence.
LEMMA ListFacts ==
    ASSUME NEW S, NEW n \in Nat, NEW f \in [1..n -> S]
    PROVE  f \in Seq(S) /\ Len(f) = n /\ DOMAIN f = 1..n
  OBVIOUS

\* Two lists of the same length, one after the other.
LEMMA TwoLists ==
    ASSUME NEW S, NEW n \in Nat, NEW a \in Seq(S), NEW b \in Seq(S), Len(a) = n, Len(b) = n
    PROVE  /\ a \o b \in Seq(S) /\ DOMAIN (a \o b) = 1..(n + n)
           /\ \A m \in 1..(n + n) : (a \o b)[m] = IF m <= n THEN a[m] ELSE b[m - n]
  OBVIOUS

\* The periods an aggregation is made for, in their order.
Orders == {<<"daily">>, <<"weekly">>, <<"daily", "weekly">>}

\* The periods that were chosen are one of them.
LEMMA PeriodsChosen ==
    ASSUME NEW periods \in SUBSET AllPeriods
    PROVE  Ordered(periods) # <<>> => Ordered(periods) \in Orders
<1>1. AllPeriods = {"daily", "weekly"}
  BY DEF AllPeriods, Allowed, ToSet
<1>2. CASE periods = {"daily"}
  BY <1>1, <1>2 DEF Ordered, Orders
<1>3. CASE periods = {"weekly"}
  BY <1>1, <1>3 DEF Ordered, Orders
<1>4. CASE periods = {}
  BY <1>1, <1>4 DEF Ordered, Orders
<1>5. CASE periods = AllPeriods
  BY <1>1, <1>5 DEF Ordered, Allowed, Orders
<1> QED BY <1>1, <1>2, <1>3, <1>4, <1>5

\* The plan of the nightly run lists units once, those of an instance in one group.
LEMMA NightlyPlanned ==
    ASSUME NEW periods \in Orders,
           NEW pl, pl = NightlyPlan(periods)
    PROVE  /\ pl \in Seq(Seq(Unit))
           /\ \A k, l \in DOMAIN pl : \A m \in DOMAIN pl[k], n \in DOMAIN pl[l] :
                /\ pl[k][m] = pl[l][n] => k = l /\ m = n
                /\ SameInstance(pl[k][m], pl[l][n]) => k = l
<1> DEFINE N == LastInstance
           each == [i \in 1..N |-> [k \in DOMAIN periods |-> Of("instance", periods[k], i)]]
           last == Joined([k \in DOMAIN periods |-> Everyone("database", periods[k])])
<1>1. N \in Nat /\ AllPeriods = {"daily", "weekly"}
  BY AggregationAssumption DEF AllPeriods, Allowed, ToSet
<1>2. /\ DOMAIN periods \in {1..1, 1..2} /\ \A k \in DOMAIN periods : periods[k] \in AllPeriods
      /\ \A k, l \in DOMAIN periods : periods[k] = periods[l] => k = l
  BY <1>1 DEF Orders
<1>3. each \in Seq(Seq(Unit)) /\ Len(each) = N /\ \A i \in 1..N : each[i] = [k \in DOMAIN periods |-> Of("instance", periods[k], i)]
  <2>1. PICK n \in Nat : DOMAIN periods = 1..n
    BY <1>2
  <2>2. \A i \in 1..N : [k \in DOMAIN periods |-> Of("instance", periods[k], i)] \in [1..n -> Unit]
    BY <1>2, <2>1 DEF Unit, Of
  <2>3. \A i \in 1..N : [k \in DOMAIN periods |-> Of("instance", periods[k], i)] \in Seq(Unit)
    BY <2>1, <2>2, ListFacts
  <2>4. each \in [1..N -> Seq(Unit)]
    BY <2>3
  <2> QED BY <1>1, <2>4, ListFacts
<1>4. last \in Seq(Unit) /\ (\A m, n \in DOMAIN last : last[m] = last[n] => m = n) /\ \A m \in DOMAIN last : last[m].kind = "database"
  <2>1. \A p \in AllPeriods : Everyone("database", p) \in Seq(Unit) /\ Len(Everyone("database", p)) = N
                              /\ \A i \in 1..N : Everyone("database", p)[i] = Of("database", p, i)
    BY <1>1 DEF Everyone, Of, Unit
  <2>2. CASE Len(periods) = 1
    <3>1. last = Everyone("database", periods[1])
      BY <2>2, <1>2 DEF Joined
    <3>2. periods[1] \in AllPeriods
      BY <1>2, <2>2
    <3>3. last \in Seq(Unit) /\ Len(last) = N /\ \A i \in 1..N : last[i] = Of("database", periods[1], i)
      BY <3>1, <3>2, <2>1
    <3> HIDE DEF last
    <3>4. DOMAIN last = 1..N
      BY <3>3, <1>1
    <3> QED BY <3>3, <3>4 DEF Of
  <2>3. CASE Len(periods) = 2
    <3> DEFINE a == Everyone("database", periods[1])
               b == Everyone("database", periods[2])
    <3> DEFINE two == [k \in DOMAIN periods |-> Everyone("database", periods[k])]
    <3>0. DOMAIN periods = 1..2 /\ Len(two) = 2 /\ two[1] = a /\ two[2] = b
      BY <2>3, <1>2
    <3>1. last = a \o b
      BY <3>0 DEF Joined
    <3>2. periods[1] \in AllPeriods /\ periods[2] \in AllPeriods /\ periods[1] # periods[2]
      BY <2>3, <1>2
    <3>3. /\ a \in Seq(Unit) /\ b \in Seq(Unit) /\ Len(a) = N /\ Len(b) = N
          /\ \A i \in 1..N : a[i] = Of("database", periods[1], i) /\ b[i] = Of("database", periods[2], i)
      BY <2>1, <3>2
    <3> HIDE DEF a, b
    <3>4. last \in Seq(Unit) /\ DOMAIN last = 1..(N + N)
          /\ \A m \in 1..(N + N) : last[m] = IF m <= N THEN a[m] ELSE b[m - N]
      <4>1. /\ a \o b \in Seq(Unit) /\ DOMAIN (a \o b) = 1..(N + N)
            /\ \A m \in 1..(N + N) : (a \o b)[m] = IF m <= N THEN a[m] ELSE b[m - N]
        <5>1. N \in Nat /\ a \in Seq(Unit) /\ b \in Seq(Unit) /\ Len(a) = N /\ Len(b) = N
          BY <3>3, <1>1
        <5> HIDE DEF N, two, last, each
        <5> QED BY <5>1, TwoLists, SMTT(20)
      <4> HIDE DEF last
      <4> QED BY <3>1, <4>1
    <3>5. \A m \in 1..(N + N) : last[m] = IF m <= N THEN Of("database", periods[1], m) ELSE Of("database", periods[2], m - N)
      <4>1. \A m \in 1..(N + N) : ~(m <= N) => m - N \in 1..N
        BY <1>1
      <4>2. \A m \in 1..(N + N) : m <= N => m \in 1..N
        BY <1>1
      <4> HIDE DEF last
      <4> QED BY <3>3, <3>4, <4>1, <4>2
    <3> HIDE DEF last
    <3> QED BY <3>2, <3>4, <3>5, <1>1 DEF Of
  <2> QED BY <2>2, <2>3, <1>2
<1>5. pl = each \o <<last>>
  BY DEF NightlyPlan
<1> HIDE DEF each, last
<1>6. pl \in Seq(Seq(Unit)) /\ DOMAIN pl = 1..(N + 1) /\ \A k \in 1..(N + 1) : pl[k] = IF k <= N THEN each[k] ELSE last
  BY <1>1, <1>3, <1>4, <1>5
<1>7. \A k \in DOMAIN pl : \A m \in DOMAIN pl[k] :
        \/ k <= N /\ m \in DOMAIN periods /\ pl[k][m] = Of("instance", periods[m], k)
        \/ k = N + 1 /\ m \in DOMAIN last /\ pl[k][m] = last[m] /\ last[m].kind = "database"
  BY <1>1, <1>3, <1>4, <1>6
<1>8. \A k, l \in DOMAIN pl : \A m \in DOMAIN pl[k], n \in DOMAIN pl[l] :
                    /\ pl[k][m] = pl[l][n] => k = l /\ m = n
                    /\ SameInstance(pl[k][m], pl[l][n]) => k = l
  BY <1>7, <1>2, <1>4 DEF Of, SameInstance
<1> QED BY <1>6, <1>8

\* The plan of the current period lists units once, each a group of its own.
LEMMA CurrentPlanned ==
    ASSUME NEW scope \in {"all", "instance", "database"}, NEW pl, pl = CurrentPlan(scope)
    PROVE  /\ pl \in Seq(Seq(Unit))
           /\ \A k, l \in DOMAIN pl : \A m \in DOMAIN pl[k], n \in DOMAIN pl[l] :
                pl[k][m] = pl[l][n] => k = l /\ m = n
           /\ \A k \in DOMAIN pl : \A m \in DOMAIN pl[k] : pl[k][m].period = "daily"
<1> DEFINE N == LastInstance
           kinds == _normalize_scope(scope)
           units == Joined([k \in DOMAIN kinds |-> Everyone(kinds[k], "daily")])
<1>1. N \in Nat /\ "daily" \in AllPeriods
  BY AggregationAssumption DEF AllPeriods, Allowed, ToSet
<1>2. kinds \in {<<"database", "instance">>, <<"instance">>, <<"database">>}
  BY DEF _normalize_scope
<1>3. \A t \in {"database", "instance"} : Everyone(t, "daily") \in Seq(Unit) /\ Len(Everyone(t, "daily")) = N
                              /\ \A i \in 1..N : Everyone(t, "daily")[i] = Of(t, "daily", i)
  BY <1>1 DEF Everyone, Of, Unit
<1>4. /\ units \in Seq(Unit) /\ \A m, n \in DOMAIN units : units[m] = units[n] => m = n
      /\ \A m \in DOMAIN units : units[m].period = "daily"
  <2>1. CASE kinds = <<"database", "instance">>
    <3> DEFINE a == Everyone("database", "daily")
               b == Everyone("instance", "daily")
    <3>1. units = a \o b
      BY <2>1 DEF Joined
    <3>2. /\ a \in Seq(Unit) /\ b \in Seq(Unit) /\ Len(a) = N /\ Len(b) = N
          /\ \A i \in 1..N : a[i] = Of("database", "daily", i) /\ b[i] = Of("instance", "daily", i)
      BY <1>3
    <3> HIDE DEF a, b
    <3>3. units \in Seq(Unit) /\ DOMAIN units = 1..(N + N)
          /\ \A m \in 1..(N + N) : units[m] = IF m <= N THEN a[m] ELSE b[m - N]
      <4>1. /\ a \o b \in Seq(Unit) /\ DOMAIN (a \o b) = 1..(N + N)
            /\ \A m \in 1..(N + N) : (a \o b)[m] = IF m <= N THEN a[m] ELSE b[m - N]
        BY <3>2, <1>1, TwoLists
      <4> HIDE DEF units
      <4> QED BY <3>1, <4>1
    <3>4. \A m \in 1..(N + N) : units[m] = IF m <= N THEN Of("database", "daily", m) ELSE Of("instance", "daily", m - N)
      BY <3>2, <3>3, <1>1
    <3> HIDE DEF units
    <3> QED BY <3>3, <3>4, <1>1 DEF Of
  <2>2. ASSUME NEW t \in {"database", "instance"}, kinds = <<t>> PROVE units \in Seq(Unit) /\ (\A m, n \in DOMAIN units : units[m] = units[n] => m = n) /\ \A m \in DOMAIN units : units[m].period = "daily"
    <3>1. units = Everyone(t, "daily")
      BY <2>2 DEF Joined
    <3>2. units \in Seq(Unit) /\ Len(units) = N /\ \A i \in 1..N : units[i] = Of(t, "daily", i)
      BY <3>1, <1>3
    <3> HIDE DEF units
    <3>3. DOMAIN units = 1..N
      BY <3>2, <1>1
    <3> QED BY <3>2, <3>3 DEF Of
  <2> QED BY <2>1, <2>2, <1>2
<1>5. pl = [k \in DOMAIN units |-> <<units[k]>>]
  BY DEF CurrentPlan
<1> HIDE DEF units
<1>6. pl \in Seq(Seq(Unit)) /\ DOMAIN pl = DOMAIN units /\ \A k \in DOMAIN pl : pl[k] = <<units[k]>>
  <2>1. PICK n \in Nat : DOMAIN units = 1..n
    BY <1>4
  <2>2. pl \in [1..n -> Seq(Unit)]
    BY <1>4, <1>5, <2>1
  <2> QED BY <1>5, <2>1, <2>2, ListFacts
<1> QED BY <1>4, <1>6

LEMMA AggregationStart == AggregationInit => AggregationInv
<1> SUFFICES ASSUME AggregationInit PROVE AggregationInv
  OBVIOUS
<1>1. /\ plan \in Seq(Seq(Unit)) /\ caller \in {"nightly", "current", "single"}
      /\ \A k, l \in DOMAIN plan : \A m \in DOMAIN plan[k], n \in DOMAIN plan[l] :
           /\ plan[k][m] = plan[l][n] => k = l /\ m = n
           /\ caller = "nightly" /\ SameInstance(plan[k][m], plan[l][n]) => k = l
      /\ caller = "current" => \A k \in DOMAIN plan : \A m \in DOMAIN plan[k] : plan[k][m].period = "daily"
  <2>1. CASE caller = "nightly"
    <3>1. PICK requested \in SUBSET {"daily", "weekly", "yearly"}, done \in SUBSET AllPeriods, manual \in BOOLEAN :
               LET periods == IF requested = {} /\ ~manual
                              THEN filter_periods_already_aggregated(AllPeriods, done)
                              ELSE select_periods(requested)
               IN  periods # <<>> /\ plan = NightlyPlan(periods)
      BY <2>1 DEF AggregationInit
    <3>2. PICK chosen \in SUBSET AllPeriods : Ordered(chosen) # <<>> /\ plan = NightlyPlan(Ordered(chosen))
      BY <3>1 DEF filter_periods_already_aggregated, select_periods
    <3>3. Ordered(chosen) \in Orders
      BY <3>2, PeriodsChosen
    <3>4. /\ plan \in Seq(Seq(Unit))
          /\ \A k, l \in DOMAIN plan : \A m \in DOMAIN plan[k], n \in DOMAIN plan[l] :
               /\ plan[k][m] = plan[l][n] => k = l /\ m = n
               /\ SameInstance(plan[k][m], plan[l][n]) => k = l
      <4> DEFINE periods == Ordered(chosen)
      <4>1. periods \in Orders /\ plan = NightlyPlan(periods)
        BY <3>2, <3>3
      <4> HIDE DEF periods
      <4> QED BY <4>1, NightlyPlanned
    <3> QED BY <2>1, <3>4
  <2>2. CASE caller = "current"
    <3>1. PICK scope \in {"all", "instance", "database"} : plan = CurrentPlan(scope)
      BY <2>2 DEF AggregationInit
    <3> QED BY <2>2, <3>1, CurrentPlanned
  <2>3. CASE caller = "single"
    <3>1. PICK i \in 1..LastInstance : plan = SinglePlan(i)
      BY <2>3 DEF AggregationInit
    <3>2. Of("database", "daily", i) \in Unit /\ Of("instance", "daily", i) \in Unit
      BY DEF Of, Unit, AllPeriods, Allowed, ToSet
    <3>3. plan = << <<Of("database", "daily", i), Of("instance", "daily", i)>> >>
      BY <3>1 DEF SinglePlan
    <3>4. Of("database", "daily", i) # Of("instance", "daily", i)
      BY DEF Of
    <3> QED BY <2>3, <3>2, <3>3, <3>4
  <2> QED BY <2>1, <2>2, <2>3 DEF AggregationInit
<1>2. \A k \in DOMAIN plan : plan[k] \in Seq(Unit) /\ \A m \in DOMAIN plan[k] : plan[k][m] \in Unit
  BY <1>1
<1>3. Claimed(Unit) = {}
  BY DEF Claimed, AggregationInit
<1> QED BY <1>1, <1>2, <1>3 DEF AggregationInit, AggregationInv, AggregationTypeOK, Planned, InstanceByInstance, OfToday, Accounted

\* While units of the first group are done or given up, the later groups wait.
LEMMA GroupGoesOn ==
    ASSUME AggregationInv, phase = "work", plan # <<>>, NEW g \in Seq(Unit), Rest(g),
           \A n \in DOMAIN g : n + 1 \in DOMAIN Group /\ n + 1 # 1 /\ g[n] = Group[n + 1] /\ n \in Nat,
           NEW S \in SUBSET Unit, \A u \in Unit \ S : told'[u] = told[u],
           \A k \in DOMAIN plan : \A m \in DOMAIN plan[k] : plan[k][m] \in S => k = 1,
           \A n \in DOMAIN g : g[n] \notin S,
           caller = "nightly" => \A u \in S : u.kind = "instance" =>
               \E m \in DOMAIN Group : SameInstance(Group[m], u),
           caller = "current" => \A u \in S : u.period = "daily",
           kept' = kept
    PROVE  /\ Planned' /\ plan' # <<>> /\ (caller = "nightly" => InstanceByInstance')
           /\ caller = "current" => OfToday'
<1>1. /\ plan' \in Seq(Seq(Unit)) /\ plan' # <<>> /\ DOMAIN plan' = DOMAIN plan
      /\ 1 \in DOMAIN plan /\ plan'[1] = g /\ Group = plan[1] /\ plan[1] \in Seq(Unit)
      /\ \A k \in DOMAIN plan : k # 1 => plan'[k] = plan[k]
  BY RestFacts DEF Rest, Group, AggregationInv, Planned
<1>2. ASSUME NEW k \in DOMAIN plan, NEW m \in DOMAIN plan'[k]
      PROVE  \E j \in DOMAIN plan[k] : j = (IF k = 1 THEN m + 1 ELSE m) /\ plan'[k][m] = plan[k][j] /\ plan[k][j] \notin S
  BY <1>1, <1>2
<1>3. \A k \in DOMAIN plan : \A j \in DOMAIN plan[k] : plan[k][j] \in Unit
  BY DEF AggregationInv, Planned
<1>4. \A k \in DOMAIN plan : \A m \in DOMAIN plan'[k] : m \in Nat
  BY <1>1
<1>5. Planned'
  <2>1. \A k, l \in DOMAIN plan' : \A m \in DOMAIN plan'[k], n \in DOMAIN plan'[l] :
          plan'[k][m] = plan'[l][n] => k = l /\ m = n
    <3> SUFFICES ASSUME NEW k \in DOMAIN plan, NEW l \in DOMAIN plan,
                        NEW m \in DOMAIN plan'[k], NEW n \in DOMAIN plan'[l],
                        plan'[k][m] = plan'[l][n]
                 PROVE  k = l /\ m = n
      BY <1>1
    <3>1. PICK i \in DOMAIN plan[k] : i = (IF k = 1 THEN m + 1 ELSE m) /\ plan'[k][m] = plan[k][i]
      BY <1>2
    <3>2. PICK j \in DOMAIN plan[l] : j = (IF l = 1 THEN n + 1 ELSE n) /\ plan'[l][n] = plan[l][j]
      BY <1>2
    <3>3. plan[k][i] = plan[l][j]
      BY <3>1, <3>2
    <3>4. \A k2, l2 \in DOMAIN plan : \A m2 \in DOMAIN plan[k2], n2 \in DOMAIN plan[l2] :
            plan[k2][m2] = plan[l2][n2] => k2 = l2 /\ m2 = n2
      BY DEF AggregationInv, Planned
    <3>5. i \in DOMAIN plan[k] /\ j \in DOMAIN plan[l]
      BY <3>1, <3>2
    <3>6. k = l /\ i = j
      BY <3>3, <3>4, <3>5
    <3>7. m \in Nat /\ n \in Nat
      BY <1>4
    <3> QED BY <3>1, <3>2, <3>6, <3>7
  <2>2. \A k \in DOMAIN plan' : \A m \in DOMAIN plan'[k] : told'[plan'[k][m]] = "nothing"
    <3> SUFFICES ASSUME NEW k \in DOMAIN plan, NEW m \in DOMAIN plan'[k] PROVE told'[plan'[k][m]] = "nothing"
      BY <1>1
    <3>1. PICK j \in DOMAIN plan[k] : plan'[k][m] = plan[k][j] /\ plan[k][j] \notin S
      BY <1>2
    <3>2. told[plan[k][j]] = "nothing"
      BY DEF AggregationInv, Planned
    <3> QED BY <3>1, <3>2, <1>3
  <2> QED BY <1>1, <2>1, <2>2 DEF Planned
<1>6. ASSUME caller = "nightly" PROVE InstanceByInstance'
  <2> SUFFICES ASSUME NEW k \in DOMAIN plan, NEW m \in DOMAIN plan'[k]
      PROVE  /\ \A l \in DOMAIN plan : \A n \in DOMAIN plan'[l] : SameInstance(plan'[k][m], plan'[l][n]) => k = l
             /\ k # 1 => \A u \in Unit : SameInstance(plan'[k][m], u) => told'[u] = "nothing"
             /\ \A u \in kept : ~SameInstance(plan'[k][m], u)
    BY <1>1 DEF InstanceByInstance
  <2>1. InstanceByInstance
    BY <1>6 DEF AggregationInv
  <2>2. PICK j \in DOMAIN plan[k] : plan'[k][m] = plan[k][j]
    BY <1>2
  <2>3. \A l \in DOMAIN plan : \A n \in DOMAIN plan'[l] : SameInstance(plan'[k][m], plan'[l][n]) => k = l
    BY <2>1, <2>2, <1>2 DEF InstanceByInstance
  <2>4. \A u \in kept : ~SameInstance(plan'[k][m], u)
    BY <2>1, <2>2 DEF InstanceByInstance
  <2>5. ASSUME k # 1, NEW u \in Unit, SameInstance(plan'[k][m], u) PROVE told'[u] = "nothing"
    <3>1. told[u] = "nothing"
      BY <2>1, <2>2, <2>5 DEF InstanceByInstance
    <3>2. u \notin S
      <4> SUFFICES ASSUME u \in S PROVE FALSE
        OBVIOUS
      <4>1. PICK n \in DOMAIN Group : SameInstance(Group[n], u)
        BY <1>6, <2>5 DEF SameInstance
      <4>2. SameInstance(plan[k][j], plan[1][n])
        BY <4>1, <2>5, <2>2, <1>1 DEF SameInstance
      <4> QED BY <4>1, <4>2, <2>1, <2>5, <1>1 DEF InstanceByInstance
    <3> QED BY <3>1, <3>2
  <2> QED BY <2>3, <2>4, <2>5
<1>7. ASSUME caller = "current" PROVE OfToday'
  <2>1. \A k \in DOMAIN plan' : \A m \in DOMAIN plan'[k] : plan'[k][m].period = "daily"
    BY <1>1, <1>2, <1>7 DEF AggregationInv, OfToday
  <2>2. \A u \in Unit : told'[u] # "nothing" => u.period = "daily"
    BY <1>7 DEF AggregationInv, OfToday
  <2> QED BY <2>1, <2>2 DEF OfToday
<1> QED BY <1>1, <1>5, <1>6, <1>7

LEMMA AggregationStep == AggregationInv /\ [AggregationNext]_aggregationVars => AggregationInv'
<1> SUFFICES ASSUME AggregationInv, [AggregationNext]_aggregationVars PROVE AggregationInv'
  OBVIOUS
<1>0. ASSUME phase = "work", plan # <<>>, Group # <<>>
      PROVE  /\ Next_unit \in Unit /\ told[Next_unit] = "nothing" /\ Tail(Group) \in Seq(Unit) /\ Group \in Seq(Unit)
             /\ Group = plan[1] /\ 1 \in DOMAIN plan /\ 1 \in DOMAIN Group /\ Next_unit = Group[1]
             /\ \A n \in DOMAIN Tail(Group) : n + 1 \in DOMAIN Group /\ n + 1 # 1 /\ Tail(Group)[n] = Group[n + 1] /\ n \in Nat
             /\ \A n \in DOMAIN Tail(Group) : Tail(Group)[n] # Next_unit
             /\ \A k \in DOMAIN plan : \A m \in DOMAIN plan[k] : plan[k][m] = Next_unit => k = 1
             /\ Next_unit \notin kept \cup stored
             /\ caller = "current" => Next_unit.period = "daily"
  <2>1. 1 \in DOMAIN plan /\ Group = plan[1] /\ Group \in Seq(Unit)
    BY <1>0, RestFacts DEF Group, AggregationInv, Planned
  <2>2. /\ Tail(Group) \in Seq(Unit) /\ Next_unit = Group[1] /\ 1 \in DOMAIN Group /\ Group[1] \in Unit
        /\ \A n \in DOMAIN Tail(Group) : n + 1 \in DOMAIN Group /\ n + 1 # 1 /\ Tail(Group)[n] = Group[n + 1] /\ n \in Nat
    BY <1>0, <2>1, TailFacts DEF Next_unit
  <2>3. told[Next_unit] = "nothing"
    BY <1>0, <2>1, <2>2 DEF AggregationInv, Planned
  <2>4. \A k \in DOMAIN plan : \A m \in DOMAIN plan[k] : plan[k][m] = Next_unit => k = 1 /\ m = 1
    BY <2>1, <2>2 DEF AggregationInv, Planned
  <2>5. Next_unit \notin kept \cup stored
    BY <2>3 DEF AggregationInv, Accounted, Claimed
  <2>6. caller = "current" => Next_unit.period = "daily"
    BY <2>1, <2>2 DEF AggregationInv, OfToday
  <2> QED BY <2>1, <2>2, <2>3, <2>4, <2>5, <2>6
<1>1. ASSUME Aggregate PROVE AggregationInv'
  <2>1. Planned' /\ plan' # <<>> /\ (caller = "nightly" => InstanceByInstance') /\ (caller = "current" => OfToday')
    <3> DEFINE S == {Next_unit}
    <3>1. S \in SUBSET Unit /\ (\A u \in Unit \ S : told'[u] = told[u]) /\ \A n \in DOMAIN Tail(Group) : Tail(Group)[n] \notin S
      BY <1>0, <1>1 DEF Aggregate, Told, AggregationInv, AggregationTypeOK
    <3>2. \A k \in DOMAIN plan : \A m \in DOMAIN plan[k] : plan[k][m] \in S => k = 1
      BY <1>0, <1>1 DEF Aggregate
    <3>3. \A u \in S : /\ u.kind = "instance" => \E m \in DOMAIN Group : SameInstance(Group[m], u)
                       /\ caller = "current" => u.period = "daily"
      BY <1>0, <1>1 DEF Aggregate, SameInstance
    <3> HIDE DEF S
    <3> QED BY <1>0, <1>1, <3>1, <3>2, <3>3, GroupGoesOn DEF Aggregate
  <2>2. AggregationTypeOK'
    BY <1>0, <1>1 DEF Aggregate, Told, AggregationInv, AggregationTypeOK
  <2>3. Accounted'
    BY <1>0, <1>1, <2>1 DEF Aggregate, Told, AggregationInv, AggregationTypeOK, Accounted, Claimed
  <2> QED BY <2>1, <2>2, <2>3, <1>1 DEF AggregationInv, Aggregate
<1>2. ASSUME Caught PROVE AggregationInv'
  <2> DEFINE g == IF caller = "single" THEN <<>> ELSE Tail(Group)
  <2>0. /\ g \in Seq(Unit) /\ Rest(g)
        /\ \A n \in DOMAIN g : n + 1 \in DOMAIN Group /\ n + 1 # 1 /\ g[n] = Group[n + 1] /\ n \in Nat /\ g[n] # Next_unit
    BY <1>0, <1>2 DEF Caught
  <2>1. Planned' /\ plan' # <<>> /\ (caller = "nightly" => InstanceByInstance') /\ (caller = "current" => OfToday')
    <3> DEFINE S == {Next_unit}
    <3>1. S \in SUBSET Unit /\ (\A u \in Unit \ S : told'[u] = told[u]) /\ \A n \in DOMAIN g : g[n] \notin S
      BY <1>0, <1>2, <2>0 DEF Caught, Told, AggregationInv, AggregationTypeOK
    <3>2. \A k \in DOMAIN plan : \A m \in DOMAIN plan[k] : plan[k][m] \in S => k = 1
      BY <1>0, <1>2 DEF Caught
    <3>3. \A u \in S : /\ u.kind = "instance" => \E m \in DOMAIN Group : SameInstance(Group[m], u)
                       /\ caller = "current" => u.period = "daily"
      BY <1>0, <1>2 DEF Caught, SameInstance
    <3> HIDE DEF g, S
    <3> QED BY <1>0, <1>2, <2>0, <3>1, <3>2, <3>3, GroupGoesOn DEF Caught
  <2>2. AggregationTypeOK'
    BY <1>0, <1>2 DEF Caught, Told, AggregationInv, AggregationTypeOK
  <2>3. caller = "current" => ~broken'
    BY <1>2 DEF Caught, InSavepoint, AggregationInv, Accounted
  <2>4. Accounted'
    BY <1>0, <1>2, <2>1, <2>3 DEF Caught, Told, AggregationInv, AggregationTypeOK, Accounted, Claimed
  <2> QED BY <2>1, <2>2, <2>4, <1>2 DEF AggregationInv, Caught
<1>3. ASSUME Wrapped PROVE AggregationInv'
  <2> DEFINE own == {u \in Unit : u.kind = "instance" /\ u.instance = Next_unit.instance}
             done == {u \in own : told[u] # "nothing"}
             rest == {u \in own : u \in ToSet(Group)}
  <2>1. CASE caller = "nightly" /\ Next_unit.kind = "instance"
    <3>1. /\ told' = [u \in Unit |-> IF u \in done \cup rest THEN "failed" ELSE told[u]]
          /\ overtaken' = overtaken \cup (done \cap stored)
          /\ Rest(<<>>) /\ UNCHANGED <<stored, phase, caller, kept, broken>>
      BY <1>3, <2>1 DEF Wrapped
    <3>2. \A u \in own : SameInstance(plan[1][1], u) /\ SameInstance(Group[1], u)
      BY <1>0, <1>3, <2>1 DEF Wrapped, SameInstance
    <3>3. InstanceByInstance
      BY <2>1 DEF AggregationInv
    <3>4. kept \cap own = {}
      BY <1>0, <1>3, <3>2, <3>3 DEF Wrapped, InstanceByInstance
    <3>5. Planned' /\ plan' # <<>> /\ InstanceByInstance'
      <4> DEFINE S == done \cup rest
                 g == <<>>
      <4>1. S \in SUBSET Unit /\ S \subseteq own /\ (\A u \in Unit \ S : told'[u] = told[u]) /\ g \in Seq(Unit) /\ DOMAIN g = {} /\ Rest(g)
        BY <3>1 DEF AggregationInv, AggregationTypeOK
      <4>2. \A k \in DOMAIN plan : \A m \in DOMAIN plan[k] : plan[k][m] \in S => k = 1
        BY <4>1, <3>2, <3>3, <1>0, <1>3 DEF Wrapped, InstanceByInstance
      <4>3. \A u \in S : u.kind = "instance" => \E m \in DOMAIN Group : SameInstance(Group[m], u)
        BY <4>1, <3>2, <1>0, <1>3 DEF Wrapped
      <4> HIDE DEF g, S
      <4> QED BY <1>0, <1>3, <2>1, <3>1, <4>1, <4>2, <4>3, GroupGoesOn DEF Wrapped
    <3>6. AggregationTypeOK'
      BY <3>1 DEF AggregationInv, AggregationTypeOK
    <3>7. Accounted'
      <4>1. \A u \in Unit : told'[u] = IF u \in done \cup rest THEN "failed" ELSE told[u]
        BY <3>1
      <4>2. \A u \in stored \cap own : u \in done
        BY DEF AggregationInv, Accounted, Claimed
      <4>3. Claimed(Unit)' = Claimed(Unit) \ (done \cup rest)
        BY <4>1 DEF Claimed
      <4>4. (kept \cup stored) \subseteq Claimed(Unit)' \cup overtaken'
        BY <4>1, <4>2, <4>3, <3>1, <3>4 DEF AggregationInv, Accounted
      <4>5. \A u \in overtaken' : told'[u] = "failed"
        BY <4>1, <3>1 DEF AggregationInv, Accounted, AggregationTypeOK
      <4> HIDE DEF done, rest
      <4> QED BY <4>3, <4>4, <4>5, <3>1, <3>5, <2>1, <1>3 DEF AggregationInv, Accounted, Wrapped
    <3> QED BY <2>1, <3>1, <3>5, <3>6, <3>7 DEF AggregationInv
  <2>2. CASE caller = "single"
    <3>1. Told(Next_unit, "failed") /\ Rest(<<>>) /\ UNCHANGED <<stored, overtaken, phase, caller, kept, broken>>
      BY <1>3, <2>2 DEF Wrapped
    <3>2. Planned' /\ plan' # <<>>
      <4> DEFINE S == {Next_unit}
                 g == <<>>
      <4>1. S \in SUBSET Unit /\ (\A u \in Unit \ S : told'[u] = told[u]) /\ g \in Seq(Unit) /\ DOMAIN g = {} /\ Rest(g)
        BY <1>0, <1>3, <3>1 DEF Wrapped, Told, AggregationInv, AggregationTypeOK
      <4>2. \A k \in DOMAIN plan : \A m \in DOMAIN plan[k] : plan[k][m] \in S => k = 1
        BY <1>0, <1>3 DEF Wrapped
      <4> HIDE DEF g, S
      <4> QED BY <1>3, <2>2, <3>1, <4>1, <4>2, GroupGoesOn DEF Wrapped
    <3>3. AggregationTypeOK'
      BY <1>0, <1>3, <3>1 DEF Wrapped, Told, AggregationInv, AggregationTypeOK
    <3>4. Accounted'
      BY <1>0, <1>3, <3>1, <3>2 DEF Wrapped, Told, AggregationInv, AggregationTypeOK, Accounted, Claimed
    <3> QED BY <3>1, <3>2, <3>3, <3>4, <2>2 DEF AggregationInv
  <2>3. CASE ~(caller = "nightly" /\ Next_unit.kind = "instance") /\ caller # "single"
    <3>1. /\ Told(Next_unit, "failed") /\ phase' = "escaped" /\ stored' = {}
          /\ UNCHANGED <<plan, overtaken, caller, kept, broken>>
      BY <1>3, <2>3 DEF Wrapped
    <3>2. Planned' /\ (caller = "nightly" => InstanceByInstance') /\ (caller = "current" => OfToday')
      <4>1. ASSUME caller = "nightly", NEW k \in DOMAIN plan, NEW m \in DOMAIN plan[k], k # 1,
                   NEW u \in Unit, SameInstance(plan[k][m], u)
            PROVE  told'[u] = "nothing"
        <5>1. told[u] = "nothing"
          BY <4>1 DEF AggregationInv, InstanceByInstance
        <5>2. u # Next_unit
          BY <4>1, <2>3 DEF SameInstance
        <5> QED BY <5>1, <5>2, <3>1 DEF Told, AggregationInv, AggregationTypeOK
      <4>2. ASSUME caller = "current" PROVE OfToday'
        BY <1>0, <1>3, <3>1, <4>2 DEF Wrapped, Told, AggregationInv, AggregationTypeOK, OfToday
      <4> QED BY <3>1, <4>1, <4>2 DEF AggregationInv, Planned, InstanceByInstance
    <3>3. AggregationTypeOK'
      BY <1>0, <1>3, <3>1 DEF Wrapped, Told, AggregationInv, AggregationTypeOK
    <3>4. Accounted'
      BY <1>0, <1>3, <3>1 DEF Wrapped, Told, AggregationInv, AggregationTypeOK, Accounted, Claimed
    <3> QED BY <3>1, <3>2, <3>3, <3>4 DEF AggregationInv
  <2> QED BY <2>1, <2>2, <2>3
<1>4. ASSUME CommitGroup PROVE AggregationInv'
  <2>1. /\ phase = "work" /\ plan # <<>> /\ kept' = (IF broken THEN kept ELSE kept \cup stored) /\ stored' = {}
        /\ UNCHANGED <<caller, told, broken, overtaken>>
    BY <1>4 DEF CommitGroup
  <2>2. /\ Tail(plan) \in Seq(Seq(Unit))
        /\ \A k \in DOMAIN Tail(plan) : k + 1 \in DOMAIN plan /\ k + 1 # 1 /\ Tail(plan)[k] = plan[k + 1] /\ k \in Nat
    BY <2>1, PlanTail DEF AggregationInv, Planned
  <2>3. plan' = plan \/ plan' = Tail(plan)
    BY <1>4 DEF CommitGroup
  <2>4. CASE broken /\ caller # "single"
    <3>1. plan' = plan /\ kept' = kept /\ phase' = "escaped"
      BY <1>4, <2>4 DEF CommitGroup
    <3> QED BY <2>1, <3>1 DEF AggregationInv, AggregationTypeOK, Planned, InstanceByInstance, OfToday, Accounted, Claimed
  <2>5. CASE ~(broken /\ caller # "single")
    <3>1. plan' = Tail(plan) /\ phase' = IF Tail(plan) = <<>> THEN "ended" ELSE "work"
      BY <1>4, <2>5 DEF CommitGroup
    <3>2. Planned'
      BY <2>1, <2>2, <3>1 DEF AggregationInv, Planned
    <3>3. AggregationTypeOK'
      BY <2>1, <3>1 DEF AggregationInv, AggregationTypeOK
    <3>4. Accounted'
      BY <2>1, <3>1, <2>5 DEF AggregationInv, Accounted, Claimed
    <3>6. ASSUME caller = "current" PROVE OfToday'
      BY <2>1, <2>2, <3>1, <3>6 DEF AggregationInv, OfToday
    <3>5. ASSUME caller = "nightly" PROVE InstanceByInstance'
      <4>1. \A u \in stored : u \in Unit /\ told[u] # "nothing"
        BY DEF AggregationInv, AggregationTypeOK, Accounted, Claimed
      <4>2. InstanceByInstance
        BY <3>5 DEF AggregationInv
      <4>3. \A k \in DOMAIN plan' : \A m \in DOMAIN plan'[k] :
              k \in Nat /\ k + 1 \in DOMAIN plan /\ k + 1 # 1 /\ m \in DOMAIN plan[k + 1] /\ plan'[k][m] = plan[k + 1][m]
        BY <2>2, <3>1
      <4> QED BY <2>1, <4>1, <4>2, <4>3 DEF InstanceByInstance
    <3> QED BY <2>1, <3>2, <3>3, <3>4, <3>5, <3>6 DEF AggregationInv
  <2> QED BY <2>4, <2>5
<1>5. CASE AggregationCancelled
  BY <1>5 DEF AggregationCancelled, AggregationInv, AggregationTypeOK, Planned, InstanceByInstance, OfToday, Accounted, Claimed
<1>6. CASE UNCHANGED aggregationVars
  BY <1>6 DEF aggregationVars, AggregationInv, AggregationTypeOK, Planned, InstanceByInstance, OfToday, Accounted, Claimed
<1> QED BY <1>1, <1>2, <1>3, <1>4, <1>5, <1>6 DEF AggregationNext
\* Every state satisfies the invariant.
THEOREM AggregationInvariant == AggregationSpec => []AggregationInv
<1> QED BY AggregationStart, AggregationStep, PTL DEF AggregationSpec

\* The sets the statuses are taken of.
LEMMA OwnUnits ==
    ASSUME NEW i \in 1..LastInstance
    PROVE  IsFiniteSet({u \in Unit : u.kind = "instance" /\ u.instance = i})
<1> DEFINE own == {u \in Unit : u.kind = "instance" /\ u.instance = i}
<1>1. own \subseteq {Of("instance", "daily", i), Of("instance", "weekly", i)}
  BY DEF Unit, AllPeriods, Allowed, ToSet, Of
<1>2. IsFiniteSet({Of("instance", "daily", i)} \cup {Of("instance", "weekly", i)})
  BY FS_Singleton, FS_Union
<1>3. {Of("instance", "daily", i)} \cup {Of("instance", "weekly", i)} = {Of("instance", "daily", i), Of("instance", "weekly", i)}
  OBVIOUS
<1> QED BY <1>1, <1>2, <1>3, FS_Subset

LEMMA ResultsKept == AggregationInv => ToldIsKept
<1> SUFFICES ASSUME AggregationInv PROVE ToldIsKept
  OBVIOUS
<1>1. stored \subseteq Committing
  BY DEF AggregationInv, Accounted, Committing
<1>2. \A u \in overtaken : u \notin Claimed(Unit)
  BY DEF AggregationInv, Accounted, Claimed
<1>3. phase \in {"work", "ended", "cancelled"} => Claimed(Unit) \ Committing = (kept \ overtaken) \ Committing \/ broken
  <2> HIDE DEF Claimed, Committing
  <2> QED BY <1>1, <1>2 DEF AggregationInv, Accounted
<1>4. phase = "ended" /\ ~broken => Claimed(Unit) \subseteq kept
  <2> HIDE DEF Claimed
  <2> QED BY DEF AggregationInv, Accounted
<1> QED BY <1>3, <1>4 DEF ToldIsKept, AggregationInv, Accounted

LEMMA SummariesTell == AggregationInv => StatusTells
<1> SUFFICES ASSUME AggregationInv PROVE StatusTells
  OBVIOUS
<1>1. \A u \in Unit : told[u] \in {"nothing", "completed", "skipped", "failed"}
  BY DEF AggregationInv, AggregationTypeOK
<1>2. ASSUME phase = "ended", caller # "single"
      PROVE  Claimed(Unit) \subseteq kept /\ kept \subseteq Claimed(Unit) \cup overtaken /\ \A u \in overtaken : u \in Unit /\ told[u] = "failed"
  BY <1>2 DEF AggregationInv, Accounted, AggregationTypeOK
<1>3. ASSUME caller = "current", phase = "ended"
      PROVE  /\ current_status = "skipped" => kept = {} /\ \A u \in Unit : told[u] # "failed"
             /\ current_status = "completed" => kept # {} /\ kept = Claimed(Unit)
  <2>1. kept = Claimed(Unit)
    BY <1>2, <1>3 DEF AggregationInv, Accounted
  <2> DEFINE kinds == {"instance", "database"}
             ran == {k \in kinds : \E u \in Unit : u.kind = k /\ told[u] # "nothing"}
             words == {period_status(k, "daily") : k \in ran}
  <2>2. \A u \in Unit : u.kind \in kinds /\ (told[u] # "nothing" => u.kind \in ran /\ u.period = "daily")
    BY <1>3 DEF AggregationInv, OfToday, Unit
  <2>3. ASSUME NEW k \in kinds
        PROVE  /\ period_status(k, "daily") \in {"failed", "completed", "skipped"}
               /\ period_status(k, "daily") = "completed" => \E u \in Unit : told[u] = "completed"
               /\ period_status(k, "daily") = "skipped" =>
                    \A u \in Unit : u.kind = k /\ u.period = "daily" => told[u] \notin {"failed", "completed"}
    BY DEF period_status, StatusOf
  <2>4. current_status = (IF words = {} THEN "skipped"
                          ELSE IF "failed" \in words THEN "failed"
                          ELSE IF words = {"skipped"} THEN "skipped" ELSE "completed")
    BY DEF current_status
  <2>7. ran \subseteq kinds /\ \A w : w \in words <=> \E k \in ran : w = period_status(k, "daily")
    OBVIOUS
  <2> HIDE DEF kinds, ran, words
  <2>5. ASSUME current_status = "skipped", NEW u \in Unit PROVE told[u] \notin {"failed", "completed"}
    <3>1. \A w \in words : w = "skipped"
      BY <2>4, <2>5
    <3>2. \A k \in ran : k \in kinds /\ period_status(k, "daily") = "skipped"
      BY <2>7, <3>1
    <3>3. CASE told[u] = "nothing"
      BY <3>3
    <3>4. CASE told[u] # "nothing"
      <4>1. u.kind \in ran /\ u.period = "daily"
        BY <2>2, <3>4
      <4> QED BY <4>1, <3>2, <2>3
    <3> QED BY <3>3, <3>4
  <2>6. ASSUME current_status = "completed" PROVE \E u \in Unit : told[u] = "completed"
    <3>1. words # {} /\ "failed" \notin words /\ words # {"skipped"}
      BY <2>4, <2>6
    <3>2. \A w \in words : w \in {"failed", "completed", "skipped"}
      BY <2>3, <2>7
    <3>3. PICK w \in words : w # "skipped"
      BY <3>1
    <3>4. \E k \in ran : k \in kinds /\ period_status(k, "daily") = "completed"
      BY <3>1, <3>2, <3>3, <2>7
    <3> QED BY <3>4, <2>3
  <2> QED BY <2>1, <2>5, <2>6 DEF Claimed
<1>4. ASSUME caller = "nightly", phase = "ended", NEW i \in 1..LastInstance
      PROVE  LET own == {u \in kept : u.kind = "instance" /\ u.instance = i}
             IN  /\ instance_status(i) = "completed" => own # {}
                 /\ instance_status(i) = "skipped" => own = {}
                 /\ aggregated_count(i) <= Cardinality(own)
  <2> DEFINE U == {u \in Unit : u.kind = "instance" /\ u.instance = i}
             own == {u \in kept : u.kind = "instance" /\ u.instance = i}
             completed == {u \in Unit : u.kind = "instance" /\ u.instance = i /\ told[u] = "completed"}
  <2>1. own \subseteq U /\ completed \subseteq own
    BY <1>2, <1>4 DEF Claimed, AggregationInv, AggregationTypeOK
  <2>2. aggregated_count(i) <= Cardinality(own)
    BY <2>1, OwnUnits, FS_Subset DEF aggregated_count
  <2>3. instance_status(i) = "completed" => \E u \in U : told[u] = "completed"
    BY DEF instance_status, StatusOf
  <2>4. instance_status(i) = "skipped" => \A u \in U : told[u] \notin {"failed", "completed"}
    BY DEF instance_status, StatusOf
  <2>5. instance_status(i) = "completed" => own # {}
    BY <2>1, <2>3
  <2>6. instance_status(i) = "skipped" => own = {}
    BY <2>1, <2>4, <1>2, <1>4 DEF Claimed
  <2> QED BY <2>2, <2>5, <2>6
<1> QED BY <1>3, <1>4 DEF StatusTells

\* Whatever fails in an aggregation, and wherever: what is told as completed
\* is committed when the run ends, and "nothing to do" hides no failure.
THEOREM ResultsAreTold == AggregationSpec => []AggregationTells
<1>1. AggregationInv => AggregationTells
  BY ResultsKept, SummariesTell DEF AggregationTells
<1> QED BY <1>1, AggregationInvariant, PTL

----------------------------------------------------------------------------
(* The rows of the capacity pipeline                                     *)

\* What a collection has in hand.
Locals == [pc     : {"idle", "read", "synced", "collected", "summed", "done"},
           known  : [Databases -> {"absent", "active", "inactive"}],
           listed : SUBSET Databases,
           sizes  : UNION {[S -> Sizes] : S \in SUBSET Databases},
           stamp  : Days,
           tally  : UNION {[S -> Sizes] : S \in SUBSET Databases},
           of     : Days,
           missed : BOOLEAN]

\* A table of aggregates.
IsTable(aggs) == aggs = [p \in Periods |-> [t \in Days |-> aggs[p][t]]]

\* Tables are functions, and the locals of a collection have their types.
Tables ==
    /\ rows = [d \in Databases |-> [t \in Days |-> rows[d][t]]]
    /\ totals = [t \in Days |-> totals[t]]
    /\ dbAggs = [d \in Databases |-> dbAggs[d]] /\ \A d \in Databases : IsTable(dbAggs[d])
    /\ IsTable(instAggs)
    /\ inventory \in [Databases -> {"absent", "active", "inactive"}]
    /\ sync \in [Syncs -> Locals]
    /\ calc \in [pc : {"idle", "instances", "databases"}, periods : SUBSET Periods]

\* Nothing is stored of the future, and a late size is of an earlier day.
Dated ==
    /\ day \in Days
    /\ \A s \in Syncs : sync[s].stamp <= day
    /\ \A t \in Days : totals[t] # None => t <= day /\ totals[t].counted \subseteq Databases
    /\ \A d \in Databases, t \in Days : rows[d][t] # None => t <= day /\ (rows[d][t].late => t < day)
    /\ \A d \in Databases, t \in Days : rows[d][t] # None => rows[d][t] \in Row
    /\ \A p \in calc.periods : HasLast(p)

(* What a collection has counted for its total are the sizes it sees until   *)
(* another stores one of them.                                               *)
SeenRow(r, d)  == (d \in DOMAIN r.sizes /\ r.of = r.stamp) \/ rows[d][r.of] # None
SeenSize(r, d) == IF d \in DOMAIN r.sizes /\ r.of = r.stamp THEN r.sizes[d] ELSE rows[d][r.of].size
TallyHolds(r)  == r.pc = "summed" /\ ~r.missed =>
                    \A d \in DOMAIN r.tally : SeenRow(r, d) /\ r.tally[d] = SeenSize(r, d)
TalliesHold    == \A s \in Syncs : TallyHolds(sync[s])

\* The sizes f has on the days of a period, and what says what they say.
SizesOf(f, span) == [t \in Filled(f, span) |-> f[t].size]
Says(agg, sizes) ==
    /\ agg.max = Max({sizes[t] : t \in DOMAIN sizes}) /\ agg.min = Min({sizes[t] : t \in DOMAIN sizes})
    /\ agg.sum = TotalOf(sizes) /\ agg.count = Cardinality(DOMAIN sizes)
LateIn(f, span) == \E t \in Filled(f, span) : f[t].late
Over(span) == \A u \in span : u < day

(* An aggregate that was calculated when its period was over says what the   *)
(* sizes still are: only a late one can have changed them.                   *)
ClosedAreExact ==
    \A p \in Periods, t \in Days :
      /\ instAggs[p][t].closed => Over(Span(p, t)) /\ Says(instAggs[p][t], SizesOf(totals, Span(p, t)))
      /\ \A d \in Databases : dbAggs[d][p][t].closed =>
           Over(Span(p, t)) /\ (~LateIn(rows[d], Span(p, t)) => Says(dbAggs[d][p][t], SizesOf(rows[d], Span(p, t))))

(* The long periods of the databases are calculated when they are over, all  *)
(* databases at once.                                                        *)
LongTogether ==
    \A t \in Days :
      /\ \A d \in Databases : dbAggs[d]["long"][t] # NoAggregate => dbAggs[d]["long"][t].closed
      /\ (\E d \in Databases : dbAggs[d]["long"][t] # NoAggregate) =>
           \A d \in Databases : Filled(rows[d], Span("long", t)) # {} /\ ~LateIn(rows[d], Span("long", t))
             => dbAggs[d]["long"][t] # NoAggregate

CapacityInv == Tables /\ Dated /\ ClosedAreExact /\ LongTogether /\ TotalIsSumOfRows /\ TalliesHold

\* Months follow the days.
LEMMA MonthsFollow == \A t, u \in Nat : t <= u => Month(t) <= Month(u) /\ Month(t) \in Nat
<1> DEFINE M == MonthLength
<1>1. M \in Nat \ {0}
  BY CapacityAssumption
<1>2. \A t \in Nat : t \div M \in Nat /\ M * (t \div M) <= t /\ t < M * (t \div M) + M
  BY <1>1
<1>3. ASSUME NEW t \in Nat, NEW u \in Nat, t <= u PROVE t \div M <= u \div M
  <2> DEFINE a == t \div M
             b == u \div M
  <2>1. a \in Nat /\ b \in Nat /\ M * a <= t /\ u < M * b + M
    BY <1>2
  <2> HIDE DEF a, b
  <2>2. ASSUME b + 1 <= a PROVE FALSE
    <3>1. M * (b + 1) <= M * a
      BY <2>1, <2>2, <1>1
    <3> QED BY <3>1, <2>1, <1>1, <1>3
  <2>3. a <= b
    BY <2>1, <2>2
  <2> QED BY <2>3 DEF a, b
<1> QED BY <1>2, <1>3 DEF Month

\* A period that has begun has begun the day after, too.
LEMMA StartGrows ==
    ASSUME NEW p \in Periods, NEW n \in Nat, Start(p, n) > 0
    PROVE  Start(p, n + 1) > 0
<1> DEFINE L == Length(p)
           a == n \div L
           b == (n + 1) \div L
<1>1. L \in Nat \ {0}
  BY CapacityAssumption DEF Length, Periods
<1>2. a \in Nat /\ b \in Nat /\ L * a <= n /\ n + 1 < L * b + L
  BY <1>1
<1>3. a * L > 0
  BY DEF Start
<1> HIDE DEF a, b, L
<1>4. a >= 1
  BY <1>1, <1>2, <1>3
<1>5. n >= L
  <2>1. L * a >= L
    BY <1>1, <1>2, <1>4
  <2> QED BY <2>1, <1>1, <1>2
<1>6. b # 0
  BY <1>1, <1>2, <1>5
<1>7. b * L > 0
  BY <1>1, <1>2, <1>6
<1> QED BY <1>7 DEF Start, b, L

\* The last period of a kind is over.
LEMMA LastPeriod ==
    ASSUME NEW p \in Periods, day \in Days, HasLast(p)
    PROVE  LastStart(p) \in Days /\ \A u \in Span(p, LastStart(p)) : u < day
<1> DEFINE L == Length(p)
           q == day \div L
<1>1. L \in Nat \ {0} /\ day \in Nat /\ LastDay \in Nat /\ day <= LastDay
  BY CapacityAssumption DEF Length, Periods, Days
<1>2. q \in Nat /\ q * L <= day
  BY <1>1
<1>3. Start(p, day) = q * L /\ q * L > 0
  BY DEF Start, HasLast
<1> HIDE DEF q, L
<1>4. q >= 1
  BY <1>1, <1>2, <1>3
<1>5. q * L >= L /\ q * L \in Nat
  BY <1>1, <1>2, <1>4
<1>6. LastStart(p) = q * L - L
  BY <1>3 DEF LastStart, L
<1> QED BY <1>1, <1>2, <1>5, <1>6 DEF Days, Span, L
\* Lists of sizes that agree say the same.
LEMMA SameSizes ==
    ASSUME NEW f, NEW g, NEW span, \A u \in span \cap Days : f[u] = g[u]
    PROVE  Filled(f, span) = Filled(g, span) /\ SizesOf(f, span) = SizesOf(g, span) /\ (LateIn(f, span) <=> LateIn(g, span))
<1>1. Filled(f, span) = Filled(g, span)
  BY DEF Filled
<1>2. \A u \in Filled(f, span) : f[u] = g[u]
  BY DEF Filled
<1>3. SizesOf(f, span) = SizesOf(g, span)
  BY <1>1, <1>2 DEF SizesOf
<1> QED BY <1>1, <1>2, <1>3 DEF LateIn

\* A calculated aggregate says what the sizes say, and is one.
LEMMA MetricsSay ==
    ASSUME NEW f, NEW span, Filled(f, span) # {}
    PROVE  LET agg == Metrics(f, Filled(f, span), span)
           IN  Says(agg, SizesOf(f, span)) /\ (agg.closed <=> Over(span)) /\ agg # NoAggregate
<1> DEFINE ts == Filled(f, span)
           sizes == SizesOf(f, span)
           agg == Metrics(f, ts, span)
<1>1. DOMAIN sizes = ts
  BY DEF SizesOf
<1>2. agg = [max |-> Max({sizes[t] : t \in ts}), min |-> Min({sizes[t] : t \in ts}),
             sum |-> TotalOf(sizes), count |-> Cardinality(ts), closed |-> Over(span)]
  BY DEF Metrics, SizesOf, Over
<1>3. Cardinality(ts) # 0
  <2>1. IsFiniteSet(Days)
    BY FS_Interval, CapacityAssumption DEF Days
  <2>2. IsFiniteSet(ts)
    BY <2>1, FS_Subset DEF Filled
  <2> QED BY <2>2, FS_EmptySet
<1> HIDE DEF agg, sizes, ts
<1>4. agg.max = Max({sizes[t] : t \in ts}) /\ agg.min = Min({sizes[t] : t \in ts}) /\ agg.sum = TotalOf(sizes)
      /\ agg.count = Cardinality(ts)
  BY <1>2
<1>5. agg.closed = Over(span)
  BY <1>2
<1>6. agg # NoAggregate
  BY <1>3, <1>4 DEF NoAggregate
<1>7. Says(agg, sizes)
  BY <1>1, <1>4 DEF Says
<1> QED BY <1>5, <1>6, <1>7 DEF agg, sizes, ts

\* What Aggregated does to a table of aggregates.
LEMMA AggregatedFacts ==
    ASSUME NEW aggs, IsTable(aggs), NEW f, NEW p \in Periods, NEW t \in Days
    PROVE  /\ IsTable(Aggregated(aggs, f, p, t))
           /\ \A q \in Periods, u \in Days : q # p \/ u # t => Aggregated(aggs, f, p, t)[q][u] = aggs[q][u]
           /\ Filled(f, Span(p, t)) = {} => Aggregated(aggs, f, p, t)[p][t] = aggs[p][t]
           /\ Filled(f, Span(p, t)) # {} =>
                /\ Says(Aggregated(aggs, f, p, t)[p][t], SizesOf(f, Span(p, t)))
                /\ (Aggregated(aggs, f, p, t)[p][t].closed <=> Over(Span(p, t)))
                /\ Aggregated(aggs, f, p, t)[p][t] # NoAggregate
<1> DEFINE new == Aggregated(aggs, f, p, t)
<1>1. CASE Filled(f, Span(p, t)) = {}
  BY <1>1 DEF Aggregated
<1>2. CASE Filled(f, Span(p, t)) # {}
  <2> DEFINE agg == Metrics(f, Filled(f, Span(p, t)), Span(p, t))
  <2>1. new = [aggs EXCEPT ![p][t] = agg]
    BY <1>2 DEF Aggregated
  <2>2. Says(agg, SizesOf(f, Span(p, t))) /\ (agg.closed <=> Over(Span(p, t))) /\ agg # NoAggregate
    BY <1>2, MetricsSay
  <2> HIDE DEF agg, new
  <2>3. new[p][t] = agg
    BY <2>1 DEF IsTable
  <2>4. IsTable(new) /\ \A q \in Periods, u \in Days : q # p \/ u # t => new[q][u] = aggs[q][u]
    BY <2>1 DEF IsTable
  <2> QED BY <1>2, <2>2, <2>3, <2>4 DEF new
<1> QED BY <1>1, <1>2

\* An aggregate of the current day is not closed.
LEMMA TodayIsOpen ==
    ASSUME NEW aggs, IsTable(aggs), NEW f, day \in Days, NEW new,
           new = aggs \/ new = Aggregated(aggs, f, "daily", day)
    PROVE  /\ IsTable(new)
           /\ \A p \in Periods, t \in Days : new[p][t] = aggs[p][t] \/ ~new[p][t].closed
           /\ \A t \in Days : new["long"][t] = aggs["long"][t]
<1>1. "daily" \in Periods /\ ~Over(Span("daily", day)) /\ "long" \in Periods /\ "long" # "daily"
  <2>1. day \in Nat
    BY CapacityAssumption DEF Days
  <2>2. day \in Span("daily", day)
    BY <2>1 DEF Span, Length
  <2> QED BY <2>1, <2>2 DEF Over, Periods
<1>2. CASE new = Aggregated(aggs, f, "daily", day)
  <2>1. /\ IsTable(new)
        /\ \A q \in Periods, u \in Days : q # "daily" \/ u # day => new[q][u] = aggs[q][u]
        /\ Filled(f, Span("daily", day)) = {} => new["daily"][day] = aggs["daily"][day]
        /\ Filled(f, Span("daily", day)) # {} => (new["daily"][day].closed <=> Over(Span("daily", day)))
    <3>1. PICK p \in Periods : p = "daily"
      BY <1>1
    <3>2. new = Aggregated(aggs, f, p, day)
      BY <1>2, <3>1
    <3>3. /\ IsTable(new)
          /\ \A q \in Periods, u \in Days : q # p \/ u # day => new[q][u] = aggs[q][u]
          /\ Filled(f, Span(p, day)) = {} => new[p][day] = aggs[p][day]
          /\ Filled(f, Span(p, day)) # {} => (new[p][day].closed <=> Over(Span(p, day)))
      <4>1. /\ IsTable(Aggregated(aggs, f, p, day))
            /\ \A r \in Periods, u \in Days : r # p \/ u # day => Aggregated(aggs, f, p, day)[r][u] = aggs[r][u]
        BY AggregatedFacts
      <4>2. Filled(f, Span(p, day)) = {} => Aggregated(aggs, f, p, day)[p][day] = aggs[p][day]
        BY AggregatedFacts
      <4>3. Filled(f, Span(p, day)) # {} => (Aggregated(aggs, f, p, day)[p][day].closed <=> Over(Span(p, day)))
        BY AggregatedFacts
      <4> QED BY <3>2, <4>1, <4>2, <4>3
    <3> QED BY <3>1, <3>3
  <2> QED BY <1>1, <2>1
<1>3. CASE new = aggs
  BY <1>3
<1> QED BY <1>2, <1>3

\* At the start nothing is stored.
LEMMA CapacityStart == CapacityInit => CapacityInv
<1> SUFFICES ASSUME CapacityInit PROVE CapacityInv
  OBVIOUS
<1>1. 0 \in Days
  BY CapacityAssumption DEF Days
<1>2. Idle \in Locals
  <2>1. [d \in {} |-> 0] \in [{} -> Sizes]
    OBVIOUS
  <2>2. [d \in {} |-> 0] \in UNION {[S -> Sizes] : S \in SUBSET Databases}
    BY <2>1
  <2> QED BY <2>2, <1>1 DEF Idle, Locals
<1>8. Idle.pc = "idle" /\ Idle.stamp = 0
  BY DEF Idle
<1> HIDE DEF Idle
<1>3. Tables
  <2>1. sync \in [Syncs -> Locals]
    BY <1>2 DEF CapacityInit
  <2>2. inventory \in [Databases -> {"absent", "active", "inactive"}]
    BY DEF CapacityInit
  <2>3. /\ rows = [d \in Databases |-> [t \in Days |-> rows[d][t]]]
        /\ totals = [t \in Days |-> totals[t]]
        /\ dbAggs = [d \in Databases |-> dbAggs[d]] /\ \A d \in Databases : IsTable(dbAggs[d])
        /\ IsTable(instAggs)
    BY DEF CapacityInit, IsTable
  <2> QED BY <2>1, <2>2, <2>3 DEF Tables, CapacityInit
<1>4. Dated
  BY <1>1, <1>8 DEF Dated, CapacityInit
<1>9. TalliesHold
  BY <1>8 DEF TalliesHold, TallyHolds, CapacityInit
<1>5. /\ \A p \in Periods, t \in Days : instAggs[p][t] = NoAggregate /\ \A d \in Databases : dbAggs[d][p][t] = NoAggregate
      /\ "long" \in Periods /\ ~NoAggregate.closed /\ \A t \in Days : totals[t] = None
  BY DEF CapacityInit, NoAggregate, Periods
<1>6. ClosedAreExact
  BY <1>5 DEF ClosedAreExact
<1>7. LongTogether
  BY <1>5 DEF LongTogether
<1> QED BY <1>3, <1>4, <1>5, <1>6, <1>7, <1>9 DEF CapacityInv, TotalIsSumOfRows

\* Midnight, and the steps that change no row and no aggregate.
LEMMA QuietStep ==
    ASSUME CapacityInv, UNCHANGED <<rows, totals, stale, dbAggs, instAggs>>, day' \in Days, day <= day', Tables', Dated',
           TalliesHold'
    PROVE  CapacityInv'
<1>1. day \in Nat /\ day' \in Nat
  BY CapacityAssumption DEF CapacityInv, Dated, Days
<1>2. \A p \in Periods, t \in Days : Over(Span(p, t)) => Over(Span(p, t))'
  <2>1. \A p \in Periods, t \in Days : \A u \in Span(p, t) : u \in Int
    BY DEF Span
  <2> QED BY <1>1, <2>1 DEF Over, Span, Length
<1>3. ClosedAreExact'
  BY <1>2 DEF CapacityInv, ClosedAreExact
<1>4. LongTogether'
  BY DEF CapacityInv, LongTogether
<1>5. TotalIsSumOfRows'
  BY DEF CapacityInv, TotalIsSumOfRows
<1> QED BY <1>3, <1>4, <1>5 DEF CapacityInv

\* What a collection has in hand at its end.
LEMMA DoneTyped ==
    LET done == [Idle EXCEPT !.pc = "done"]
    IN  done \in Locals /\ done.stamp = 0 /\ done.pc = "done"
<1>1. 0 \in Days
  BY CapacityAssumption DEF Days
<1>2. [d \in {} |-> 0] \in UNION {[S -> Sizes] : S \in SUBSET Databases}
  <2>1. [d \in {} |-> 0] \in [{} -> Sizes]
    OBVIOUS
  <2> QED BY <2>1
<1> QED BY <1>1, <1>2 DEF Idle, Locals

\* A collection that ends has the locals it began with.
LEMMA EndTyped ==
    ASSUME CapacityInv, NEW s \in Syncs, End(s)
    PROVE  /\ sync' \in [Syncs -> Locals]
           /\ \A x \in Syncs : sync'[x].stamp <= day
           /\ \A x \in Syncs : sync'[x].pc = "summed" => sync'[x] = sync[x]
<1> DEFINE done == [Idle EXCEPT !.pc = "done"]
<1>1. day \in Nat /\ done \in Locals /\ done.stamp = 0 /\ done.pc = "done"
  BY CapacityAssumption, DoneTyped DEF Days, CapacityInv, Dated
<1>2. sync' = [sync EXCEPT ![s] = done]
  BY DEF End, Set
<1> HIDE DEF done
<1> QED BY <1>1, <1>2 DEF CapacityInv, Tables, Dated

\* The sizes of a period that is over are the same as before, but for late ones.
LEMMA PastRows ==
    ASSUME CapacityInv, NEW s \in Syncs, NEW d \in Databases
    PROVE  LET new == Upserted(s)[d]
           IN  /\ new = [t \in Days |-> new[t]]
               /\ \A t \in Days : t # sync[s].stamp \/ d \notin DOMAIN sync[s].sizes => new[t] = rows[d][t]
               /\ d \in DOMAIN sync[s].sizes =>
                    LET t == sync[s].stamp
                    IN  /\ new[t] # None
                        /\ new[t].late <=> t < day
                        /\ new[t].size = sync[s].sizes[d]
                        /\ new[t] \in Row
<1> DEFINE t0 == sync[s].stamp
           new == Upserted(s)[d]
<1>1. /\ rows[d] = [t \in Days |-> rows[d][t]] /\ t0 \in Days
      /\ sync[s].sizes \in UNION {[S -> Sizes] : S \in SUBSET Databases}
  BY DEF CapacityInv, Tables, Locals
<1>2. CASE d \notin DOMAIN sync[s].sizes
  BY <1>1, <1>2 DEF Upserted
<1>3. CASE d \in DOMAIN sync[s].sizes
  <2> DEFINE r == [size |-> sync[s].sizes[d], late |-> t0 < day]
  <2>1. new = [rows[d] EXCEPT ![t0] = r]
    BY <1>3 DEF Upserted
  <2>2. sync[s].sizes[d] \in Sizes
    BY <1>1, <1>3
  <2>3. r \in Row
    BY <2>2 DEF Row
  <2>4. r # None /\ (r.late <=> t0 < day) /\ r.size = sync[s].sizes[d]
    BY <2>3, NoneIsNoRow
  <2> HIDE DEF r, t0, new
  <2>5. new[t0] = r /\ (\A t \in Days : t # t0 => new[t] = rows[d][t]) /\ new = [t \in Days |-> new[t]]
    BY <2>1, <1>1
  <2> QED BY <1>3, <2>3, <2>4, <2>5 DEF t0, new
<1> QED BY <1>2, <1>3

\* What a collection stores.
LEMMA SaveStep ==
    ASSUME CapacityInv, NEW s \in Syncs, SyncSave(s)
    PROVE  CapacityInv'
<1> DEFINE t0 == sync[s].stamp
           got == DOMAIN sync[s].sizes
<1>1. /\ sync[s].pc = "summed" /\ inventory' = Own(s) /\ rows' = Upserted(s)
      /\ \/ totals' = Retotalled(s) /\ stale' = Recounted(s)
         \/ totals' = totals /\ stale' = LeftBehind(s)
      /\ Overtaking(s) /\ UNCHANGED <<day, months, calc>>
  BY DEF SyncSave
<1>2. PICK n \in 0 .. 2 :
       /\ dbAggs'   = IF n > 0 THEN DbAggregated(dbAggs, rows', "daily", day) ELSE dbAggs
       /\ instAggs' = IF n > 1 THEN Aggregated(instAggs, totals', "daily", day) ELSE instAggs
  BY DEF SyncSave
<1>3. t0 \in Days /\ day \in Days /\ t0 <= day /\ day \in Nat /\ t0 \in Nat /\ got \subseteq Databases
  BY CapacityAssumption DEF CapacityInv, Tables, Dated, Days, Locals
<1>4. \A d \in Databases :
        /\ rows'[d] = [t \in Days |-> rows'[d][t]]
        /\ \A t \in Days : t # t0 \/ d \notin got => rows'[d][t] = rows[d][t]
        /\ d \in got => /\ rows'[d][t0] # None /\ (rows'[d][t0].late <=> t0 < day)
                        /\ rows'[d][t0].size = sync[s].sizes[d] /\ rows'[d][t0] \in Row
  BY <1>1, PastRows
<1>5. /\ totals' = [t \in Days |-> totals'[t]]
      /\ \A t \in Days : t # day => totals'[t] = totals[t]
      /\ \/ totals'[day] = totals[day] /\ LeftBehind(s) \subseteq stale'
         \/ /\ totals'[day] = [size |-> TotalOf(sync[s].tally), counted |-> DOMAIN sync[s].tally]
            /\ LeftBehind(s) \ {day} \subseteq stale'
            /\ day \notin stale' => ~sync[s].missed /\ sync[s].of = day
  <2>1. totals = [t \in Days |-> totals[t]]
    BY DEF CapacityInv, Tables
  <2> DEFINE new == [size |-> TotalOf(sync[s].tally), counted |-> DOMAIN sync[s].tally]
             left == LeftBehind(s)
  <2>2. \/ totals' = totals /\ left \subseteq stale'
        \/ /\ totals' = [totals EXCEPT ![day] = new]
           /\ stale' = (left \ {day}) \union (IF sync[s].missed \/ sync[s].of # day THEN {day} ELSE {})
    BY <1>1 DEF Retotalled, Recounted
  <2> HIDE DEF new, left
  <2>3. CASE totals' = totals /\ left \subseteq stale'
    BY <2>1, <2>3 DEF left
  <2>4. CASE /\ totals' = [totals EXCEPT ![day] = new]
             /\ stale' = (left \ {day}) \union (IF sync[s].missed \/ sync[s].of # day THEN {day} ELSE {})
    <3>1. totals'[day] = new /\ totals' = [t \in Days |-> totals'[t]] /\ \A t \in Days : t # day => totals'[t] = totals[t]
      BY <1>3, <2>1, <2>4
    <3>2. left \ {day} \subseteq stale' /\ (day \notin stale' => ~sync[s].missed /\ sync[s].of = day)
      BY <2>4
    <3> QED BY <3>1, <3>2 DEF new, left
  <2> QED BY <2>2, <2>3, <2>4
<1>6. \A p \in Periods, t \in Days : Over(Span(p, t)) => \A u \in Span(p, t) \cap Days : u # day /\ totals'[u] = totals[u]
  BY <1>3, <1>5 DEF Over
<1>7. "daily" \in Periods /\ ~Over(Span("daily", day)) /\ "long" \in Periods /\ "long" # "daily"
  <2>1. day \in Span("daily", day)
    BY <1>3 DEF Span, Length
  <2> QED BY <2>1, <1>3 DEF Over, Periods
<1>8. /\ IsTable(instAggs')
      /\ \A p \in Periods, t \in Days : instAggs'[p][t] = instAggs[p][t] \/ ~instAggs'[p][t].closed
  <2>1. IsTable(instAggs)
    BY DEF CapacityInv, Tables
  <2> DEFINE old == instAggs
             new == instAggs'
             sums == totals'
  <2>2. new = old \/ new = Aggregated(old, sums, "daily", day)
    BY <1>2
  <2>3. IsTable(old) /\ day \in Days
    BY <1>3, <2>1
  <2> HIDE DEF old, new, sums
  <2>4. IsTable(new) /\ \A p \in Periods, t \in Days : new[p][t] = old[p][t] \/ ~new[p][t].closed
    BY <2>2, <2>3, TodayIsOpen
  <2> QED BY <2>4 DEF old, new
<1>9. \A d \in Databases :
        /\ IsTable(dbAggs'[d])
        /\ \A p \in Periods, t \in Days : dbAggs'[d][p][t] = dbAggs[d][p][t] \/ ~dbAggs'[d][p][t].closed
        /\ \A t \in Days : dbAggs'[d]["long"][t] = dbAggs[d]["long"][t]
  <2> SUFFICES ASSUME NEW d \in Databases
      PROVE  /\ IsTable(dbAggs'[d])
             /\ \A p \in Periods, t \in Days : dbAggs'[d][p][t] = dbAggs[d][p][t] \/ ~dbAggs'[d][p][t].closed
             /\ \A t \in Days : dbAggs'[d]["long"][t] = dbAggs[d]["long"][t]
    OBVIOUS
  <2>1. IsTable(dbAggs[d])
    BY DEF CapacityInv, Tables
  <2>2. dbAggs'[d] = dbAggs[d] \/ dbAggs'[d] = Aggregated(dbAggs[d], rows'[d], "daily", day)
    BY <1>2 DEF DbAggregated
  <2> QED BY <2>1, <2>2, <1>3, <1>7, TodayIsOpen
<1>20. /\ sync' \in [Syncs -> Locals] /\ \A x \in Syncs : sync'[x].stamp <= day
       /\ \A o \in Syncs : sync'[o].pc = "summed" /\ ~sync'[o].missed =>
            sync'[o] = sync[o] /\ DOMAIN sync[o].tally \cap got = {}
  <2> DEFINE done == [Idle EXCEPT !.pc = "done"]
  <2>1. done \in Locals /\ done.stamp = 0 /\ done.pc = "done"
    BY DoneTyped
  <2> HIDE DEF done
  <2>2. ASSUME NEW o \in Syncs
        PROVE  /\ sync'[o] \in Locals /\ sync'[o].stamp <= day
               /\ sync'[o].pc = "summed" /\ ~sync'[o].missed =>
                    sync'[o] = sync[o] /\ DOMAIN sync[o].tally \cap got = {}
    <3>1. sync[o] \in Locals /\ sync[o].stamp <= day
      BY DEF CapacityInv, Tables, Dated
    <3>2. CASE o = s
      <4>1. sync'[o] = done
        BY <1>1, <3>2 DEF Overtaking, done
      <4> QED BY <2>1, <4>1, <1>3
    <3>3. CASE o # s /\ sync[o].pc = "summed" /\ DOMAIN sync[o].tally \cap got # {}
      <4>1. sync'[o] = [sync[o] EXCEPT !.missed = TRUE]
        BY <1>1, <3>3 DEF Overtaking
      <4>2. sync'[o] \in Locals /\ sync'[o].missed /\ sync'[o].stamp = sync[o].stamp
        BY <3>1, <4>1 DEF Locals
      <4> QED BY <3>1, <4>2
    <3>4. CASE o # s /\ ~(sync[o].pc = "summed" /\ DOMAIN sync[o].tally \cap got # {})
      <4>1. sync'[o] = sync[o]
        BY <1>1, <3>4 DEF Overtaking
      <4> QED BY <3>1, <3>4, <4>1
    <3> QED BY <3>2, <3>3, <3>4
  <2>3. sync' = [o \in Syncs |-> sync'[o]]
    BY <1>1 DEF Overtaking
  <2> HIDE DEF Locals
  <2> QED BY <2>2, <2>3
<1>10. Tables'
  <2>1. rows' = [d \in Databases |-> [t \in Days |-> rows'[d][t]]]
    BY <1>1, <1>4 DEF Upserted
  <2>2. dbAggs' = [d \in Databases |-> dbAggs'[d]] /\ \A d \in Databases : IsTable(dbAggs'[d])
    <3>1. dbAggs' = [d \in Databases |-> dbAggs'[d]]
      BY <1>2 DEF DbAggregated, CapacityInv, Tables
    <3> QED BY <3>1, <1>9
  <2>3. inventory' \in [Databases -> {"absent", "active", "inactive"}]
    BY <1>1 DEF Own, CapacityInv, Tables
  <2>4. calc' = calc
    BY <1>1
  <2>5. sync' \in [Syncs -> Locals]
    BY <1>20
  <2> QED BY <1>5, <1>8, <2>1, <2>2, <2>3, <2>4, <2>5 DEF CapacityInv, Tables
<1>11. Dated'
  <2>1. \A x \in Syncs : sync'[x].stamp <= day
    BY <1>20
  <2>4. sync[s].tally \in UNION {[S -> Sizes] : S \in SUBSET Databases}
    BY DEF CapacityInv, Tables, Locals
  <2>6. ASSUME NEW d \in Databases, NEW t \in Days, rows'[d][t] # None
        PROVE  rows'[d][t] \in Row /\ t <= day /\ (rows'[d][t].late => t < day)
    <3>1. rows[d][t] # None => rows[d][t] \in Row /\ t <= day /\ (rows[d][t].late => t < day)
      BY DEF CapacityInv, Dated
    <3>2. CASE t = t0 /\ d \in got
      BY <1>3, <1>4, <3>2
    <3>3. CASE ~(t = t0 /\ d \in got)
      <4>1. rows'[d][t] = rows[d][t]
        BY <1>4, <3>3
      <4> QED BY <2>6, <3>1, <4>1
    <3> QED BY <3>2, <3>3
  <2>5. \A d \in Databases, t \in Days : rows'[d][t] # None => rows'[d][t] \in Row
    BY <2>6
  <2>7. DOMAIN sync[s].tally \subseteq Databases
    BY <2>4
  <2>2. \A t \in Days : totals'[t] # None => t <= day /\ totals'[t].counted \subseteq Databases
    BY <1>3, <1>5, <2>7 DEF CapacityInv, Dated
  <2>3. \A d \in Databases, t \in Days : rows'[d][t] # None => t <= day /\ (rows'[d][t].late => t < day)
    BY <2>6
  <2> QED BY <1>1, <1>3, <2>1, <2>2, <2>3, <2>5 DEF CapacityInv, Dated, HasLast, Start
\* A late size is what it takes to change the sizes of a period that is over.
<1>12. ASSUME NEW d \in Databases, NEW p \in Periods, NEW t \in Days, Over(Span(p, t)), ~LateIn(rows'[d], Span(p, t))
       PROVE  \A u \in Span(p, t) \cap Days : rows'[d][u] = rows[d][u]
  <2> SUFFICES ASSUME NEW u \in Span(p, t) \cap Days, rows'[d][u] # rows[d][u] PROVE FALSE
    OBVIOUS
  <2>1. u = t0 /\ d \in got
    BY <1>4
  <2>2. u < day
    BY <1>12 DEF Over
  <2>3. u \in Filled(rows'[d], Span(p, t)) /\ rows'[d][u].late
    BY <1>4, <2>1, <2>2 DEF Filled
  <2> QED BY <2>3, <1>12 DEF LateIn
<1>13. day' = day
  BY <1>1
<1>14. ClosedAreExact'
  <2> SUFFICES ASSUME NEW p \in Periods, NEW t \in Days
      PROVE  /\ instAggs'[p][t].closed => Over(Span(p, t))' /\ Says(instAggs'[p][t], SizesOf(totals', Span(p, t)))
             /\ \A d \in Databases : dbAggs'[d][p][t].closed =>
                  Over(Span(p, t))' /\ (~LateIn(rows'[d], Span(p, t)) => Says(dbAggs'[d][p][t], SizesOf(rows'[d], Span(p, t))))
    BY DEF ClosedAreExact
  <2>1. Over(Span(p, t))' <=> Over(Span(p, t))
    BY <1>13 DEF Over
  <2>2. ASSUME instAggs'[p][t].closed
        PROVE  Over(Span(p, t)) /\ Says(instAggs'[p][t], SizesOf(totals', Span(p, t)))
    <3>1. instAggs'[p][t] = instAggs[p][t]
      BY <2>2, <1>8
    <3>2. Over(Span(p, t)) /\ Says(instAggs[p][t], SizesOf(totals, Span(p, t)))
      BY <2>2, <3>1 DEF CapacityInv, ClosedAreExact
    <3>3. SizesOf(totals', Span(p, t)) = SizesOf(totals, Span(p, t))
      BY <3>2, <1>6, SameSizes
    <3> QED BY <3>1, <3>2, <3>3
  <2>3. ASSUME NEW d \in Databases, dbAggs'[d][p][t].closed
        PROVE  Over(Span(p, t)) /\ (~LateIn(rows'[d], Span(p, t)) => Says(dbAggs'[d][p][t], SizesOf(rows'[d], Span(p, t))))
    <3>1. dbAggs'[d][p][t] = dbAggs[d][p][t]
      BY <2>3, <1>9
    <3>2. Over(Span(p, t)) /\ (~LateIn(rows[d], Span(p, t)) => Says(dbAggs[d][p][t], SizesOf(rows[d], Span(p, t))))
      BY <2>3, <3>1 DEF CapacityInv, ClosedAreExact
    <3>3. ~LateIn(rows'[d], Span(p, t)) => ~LateIn(rows[d], Span(p, t)) /\ SizesOf(rows'[d], Span(p, t)) = SizesOf(rows[d], Span(p, t))
      BY <3>2, <1>12, SameSizes
    <3> QED BY <3>1, <3>2, <3>3
  <2> QED BY <2>1, <2>2, <2>3
<1>15. LongTogether'
  <2> SUFFICES ASSUME NEW t \in Days
      PROVE  /\ \A d \in Databases : dbAggs'[d]["long"][t] # NoAggregate => dbAggs'[d]["long"][t].closed
             /\ (\E d \in Databases : dbAggs'[d]["long"][t] # NoAggregate) =>
                  \A d \in Databases : Filled(rows'[d], Span("long", t)) # {} /\ ~LateIn(rows'[d], Span("long", t))
                    => dbAggs'[d]["long"][t] # NoAggregate
    BY DEF LongTogether
  <2>1. \A d \in Databases : dbAggs[d]["long"][t] # NoAggregate => dbAggs[d]["long"][t].closed
    BY DEF CapacityInv, LongTogether
  <2>2. ASSUME NEW e \in Databases, dbAggs[e]["long"][t] # NoAggregate, NEW d \in Databases,
               Filled(rows'[d], Span("long", t)) # {}, ~LateIn(rows'[d], Span("long", t))
        PROVE  dbAggs[d]["long"][t] # NoAggregate
    <3>1. Over(Span("long", t))
      BY <2>1, <2>2, <1>7 DEF CapacityInv, ClosedAreExact
    <3>2. Filled(rows[d], Span("long", t)) # {} /\ ~LateIn(rows[d], Span("long", t))
      BY <3>1, <2>2, <1>7, <1>12, SameSizes
    <3> QED BY <3>2, <2>2 DEF CapacityInv, LongTogether
  <2>3. \A d \in Databases : dbAggs'[d]["long"][t] = dbAggs[d]["long"][t]
    BY <1>9
  <2>4. \A d \in Databases : dbAggs'[d]["long"][t] # NoAggregate => dbAggs'[d]["long"][t].closed
    BY <2>1, <2>3
  <2>5. ASSUME NEW e \in Databases, dbAggs'[e]["long"][t] # NoAggregate, NEW d \in Databases,
               Filled(rows'[d], Span("long", t)) # {}, ~LateIn(rows'[d], Span("long", t))
        PROVE  dbAggs'[d]["long"][t] # NoAggregate
    BY <2>2, <2>3, <2>5
  <2> QED BY <2>4, <2>5
<1>16. TotalIsSumOfRows'
  <2> SUFFICES ASSUME NEW t \in Days, totals'[t] # None, t \notin stale'
      PROVE  /\ \A d \in totals'[t].counted : rows'[d][t] # None
             /\ totals'[t].size = TotalOf([d \in totals'[t].counted |-> rows'[d][t].size])
    BY DEF TotalIsSumOfRows
  <2>1. CASE /\ t = day /\ totals'[day] = [size |-> TotalOf(sync[s].tally), counted |-> DOMAIN sync[s].tally]
             /\ ~sync[s].missed /\ sync[s].of = day
    <3> DEFINE tally == sync[s].tally
    <3>1. tally = [d \in DOMAIN tally |-> tally[d]] /\ DOMAIN tally \subseteq Databases
      BY DEF CapacityInv, Tables, Locals
    <3>2. TallyHolds(sync[s])
      BY DEF CapacityInv, TalliesHold
    <3>3. \A d \in DOMAIN tally : SeenRow(sync[s], d) /\ tally[d] = SeenSize(sync[s], d)
      BY <1>1, <2>1, <3>2 DEF TallyHolds
    <3>4. ASSUME NEW d \in DOMAIN tally PROVE rows'[d][day] # None /\ tally[d] = rows'[d][day].size
      <4>1. d \in Databases
        BY <3>1
      <4>2. CASE d \in got /\ t0 = day
        BY <1>4, <2>1, <3>3, <4>1, <4>2 DEF SeenSize
      <4>3. CASE ~(d \in got /\ t0 = day)
        <5>1. rows'[d][day] = rows[d][day]
          BY <1>3, <1>4, <4>1, <4>3
        <5> QED BY <2>1, <3>3, <4>3, <5>1 DEF SeenRow, SeenSize
      <4> QED BY <4>2, <4>3
    <3> HIDE DEF tally
    <3>5. tally = [d \in DOMAIN tally |-> rows'[d][day].size]
      BY <3>1, <3>4
    <3>6. totals'[t].size = TotalOf(tally) /\ totals'[t].counted = DOMAIN tally
      BY <2>1 DEF tally
    <3> QED BY <2>1, <3>4, <3>5, <3>6
  <2>2. CASE totals'[t] = totals[t] /\ t \notin LeftBehind(s)
    <3>1. t \notin stale /\ (t = t0 => totals[t].counted \cap got = {})
      BY <2>2 DEF LeftBehind
    <3>2. totals[t].counted \subseteq Databases
      BY <2>2 DEF CapacityInv, Dated
    <3>3. /\ \A d \in totals[t].counted : rows[d][t] # None
          /\ totals[t].size = TotalOf([d \in totals[t].counted |-> rows[d][t].size])
      BY <2>2, <3>1 DEF CapacityInv, TotalIsSumOfRows
    <3>4. \A d \in totals[t].counted : rows'[d][t] = rows[d][t]
      BY <1>4, <3>1, <3>2
    <3>5. [d \in totals[t].counted |-> rows[d][t].size] = [d \in totals[t].counted |-> rows'[d][t].size]
      BY <3>4
    <3> QED BY <2>2, <3>3, <3>4, <3>5
  <2> QED BY <2>1, <2>2, <1>5
<1>21. TalliesHold'
  <2> SUFFICES ASSUME NEW o \in Syncs, sync'[o].pc = "summed", ~sync'[o].missed, NEW d \in DOMAIN sync'[o].tally
      PROVE  (SeenRow(sync[o], d) /\ sync[o].tally[d] = SeenSize(sync[o], d))'
    BY DEF TalliesHold, TallyHolds
  <2>1. sync'[o] = sync[o] /\ d \notin got
    BY <1>20
  <2>2. d \in Databases /\ sync[o].of \in Days
    BY <2>1 DEF CapacityInv, Tables, Locals
  <2>3. rows'[d][sync[o].of] = rows[d][sync[o].of]
    BY <1>4, <2>1, <2>2
  <2>4. SeenRow(sync[o], d) /\ sync[o].tally[d] = SeenSize(sync[o], d)
    BY <2>1 DEF CapacityInv, TalliesHold, TallyHolds
  <2> QED BY <2>1, <2>3, <2>4 DEF SeenRow, SeenSize
<1> QED BY <1>10, <1>11, <1>14, <1>15, <1>16, <1>21 DEF CapacityInv

\* The nightly aggregation of the totals.
LEMMA CalcInstancesStep == ASSUME CapacityInv, CalcInstances PROVE CapacityInv'
<1>1. /\ UNCHANGED <<day, inventory, rows, totals, stale, months, dbAggs, sync>>
      /\ calc' = [calc EXCEPT !.pc = "databases"]
  BY DEF CalcInstances
<1>2. ASSUME NEW p \in Periods, NEW t \in Days
      PROVE  \/ instAggs'[p][t] = instAggs[p][t]
             \/ Says(instAggs'[p][t], SizesOf(totals, Span(p, t))) /\ (instAggs'[p][t].closed <=> Over(Span(p, t)))
  <2>1. CASE p \in Storable(calc.periods)
    <3>1. LastStart(p) \in Days
      BY <2>1, LastPeriod DEF Storable, CapacityInv, Dated
    <3>2. instAggs'[p] = Aggregated(instAggs, totals, p, LastStart(p))[p]
      BY <2>1 DEF CalcInstances
    <3>3. IsTable(instAggs)
      BY DEF CapacityInv, Tables
    <3> QED BY <3>1, <3>2, <3>3, AggregatedFacts
  <2>2. CASE p \notin Storable(calc.periods)
    BY <2>2 DEF CalcInstances
  <2> QED BY <2>1, <2>2
<1>3. Tables'
  <2>1. IsTable(instAggs')
    <3>1. \A p \in Periods : instAggs'[p] = [t \in Days |-> instAggs'[p][t]]
      <4> SUFFICES ASSUME NEW p \in Periods PROVE instAggs'[p] = [t \in Days |-> instAggs'[p][t]]
        OBVIOUS
      <4>1. IsTable(instAggs)
        BY DEF CapacityInv, Tables
      <4>2. CASE p \in Storable(calc.periods)
        <5>1. LastStart(p) \in Days
          BY <4>2, LastPeriod DEF Storable, CapacityInv, Dated
        <5>2. instAggs'[p] = Aggregated(instAggs, totals, p, LastStart(p))[p]
          BY <4>2 DEF CalcInstances
        <5>3. IsTable(Aggregated(instAggs, totals, p, LastStart(p)))
          BY <4>1, <5>1, AggregatedFacts
        <5> QED BY <5>2, <5>3 DEF IsTable
      <4>3. CASE p \notin Storable(calc.periods)
        BY <4>1, <4>3 DEF CalcInstances, IsTable
      <4> QED BY <4>2, <4>3
    <3>2. instAggs' = [p \in Periods |-> instAggs'[p]]
      BY DEF CalcInstances
    <3> QED BY <3>1, <3>2 DEF IsTable
  <2>2. calc' \in [pc : {"idle", "instances", "databases"}, periods : SUBSET Periods]
    BY <1>1 DEF CapacityInv, Tables
  <2> QED BY <1>1, <2>1, <2>2 DEF CapacityInv, Tables
<1>4. Dated'
  <2>1. calc'.periods = calc.periods
    BY <1>1 DEF CapacityInv, Tables
  <2> QED BY <1>1, <2>1 DEF CapacityInv, Dated, HasLast, Start
<1>5. ClosedAreExact'
  <2>1. \A p \in Periods, t \in Days : Over(Span(p, t))' <=> Over(Span(p, t))
    BY <1>1 DEF Over
  <2> QED BY <1>1, <1>2, <2>1 DEF CapacityInv, ClosedAreExact
<1>6. LongTogether' /\ TotalIsSumOfRows'
  BY <1>1 DEF CapacityInv, LongTogether, TotalIsSumOfRows
<1>7. TalliesHold'
  BY <1>1 DEF CapacityInv, TalliesHold, TallyHolds, SeenRow, SeenSize
<1> QED BY <1>3, <1>4, <1>5, <1>6, <1>7 DEF CapacityInv

\* The nightly aggregation of the databases: the long periods of all at once.
LEMMA CalcDatabasesStep == ASSUME CapacityInv, CalcDatabases PROVE CapacityInv'
<1>1. /\ UNCHANGED <<day, inventory, rows, totals, stale, months, instAggs, sync>>
      /\ calc' = [pc |-> "idle", periods |-> {}]
  BY DEF CalcDatabases
<1>2. ASSUME NEW d \in Databases, NEW p \in Periods
      PROVE  /\ dbAggs'[d][p] = [t \in Days |-> dbAggs'[d][p][t]]
             /\ p \notin Storable(calc.periods) => dbAggs'[d][p] = dbAggs[d][p]
             /\ p \in Storable(calc.periods) => LET t == LastStart(p) IN
                  /\ t \in Days /\ Over(Span(p, t))
                  /\ \A u \in Days : u # t => dbAggs'[d][p][u] = dbAggs[d][p][u]
                  /\ Filled(rows[d], Span(p, t)) = {} => dbAggs'[d][p][t] = dbAggs[d][p][t]
                  /\ Filled(rows[d], Span(p, t)) # {} =>
                       /\ Says(dbAggs'[d][p][t], SizesOf(rows[d], Span(p, t)))
                       /\ dbAggs'[d][p][t].closed /\ dbAggs'[d][p][t] # NoAggregate
  <2>1. IsTable(dbAggs[d])
    BY DEF CapacityInv, Tables
  <2>2. CASE p \in Storable(calc.periods)
    <3> DEFINE t == LastStart(p)
               new == Aggregated(dbAggs[d], rows[d], p, t)
    <3>1. t \in Days /\ Over(Span(p, t))
      BY <2>2, LastPeriod DEF Storable, CapacityInv, Dated, Over
    <3>2. dbAggs'[d][p] = new[p]
      BY <2>2 DEF CalcDatabases
    <3>3. /\ IsTable(new)
          /\ \A q \in Periods, u \in Days : q # p \/ u # t => new[q][u] = dbAggs[d][q][u]
      BY <2>1, <3>1, AggregatedFacts
    <3>6. Filled(rows[d], Span(p, t)) = {} => new[p][t] = dbAggs[d][p][t]
      BY <2>1, <3>1, AggregatedFacts
    <3>4. /\ Filled(rows[d], Span(p, t)) # {} =>
                /\ Says(new[p][t], SizesOf(rows[d], Span(p, t)))
                /\ (new[p][t].closed <=> Over(Span(p, t)))
                /\ new[p][t] # NoAggregate
      BY <2>1, <3>1, AggregatedFacts
    <3>5. new[p] = [u \in Days |-> new[p][u]]
      BY <3>3 DEF IsTable
    <3> HIDE DEF new, t
    <3> QED BY <2>2, <3>1, <3>2, <3>3, <3>4, <3>5, <3>6 DEF t
  <2>3. CASE p \notin Storable(calc.periods)
    BY <2>1, <2>3 DEF CalcDatabases, IsTable
  <2> QED BY <2>2, <2>3
<1>3. Tables'
  <2>1. dbAggs' = [d \in Databases |-> dbAggs'[d]] /\ \A d \in Databases : IsTable(dbAggs'[d])
    <3>1. dbAggs' = [d \in Databases |-> dbAggs'[d]] /\ \A d \in Databases : dbAggs'[d] = [p \in Periods |-> dbAggs'[d][p]]
      BY DEF CalcDatabases
    <3> QED BY <1>2, <3>1 DEF IsTable
  <2> QED BY <1>1, <2>1 DEF CapacityInv, Tables
<1>4. Dated'
  BY <1>1 DEF CapacityInv, Dated
<1>5. \A p \in Periods, t \in Days : Over(Span(p, t))' <=> Over(Span(p, t))
  BY <1>1 DEF Over
<1>6. \A d \in Databases, p \in Periods, t \in Days :
        \/ dbAggs'[d][p][t] = dbAggs[d][p][t]
        \/ Says(dbAggs'[d][p][t], SizesOf(rows[d], Span(p, t))) /\ Over(Span(p, t)) /\ dbAggs'[d][p][t].closed
           /\ dbAggs'[d][p][t] # NoAggregate
  <2> SUFFICES ASSUME NEW d \in Databases, NEW p \in Periods, NEW t \in Days, dbAggs'[d][p][t] # dbAggs[d][p][t]
      PROVE  Says(dbAggs'[d][p][t], SizesOf(rows[d], Span(p, t))) /\ Over(Span(p, t)) /\ dbAggs'[d][p][t].closed
             /\ dbAggs'[d][p][t] # NoAggregate
    OBVIOUS
  <2>1. p \in Storable(calc.periods)
    BY <1>2
  <2>2. t = LastStart(p)
    BY <1>2, <2>1
  <2>3. Filled(rows[d], Span(p, t)) # {}
    BY <1>2, <2>1, <2>2
  <2> QED BY <1>2, <2>1, <2>2, <2>3
<1>7. ClosedAreExact'
  BY <1>1, <1>5, <1>6 DEF CapacityInv, ClosedAreExact
<1>8. LongTogether'
  <2> SUFFICES ASSUME NEW t \in Days
      PROVE  /\ \A d \in Databases : dbAggs'[d]["long"][t] # NoAggregate => dbAggs'[d]["long"][t].closed
             /\ (\E d \in Databases : dbAggs'[d]["long"][t] # NoAggregate) =>
                  \A d \in Databases : Filled(rows[d], Span("long", t)) # {} /\ ~LateIn(rows[d], Span("long", t))
                    => dbAggs'[d]["long"][t] # NoAggregate
    BY <1>1 DEF LongTogether
  <2>0. "long" \in Periods
    BY DEF Periods
  <2>1. CASE "long" \in Storable(calc.periods) /\ t = LastStart("long")
    <3>1. \A d \in Databases : Filled(rows[d], Span("long", t)) # {} => dbAggs'[d]["long"][t] # NoAggregate
      BY <1>2, <2>0, <2>1
    <3>2. \A d \in Databases : dbAggs'[d]["long"][t] # NoAggregate => dbAggs'[d]["long"][t].closed
      BY <1>6, <2>0 DEF CapacityInv, LongTogether
    <3> QED BY <3>1, <3>2
  <2>2. CASE ~("long" \in Storable(calc.periods) /\ t = LastStart("long"))
    <3>1. \A d \in Databases : dbAggs'[d]["long"][t] = dbAggs[d]["long"][t]
      BY <1>2, <2>0, <2>2
    <3> QED BY <3>1 DEF CapacityInv, LongTogether
  <2> QED BY <2>1, <2>2
<1>9. TotalIsSumOfRows'
  BY <1>1 DEF CapacityInv, TotalIsSumOfRows
<1>10. TalliesHold'
  BY <1>1 DEF CapacityInv, TalliesHold, TallyHolds, SeenRow, SeenSize
<1> QED BY <1>3, <1>4, <1>7, <1>8, <1>9, <1>10 DEF CapacityInv

\* The aggregation of the current day, whose period is not over.
LEMMA CurrentStep == ASSUME CapacityInv, CurrentDatabases \/ CurrentInstance PROVE CapacityInv'
<1>1. UNCHANGED <<day, inventory, rows, totals, stale, months, sync, calc>> /\ day \in Days
  BY DEF CurrentDatabases, CurrentInstance, CapacityInv, Dated
<1>2. IsTable(instAggs) /\ \A d \in Databases : IsTable(dbAggs[d])
  BY DEF CapacityInv, Tables
<1>3. IsTable(instAggs') /\ \A p \in Periods, t \in Days : instAggs'[p][t] = instAggs[p][t] \/ ~instAggs'[p][t].closed
  <2>1. instAggs' = instAggs \/ instAggs' = Aggregated(instAggs, totals, "daily", day)
    BY DEF CurrentDatabases, CurrentInstance
  <2> QED BY <1>1, <1>2, <2>1, TodayIsOpen
<1>4. ASSUME NEW d \in Databases
      PROVE  /\ IsTable(dbAggs'[d])
             /\ \A p \in Periods, t \in Days : dbAggs'[d][p][t] = dbAggs[d][p][t] \/ ~dbAggs'[d][p][t].closed
             /\ \A t \in Days : dbAggs'[d]["long"][t] = dbAggs[d]["long"][t]
  <2>1. dbAggs'[d] = dbAggs[d] \/ dbAggs'[d] = Aggregated(dbAggs[d], rows[d], "daily", day)
    BY DEF CurrentDatabases, CurrentInstance, DbAggregated
  <2> QED BY <1>1, <1>2, <2>1, TodayIsOpen
<1>5. dbAggs' = [d \in Databases |-> dbAggs'[d]]
  BY DEF CurrentDatabases, CurrentInstance, DbAggregated, CapacityInv, Tables
<1>6. Tables'
  BY <1>1, <1>3, <1>4, <1>5 DEF CapacityInv, Tables
<1>7. Dated'
  BY <1>1 DEF CapacityInv, Dated, HasLast, Start
<1>8. \A p \in Periods, t \in Days : Over(Span(p, t))' <=> Over(Span(p, t))
  BY <1>1 DEF Over
<1>9. ClosedAreExact'
  BY <1>1, <1>3, <1>4, <1>8 DEF CapacityInv, ClosedAreExact
<1>10. LongTogether'
  BY <1>1, <1>4 DEF CapacityInv, LongTogether
<1>11. TotalIsSumOfRows'
  BY <1>1 DEF CapacityInv, TotalIsSumOfRows
<1>12. TalliesHold'
  BY <1>1 DEF CapacityInv, TalliesHold, TallyHolds, SeenRow, SeenSize
<1> QED BY <1>6, <1>7, <1>9, <1>10, <1>11, <1>12 DEF CapacityInv

\* What is left of a period's first day leaves all of its days.
LEMMA DropStep == ASSUME CapacityInv, DropPartitions PROVE CapacityInv'
<1>1. PICK c \in 1 .. Month(day) :
        /\ rows'     = [d \in Databases |-> Since(c, rows[d], None)]
        /\ totals'   = Since(c, totals, None)
        /\ dbAggs'   = [d \in Databases |-> [p \in Periods |-> Since(c, dbAggs[d][p], NoAggregate)]]
        /\ instAggs' = [p \in Periods |-> Since(c, instAggs[p], NoAggregate)]
        /\ stale'    = { t \in stale : Month(t) >= c }
        /\ UNCHANGED <<day, inventory, sync, calc>> /\ \A s \in Syncs : sync[s].pc # "summed"
  BY DEF DropPartitions
<1>2. \A t \in Days : t \in Nat
  BY CapacityAssumption DEF Days
<1>3. day \in Days /\ c \in Int
  BY DEF CapacityInv, Dated
<1>4. \A t \in Days :
        /\ totals'[t] = IF Month(t) < c THEN None ELSE totals[t]
        /\ \A d \in Databases : rows'[d][t] = IF Month(t) < c THEN None ELSE rows[d][t]
        /\ \A p \in Periods :
             /\ instAggs'[p][t] = IF Month(t) < c THEN NoAggregate ELSE instAggs[p][t]
             /\ \A d \in Databases : dbAggs'[d][p][t] = IF Month(t) < c THEN NoAggregate ELSE dbAggs[d][p][t]
  BY <1>1 DEF Since
<1>5. Tables'
  <2>1. IsTable(instAggs') /\ \A d \in Databases : IsTable(dbAggs'[d])
    BY <1>1 DEF Since, IsTable
  <2>2. rows' = [d \in Databases |-> [t \in Days |-> rows'[d][t]]] /\ totals' = [t \in Days |-> totals'[t]]
        /\ dbAggs' = [d \in Databases |-> dbAggs'[d]]
    BY <1>1 DEF Since
  <2> QED BY <1>1, <2>1, <2>2 DEF CapacityInv, Tables
<1>6. Dated'
  <2>1. \A t \in Days : totals'[t] # None => t <= day /\ totals'[t].counted \subseteq Databases
    BY <1>4 DEF CapacityInv, Dated
  <2>2. \A d \in Databases, t \in Days : rows'[d][t] # None => t <= day /\ (rows'[d][t].late => t < day)
    BY <1>4 DEF CapacityInv, Dated
  <2>3. \A d \in Databases, t \in Days : rows'[d][t] # None => rows'[d][t] \in Row
    BY <1>4 DEF CapacityInv, Dated
  <2> QED BY <1>1, <2>1, <2>2, <2>3 DEF CapacityInv, Dated, HasLast, Start
<1>7. ASSUME NEW p \in Periods, NEW t \in Days, ~(Month(t) < c), NEW u \in Span(p, t) \cap Days
      PROVE  totals'[u] = totals[u] /\ \A d \in Databases : rows'[d][u] = rows[d][u]
  <2>1. t \in Nat /\ u \in Nat /\ t <= u
    BY <1>2, <1>7 DEF Span
  <2>2. Month(t) <= Month(u) /\ Month(t) \in Nat /\ Month(u) \in Nat
    BY <2>1, MonthsFollow
  <2>3. ~(Month(u) < c)
    BY <2>2, <1>3, <1>7
  <2> QED BY <2>3, <1>4
<1>8. \A p \in Periods, t \in Days : Over(Span(p, t))' <=> Over(Span(p, t))
  BY <1>1 DEF Over
<1>9. ~NoAggregate.closed
  BY DEF NoAggregate
<1>10. ClosedAreExact'
  <2> SUFFICES ASSUME NEW p \in Periods, NEW t \in Days
      PROVE  /\ instAggs'[p][t].closed => Over(Span(p, t)) /\ Says(instAggs'[p][t], SizesOf(totals', Span(p, t)))
             /\ \A d \in Databases : dbAggs'[d][p][t].closed =>
                  Over(Span(p, t)) /\ (~LateIn(rows'[d], Span(p, t)) => Says(dbAggs'[d][p][t], SizesOf(rows'[d], Span(p, t))))
    BY <1>8 DEF ClosedAreExact
  <2>1. CASE Month(t) < c
    BY <2>1, <1>4, <1>9
  <2>2. CASE ~(Month(t) < c)
    <3>1. SizesOf(totals', Span(p, t)) = SizesOf(totals, Span(p, t))
      BY <2>2, <1>7, SameSizes
    <3>2. \A d \in Databases : /\ SizesOf(rows'[d], Span(p, t)) = SizesOf(rows[d], Span(p, t))
                               /\ LateIn(rows'[d], Span(p, t)) <=> LateIn(rows[d], Span(p, t))
      BY <2>2, <1>7, SameSizes
    <3>3. instAggs'[p][t] = instAggs[p][t] /\ \A d \in Databases : dbAggs'[d][p][t] = dbAggs[d][p][t]
      BY <2>2, <1>4
    <3> QED BY <3>1, <3>2, <3>3 DEF CapacityInv, ClosedAreExact
  <2> QED BY <2>1, <2>2
<1>11. LongTogether'
  <2> SUFFICES ASSUME NEW t \in Days
      PROVE  /\ \A d \in Databases : dbAggs'[d]["long"][t] # NoAggregate => dbAggs'[d]["long"][t].closed
             /\ (\E d \in Databases : dbAggs'[d]["long"][t] # NoAggregate) =>
                  \A d \in Databases : Filled(rows'[d], Span("long", t)) # {} /\ ~LateIn(rows'[d], Span("long", t))
                    => dbAggs'[d]["long"][t] # NoAggregate
    BY DEF LongTogether
  <2>0. "long" \in Periods
    BY DEF Periods
  <2>1. CASE Month(t) < c
    BY <2>0, <2>1, <1>4
  <2>2. CASE ~(Month(t) < c)
    <3>1. \A d \in Databases : /\ Filled(rows'[d], Span("long", t)) = Filled(rows[d], Span("long", t))
                               /\ LateIn(rows'[d], Span("long", t)) <=> LateIn(rows[d], Span("long", t))
      BY <2>0, <2>2, <1>7, SameSizes
    <3>2. \A d \in Databases : dbAggs'[d]["long"][t] = dbAggs[d]["long"][t]
      BY <2>0, <2>2, <1>4
    <3> QED BY <3>1, <3>2 DEF CapacityInv, LongTogether
  <2> QED BY <2>1, <2>2
<1>12. TotalIsSumOfRows'
  <2> SUFFICES ASSUME NEW t \in Days, totals'[t] # None, t \notin stale'
      PROVE  /\ \A d \in totals'[t].counted : rows'[d][t] # None
             /\ totals'[t].size = TotalOf([d \in totals'[t].counted |-> rows'[d][t].size])
    BY DEF TotalIsSumOfRows
  <2>1. ~(Month(t) < c)
    BY <1>4
  <2>2. totals'[t] = totals[t] /\ \A d \in Databases : rows'[d][t] = rows[d][t]
    BY <1>4, <2>1
  <2>3. totals[t].counted \subseteq Databases
    BY <2>2 DEF CapacityInv, Dated
  <2>4. t \notin stale
    <3>1. Month(t) \in Nat
      BY <1>2, MonthsFollow
    <3> QED BY <1>1, <1>3, <2>1, <3>1
  <2>5. /\ \A d \in totals[t].counted : rows[d][t] # None
        /\ totals[t].size = TotalOf([d \in totals[t].counted |-> rows[d][t].size])
    BY <2>2, <2>4 DEF CapacityInv, TotalIsSumOfRows
  <2>6. [d \in totals[t].counted |-> rows[d][t].size] = [d \in totals[t].counted |-> rows'[d][t].size]
    BY <2>2, <2>3
  <2> QED BY <2>2, <2>3, <2>5, <2>6
<1>13. TalliesHold'
  BY <1>1 DEF TalliesHold, TallyHolds
<1> QED BY <1>5, <1>6, <1>10, <1>11, <1>12, <1>13 DEF CapacityInv

\* The locals of a collection after it has written them.
LEMMA SetTyped ==
    ASSUME CapacityInv, NEW s \in Syncs, NEW r \in Locals, r.stamp <= day, Set(s, r)
    PROVE  /\ sync' \in [Syncs -> Locals] /\ \A x \in Syncs : sync'[x].stamp <= day
           /\ \A x \in Syncs : sync'[x] = sync[x] \/ sync'[x] = r
<1>1. sync' = [sync EXCEPT ![s] = r]
  BY DEF Set
<1> HIDE DEF Locals
<1> QED BY <1>1 DEF CapacityInv, Tables, Dated

\* What a collection does before it stores, and what else changes no row.
LEMMA LocalStep ==
    ASSUME CapacityInv, UNCHANGED <<day, rows, totals, stale, dbAggs, instAggs>>,
           inventory' \in [Databases -> {"absent", "active", "inactive"}],
           sync' \in [Syncs -> Locals], \A x \in Syncs : sync'[x].stamp <= day,
           \A x \in Syncs : sync'[x].pc = "summed" => sync'[x] = sync[x] \/ TallyHolds(sync'[x]),
           calc' \in [pc : {"idle", "instances", "databases"}, periods : SUBSET Periods],
           \A p \in calc'.periods : HasLast(p)
    PROVE  CapacityInv'
<1>1. day' = day /\ day \in Nat
  BY CapacityAssumption DEF CapacityInv, Dated, Days
<1>2. Tables'
  BY DEF CapacityInv, Tables
<1>3. Dated'
  BY <1>1 DEF CapacityInv, Dated, HasLast, Start
<1>4. TalliesHold'
  BY DEF CapacityInv, TalliesHold, TallyHolds, SeenRow, SeenSize
<1> QED BY <1>1, <1>2, <1>3, <1>4, QuietStep DEF CapacityInv, Dated

LEMMA CapacityStep == CapacityInv /\ [CapacityNext]_capacityVars => CapacityInv'
<1> SUFFICES ASSUME CapacityInv, [CapacityNext]_capacityVars PROVE CapacityInv'
  OBVIOUS
<1>0. /\ inventory \in [Databases -> {"absent", "active", "inactive"}]
      /\ sync \in [Syncs -> Locals] /\ (\A x \in Syncs : sync[x].stamp <= day)
      /\ calc \in [pc : {"idle", "instances", "databases"}, periods : SUBSET Periods]
      /\ (\A p \in calc.periods : HasLast(p))
      /\ day \in Days /\ day \in Nat /\ 0 \in Days
  BY CapacityAssumption DEF CapacityInv, Tables, Dated, Days
<1>1. CASE Tick
  <2>1. day' \in Days /\ day <= day' /\ UNCHANGED <<inventory, data, sync, calc>> /\ day' = day + 1
    BY <1>0, <1>1, CapacityAssumption DEF Tick, Days
  <2>2. Tables'
    BY <2>1 DEF CapacityInv, Tables, data
  <2>3. \A p \in Periods : HasLast(p) => HasLast(p)'
    BY <2>1, <1>0, StartGrows DEF HasLast
  <2>4. Dated'
    <3>1. \A t \in Days : t \in Nat
      BY CapacityAssumption DEF Days
    <3>2. \A s \in Syncs : sync[s].stamp \in Nat
      BY <1>0, <3>1 DEF Locals
    <3>3. \A s \in Syncs : sync'[s].stamp <= day'
      BY <2>1, <1>0, <3>2
    <3>4. \A t \in Days : totals'[t] # None => t <= day' /\ totals'[t].counted \subseteq Databases
      BY <2>1, <1>0, <3>1 DEF CapacityInv, Dated, data
    <3>5. \A d \in Databases, t \in Days : rows'[d][t] # None => t <= day' /\ (rows'[d][t].late => t < day')
      BY <2>1, <1>0, <3>1 DEF CapacityInv, Dated, data
    <3>6. \A p \in calc'.periods : HasLast(p)'
      BY <2>1, <2>3, <1>0
    <3>7. \A d \in Databases, t \in Days : rows'[d][t] # None => rows'[d][t] \in Row
      BY <2>1 DEF CapacityInv, Dated, data
    <3> QED BY <2>1, <3>3, <3>4, <3>5, <3>6, <3>7 DEF Dated
  <2>5. TalliesHold'
    BY <2>1 DEF CapacityInv, TalliesHold, TallyHolds, SeenRow, SeenSize, data
  <2> QED BY <2>1, <2>2, <2>4, <2>5, QuietStep DEF data
<1>2. ASSUME NEW s \in Syncs, SyncRead(s) PROVE CapacityInv'
  <2>1. PICK listed \in SUBSET Databases : Set(s, [Idle EXCEPT !.pc = "read", !.listed = listed, !.known = inventory])
    BY <1>2 DEF SyncRead
  <2>2. [d \in {} |-> 0] \in UNION {[S -> Sizes] : S \in SUBSET Databases}
    <3>1. [d \in {} |-> 0] \in [{} -> Sizes]
      OBVIOUS
    <3> QED BY <3>1
  <2> DEFINE r == [Idle EXCEPT !.pc = "read", !.listed = listed, !.known = inventory]
  <2>3. r \in Locals /\ r.stamp = 0 /\ r.pc = "read"
    BY <1>0, <2>2 DEF Idle, Locals
  <2> HIDE DEF r
  <2>4. /\ sync' \in [Syncs -> Locals] /\ \A x \in Syncs : sync'[x].stamp <= day
        /\ \A x \in Syncs : sync'[x] = sync[x] \/ sync'[x] = r
    <3>1. Set(s, r)
      BY <2>1 DEF r
    <3> QED BY <1>0, <2>3, <3>1, SetTyped
  <2>5. UNCHANGED <<day, data, inventory, calc>>
    BY <1>2 DEF SyncRead
  <2> QED BY <1>0, <2>3, <2>4, <2>5, LocalStep DEF data
<1>3. ASSUME NEW s \in Syncs, SyncInventory(s) PROVE CapacityInv'
  <2>1. Own(s) \in [Databases -> {"absent", "active", "inactive"}]
    BY <1>0 DEF Own
  <2>2. inventory' \in [Databases -> {"absent", "active", "inactive"}] /\ UNCHANGED <<day, data, calc>>
    BY <1>0, <1>3, <2>1 DEF SyncInventory
  <2>3. End(s) \/ Set(s, [sync[s] EXCEPT !.pc = "synced"])
    BY <1>3 DEF SyncInventory
  <2> DEFINE r == [sync[s] EXCEPT !.pc = "synced"]
  <2>4. r \in Locals /\ r.stamp = sync[s].stamp /\ r.pc = "synced"
    BY <1>0 DEF Locals
  <2>6. End(s) \/ Set(s, r)
    BY <2>3
  <2> HIDE DEF r
  <2>5. /\ sync' \in [Syncs -> Locals] /\ \A x \in Syncs : sync'[x].stamp <= day
        /\ \A x \in Syncs : sync'[x].pc = "summed" => sync'[x] = sync[x]
    <3>1. CASE End(s)
      BY <3>1, EndTyped
    <3>2. CASE Set(s, r)
      <4>1. /\ sync' \in [Syncs -> Locals] /\ \A x \in Syncs : sync'[x].stamp <= day
            /\ \A x \in Syncs : sync'[x] = sync[x] \/ sync'[x] = r
        BY <1>0, <2>4, <3>2, SetTyped
      <4> QED BY <2>4, <4>1
    <3> QED BY <2>6, <3>1, <3>2
  <2> QED BY <1>0, <2>2, <2>5, LocalStep DEF data
<1>4. ASSUME NEW s \in Syncs, SyncCollect(s) PROVE CapacityInv'
  <2>1. PICK got \in SUBSET sync[s].listed \ {{}} : \E sizes \in [got -> Sizes] :
          Set(s, [sync[s] EXCEPT !.pc = "collected", !.sizes = sizes, !.stamp = day])
    BY <1>4 DEF SyncCollect
  <2>2. PICK sizes \in [got -> Sizes] : Set(s, [sync[s] EXCEPT !.pc = "collected", !.sizes = sizes, !.stamp = day])
    BY <2>1
  <2>3. got \in SUBSET Databases
    BY <1>0, <2>1 DEF Locals
  <2>4. sizes \in UNION {[S -> Sizes] : S \in SUBSET Databases}
    BY <2>2, <2>3
  <2> DEFINE r == [sync[s] EXCEPT !.pc = "collected", !.sizes = sizes, !.stamp = day]
  <2>5. r \in Locals /\ r.stamp = day /\ r.pc = "collected"
    <3>1. sync[s] \in Locals /\ day \in Days
      BY <1>0 DEF CapacityInv, Tables, Dated
    <3> QED BY <2>4, <3>1 DEF Locals
  <2> HIDE DEF r
  <2>6. /\ sync' \in [Syncs -> Locals] /\ \A x \in Syncs : sync'[x].stamp <= day
        /\ \A x \in Syncs : sync'[x] = sync[x] \/ sync'[x] = r
    <3>1. Set(s, r)
      BY <2>2 DEF r
    <3> QED BY <1>0, <2>5, <3>1, SetTyped
  <2>7. UNCHANGED <<day, data, inventory, calc>>
    BY <1>4 DEF SyncCollect
  <2> QED BY <1>0, <2>5, <2>6, <2>7, LocalStep DEF data
<1>10. ASSUME NEW s \in Syncs, SyncSum(s) PROVE CapacityInv'
  <2> DEFINE counted == { d \in Databases : Upserted(s)[d][day] # None /\ Own(s)[d] # "inactive" }
             tally == [d \in counted |-> Upserted(s)[d][day].size]
             r == [sync[s] EXCEPT !.pc = "summed", !.of = day, !.tally = tally]
  <2>1. Set(s, r) /\ UNCHANGED <<day, inventory, data, calc>> /\ sync[s].pc = "collected"
    BY <1>10 DEF SyncSum
  <2>2. /\ sync[s] \in Locals /\ sync[s].sizes \in UNION {[S -> Sizes] : S \in SUBSET Databases}
        /\ sync[s].stamp \in Days
    BY <1>0 DEF Locals
  <2>3. ASSUME NEW d \in counted
        PROVE  /\ d \in Databases /\ tally[d] = Upserted(s)[d][day].size /\ tally[d] \in Sizes
               /\ d \in DOMAIN sync[s].sizes /\ sync[s].stamp = day => tally[d] = sync[s].sizes[d]
               /\ ~(d \in DOMAIN sync[s].sizes /\ sync[s].stamp = day) => rows[d][day] # None /\ tally[d] = rows[d][day].size
    <3> DEFINE new == Upserted(s)[d]
    <3>1. d \in Databases /\ new[day] # None
      BY <2>3
    <3>2. /\ \A t \in Days : t # sync[s].stamp \/ d \notin DOMAIN sync[s].sizes => new[t] = rows[d][t]
          /\ d \in DOMAIN sync[s].sizes =>
               new[sync[s].stamp].size = sync[s].sizes[d] /\ new[sync[s].stamp] \in Row
      BY <3>1, PastRows
    <3>3. rows[d][day] # None => rows[d][day] \in Row
      BY <1>0, <3>1 DEF CapacityInv, Dated
    <3>4. tally[d] = new[day].size
      BY <2>3
    <3> HIDE DEF new, tally
    <3>5. new[day] \in Row
      BY <1>0, <3>1, <3>2, <3>3
    <3>6. new[day].size \in Sizes
      BY <3>5 DEF Row
    <3> QED BY <1>0, <3>1, <3>2, <3>4, <3>6 DEF new
  <2>4. tally \in UNION {[S -> Sizes] : S \in SUBSET Databases} /\ DOMAIN tally = counted
    <3>1. counted \in SUBSET Databases
      OBVIOUS
    <3> DEFINE c == counted
    <3>2. tally = [d \in c |-> tally[d]] /\ DOMAIN tally = c /\ \A d \in c : tally[d] \in Sizes
      BY <2>3
    <3> HIDE DEF tally, c
    <3>3. tally \in [c -> Sizes]
      BY <3>2
    <3> QED BY <3>1, <3>2, <3>3 DEF c
  <2> HIDE DEF tally
  <2>5. /\ r \in Locals /\ r.stamp = sync[s].stamp /\ r.pc = "summed" /\ r.of = day
        /\ r.tally = tally /\ r.sizes = sync[s].sizes
    BY <1>0, <2>2, <2>4 DEF Locals
  <2> HIDE DEF r
  <2>6. /\ sync' \in [Syncs -> Locals] /\ \A x \in Syncs : sync'[x].stamp <= day
        /\ \A x \in Syncs : sync'[x] = sync[x] \/ sync'[x] = r
    BY <1>0, <2>1, <2>5, SetTyped
  <2>7. TallyHolds(r)
    <3> SUFFICES ASSUME NEW d \in DOMAIN r.tally PROVE SeenRow(r, d) /\ r.tally[d] = SeenSize(r, d)
      BY DEF TallyHolds
    <3>1. d \in counted
      BY <2>4, <2>5
    <3> HIDE DEF counted
    <3>2. /\ d \in DOMAIN sync[s].sizes /\ sync[s].stamp = day => tally[d] = sync[s].sizes[d]
          /\ ~(d \in DOMAIN sync[s].sizes /\ sync[s].stamp = day) => rows[d][day] # None /\ tally[d] = rows[d][day].size
      BY <2>3, <3>1
    <3> QED BY <2>5, <3>2 DEF SeenRow, SeenSize
  <2>8. \A x \in Syncs : sync'[x] = sync[x] \/ TallyHolds(sync'[x])
    BY <2>6, <2>7
  <2> QED BY <1>0, <2>1, <2>6, <2>8, LocalStep DEF data
<1>5. ASSUME NEW s \in Syncs, SyncFails(s) PROVE CapacityInv'
  <2>1. inventory' \in [Databases -> {"absent", "active", "inactive"}] /\ End(s) /\ UNCHANGED <<day, data, calc>>
    BY <1>0, <1>5 DEF SyncFails, Own
  <2> QED BY <1>0, <2>1, EndTyped, LocalStep DEF data
<1>6. CASE CalcBegin
  <2>1. PICK chosen \in SUBSET Periods : (\A p \in chosen : HasLast(p)) /\ calc' = [pc |-> "instances", periods |-> chosen]
    BY <1>6 DEF CalcBegin
  <2>2. UNCHANGED <<day, inventory, data, sync>>
    BY <1>6 DEF CalcBegin
  <2> QED BY <1>0, <2>1, <2>2, LocalStep DEF data
<1>7. CASE CalcDies
  BY <1>0, <1>7, LocalStep DEF CalcDies, data
<1>8. CASE CreatePartition
  BY <1>0, <1>8, LocalStep DEF CreatePartition
<1>9. CASE UNCHANGED capacityVars
  BY <1>0, <1>9, LocalStep DEF capacityVars, data
<1> QED BY <1>1, <1>2, <1>3, <1>4, <1>5, <1>6, <1>7, <1>8, <1>9, <1>10,
           SaveStep, CalcInstancesStep, CalcDatabasesStep, CurrentStep, DropStep DEF CapacityNext

\* Every state satisfies the invariant.
THEOREM CapacityInvariant == CapacitySpec => []CapacityInv
<1> QED BY CapacityStart, CapacityStep, PTL DEF CapacitySpec

\* What an aggregate says is what Exact asks of it.
LEMMA SaysExact ==
    ASSUME NEW agg, NEW f, NEW span, Says(agg, SizesOf(f, span))
    PROVE  Exact(agg, f, span)
<1> DEFINE ts == Filled(f, span)
           truth == Metrics(f, ts, span)
           sizes == SizesOf(f, span)
<1>1. DOMAIN sizes = ts
  BY DEF SizesOf
<1>2. truth = [max |-> Max({sizes[t] : t \in ts}), min |-> Min({sizes[t] : t \in ts}),
               sum |-> TotalOf(sizes), count |-> Cardinality(ts), closed |-> \A t \in span : t < day]
  BY DEF Metrics, SizesOf
<1>3. Exact(agg, f, span) <=> \A m \in {"max", "min", "sum", "count"} : agg[m] = truth[m]
  BY DEF Exact, Filled
<1> HIDE DEF truth, sizes, ts
<1>4. /\ truth["max"] = Max({sizes[t] : t \in ts}) /\ truth["min"] = Min({sizes[t] : t \in ts})
      /\ truth["sum"] = TotalOf(sizes) /\ truth["count"] = Cardinality(ts)
  BY <1>2
<1>5. /\ agg["max"] = Max({sizes[t] : t \in ts}) /\ agg["min"] = Min({sizes[t] : t \in ts})
      /\ agg["sum"] = TotalOf(sizes) /\ agg["count"] = Cardinality(ts)
  BY <1>1 DEF Says, sizes
<1> QED BY <1>3, <1>4, <1>5

\* What is stored adds up, and a covered long period is complete, for any
\* number of databases, of collections that overlap, and of days, however
\* long periods and months are.
THEOREM CapacityIsExact == CapacitySpec => []CapacityRowsHold
<1>1. CapacityInv => CapacityRowsHold
  <2> SUFFICES ASSUME CapacityInv PROVE CapacityRowsHold
    OBVIOUS
  <2>1. \A d \in Databases : \A span : Late(d, span) <=> LateIn(rows[d], span)
    BY DEF Late, LateIn
  <2>2. AggregatesExact
    BY <2>1, SaysExact DEF CapacityInv, ClosedAreExact, AggregatesExact
  <2>3. CoveredIsComplete
    <3> SUFFICES ASSUME HasLast("long"), Covered("long", TRUE), NEW d \in Databases,
                        Filled(rows[d], Span("long", LastStart("long"))) # {}, ~Late(d, Span("long", LastStart("long")))
        PROVE  dbAggs[d]["long"][LastStart("long")] # NoAggregate
               /\ Exact(dbAggs[d]["long"][LastStart("long")], rows[d], Span("long", LastStart("long")))
      BY DEF CoveredIsComplete, Complete
    <3> DEFINE t == LastStart("long")
    <3>1. "long" \in Periods
      BY DEF Periods
    <3>2. t \in Days
      BY <3>1, LastPeriod DEF CapacityInv, Dated
    <3>3. PICK e \in Databases : dbAggs[e]["long"][t] # NoAggregate
      BY DEF Covered
    <3> HIDE DEF t
    <3>4. Filled(rows[d], Span("long", t)) # {} /\ ~LateIn(rows[d], Span("long", t))
      BY <2>1 DEF t
    <3>5. dbAggs[d]["long"][t] # NoAggregate /\ dbAggs[d]["long"][t].closed
      BY <3>2, <3>3, <3>4 DEF CapacityInv, LongTogether
    <3>6. Exact(dbAggs[d]["long"][t], rows[d], Span("long", t))
      BY <3>1, <3>2, <3>4, <3>5, SaysExact DEF CapacityInv, ClosedAreExact
    <3> QED BY <3>5, <3>6 DEF t
  <2> QED BY <2>2, <2>3 DEF CapacityInv, CapacityRowsHold, RowsAddUp
<1> QED BY <1>1, CapacityInvariant, PTL

----------------------------------------------------------------------------
(* The calendar                                                            *)

\* A set of natural numbers that is not empty has a least element: the form in
\* which the proofs below argue by induction.
Less == {p \in Nat \X Nat : p[1] < p[2]}

LEMMA Least ==
    ASSUME NEW T \in SUBSET Nat, T # {}
    PROVE  \E x \in T : \A y \in T : x <= y
<1>1. OpToRel(<, Nat) = Less
  BY DEF OpToRel, Less
<1>2. IsWellFoundedOn(Less, Nat)
  BY <1>1, NatLessThanWellFounded
<1>3. PICK x \in T : \A y \in T : ~ (<<y, x>> \in Less)
  BY <1>2, WFMin
<1>4. \A y \in T : <<y, x>> \in Nat \X Nat
  OBVIOUS
<1>5. \A y \in T : ~(y < x)
  BY <1>3, <1>4 DEF Less
<1> QED BY <1>5

\* The length of a year.
LEMMA NextYear ==
    ASSUME NEW y \in Int
    PROVE  YearStart(y + 1) = YearStart(y) + 365 + (IF Leap(y) THEN 1 ELSE 0)
<1>1. y \div 4 - (y - 1) \div 4 = IF y % 4 = 0 THEN 1 ELSE 0
  OBVIOUS
<1>2. y \div 100 - (y - 1) \div 100 = IF y % 100 = 0 THEN 1 ELSE 0
  OBVIOUS
<1>3. y \div 400 - (y - 1) \div 400 = IF y % 400 = 0 THEN 1 ELSE 0
  OBVIOUS
<1>4. (y % 400 = 0 => y % 100 = 0) /\ (y % 100 = 0 => y % 4 = 0)
  OBVIOUS
<1> QED BY <1>1, <1>2, <1>3, <1>4 DEF YearStart, Leap

\* A month and the next one, by the place in the year.
LEMMA Turn ==
    ASSUME NEW k \in Nat
    PROVE  /\ Year(k) \in Int /\ MonthOf(k) \in 1 .. 12
           /\ MonthOf(k) < 12 => Year(k + 1) = Year(k) /\ MonthOf(k + 1) = MonthOf(k) + 1
           /\ MonthOf(k) = 12 => Year(k + 1) = Year(k) + 1 /\ MonthOf(k + 1) = 1
           /\ k = (Year(k) - BaseYear) * 12 + MonthOf(k) - 1
  BY CalendarAssumption DEF Year, MonthOf

\* A month begins where the one before it ends.
LEMMA NextMonth ==
    ASSUME NEW k \in Nat
    PROVE  /\ FirstDay(k) \in Int /\ LengthOf(k) \in 28 .. 31
           /\ FirstDay(k + 1) = FirstDay(k) + LengthOf(k)
<1> DEFINE y == Year(k)
           m == MonthOf(k)
<1>1. y \in Int /\ m \in 1 .. 12 /\ YearStart(y) \in Int /\ YearStart(BaseYear) \in Int
  BY Turn, CalendarAssumption DEF YearStart
<1>2. m \in 1 .. 12 => MonthStart[m] \in Nat
  BY DEF MonthStart
<1>3. LengthOf(k) = MonthDays(y, m) /\ MonthDays(y, m) \in 28 .. 31
  BY <1>1 DEF LengthOf, MonthDays
<1>4. FirstDay(k) = YearStart(y) - YearStart(BaseYear) + MonthStart[m] + LeapDay(y, m)
  BY DEF FirstDay
<1>5. CASE m < 12
  <2>1. FirstDay(k + 1) = YearStart(y) - YearStart(BaseYear) + MonthStart[m + 1] + LeapDay(y, m + 1)
    BY <1>5, Turn DEF FirstDay
  <2>2. MonthStart[m + 1] + LeapDay(y, m + 1) = MonthStart[m] + LeapDay(y, m) + MonthDays(y, m)
    BY <1>1, <1>5 DEF MonthStart, LeapDay, MonthDays
  <2>3. LeapDay(y, m) \in Int /\ LeapDay(y, m + 1) \in Int /\ MonthStart[m] \in Int /\ MonthStart[m + 1] \in Int
    BY <1>1, <1>2, <1>5 DEF LeapDay, MonthStart
  <2> DEFINE first == MonthStart[m]
             next  == MonthStart[m + 1]
             leap  == LeapDay(y, m)
             leaps == LeapDay(y, m + 1)
             days  == MonthDays(y, m)
             base  == YearStart(y)
             zero  == YearStart(BaseYear)
  <2>4. /\ first \in Int /\ next \in Int /\ leap \in Int /\ leaps \in Int /\ days \in Int /\ base \in Int /\ zero \in Int
        /\ next + leaps = first + leap + days
        /\ FirstDay(k + 1) = base - zero + next + leaps /\ FirstDay(k) = base - zero + first + leap
    BY <1>1, <1>3, <1>4, <2>1, <2>2, <2>3
  <2>5. LengthOf(k) = days
    BY <1>3
  <2> HIDE DEF first, next, leap, leaps, days, base, zero
  <2>6. FirstDay(k) \in Int /\ FirstDay(k + 1) = FirstDay(k) + days
    BY <2>4
  <2> QED BY <1>3, <2>5, <2>6
<1>6. CASE m = 12
  <2>1. FirstDay(k + 1) = YearStart(y + 1) - YearStart(BaseYear) + MonthStart[1] + LeapDay(y + 1, 1)
    BY <1>6, Turn DEF FirstDay
  <2>2. YearStart(y + 1) = YearStart(y) + 365 + (IF Leap(y) THEN 1 ELSE 0)
    BY <1>1, NextYear
  <2>3. MonthStart[1] = 0 /\ MonthStart[12] = 334 /\ LeapDay(y + 1, 1) = 0 /\ MonthDays(y, 12) = 31
        /\ LeapDay(y, 12) = IF Leap(y) THEN 1 ELSE 0
    BY DEF MonthStart, LeapDay, MonthDays
  <2> HIDE DEF y, m
  <2> QED BY <1>1, <1>3, <1>4, <1>6, <2>1, <2>2, <2>3
<1> QED BY <1>1, <1>5, <1>6

\* The first month begins on date 0.
LEMMA FirstMonth == FirstDay(0) = 0
<1>1. Year(0) = BaseYear /\ MonthOf(0) = 1 /\ YearStart(BaseYear) \in Int
  BY CalendarAssumption DEF Year, MonthOf, YearStart
<1> QED BY <1>1 DEF FirstDay, MonthStart, LeapDay

\* How far twelve times the days run ahead of 365 times the months, in a year
\* without a leap day.
Lead == <<0, 7, -22, -15, -20, -13, -18, -11, -4, -9, -2, -7>>

\* The days of j months.
LEMMA MonthSpan ==
    ASSUME NEW k \in Nat, NEW j \in Nat
    PROVE  /\ FirstDay(k) + 28 * j <= FirstDay(k + j)
           /\ FirstDay(k + j) <= FirstDay(k) + 31 * j
           /\ 12 * (FirstDay(k + j) - FirstDay(k)) >= 365 * j + Lead[MonthOf(k + j)] - Lead[MonthOf(k)]
<1> DEFINE Good(i) == /\ FirstDay(k) + 28 * i <= FirstDay(k + i)
                      /\ FirstDay(k + i) <= FirstDay(k) + 31 * i
                      /\ 12 * (FirstDay(k + i) - FirstDay(k)) >= 365 * i + Lead[MonthOf(k + i)] - Lead[MonthOf(k)]
           T == {i \in Nat : ~Good(i)}
<1>1. \A i \in Nat : FirstDay(k + i) \in Int /\ MonthOf(k + i) \in 1 .. 12
  BY NextMonth, Turn
<1>2. \A n \in 1 .. 12 : Lead[n] \in Int
  BY DEF Lead
<1>3. Good(0)
  <2>1. k + 0 = k /\ FirstDay(k) \in Int /\ Lead[MonthOf(k)] \in Int
    BY <1>2, NextMonth, Turn
  <2> QED BY <2>1
<1>4. ASSUME NEW i \in Nat, Good(i) PROVE Good(i + 1)
  <2>1. k + i \in Nat /\ k + (i + 1) = (k + i) + 1
    OBVIOUS
  <2>2. FirstDay(k + (i + 1)) = FirstDay(k + i) + LengthOf(k + i) /\ LengthOf(k + i) \in 28 .. 31
    BY <2>1, NextMonth
  <2>3. 12 * LengthOf(k + i) >= 365 + Lead[MonthOf(k + (i + 1))] - Lead[MonthOf(k + i)]
    <3>1. MonthOf(k + (i + 1)) = IF MonthOf(k + i) = 12 THEN 1 ELSE MonthOf(k + i) + 1
      BY <1>1, <2>1, Turn
    <3> DEFINE m == MonthOf(k + i)
               y == Year(k + i)
    <3>2. m \in 1 .. 12
      BY <1>1
    <3>3. 12 * MonthDays(y, m) >= 365 + Lead[IF m = 12 THEN 1 ELSE m + 1] - Lead[m]
      <4> HIDE DEF m, y
      <4> QED BY <3>2 DEF MonthDays, Lead
    <3> QED BY <3>1, <3>3 DEF LengthOf
  <2>4. FirstDay(k) \in Int /\ FirstDay(k + i) \in Int /\ Lead[MonthOf(k)] \in Int /\ Lead[MonthOf(k + i)] \in Int
        /\ Lead[MonthOf(k + (i + 1))] \in Int
    BY <1>1, <1>2, NextMonth, Turn
  <2> QED BY <1>4, <2>2, <2>3, <2>4
<1>5. T = {}
  <2> SUFFICES ASSUME T # {} PROVE FALSE
    OBVIOUS
  <2>1. PICK i \in T : \A x \in T : i <= x
    BY Least
  <2>2. i # 0
    BY <1>3
  <2>3. i - 1 \in Nat /\ i - 1 \notin T /\ (i - 1) + 1 = i
    BY <2>1, <2>2
  <2>4. Good(i - 1)
    BY <2>3
  <2>5. Good((i - 1) + 1)
    BY <1>4, <2>3, <2>4
  <2> HIDE DEF Good
  <2> QED BY <2>1, <2>3, <2>5
<1> QED BY <1>5

\* An earlier month begins and ends before a later one begins.
LEMMA MonthOrder ==
    ASSUME NEW k \in Nat, NEW l \in Nat, k < l
    PROVE  FirstDay(k) < FirstDay(k + 1) /\ FirstDay(k + 1) <= FirstDay(l)
<1>1. l - (k + 1) \in Nat /\ (k + 1) + (l - (k + 1)) = l /\ k + 1 \in Nat
  OBVIOUS
<1>2. FirstDay(k + 1) + 28 * (l - (k + 1)) <= FirstDay(l)
  BY <1>1, MonthSpan
<1>3. FirstDay(k) \in Int /\ LengthOf(k) \in 28 .. 31 /\ FirstDay(k + 1) = FirstDay(k) + LengthOf(k) /\ FirstDay(l) \in Int
  BY NextMonth
<1> QED BY <1>1, <1>2, <1>3

\* A month begins between 28 and 31 days after date 0 for each month before it.
LEMMA MonthReach ==
    ASSUME NEW k \in Nat
    PROVE  FirstDay(k) \in Int /\ 28 * k <= FirstDay(k) /\ FirstDay(k) <= 31 * k
<1>1. 0 \in Nat /\ 0 + k = k
  OBVIOUS
<1>2. FirstDay(0) + 28 * k <= FirstDay(0 + k) /\ FirstDay(0 + k) <= FirstDay(0) + 31 * k
  BY <1>1, MonthSpan
<1> QED BY <1>1, <1>2, FirstMonth, NextMonth

\* A date lies in one month, the one MonthIndex finds in the range it tries.
LEMMA MonthOfDate ==
    ASSUME NEW n \in Nat
    PROVE  /\ MonthIndex(n) \in Nat
           /\ FirstDay(MonthIndex(n)) <= n /\ n < FirstDay(MonthIndex(n) + 1)
           /\ n < 31 * (MonthIndex(n) + 1)
<1> DEFINE T == {k \in Nat : FirstDay(k + 1) > n}
           P(k) == FirstDay(k) <= n /\ n < FirstDay(k) + LengthOf(k)
<1>1. n \in T
  <2>1. 28 * (n + 1) <= FirstDay(n + 1) /\ FirstDay(n + 1) \in Int
    BY MonthReach
  <2> QED BY <2>1
<1>2. PICK k \in T : \A l \in T : k <= l
  BY <1>1, Least
<1>3. k \in Nat /\ FirstDay(k) \in Int /\ LengthOf(k) \in 28 .. 31 /\ FirstDay(k + 1) = FirstDay(k) + LengthOf(k)
  BY NextMonth
<1>4. FirstDay(k) <= n
  <2>1. CASE k = 0
    BY <2>1, FirstMonth
  <2>2. CASE k # 0
    <3>1. k - 1 \in Nat /\ (k - 1) + 1 = k /\ k - 1 \notin T
      BY <1>2, <1>3, <2>2
    <3> QED BY <1>3, <3>1
  <2> QED BY <2>1, <2>2
<1>5. k \in n \div 31 .. n \div 28
  <2>1. 28 * k <= FirstDay(k) /\ FirstDay(k + 1) <= 31 * (k + 1) /\ FirstDay(k + 1) > n
    BY <1>2, <1>3, MonthReach
  <2> HIDE DEF T
  <2>2. 28 * k <= n /\ n < 31 * (k + 1)
    BY <1>3, <1>4, <2>1
  <2> QED BY <1>3, <2>2
<1>6. P(k)
  BY <1>2, <1>3, <1>4
<1>7. MonthIndex(n) \in n \div 31 .. n \div 28 /\ P(MonthIndex(n))
  <2> HIDE DEF T
  <2>1. \E x \in n \div 31 .. n \div 28 : P(x)
    BY <1>5, <1>6
  <2> QED BY <2>1 DEF MonthIndex
<1>8. MonthIndex(n) \in Nat
  BY <1>7
<1>9. /\ FirstDay(MonthIndex(n)) \in Int /\ LengthOf(MonthIndex(n)) \in 28 .. 31
      /\ FirstDay(MonthIndex(n) + 1) = FirstDay(MonthIndex(n)) + LengthOf(MonthIndex(n))
  BY <1>8, NextMonth
<1>10. n < 31 * (MonthIndex(n) + 1)
  <2> DEFINE i == MonthIndex(n)
  <2>1. i \in Nat /\ n \div 31 <= i
    BY <1>7, <1>8
  <2> HIDE DEF i
  <2>2. n < 31 * (i + 1)
    BY <2>1
  <2> QED BY <2>2 DEF i
<1> QED BY <1>7, <1>8, <1>9, <1>10

LEMMA MonthIsFound ==
    ASSUME NEW n \in Nat, NEW k \in Nat, FirstDay(k) <= n, n < FirstDay(k + 1)
    PROVE  MonthIndex(n) = k
<1> DEFINE i == MonthIndex(n)
<1>1. i \in Nat /\ FirstDay(i) <= n /\ n < FirstDay(i + 1)
  BY MonthOfDate
<1> HIDE DEF i
<1>2. FirstDay(i) \in Int /\ FirstDay(k) \in Int /\ FirstDay(i + 1) \in Int /\ FirstDay(k + 1) \in Int
  BY <1>1, NextMonth
<1>3. ~(i < k)
  <2> SUFFICES ASSUME i < k PROVE FALSE
    OBVIOUS
  <2>1. FirstDay(i + 1) <= FirstDay(k)
    BY <1>1, MonthOrder
  <2> QED BY <1>1, <1>2, <2>1
<1>4. ~(k < i)
  <2> SUFFICES ASSUME k < i PROVE FALSE
    OBVIOUS
  <2>1. FirstDay(k + 1) <= FirstDay(i)
    BY <1>1, MonthOrder
  <2> QED BY <1>1, <1>2, <2>1
<1>5. i = k
  BY <1>1, <1>3, <1>4
<1> QED BY <1>5 DEF i

\* A later date does not lie in an earlier month.
LEMMA MonthsFollowDates ==
    ASSUME NEW n \in Nat, NEW o \in Nat, n <= o
    PROVE  MonthIndex(n) <= MonthIndex(o)
<1> DEFINE i == MonthIndex(n)
           j == MonthIndex(o)
<1>1. i \in Nat /\ j \in Nat /\ FirstDay(i) <= n /\ o < FirstDay(j + 1)
  BY MonthOfDate
<1>2. FirstDay(i) \in Int /\ FirstDay(j + 1) \in Int
  BY <1>1, NextMonth
<1> HIDE DEF i, j
<1> SUFFICES ASSUME j < i PROVE FALSE
  BY <1>1 DEF i, j
<1>3. FirstDay(j + 1) <= FirstDay(i)
  BY <1>1, MonthOrder
<1> QED BY <1>1, <1>2, <1>3

----------------------------------------------------------------------------
(* Periods are made of whole months                                        *)

\* The date functions, by the number of the month.
LEMMA DateForm ==
    ASSUME NEW y \in Int, NEW m \in 1 .. 12, Index(y, m) \in Nat
    PROVE  /\ Date(y, m, 1) = FirstDay(Index(y, m))
           /\ Date(y, m, MonthDays(y, m)) = FirstDay(Index(y, m) + 1) - 1
<1> DEFINE k == Index(y, m)
<1>1. Year(k) = y /\ MonthOf(k) = m
  BY CalendarAssumption DEF Index, Year, MonthOf
<1>2. FirstDay(k) \in Int /\ LengthOf(k) \in 28 .. 31 /\ FirstDay(k + 1) = FirstDay(k) + LengthOf(k)
  BY NextMonth
<1>3. LengthOf(k) = MonthDays(y, m)
  BY <1>1 DEF LengthOf
<1> HIDE DEF k
<1>4. FirstDay(k) + 1 - 1 = FirstDay(k) /\ FirstDay(k) + MonthDays(y, m) - 1 = FirstDay(k + 1) - 1
  BY <1>2, <1>3
<1> QED BY <1>4 DEF Date, k

\* The first month of a month's quarter.
QuarterStart(k) == k - (k % 3)

LEMMA QuarterMonths ==
    ASSUME NEW k \in Nat
    PROVE  /\ QuarterStart(k) \in Nat /\ QuarterStart(k) <= k /\ k <= QuarterStart(k) + 2
           /\ (MonthOf(k) - 1) \div 3 \in 0 .. 3
           /\ QuarterStart(k) = k - MonthOf(k) + ((MonthOf(k) - 1) \div 3) * 3 + 1
           /\ k >= 11 => QuarterStart(k) >= 9
           /\ QuarterStart(QuarterStart(k)) = QuarterStart(k)
           /\ k >= 11 => QuarterStart(QuarterStart(k) - 1) = QuarterStart(k) - 3
<1>1. (k % 12) % 3 = k % 3 /\ k % 3 = (k % 12) - ((k % 12) \div 3) * 3 /\ k % 12 \in 0 .. 11
  OBVIOUS
<1>2. MonthOf(k) - 1 = k % 12
  BY <1>1 DEF MonthOf
<1> DEFINE q == QuarterStart(k)
<1>3. q = k - (k % 3) /\ k % 3 \in 0 .. 2 /\ q \in Nat
  BY DEF QuarterStart
<1>4. q % 3 = 0 /\ (q - 1) % 3 = 2
  BY <1>3
<1>5. (MonthOf(k) - 1) \div 3 \in 0 .. 3 /\ k % 3 = MonthOf(k) - 1 - ((MonthOf(k) - 1) \div 3) * 3
  <2>1. \A a \in 0 .. 11 : a \div 3 \in 0 .. 3
    OBVIOUS
  <2> QED BY <1>1, <1>2, <2>1
<1>6. QuarterStart(q) = q /\ QuarterStart(q - 1) = q - 3
  <2> HIDE DEF q
  <2> QED BY <1>3, <1>4 DEF QuarterStart
<1>7. k >= 11 => q >= 9
  BY <1>3
<1>8. q = k - MonthOf(k) + ((MonthOf(k) - 1) \div 3) * 3 + 1
  <2> DEFINE a == (MonthOf(k) - 1) \div 3
             m == MonthOf(k)
  <2>1. a \in 0 .. 3 /\ k % 3 = m - 1 - a * 3 /\ m \in Int /\ q = k - (k % 3)
    BY <1>1, <1>2, <1>3, <1>5 DEF MonthOf
  <2> HIDE DEF a, m, q
  <2>2. q = k - m + a * 3 + 1
    BY <2>1
  <2> QED BY <2>2 DEF a, m
<1> HIDE DEF q
<1>9. q <= k /\ k <= q + 2
  BY <1>3
<1> QED BY <1>3, <1>5, <1>6, <1>7, <1>8, <1>9 DEF q

LEMMA CurrentForm ==
    ASSUME NEW n \in Nat
    PROVE  LET k == MonthIndex(n)
               q == QuarterStart(k)
           IN  /\ get_current_period("daily", n) = <<n, n>>
               /\ get_current_period("weekly", n) = <<n - weekday(n), n - weekday(n) + 6>>
               /\ get_current_period("monthly", n) = <<FirstDay(k), FirstDay(k + 1) - 1>>
               /\ get_current_period("quarterly", n) = <<FirstDay(q), FirstDay(q + 3) - 1>>
<1> DEFINE k == MonthIndex(n)
           y == Year(k)
           m == MonthOf(k)
           t == (m - 1) \div 3
           q == QuarterStart(k)
<1>1. k \in Nat
  BY MonthOfDate
<1>2. y \in Int /\ m \in 1 .. 12 /\ t \in 0 .. 3 /\ q \in Nat /\ q = k - m + t * 3 + 1 /\ k = (y - BaseYear) * 12 + m - 1
  BY <1>1, Turn, QuarterMonths
<1>3. Index(y, m) = k /\ Index(y, t * 3 + 1) = q /\ Index(y, (t * 3 + 1) + 2) = q + 2
  <2> HIDE DEF k, y, m, t, q
  <2> QED BY <1>1, <1>2, CalendarAssumption DEF Index
<1>4. t * 3 + 1 \in 1 .. 12 /\ (t * 3 + 1) + 2 \in 1 .. 12
  <2> HIDE DEF t
  <2> QED BY <1>2
<1>5. Date(y, m, 1) = FirstDay(k) /\ Date(y, m, MonthDays(y, m)) = FirstDay(k + 1) - 1
  BY <1>1, <1>2, <1>3, DateForm
<1>6. Date(y, t * 3 + 1, 1) = FirstDay(q)
  BY <1>2, <1>3, <1>4, DateForm
<1>7. Date(y, (t * 3 + 1) + 2, MonthDays(y, (t * 3 + 1) + 2)) = FirstDay((q + 2) + 1) - 1
  <2>1. q + 2 \in Nat
    BY <1>2
  <2> QED BY <1>2, <1>3, <1>4, <2>1, DateForm
<1>8. (q + 2) + 1 = q + 3
  BY <1>2
<1> QED BY <1>5, <1>6, <1>7, <1>8 DEF get_current_period, LengthOf

LEMMA LastForm ==
    ASSUME NEW n \in Nat, n > 366
    PROVE  LET k == MonthIndex(n)
               q == QuarterStart(k)
           IN  /\ k >= 11 /\ q >= 9
               /\ get_last_period("daily", n) = <<n - 1, n - 1>>
               /\ get_last_period("weekly", n) = <<n - (weekday(n) + 7), n - (weekday(n) + 7) + 6>>
               /\ get_last_period("monthly", n) = <<FirstDay(k - 1), FirstDay(k) - 1>>
               /\ get_last_period("quarterly", n) = <<FirstDay(q - 3), FirstDay(q) - 1>>
<1> DEFINE k == MonthIndex(n)
           y == Year(k)
           m == MonthOf(k)
           t == (m - 1) \div 3
           q == QuarterStart(k)
<1>1. k \in Nat /\ k >= 11
  <2>1. k \in Nat /\ n < 31 * (k + 1)
    BY MonthOfDate
  <2> HIDE DEF k
  <2> QED BY <2>1
<1>2. y \in Int /\ m \in 1 .. 12 /\ t \in 0 .. 3 /\ q \in Nat /\ q >= 9 /\ q = k - m + t * 3 + 1 /\ k = (y - BaseYear) * 12 + m - 1
  BY <1>1, Turn, QuarterMonths
<1>3. Quarter(k) = t + 1
  BY DEF Quarter
<1>4. get_last_period("monthly", n) = <<FirstDay(k - 1), FirstDay(k) - 1>>
  <2>0. k - 1 \in Nat /\ (k - 1) + 1 = k /\ y - 1 \in Int
    BY <1>1, <1>2
  <2>1. CASE m = 1
    <3>1. Index(y - 1, 12) = k - 1
      <4> HIDE DEF k, y, m
      <4> QED BY <1>2, <2>1, CalendarAssumption DEF Index
    <3>2. MonthDays(y - 1, 12) = 31
      BY DEF MonthDays
    <3>3. Date(y - 1, 12, 1) = FirstDay(k - 1) /\ Date(y - 1, 12, 31) = FirstDay((k - 1) + 1) - 1
      BY <2>0, <3>1, <3>2, DateForm
    <3> QED BY <2>0, <2>1, <3>3 DEF get_last_period
  <2>2. CASE m # 1
    <3>1. Index(y, m - 1) = k - 1 /\ m - 1 \in 1 .. 12
      <4> HIDE DEF k, y, m
      <4> QED BY <1>2, <2>2, CalendarAssumption DEF Index
    <3>2. Date(y, m - 1, 1) = FirstDay(k - 1) /\ Date(y, m - 1, MonthDays(y, m - 1)) = FirstDay((k - 1) + 1) - 1
      BY <1>2, <2>0, <3>1, DateForm
    <3> QED BY <2>0, <2>2, <3>2 DEF get_last_period
  <2> QED BY <2>1, <2>2
<1>5. get_last_period("quarterly", n) = <<FirstDay(q - 3), FirstDay(q) - 1>>
  <2>0. q - 3 \in Nat /\ q - 1 \in Nat /\ (q - 1) + 1 = q /\ y - 1 \in Int
    BY <1>2
  <2>1. CASE Quarter(k) = 1
    <3>1. Index(y - 1, 10) = q - 3 /\ Index(y - 1, 12) = q - 1
      <4>1. t = 0
        BY <1>2, <1>3, <2>1
      <4> HIDE DEF k, y, m, t, q
      <4> QED BY <1>1, <1>2, <4>1, CalendarAssumption DEF Index
    <3>2. MonthDays(y - 1, 12) = 31
      BY DEF MonthDays
    <3>3. Date(y - 1, 10, 1) = FirstDay(q - 3)
      BY <2>0, <3>1, DateForm
    <3>4. Date(y - 1, 12, 31) = FirstDay((q - 1) + 1) - 1
      BY <2>0, <3>1, <3>2, DateForm
    <3> QED BY <2>0, <2>1, <3>3, <3>4 DEF get_last_period
  <2>2. CASE Quarter(k) # 1
    <3> DEFINE f == (Quarter(k) - 2) * 3 + 1
    <3>1. f \in 1 .. 12 /\ f + 2 \in 1 .. 12 /\ f = t * 3 - 2
      <4> HIDE DEF t
      <4> QED BY <1>2, <1>3, <2>2
    <3>2. Index(y, f) = q - 3 /\ Index(y, f + 2) = q - 1
      <4> HIDE DEF k, y, m, t, q, f
      <4> QED BY <1>1, <1>2, <3>1, CalendarAssumption DEF Index
    <3>3. Date(y, f, 1) = FirstDay(q - 3)
      BY <1>2, <2>0, <3>1, <3>2, DateForm
    <3>4. Date(y, f + 2, MonthDays(y, f + 2)) = FirstDay((q - 1) + 1) - 1
      BY <1>2, <2>0, <3>1, <3>2, DateForm
    <3> QED BY <2>0, <2>2, <3>3, <3>4 DEF get_last_period
  <2> QED BY <2>1, <2>2
<1> QED BY <1>1, <1>2, <1>4, <1>5 DEF get_last_period

LEMMA PreviousForm ==
    ASSUME NEW k \in Nat, k >= 11, NEW e
    PROVE  get_previous_period("monthly", FirstDay(k), e) = <<FirstDay(k - 1), FirstDay(k) - 1>>
<1> DEFINE y == Year(k)
           m == MonthOf(k)
<1>1. FirstDay(k) \in Nat /\ FirstDay(k) < FirstDay(k + 1) /\ MonthIndex(FirstDay(k)) = k
  <2>1. FirstDay(k) \in Nat /\ FirstDay(k + 1) \in Int
    BY MonthReach
  <2>2. FirstDay(k) < FirstDay(k + 1)
    BY MonthOrder
  <2> QED BY <2>1, <2>2, MonthIsFound
<1>2. y \in Int /\ m \in 1 .. 12 /\ k = (y - BaseYear) * 12 + m - 1
  BY Turn
<1>3. k - 1 \in Nat /\ (k - 1) + 1 = k /\ y - 1 \in Int
  BY <1>2
<1>4. CASE m = 1
  <2>1. Index(y - 1, 12) = k - 1
    <3> HIDE DEF y, m
    <3> QED BY <1>2, <1>4, CalendarAssumption DEF Index
  <2>2. MonthDays(y - 1, 12) = 31
    BY DEF MonthDays
  <2>3. Date(y - 1, 12, 1) = FirstDay(k - 1) /\ Date(y - 1, 12, 31) = FirstDay((k - 1) + 1) - 1
    BY <1>3, <2>1, <2>2, DateForm
  <2> QED BY <1>1, <1>3, <1>4, <2>3 DEF get_previous_period
<1>5. CASE m # 1
  <2>1. Index(y, m - 1) = k - 1 /\ m - 1 \in 1 .. 12 /\ Index(y, m) = k
    <3> HIDE DEF y, m
    <3> QED BY <1>2, <1>5, CalendarAssumption DEF Index
  <2>2. Date(y, m - 1, 1) = FirstDay(k - 1) /\ Date(y, m, 1) = FirstDay(k)
    BY <1>2, <1>3, <2>1, DateForm
  <2> QED BY <1>1, <1>3, <1>5, <2>2 DEF get_previous_period
<1> QED BY <1>4, <1>5

\* The last and the current period of every type, for every date.
LEMMA Adjoining ==
    ASSUME NEW n \in Nat, n > 366
    PROVE  PeriodsAdjoin(n)
<1> DEFINE k == MonthIndex(n)
           q == QuarterStart(k)
           last(p) == get_last_period(p, n)
           now(p)  == get_current_period(p, n)
           Fits(p) == /\ now(p)[1] <= n /\ n <= now(p)[2]
                      /\ last(p)[1] <= last(p)[2] /\ last(p)[2] + 1 = now(p)[1]
                      /\ last(p) = get_current_period(p, last(p)[2])
<1>1. k \in Nat /\ k >= 11 /\ q \in Nat /\ q >= 9 /\ FirstDay(k) <= n /\ n < FirstDay(k + 1) /\ q <= k /\ k <= q + 2
      /\ QuarterStart(q - 1) = q - 3
  BY LastForm, MonthOfDate, QuarterMonths
<1>2. Fits("daily")
  <2>1. n - 1 \in Nat
    OBVIOUS
  <2> QED BY <2>1, CurrentForm, LastForm
<1>3. Fits("weekly")
  <2> DEFINE w == weekday(n)
  <2>1. w \in 0 .. 6 /\ weekday(n - w - 1) = 6
    BY CalendarAssumption DEF weekday
  <2>2. n - w - 1 \in Nat /\ n - (w + 7) + 6 = n - w - 1
    BY <2>1
  <2>3. last("weekly") = <<n - (w + 7), n - w - 1>> /\ now("weekly") = <<n - w, n - w + 6>>
    BY <2>2, CurrentForm, LastForm
  <2>4. get_current_period("weekly", n - w - 1) = <<n - w - 1 - 6, n - w - 1 - 6 + 6>>
    BY <2>1, <2>2, CurrentForm
  <2> HIDE DEF w
  <2> QED BY <2>1, <2>2, <2>3, <2>4
<1>4. Fits("monthly")
  <2>1. k - 1 \in Nat /\ (k - 1) + 1 = k
    BY <1>1
  <2>2. FirstDay(k) \in Nat /\ FirstDay(k - 1) \in Nat /\ FirstDay(k + 1) \in Nat /\ FirstDay(k - 1) < FirstDay(k)
    <3> HIDE DEF k
    <3>1. k + 1 \in Nat /\ k - 1 < k
      BY <1>1
    <3>2. \A l \in Nat : FirstDay(l) \in Nat
      BY MonthReach
    <3>3. FirstDay(k - 1) < FirstDay((k - 1) + 1)
      BY <1>1, <2>1, <3>1, MonthOrder
    <3> QED BY <1>1, <2>1, <3>1, <3>2, <3>3
  <2>3. FirstDay(k) - 1 \in Nat /\ FirstDay(k - 1) <= FirstDay(k) - 1 /\ FirstDay(k) - 1 < FirstDay(k)
    BY <2>2
  <2>4. MonthIndex(FirstDay(k) - 1) = k - 1
    BY <2>1, <2>3, MonthIsFound
  <2>5. get_current_period("monthly", FirstDay(k) - 1) = <<FirstDay(k - 1), FirstDay(k) - 1>>
    BY <2>1, <2>3, <2>4, CurrentForm
  <2>6. last("monthly") = <<FirstDay(k - 1), FirstDay(k) - 1>> /\ now("monthly") = <<FirstDay(k), FirstDay(k + 1) - 1>>
    BY CurrentForm, LastForm
  <2> HIDE DEF k
  <2> QED BY <1>1, <2>2, <2>3, <2>5, <2>6
<1>5. Fits("quarterly")
  <2>1. q - 1 \in Nat /\ (q - 1) + 1 = q /\ q - 3 \in Nat /\ (q - 3) + 3 = q /\ q - 1 >= 8
    BY <1>1
  <2>2. /\ FirstDay(q) \in Nat /\ FirstDay(q - 1) \in Nat /\ FirstDay(q - 3) \in Nat /\ FirstDay(q + 3) \in Nat
        /\ FirstDay(q - 1) < FirstDay(q) /\ FirstDay(q - 3) < FirstDay(q)
    <3> HIDE DEF q, k
    <3>0. \A l \in Nat : FirstDay(l) \in Nat
      BY MonthReach
    <3>1. q + 3 \in Nat /\ q - 1 < q /\ q - 3 < q
      BY <1>1
    <3>2. FirstDay(q - 3) < FirstDay((q - 3) + 1) /\ FirstDay((q - 3) + 1) <= FirstDay(q) /\ FirstDay((q - 3) + 1) \in Int
      BY <1>1, <2>1, <3>1, MonthOrder, MonthReach
    <3>3. FirstDay(q - 1) < FirstDay(q)
      BY <1>1, <2>1, <3>1, MonthOrder
    <3> QED BY <1>1, <2>1, <3>0, <3>1, <3>2, <3>3
  <2>3. FirstDay(q) - 1 \in Nat /\ FirstDay(q - 1) <= FirstDay(q) - 1 /\ FirstDay(q) - 1 < FirstDay(q)
    BY <2>2
  <2>4. MonthIndex(FirstDay(q) - 1) = q - 1
    BY <2>1, <2>3, MonthIsFound
  <2>5. get_current_period("quarterly", FirstDay(q) - 1) = <<FirstDay(q - 3), FirstDay(q) - 1>>
    BY <1>1, <2>1, <2>3, <2>4, CurrentForm
  <2>6. last("quarterly") = <<FirstDay(q - 3), FirstDay(q) - 1>> /\ now("quarterly") = <<FirstDay(q), FirstDay(q + 3) - 1>>
    BY CurrentForm, LastForm
  <2>7. FirstDay(q) <= n /\ n <= FirstDay(q + 3) - 1
    <3>1. FirstDay(q) <= FirstDay(k)
      <4>1. CASE q = k
        BY <2>2, <4>1
      <4>2. CASE q # k
        <5> HIDE DEF q, k
        <5>0. \A l \in Nat : FirstDay(l) \in Int
          BY MonthReach
        <5>1. q < k /\ FirstDay(k) \in Int /\ FirstDay(q + 1) \in Int
          BY <1>1, <4>2, <5>0
        <5>2. FirstDay(q) < FirstDay(q + 1) /\ FirstDay(q + 1) <= FirstDay(k)
          BY <1>1, <5>1, MonthOrder
        <5> QED BY <2>2, <5>1, <5>2
      <4> QED BY <4>1, <4>2
    <3>2. FirstDay(k + 1) <= FirstDay(q + 3)
      <4>1. k < q + 3 /\ q + 3 \in Nat
        BY <1>1
      <4> QED BY <1>1, <4>1, MonthOrder
    <3>3. FirstDay(k) \in Int /\ FirstDay(k + 1) \in Int
      BY <1>1, MonthReach
    <3> HIDE DEF q, k
    <3> QED BY <1>1, <2>2, <3>1, <3>2, <3>3
  <2> HIDE DEF q, k
  <2> QED BY <1>1, <2>2, <2>3, <2>5, <2>6, <2>7
<1> HIDE DEF last, now
<1>6. \A p \in PeriodTypes : Fits(p)
  BY <1>2, <1>3, <1>4, <1>5 DEF PeriodTypes
<1> QED BY <1>6 DEF PeriodsAdjoin, last, now

\* What a day, week or month is compared with, for every date.
LEMMA Comparing ==
    ASSUME NEW n \in Nat, n > 366
    PROVE  ComparedWithLast(n)
<1>1. Compares("daily", n)
  BY CurrentForm, LastForm DEF Compares, get_previous_period
<1>2. Compares("weekly", n)
  <2> DEFINE w == weekday(n)
  <2>1. w \in 0 .. 6
    BY CalendarAssumption DEF weekday
  <2>2. get_last_period("weekly", n) = <<n - (w + 7), n - (w + 7) + 6>> /\ get_current_period("weekly", n) = <<n - w, n - w + 6>>
    BY CurrentForm, LastForm
  <2>3. \A a, b : get_previous_period("weekly", a, b) = <<a - 1 - (b - a), a - 1>>
    BY DEF get_previous_period
  <2> HIDE DEF w
  <2> DEFINE a == n - w
             b == n - w + 6
  <2>5. get_previous_period("weekly", a, b) = <<a - 1 - (b - a), a - 1>>
    <3> HIDE DEF a, b
    <3> QED BY <2>3
  <2>6. <<a - 1 - (b - a), a - 1>> = <<n - (w + 7), n - (w + 7) + 6>>
    BY <2>1
  <2> QED BY <2>2, <2>5, <2>6 DEF Compares
<1>3. Compares("monthly", n)
  <2>1. MonthIndex(n) \in Nat /\ MonthIndex(n) >= 11
    BY LastForm, MonthOfDate
  <2> QED BY <2>1, CurrentForm, LastForm, PreviousForm DEF Compares
<1> QED BY <1>1, <1>2, <1>3 DEF ComparedWithLast

----------------------------------------------------------------------------
(* The partitions                                                          *)

\* The dates of a behaviour, one place after the other, and partitions of months.
DatesOfADay ==
  /\ today \in Nat /\ today > 366 /\ FirstDate <= today /\ today <= LastDate
  /\ utc \in Nat /\ FirstDate <= utc /\ utc <= today /\ today <= utc + 1
  /\ partitions \subseteq Nat /\ IsFiniteSet(partitions)

\* The day after lies in the same month or in the next one.
LEMMA DayAfter ==
    ASSUME NEW n \in Nat
    PROVE  MonthIndex(n + 1) \in {MonthIndex(n), MonthIndex(n) + 1}
<1> DEFINE k == MonthIndex(n)
<1>1. k \in Nat /\ FirstDay(k) <= n /\ n < FirstDay(k + 1)
  BY MonthOfDate
<1> HIDE DEF k
<1>2. k + 1 \in Nat /\ n + 1 \in Nat /\ (k + 1) + 1 = k + 2
  BY <1>1
<1>3. FirstDay(k) \in Int /\ FirstDay(k + 1) \in Int /\ FirstDay((k + 1) + 1) \in Int
  BY <1>1, <1>2, MonthReach
<1>4. FirstDay(k + 1) < FirstDay((k + 1) + 1)
  BY <1>2, MonthOrder
<1>5. CASE n + 1 < FirstDay(k + 1)
  <2>1. MonthIndex(n + 1) = k
    BY <1>1, <1>2, <1>3, <1>5, MonthIsFound
  <2> QED BY <2>1 DEF k
<1>6. CASE n + 1 >= FirstDay(k + 1)
  <2>1. n + 1 < FirstDay((k + 1) + 1)
    BY <1>1, <1>3, <1>4
  <2>2. MonthIndex(n + 1) = k + 1
    BY <1>2, <1>6, <2>1, MonthIsFound
  <2> QED BY <2>2 DEF k
<1> QED BY <1>1, <1>2, <1>3, <1>5, <1>6

\* The month 31 r days before is r months before or earlier, by one month for
\* a start, and by one more for every 52 months.
LEMMA Retained ==
    ASSUME DatesOfADay, NEW r \in Retentions
    PROVE  /\ cutoff(r) \in Nat /\ cutoff(r) <= MonthIndex(today) - r
           /\ cutoff(r) <= MonthIndex(utc)
           /\ MonthIndex(today) - r - 1 - (r + 4) \div 52 <= cutoff(r)
<1> DEFINE m == MonthIndex(today)
           c == cutoff(r)
           z == utc - 31 * r
<1>1. r \in Nat /\ r > 0 /\ utc \in Nat /\ today \in Nat /\ z \in Nat /\ z <= utc
  BY CalendarAssumption DEF DatesOfADay
<1>2. m \in Nat /\ FirstDay(m) <= today /\ today < FirstDay(m + 1)
  BY <1>1, MonthOfDate
<1>3. c = MonthIndex(z)
  BY DEF cutoff
<1>4. c \in Nat /\ FirstDay(c) <= z /\ z < FirstDay(c + 1)
  BY <1>1, <1>3, MonthOfDate
<1>5. c <= MonthIndex(utc)
  BY <1>1, <1>3, MonthsFollowDates
<1>6. z = utc - 31 * r /\ utc <= today /\ today <= utc + 1
  BY DEF DatesOfADay
<1> HIDE DEF m, c, z
<1>7. \A l \in Nat : FirstDay(l) \in Int
  BY MonthReach
<1>8. c <= m - r
  <2> SUFFICES ASSUME m + 1 <= c + r PROVE FALSE
    BY <1>1, <1>2, <1>4
  <2>1. FirstDay(c + r) <= FirstDay(c) + 31 * r
    BY <1>1, <1>4, MonthSpan
  <2>2. FirstDay(m + 1) <= FirstDay(c + r)
    <3>1. m < c + r /\ c + r \in Nat
      BY <1>1, <1>2, <1>4
    <3> QED BY <1>2, <3>1, MonthOrder
  <2>3. c + r \in Nat /\ m + 1 \in Nat
    BY <1>1, <1>2, <1>4
  <2> QED BY <1>1, <1>2, <1>4, <1>6, <1>7, <2>1, <2>2, <2>3
<1>9. m - r - 1 - (r + 4) \div 52 <= c
  <2> DEFINE s == (r + 4) \div 52
             x == r + 1 + s
             d == (c + 1) + x
  <2>1. s \in Nat /\ 52 * s > r - 48
    BY <1>1
  <2> SUFFICES ASSUME c < m - r - 1 - s PROVE FALSE
    BY <1>1, <1>2, <1>4, <2>1
  <2> HIDE DEF s
  <2>2. x \in Nat /\ c + 1 \in Nat /\ d \in Nat /\ d <= m
    BY <1>1, <1>2, <1>4, <2>1
  <2>3. FirstDay(d) <= FirstDay(m)
    <3>1. CASE d = m
      BY <1>2, <1>7, <3>1
    <3>2. CASE d # m
      <4>1. d < m /\ d + 1 \in Nat
        BY <1>2, <2>2, <3>2
      <4> HIDE DEF d
      <4>2. FirstDay(d) < FirstDay(d + 1) /\ FirstDay(d + 1) <= FirstDay(m)
        BY <1>2, <2>2, <4>1, MonthOrder
      <4> QED BY <1>2, <1>7, <2>2, <4>1, <4>2
    <3> QED BY <3>1, <3>2
  <2>4. 12 * (FirstDay(d) - FirstDay(c + 1)) >= 365 * x + Lead[MonthOf(d)] - Lead[MonthOf(c + 1)]
    <3> HIDE DEF x
    <3> QED BY <2>2, MonthSpan
  <2>5. Lead[MonthOf(d)] \in -22 .. 7 /\ Lead[MonthOf(c + 1)] \in -22 .. 7
    <3>1. \A i \in 1 .. 12 : Lead[i] \in -22 .. 7
      BY DEF Lead
    <3>2. MonthOf(d) \in 1 .. 12 /\ MonthOf(c + 1) \in 1 .. 12
      BY <2>2, Turn
    <3> QED BY <3>1, <3>2
  <2>6. FirstDay(d) \in Int /\ FirstDay(c + 1) \in Int /\ FirstDay(m) \in Int
    BY <1>2, <1>7, <2>2
  <2>7. FirstDay(m) - FirstDay(c + 1) <= 31 * r
    BY <1>1, <1>2, <1>4, <1>6, <2>6
  <2> DEFINE a == FirstDay(d)
             b == FirstDay(c + 1)
             e == Lead[MonthOf(d)]
             g == Lead[MonthOf(c + 1)]
             h == FirstDay(m)
  <2>8. /\ a \in Int /\ b \in Int /\ h \in Int /\ a <= h /\ h - b <= 31 * r
        /\ e \in -22 .. 7 /\ g \in -22 .. 7 /\ 12 * (a - b) >= 365 * (r + 1 + s) + e - g
    BY <2>3, <2>4, <2>5, <2>6, <2>7
  <2> HIDE DEF a, b, e, g, h
  <2>9. 12 * (a - b) <= 372 * r
    BY <1>1, <2>8
  <2>10. 12 * (a - b) >= 365 * r + 336 + 365 * s
    BY <1>1, <2>1, <2>8
  <2> QED BY <1>1, <2>1, <2>8, <2>9, <2>10
<1> QED BY <1>4, <1>5, <1>8, <1>9 DEF m, c

\* The pages of a list of partitions, two rows to a page, show every row.
LEMMA PagesShowAll ==
    ASSUME IsFiniteSet(partitions), partitions \subseteq Nat
    PROVE  LET page(n) == partition_page("stats", "past", n, 2)
           IN  UNION {page(n).items : n \in 1 .. page(1).pages} = partition_rows("stats", "past")
<1> DEFINE listed  == partition_rows("stats", "past")
           pages == IF listed = {} THEN 1 ELSE (Cardinality(listed) + 2 - 1) \div 2
           nth(n) == IF n > pages THEN pages ELSE IF n < 1 THEN 1 ELSE n
           Before(row) == Cardinality({other \in listed : other[2] < row[2]})
           Twins(row)   == Cardinality({o \in listed : o[2] = row[2]})
           Items(n) == {row \in listed : /\ Before(row) < nth(n) * 2
                                       /\ Before(row) + Twins(row) > (nth(n) - 1) * 2}
<1>0. \A row \in listed : row[2] \in Nat
  BY DEF partition_rows, partition_info
<1>1. IsFiniteSet(listed)
  <2> DEFINE two == {"stats", "aggregations"}
             three == two \union {"instance_stats"}
             four  == three \union {"instance_aggregations"}
  <2>1. IsFiniteSet({"stats", "aggregations"})
    <3>1. IsFiniteSet({"stats"})
      BY FS_Singleton
    <3>2. IsFiniteSet({"stats"} \union {"aggregations"})
      BY <3>1, FS_AddElement
    <3>3. {"stats"} \union {"aggregations"} = {"stats", "aggregations"}
      OBVIOUS
    <3> QED BY <3>2, <3>3
  <2>2. IsFiniteSet(three)
    BY <2>1, FS_AddElement
  <2>3. IsFiniteSet(four)
    BY <2>2, FS_AddElement
  <2>4. PartitionTables = four
    BY DEF PartitionTables
  <2>5. IsFiniteSet(PartitionTables \X partitions)
    BY <2>3, <2>4, FS_Product
  <2>6. listed \subseteq PartitionTables \X partitions
    BY DEF partition_rows, partition_info
  <2> QED BY <2>5, <2>6, FS_Subset
<1>2. \A n : partition_page("stats", "past", n, 2).items = Items(n) /\ partition_page("stats", "past", n, 2).pages = pages
  BY DEF partition_page
<1> HIDE DEF listed
<1>3. ASSUME NEW row \in listed
      PROVE  \E n \in 1 .. pages : row \in Items(n)
  <2>1. Cardinality(listed) \in Nat /\ listed # {}
    BY <1>1, FS_CardinalityType
  <2>2. Before(row) \in Nat /\ Before(row) < Cardinality(listed)
    <3> DEFINE S == {other \in listed : other[2] < row[2]}
    <3>1. S \subseteq listed
      OBVIOUS
    <3>2. S # listed
      <4> SUFFICES ASSUME S = listed PROVE FALSE
        OBVIOUS
      <4>1. row[2] < row[2] /\ row[2] \in Nat
        BY <1>0
      <4> QED BY <4>1
    <3> HIDE DEF S
    <3>3. IsFiniteSet(S) /\ Cardinality(S) <= Cardinality(listed) /\ (Cardinality(S) = Cardinality(listed) => S = listed)
      BY <1>1, <3>1, FS_Subset
    <3>4. Cardinality(S) \in Nat
      BY <3>3, FS_CardinalityType
    <3> QED BY <2>1, <3>2, <3>3, <3>4 DEF S
  <2>3. Twins(row) \in Nat /\ Twins(row) > 0
    <3> DEFINE S == {o \in listed : o[2] = row[2]}
    <3>1. S \subseteq listed /\ row \in S
      OBVIOUS
    <3> HIDE DEF S
    <3>2. IsFiniteSet(S) /\ Cardinality(S) \in Nat /\ Cardinality(S) # 0
      BY <1>1, <3>1, FS_Subset, FS_CardinalityType, FS_EmptySet
    <3> QED BY <3>2 DEF S
  <2> DEFINE b == Before(row)
             n == b \div 2 + 1
             c == Cardinality(listed)
             d == Twins(row)
  <2>4. pages = (c + 2 - 1) \div 2
    BY <2>1
  <2>5. b \in Nat /\ c \in Nat /\ d \in Nat /\ b < c /\ d > 0
    BY <2>1, <2>2, <2>3
  <2> HIDE DEF pages, b, c, d
  <2>6. n \in 1 .. pages /\ b < n * 2 /\ b + d > (n - 1) * 2
    BY <2>4, <2>5
  <2>7. nth(n) = n
    BY <2>4, <2>5, <2>6
  <2> HIDE DEF n, nth
  <2>8. row \in Items(n)
    BY <2>6, <2>7 DEF b, d
  <2> QED BY <2>6, <2>8
<1> HIDE DEF pages, nth
<1>4. \A n : Items(n) \subseteq listed
  OBVIOUS
<1> HIDE DEF Items
<1>5. UNION {Items(n) : n \in 1 .. pages} = listed
  BY <1>3, <1>4
<1> QED BY <1>2, <1>5 DEF listed

\* What is told of the partitions follows from the dates.
LEMMA PartitionsAreTold == DatesOfADay => PartitionsTold
<1> SUFFICES ASSUME DatesOfADay PROVE PartitionsTold
  OBVIOUS
<1>1. today \in Nat /\ utc \in Nat /\ (utc = today \/ today = utc + 1) /\ partitions \subseteq Nat /\ IsFiniteSet(partitions)
  BY DEF DatesOfADay
<1>2. MonthIndex(today) \in {MonthIndex(utc), MonthIndex(utc) + 1}
  BY <1>1, DayAfter
<1>3. MonthIndex(utc) \in Nat
  BY <1>1, MonthOfDate
<1>4. partition_health = "healthy" => {MonthIndex(utc), MonthIndex(utc) + 1} \subseteq partitions
  BY DEF partition_health, missing_partitions
<1>5. partition_health = "healthy" => MonthIndex(today) \in partitions
  BY <1>2, <1>4
<1>6. partition_health = "healthy" /\ utc = today => MonthIndex(today + 1) \in partitions
  BY <1>1, <1>4, DayAfter
<1>7. utc = today => \A k \in missing_partitions : k >= MonthIndex(today)
  BY <1>3 DEF missing_partitions
<1>8. ASSUME NEW r \in Retentions, NEW k \in partitions, k \notin cleanup(r)
      PROVE  partition_status(k) = "past"
  <2>1. k \in Nat /\ cutoff(r) \in Nat /\ cutoff(r) <= MonthIndex(utc)
    BY <1>1, Retained
  <2>2. ~(k >= cutoff(r))
    BY <1>8 DEF cleanup
  <2>3. k < MonthIndex(utc)
    BY <1>3, <2>1, <2>2
  <2>4. k # MonthIndex(utc)
    BY <1>3, <2>1, <2>3
  <2> QED BY <2>3, <2>4 DEF partition_status
<1>9. LET page(n) == partition_page("stats", "past", n, 2)
      IN  UNION {page(n).items : n \in 1 .. page(1).pages} = partition_rows("stats", "past")
  BY <1>1, PagesShowAll
<1> QED BY <1>5, <1>6, <1>7, <1>8, <1>9 DEF PartitionsTold

\* A clean-up keeps what it promises and little more.
LEMMA RetentionIsKept == DatesOfADay => RetentionKept
<1> SUFFICES ASSUME DatesOfADay, NEW r \in Retentions
             PROVE  /\ \A k \in partitions : k >= MonthIndex(today) - r => k \in cleanup(r)
                    /\ \A k \in cleanup(r) : k >= MonthIndex(today) - r - 1 - (r + 4) \div 52
  BY DEF RetentionKept
<1> DEFINE m == MonthIndex(today)
           c == cutoff(r)
           f == m - r - 1 - (r + 4) \div 52
<1>1. today \in Nat /\ r \in Nat /\ partitions \subseteq Nat
  BY CalendarAssumption DEF DatesOfADay
<1>2. m \in Nat /\ c \in Nat /\ c <= m - r /\ f <= c /\ f \in Int
  BY <1>1, MonthOfDate, Retained
<1> HIDE DEF m, c, f
<1>3. \A k \in partitions : k >= m - r => k >= c
  BY <1>1, <1>2
<1>4. \A k \in partitions : k >= c => k >= f
  BY <1>1, <1>2
<1> QED BY <1>3, <1>4 DEF cleanup, m, c, f

LEMMA DatesHold == CalendarSpec => []DatesOfADay
<1>1. CalendarInit => DatesOfADay
  <2> SUFFICES ASSUME CalendarInit PROVE DatesOfADay
    OBVIOUS
  <2>1. FirstDate \in Nat /\ FirstDate > 366 /\ FirstDate <= LastDate
    BY CalendarAssumption
  <2>2. MonthIndex(FirstDate) \in Nat
    BY <2>1, MonthOfDate
  <2>3. IsFiniteSet({MonthIndex(FirstDate)})
    BY FS_Singleton
  <2> QED BY <2>1, <2>2, <2>3 DEF CalendarInit, DatesOfADay
<1>2. DatesOfADay /\ [CalendarNext]_calendarVars => DatesOfADay'
  <2> SUFFICES ASSUME DatesOfADay, [CalendarNext]_calendarVars PROVE DatesOfADay'
    OBVIOUS
  <2> USE DEF DatesOfADay
  <2>1. CASE Midnight
    BY <2>1, CalendarAssumption DEF Midnight
  <2>2. CASE UtcMidnight
    BY <2>2 DEF UtcMidnight
  <2>3. CASE create_partition
    <3>1. PICK k \in MonthIndex(today) .. MonthIndex(today) + Ahead : partitions' = partitions \union {k}
      BY <2>3 DEF create_partition
    <3>2. MonthIndex(today) \in Nat
      BY MonthOfDate
    <3>3. k \in Nat
      BY <3>1, <3>2, CalendarAssumption
    <3>4. IsFiniteSet(partitions \union {k})
      BY FS_AddElement
    <3> QED BY <2>3, <3>1, <3>3, <3>4 DEF create_partition
  <2>4. CASE cleanup_old_partitions
    <3>1. partitions' \subseteq partitions
      BY <2>4 DEF cleanup_old_partitions, cleanup
    <3>2. IsFiniteSet(partitions')
      BY <3>1, FS_Subset
    <3> QED BY <2>4, <3>1, <3>2 DEF cleanup_old_partitions
  <2>5. CASE UNCHANGED calendarVars
    BY <2>5 DEF calendarVars
  <2> QED BY <2>1, <2>2, <2>3, <2>4, <2>5 DEF CalendarNext
<1> QED BY <1>1, <1>2, PTL DEF CalendarSpec

\* For any base year, dates and retentions: periods of every type follow each
\* other without a gap or an overlap and are compared with the one before
\* (PeriodCalculator), a clean-up keeps the partitions of the months it promises
\* and little more (cleanup_old_partitions), and what is told of the partitions
\* is so (get_partition_info, list_partitions).
THEOREM CalendarIsRegular == CalendarSpec => []CalendarHolds
<1>1. DatesOfADay => CalendarHolds
  <2> SUFFICES ASSUME DatesOfADay PROVE CalendarHolds
    OBVIOUS
  <2>1. today \in FirstDate .. LastDate /\ today \in Nat /\ today > 366
    BY CalendarAssumption DEF DatesOfADay
  <2>2. PeriodsFollow
    BY <2>1, Adjoining, Comparing DEF PeriodsFollow, RegularDates
  <2> QED BY <2>2, RetentionIsKept, PartitionsAreTold DEF CalendarHolds
<1> QED BY <1>1, DatesHold, PTL
=============================================================================
