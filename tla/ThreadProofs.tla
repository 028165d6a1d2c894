---------------------------- MODULE ThreadProofs ----------------------------
(***************************************************************************)
(* What the steps that all background tasks are made of do to the rows of  *)
(* a run and to the locals of its thread: lemmas for the proofs about the  *)
(* tasks with a session and those without.                                 *)
(***************************************************************************)
EXTENDS TaskThread, FiniteSetTheorems, TLAPS

\* The counts of items are numbers.
LEMMA ItemCounts ==
    ASSUME NEW f, DOMAIN f \subseteq ItemKeys, NEW S
    PROVE  IsFiniteSet(ItemsIn(f, S)) /\ Cardinality(ItemsIn(f, S)) \in Nat
<1>1. ItemsIn(f, S) \subseteq ItemKeys
  BY DEF ItemsIn
<1> QED BY <1>1, KeysFinite, FS_Subset, FS_CardinalityType

\* The item operations yield statuses of items.
LEMMA ItemStatuses ==
    ASSUME NEW st \in TaskRunStatus \cup {ABSENT}, NEW ok \in BOOLEAN
    PROVE  start_item(st) \in TaskRunStatus /\ Outcome(ok, st) \in TaskRunStatus /\ Outcome(ok, st) \in TERMINAL
  BY DEF start_item, Outcome, complete_item, fail_item, TaskRunStatus, TERMINAL, IN_PROGRESS,
         PENDING, RUNNING, COMPLETED, COMPLETED_WITH_ERRORS, FAILED, CANCELLED

\* The items as the thread sees them, and what it has in hand.
LEMMA ViewTyped == ThreadTypeOK => View \in [ItemKeys -> TaskRunStatus \cup {ABSENT}]
  BY DEF ThreadTypeOK, View

\* What LoadItem puts into the transaction is a change of the current item.
LEMMA ChangeTyped ==
    ASSUME NEW k \in ItemKeys, NEW st \in TaskRunStatus
    PROVE  DOMAIN Change(k, st) \subseteq {k} /\ \A i \in DOMAIN Change(k, st) : i \in ItemKeys /\ Change(k, st)[i] \in TaskRunStatus
  BY DEF Change

\* An empty transaction, and the one of mark_run_failed.
LEMMA NoChangeTyped == DOMAIN NoChange = {} /\ DOMAIN mark_items_failed(items) = ItemsIn(items, IN_PROGRESS)
                       /\ \A i \in DOMAIN mark_items_failed(items) : mark_items_failed(items)[i] = FAILED
  BY DEF NoChange, mark_items_failed

\* The operations on the run's row keep its type.
LEMMA RunRows ==
    ASSUME NEW r \in TaskRun, NEW f, DOMAIN f \subseteq ItemKeys
    PROVE  /\ finalize_run(r, f) \in TaskRun /\ write_summary(r) \in TaskRun
           /\ mark_run_failed(r, f) \in TaskRun
           /\ \A override \in TaskRunStatus \cup {NoOverride} : finalize_run_with_summary(r, f, override) \in TaskRun
<1> USE DEF TaskRun, TaskRunStatus, TERMINAL, IN_PROGRESS
<1>1. \A q \in TaskRun : finalize_run(q, f) \in TaskRun
  BY ItemCounts DEF finalize_run
<1>2. write_summary(r) \in TaskRun /\ [r EXCEPT !.status = FAILED] \in TaskRun
  BY DEF write_summary
<1> QED BY <1>1, <1>2 DEF mark_run_failed, finalize_run_with_summary

\* So do changes of one of its columns.
LEMMA RunColumns ==
    ASSUME NEW r \in TaskRun, NEW n \in Nat
    PROVE  [r EXCEPT !.status = CANCELLED] \in TaskRun /\ [r EXCEPT !.progress_total = n] \in TaskRun
  BY DEF TaskRun, TaskRunStatus, TERMINAL

\* So does the column-wise UPDATE of the row.
LEMMA RunUpdates ==
    ASSUME NEW db \in TaskRun, NEW r1 \in TaskRun, NEW r2 \in TaskRun
    PROVE  UpdateChanged(db, r1, r2) \in TaskRun
  BY DEF UpdateChanged, TaskRun

-----------------------------------------------------------------------------
\* The steps every task is made of keep the rows of the run and the locals of
\* the thread of their kinds.
LEMMA MovesTyped ==
    ASSUME ThreadTypeOK, NEW at, NEW after, NEW over \in SUBSET ItemKeys,
           \/ Goto(at, after) \/ BeginLoop(at, over, after) \/ TakeNext(at, after)
           \/ FinalRead(at, after) \/ Raise(at, NoChange, after) \/ Raise(at, stage, after) \/ Die
    PROVE  ThreadTypeOK'
<1> USE DEF plan, runRows, focus, totals, cancels
<1>1. UNCHANGED <<keys, run, items, totals, cancels>> /\ stage' \in {stage, NoChange} /\ runSeen' \in {run, runSeen}
  BY DEF Goto, BeginLoop, TakeNext, FinalRead, Raise, Die
<1>2. todo' \in SUBSET ItemKeys /\ cur' \in ItemKeys \cup {NoKey}
  BY DEF ThreadTypeOK, Goto, BeginLoop, TakeNext, FinalRead, Raise, Die
<1> QED BY <1>1, <1>2, NoChangeTyped DEF ThreadTypeOK

\* The steps on items keep the types of the thread.
LEMMA ItemsTyped ==
    ASSUME ThreadTypeOK, NEW at, NEW after, NEW st \in TaskRunStatus,
           InitItems(at, after) \/ (cur \in ItemKeys /\ LoadItem(at, st, after)) \/ CommitItems(at, after)
    PROVE  ThreadTypeOK'
<1> USE DEF plan, runRows, focus, totals, cancels
<1>1. CASE InitItems(at, after)
  <2>1. items' \in [ItemKeys -> TaskRunStatus \cup {ABSENT}]
    BY <1>1 DEF InitItems, init_items, ThreadTypeOK, TaskRunStatus, IN_PROGRESS
  <2>2. run' \in TaskRun
    BY <1>1, RunColumns, KeysFinite, FS_Subset, FS_CardinalityType DEF InitItems, ThreadTypeOK
  <2> QED BY <1>1, <2>1, <2>2 DEF InitItems, ThreadTypeOK
<1>2. CASE cur \in ItemKeys /\ LoadItem(at, st, after)
  BY <1>2, ChangeTyped DEF LoadItem, ThreadTypeOK
<1>3. CASE CommitItems(at, after)
  BY <1>3, ViewTyped, NoChangeTyped DEF CommitItems, ThreadTypeOK
<1> QED BY <1>1, <1>2, <1>3

\* So do the steps that finalise the run.
LEMMA FinalsTyped ==
    ASSUME ThreadTypeOK, NEW at, NEW after,
           \/ \E override \in TaskRunStatus \cup {NoOverride} : FinalCommit(at, override)
           \/ RecountCancelled(at)
           \/ MarkRead(at, after) \/ MarkCommit(after)
    PROVE  ThreadTypeOK'
<1> USE DEF plan, runRows, focus, totals, cancels
<1>1. DOMAIN View = ItemKeys /\ DOMAIN items = ItemKeys /\ run \in TaskRun /\ runSeen \in TaskRun
  BY ViewTyped DEF ThreadTypeOK
<1>2. ASSUME NEW override \in TaskRunStatus \cup {NoOverride}, FinalCommit(at, override) PROVE ThreadTypeOK'
  <2>1. run' \in TaskRun
    BY <1>1, <1>2, RunRows, RunUpdates DEF FinalCommit
  <2> QED BY <1>2, <2>1, ViewTyped, NoChangeTyped DEF FinalCommit, ThreadTypeOK
<1>3. CASE RecountCancelled(at)
  BY <1>1, <1>3, RunRows DEF RecountCancelled, ThreadTypeOK
<1>4. CASE MarkRead(at, after)
  <2>1. FAILED \in TaskRunStatus /\ ItemsIn(items, IN_PROGRESS) \subseteq ItemKeys
    BY <1>1 DEF TaskRunStatus, TERMINAL, ItemsIn
  <2> QED BY <1>4, <2>1, NoChangeTyped DEF MarkRead, ThreadTypeOK
<1>5. CASE MarkCommit(after)
  <2>1. run' \in TaskRun
    BY <1>1, <1>5, RunRows, RunUpdates DEF MarkCommit
  <2> QED BY <1>5, <2>1, ViewTyped, NoChangeTyped DEF MarkCommit, ThreadTypeOK
<1> QED BY <1>2, <1>3, <1>4, <1>5

\* So do the requests that cancel the run.
LEMMA RequestsTyped ==
    ASSUME ThreadTypeOK, NEW c \in RunCancels, RunCancelStep(c)
    PROVE  ThreadTypeOK'
<1> USE DEF plan, runRows, focus, totals, cancels
<1>1. CASE CancelRead(c) \/ CancelFlush(c)
  BY <1>1 DEF CancelRead, CancelFlush, ThreadTypeOK
<1>2. CASE CancelCommit(c)
  <2>1. items' \in [ItemKeys -> TaskRunStatus \cup {ABSENT}]
    BY <1>2 DEF CancelCommit, ThreadTypeOK, TaskRunStatus, TERMINAL
  <2>2. run' \in TaskRun
    BY <1>2, RunColumns DEF CancelCommit, ThreadTypeOK
  <2> QED BY <1>2, <2>1, <2>2 DEF CancelCommit, ThreadTypeOK
<1> QED BY <1>1, <1>2 DEF RunCancelStep
=============================================================================
