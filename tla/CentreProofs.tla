---------------------------- MODULE CentreProofs ----------------------------
(***************************************************************************)
(* Proofs about the tasks without a session and the requests that cancel   *)
(* their runs, for any number of items and requests: they keep what        *)
(* TaskRunCentre promises (RunTasks implements TaskRunCentre), and an item *)
(* tells of the work that was committed with it (the status of a cluster,  *)
(* an event, the rows of a Veeam source), whenever the run is cancelled,   *)
(* fails or dies.  And the books of a run are in order once it is closed:  *)
(* its counters and its summary are those of its items, and its status     *)
(* tells of the effects that were committed.                               *)
(***************************************************************************)
EXTENDS RunTasks, ThreadProofs

\* The final statuses of a task, and the ends of its thread.
Closed == {COMPLETED, COMPLETED_WITH_ERRORS, FAILED}
Ended == {"done", "dead", "escaped"}

\* A row of task_runs: a record of its five columns.
IsRow(r) ==
    /\ r = [status |-> r.status, progress_total |-> r.progress_total, progress_completed |-> r.progress_completed,
            progress_failed |-> r.progress_failed, summary |-> r.summary]
    /\ r.status \in Closed \cup {RUNNING, CANCELLED}

\* Where the thread of a Veeam synchronisation is on its way through a source.
InSource == {"vb_check", "vb_stage", "vb_stage_commit", "vb_work", "vb_stage_done", "vb_close"}
Several(S) == \A k \in S : k[1] # Only

\* A closed run is never looked at again, but by the handler that marks it as
\* failed once more and by the end of a Veeam synchronisation of one source.
ClosedByNow ==
    run.status \in Closed =>
        \/ pc \in Ended
        \/ pc \in {"mark_read", "mark_commit"} /\ run.status = FAILED
        \/ pc = "vb_append"
        \/ pc = "vb_source" /\ todo = {} /\ cur[1] = Only

\* What the thread may have read when it is about to write.
ReadOpen ==
    /\ pc \in AtWrite => runSeen.status \in {RUNNING, CANCELLED} \/ (pc = "mark_commit" /\ runSeen.status = FAILED)
    /\ pc \in {"final_commit", "vb_final_commit", "mark_commit"} => runSeen.status # CANCELLED

\* A single source is the only one of its run.
SourcesApart ==
    /\ pc = "vb_source" => Several(todo) \/ todo \subseteq {<<Only, 1>>}
    /\ pc \in InSource => todo = {} \/ (Several(todo) /\ cur[1] # Only)

\* What holds of row and thread in every reachable state.
CentreInv ==
    /\ IsRow(run) /\ IsRow(runSeen)
    /\ ClosedByNow /\ ReadOpen /\ SourcesApart
    /\ pc = "cur_cancelled" => run.status = CANCELLED

-----------------------------------------------------------------------------
\* The thread is a writer that has read "running".
ThreadHolds == pc \in AtWrite /\ runSeen.status = RUNNING /\ ~(pc = "vb_close" /\ cur[1] # Only)

\* What a step of the thread may do about the status of the run.
ThreadMove ==
    /\ UNCHANGED cpc
    /\ \/ run'.status = run.status /\ (ThreadHolds' => ThreadHolds \/ run.status = RUNNING)
       \/ ThreadHolds /\ ~ThreadHolds' /\ run'.status \in Closed

\* Every action of the thread is shown to be such a move.
Moves == ThreadMove /\ CentreInv'

\* The thread reads, writes or gives up, or nothing happens.
LEMMA ThreadMoveAllowed == ThreadMove => [Centre!Next]_(Centre!statusVars)
<1> SUFFICES ASSUME ThreadMove PROVE [Centre!Next]_(Centre!statusVars)
  OBVIOUS
<1> DEFINE others == {c \in RunCancels : cpc[c] \in {"flush", "commit"}}
<1>1. Holding = IF ThreadHolds THEN others \cup {Thread} ELSE others
  BY DEF Holding, ThreadHolds
<1>2. Holding' = IF ThreadHolds' THEN others \cup {Thread} ELSE others
  BY DEF Holding, ThreadHolds, ThreadMove
<1>3. Thread \notin others
  BY ThreadIsNoRequest
<1>4. CASE run'.status = run.status /\ (ThreadHolds' => ThreadHolds \/ run.status = RUNNING)
  <2>1. CASE ThreadHolds' <=> ThreadHolds
    BY <1>1, <1>2, <1>4, <2>1 DEF Centre!statusVars
  <2>2. CASE ThreadHolds /\ ~ThreadHolds'
    <3>1. Centre!GiveUp(Thread)
      BY <1>1, <1>2, <1>3, <1>4, <2>2 DEF Centre!GiveUp
    <3> QED BY <3>1 DEF Centre!Next
  <2>3. CASE ~ThreadHolds /\ ThreadHolds'
    <3>1. Centre!Read(Thread)
      BY <1>1, <1>2, <1>4, <2>3 DEF Centre!Read, RUNNING, Centre!RUNNING
    <3> QED BY <3>1 DEF Centre!Next
  <2> QED BY <2>1, <2>2, <2>3
<1>5. CASE ThreadHolds /\ ~ThreadHolds' /\ run'.status \in Closed
  <2>1. Centre!Write(Thread)
    BY <1>1, <1>2, <1>3, <1>5 DEF Centre!Write, Centre!Verdicts, Closed, COMPLETED, COMPLETED_WITH_ERRORS, FAILED,
       Centre!COMPLETED, Centre!COMPLETED_WITH_ERRORS, Centre!FAILED
  <2> QED BY <2>1 DEF Centre!Next
<1> QED BY <1>4, <1>5 DEF ThreadMove

-----------------------------------------------------------------------------
\* What the operations of TaskRunsWriteService make of a row's status.
LEMMA RowFacts ==
    ASSUME NEW r, NEW its, IsRow(r)
    PROVE  /\ IsRow(write_summary(r)) /\ write_summary(r).status = r.status
           /\ IsRow(finalize_run(r, its))
           /\ finalize_run(r, its).status = r.status \/ finalize_run(r, its).status \in {COMPLETED, FAILED}
           /\ r.status \in {CANCELLED, FAILED} => finalize_run(r, its).status = r.status
           /\ r.status = RUNNING => finalize_run(r, its).status \in {COMPLETED, FAILED}
  BY DEF IsRow, write_summary, finalize_run, Closed, RUNNING, CANCELLED, COMPLETED, COMPLETED_WITH_ERRORS, FAILED

\* mark_run_failed fails whatever it is given.
LEMMA MarkedRow ==
    ASSUME NEW r, NEW its, IsRow(r)
    PROVE  IsRow(mark_run_failed(r, its)) /\ mark_run_failed(r, its).status = FAILED
  BY DEF IsRow, mark_run_failed, finalize_run, Closed, RUNNING, CANCELLED, COMPLETED, COMPLETED_WITH_ERRORS, FAILED

\* A running run is closed, with the override or without.
LEMMA FinalRow ==
    ASSUME NEW r, NEW its, NEW override \in Closed \cup {NoOverride}, IsRow(r), r.status = RUNNING
    PROVE  /\ IsRow(finalize_run_with_summary(r, its, override))
           /\ finalize_run_with_summary(r, its, override).status \in Closed
<1>1. /\ IsRow(finalize_run(write_summary(r), its))
      /\ finalize_run(write_summary(r), its).status \in Closed
  BY RowFacts DEF Closed
<1> QED BY <1>1 DEF finalize_run_with_summary, IsRow, Closed, RUNNING, CANCELLED, COMPLETED, COMPLETED_WITH_ERRORS, FAILED

\* The UPDATE of the ORM writes the status that was computed if it is another one.
LEMMA UpdatedRow ==
    ASSUME NEW db, NEW loaded, NEW mine, IsRow(db), IsRow(mine)
    PROVE  /\ IsRow(UpdateChanged(db, loaded, mine))
           /\ UpdateChanged(db, loaded, mine).status =
                 IF mine.status # loaded.status THEN mine.status ELSE db.status
  BY DEF IsRow, UpdateChanged

-----------------------------------------------------------------------------
\* Locations of the thread about which CentreInv says something.
Special == AtWrite \cup InSource \cup {"vb_source", "cur_cancelled"}
\* Locations that a closed run may be at.
AfterClose == {"vb_source", "vb_append", "mark_read", "mark_commit"} \cup Ended

\* A step that neither reads nor writes the status, from a location where the
\* run is still open or to the end of the thread.
LEMMA Calm ==
    ASSUME CentreInv, IsRow(run'), run'.status = run.status, UNCHANGED <<runSeen, cancels>>,
           pc' \in Ended \/ (pc \notin AfterClose /\ pc' \notin Special)
    PROVE  Moves
  BY DEF CentreInv, ClosedByNow, ReadOpen, SourcesApart, Moves, ThreadMove, ThreadHolds, Special, AfterClose, Ended, AtWrite,
         InSource, cancels

\* The thread reads the run.
LEMMA Reads ==
    ASSUME CentreInv, UNCHANGED <<run, cancels>>, runSeen' = run,
           pc \notin AfterClose \cup {"cur_cancelled"},
           pc' \in AtWrite, pc' = "vb_close" => (todo' = {} \/ (Several(todo') /\ cur'[1] # Only)),
           pc' \in {"final_commit", "vb_final_commit", "mark_commit"} => run.status # CANCELLED
    PROVE  Moves
  BY DEF CentreInv, IsRow, ClosedByNow, ReadOpen, SourcesApart, Moves, ThreadMove, ThreadHolds, Special, AfterClose, Ended, AtWrite,
         InSource, cancels, Closed, RUNNING, CANCELLED, COMPLETED, COMPLETED_WITH_ERRORS, FAILED

\* The thread writes what it made of the row it has read.
LEMMA Writes ==
    ASSUME CentreInv, pc \in AtWrite, ~(pc = "vb_close" /\ cur[1] # Only),
           NEW mine, IsRow(mine), run' = UpdateChanged(run, runSeen, mine), UNCHANGED <<runSeen, cancels>>,
           runSeen.status = RUNNING => mine.status \in Closed,
           runSeen.status # RUNNING => mine.status = runSeen.status,
           \/ pc' \in Ended
           \/ pc = "dl_rule_failed" /\ pc' = "mark_read" /\ mine.status = FAILED
           \/ pc = "vb_close" /\ pc' = "vb_source" /\ UNCHANGED <<todo, cur>> /\ cur[1] = Only
    PROVE  Moves
<1>1. /\ IsRow(run')
      /\ run'.status = IF mine.status # runSeen.status THEN mine.status ELSE run.status
  BY UpdatedRow DEF CentreInv
<1>2. CASE runSeen.status = RUNNING
  <2>1. ThreadHolds /\ run'.status \in Closed
    BY <1>1, <1>2 DEF ThreadHolds, Closed, RUNNING, COMPLETED, COMPLETED_WITH_ERRORS, FAILED
  <2>2. ~ThreadHolds' /\ UNCHANGED cpc
    BY DEF ThreadHolds, AtWrite, Ended, cancels
  <2>3. CentreInv'
    BY <1>1, <1>2, <2>1 DEF CentreInv, ClosedByNow, ReadOpen, SourcesApart, Ended, AtWrite, InSource, Several,
       Closed, RUNNING, CANCELLED, COMPLETED, COMPLETED_WITH_ERRORS, FAILED
  <2> QED BY <2>1, <2>2, <2>3 DEF Moves, ThreadMove
<1>3. CASE runSeen.status # RUNNING
  <2>1. run'.status = run.status
    BY <1>1, <1>3
  <2>2. ~ThreadHolds' /\ UNCHANGED cpc
    BY DEF ThreadHolds, AtWrite, Ended, cancels
  <2>3. CentreInv'
    BY <1>1, <1>3, <2>1 DEF CentreInv, ClosedByNow, ReadOpen, SourcesApart, Ended, AtWrite, InSource, Several,
       Closed, RUNNING, CANCELLED, COMPLETED, COMPLETED_WITH_ERRORS, FAILED
  <2> QED BY <2>1, <2>2, <2>3 DEF Moves, ThreadMove
<1> QED BY <1>2, <1>3

-----------------------------------------------------------------------------
\* Steps that several tasks take.
LEMMA RaiseMoves ==
    ASSUME CentreInv, NEW at, NEW pending, NEW handler, Raise(at, pending, handler),
           handler \in Ended \/ (handler = "mark_read" /\ at \cap AfterClose = {})
    PROVE  Moves
  BY Calm DEF Raise, runRows, cancels, CentreInv, Special, AfterClose, AtWrite, InSource

\* The commit of a finalisation.
LEMMA FinalMoves ==
    ASSUME CentreInv, NEW at \in {"final_commit", "vb_final_commit"}, NEW override \in Closed \cup {NoOverride},
           FinalCommit(at, override)
    PROVE  Moves
<1>1. IsRow(runSeen) /\ runSeen.status = RUNNING /\ pc = at /\ pc \in AtWrite
  BY DEF CentreInv, ReadOpen, FinalCommit, AtWrite, CANCELLED
<1> DEFINE mine == finalize_run_with_summary(runSeen, View, override)
<1>2. IsRow(mine) /\ mine.status \in Closed
  BY <1>1, FinalRow
<1>3. run' = UpdateChanged(run, runSeen, mine) /\ UNCHANGED <<runSeen, cancels>> /\ pc' \in Ended
  BY DEF FinalCommit, Ended
<1> HIDE DEF mine
<1> QED BY <1>1, <1>2, <1>3, Writes

\* Its read, which ends the thread when the run is cancelled.
LEMMA FinalReadMoves ==
    ASSUME CentreInv, NEW at \in {"final_read", "vb_final_read"}, NEW after \in {"final_commit", "vb_final_commit"},
           FinalRead(at, after)
    PROVE  Moves
<1>1. CASE run.status = CANCELLED
  <2>1. pc' = "done" /\ runSeen' = run /\ UNCHANGED <<run, cancels>>
    BY <1>1 DEF FinalRead, runRows
  <2> QED BY <2>1 DEF CentreInv, ClosedByNow, ReadOpen, SourcesApart, Moves, ThreadMove, ThreadHolds, cancels, Ended,
       AtWrite, InSource
<1>2. CASE run.status # CANCELLED
  BY <1>2, Reads DEF FinalRead, runRows, AfterClose, Ended, AtWrite
<1> QED BY <1>1, <1>2

\* The loop that cluster status and AD share.
LEMMA SerialMoves ==
    ASSUME CentreInv, SerialLoop \/ SerialFinal
    PROVE  Moves
<1> USE DEF plan, runRows, Special, AfterClose, Ended, AtWrite, InSource
<1>0. IsRow(run)
  BY DEF CentreInv
<1>1. ASSUME InitItems("launched", "begin") PROVE Moves
  <2>1. IsRow(run') /\ run'.status = run.status
    BY <1>0, <1>1 DEF InitItems, IsRow
  <2> QED BY <1>1, <2>1, Calm DEF InitItems
<1>2. ASSUME BeginLoop("begin", keys, "loop") PROVE Moves
  BY <1>0, <1>2, Calm DEF BeginLoop
<1>3. ASSUME TakeNext("loop", "start") PROVE Moves
  BY <1>0, <1>3, Calm DEF TakeNext
<1>4. ASSUME LoadItem("start", start_item(items[cur]), "start_commit") PROVE Moves
  BY <1>0, <1>4, Calm DEF LoadItem
<1>5. ASSUME CommitItems("start_commit", "work") \/ CommitItems("settle", "loop") PROVE Moves
  BY <1>0, <1>5, Calm DEF CommitItems
<1>6. ASSUME Goto("loop", "final_read") PROVE Moves
  BY <1>0, <1>6, Calm DEF Goto
<1>7. ASSUME NEW ok \in BOOLEAN, Decide("work", ok, "settle") PROVE Moves
  BY <1>0, <1>7, Calm DEF Decide, LoadOutcome
<1>8. ASSUME FinalRead("final_read", "final_commit") PROVE Moves
  BY <1>8, FinalReadMoves DEF FinalRead
<1>9. ASSUME FinalCommit("final_commit", PartialFailure) PROVE Moves
  <2>1. PartialFailure \in Closed \cup {NoOverride}
    BY DEF PartialFailure, Closed
  <2> QED BY <1>9, <2>1, FinalMoves
<1> QED BY <1>1, <1>2, <1>3, <1>4, <1>5, <1>6, <1>7, <1>8, <1>9 DEF SerialLoop, SerialFinal, Settle

\* The handler that marks the run as failed.
LEMMA FailMoves ==
    ASSUME CentreInv, FailRun
    PROVE  Moves
<1>1. ASSUME MarkRead("mark_read", "done") PROVE Moves
  <2>1. /\ pc = "mark_read" /\ UNCHANGED <<run, cancels>> /\ runSeen' = run
        /\ pc' = IF run.status = CANCELLED THEN "done" ELSE "mark_commit"
    BY <1>1 DEF MarkRead, runRows
  <2> QED BY <2>1 DEF CentreInv, IsRow, ClosedByNow, ReadOpen, SourcesApart, Moves, ThreadMove, ThreadHolds, Ended,
       AtWrite, InSource, cancels, Closed, RUNNING, CANCELLED, COMPLETED, COMPLETED_WITH_ERRORS, FAILED
<1>2. ASSUME MarkCommit("done") PROVE Moves
  <2> DEFINE mine == mark_run_failed(runSeen, View)
  <2>1. IsRow(mine) /\ mine.status = FAILED
    BY MarkedRow DEF CentreInv
  <2>2. /\ pc = "mark_commit" /\ pc' = "done" /\ UNCHANGED <<runSeen, cancels>>
        /\ run' = UpdateChanged(run, runSeen, mine)
    BY <1>2 DEF MarkCommit
  <2>3. runSeen.status \in {RUNNING, FAILED}
    BY <2>2 DEF CentreInv, ReadOpen, AtWrite, RUNNING, CANCELLED, FAILED
  <2> HIDE DEF mine
  <2> QED BY <2>1, <2>2, <2>3, Writes DEF AtWrite, Ended, Closed
<1> QED BY <1>1, <1>2 DEF FailRun

\* The thread turns to the recount of a run it has found cancelled.
LEMMA TurnsAway ==
    ASSUME CentreInv, UNCHANGED <<run, runSeen, cancels>>, run.status = CANCELLED, pc' = "cur_cancelled"
    PROVE  Moves
  BY DEF CentreInv, ClosedByNow, ReadOpen, SourcesApart, Moves, ThreadMove, ThreadHolds, AtWrite, InSource, cancels,
     Closed, RUNNING, CANCELLED, COMPLETED, COMPLETED_WITH_ERRORS, FAILED

\* The recount of a cancelled run leaves its status alone.
LEMMA RecountMoves ==
    ASSUME CentreInv, NEW at, RecountCancelled(at), run.status = CANCELLED
    PROVE  Moves
<1>1. IsRow(run') /\ run'.status = run.status
  BY RowFacts DEF CentreInv, RecountCancelled
<1> QED BY <1>1, Calm DEF RecountCancelled, Ended

\* capacity_aggregate_current
LEMMA CurrentMoves ==
    ASSUME CentreInv, CurrentStep
    PROVE  Moves
<1> USE DEF plan, runRows, Special, AfterClose, Ended, AtWrite, InSource
<1>0. IsRow(run)
  BY DEF CentreInv
<1>1. ASSUME CurBegin PROVE Moves
  <2>1. ASSUME CheckCancelled("launched", "done", "cur_init") PROVE Moves
    BY <1>0, <2>1, Calm DEF CheckCancelled, Goto
  <2>2. ASSUME InitItems("cur_init", "cur_summary") PROVE Moves
    <3>1. IsRow(run') /\ run'.status = run.status
      BY <1>0, <2>2 DEF InitItems, IsRow
    <3> QED BY <2>2, <3>1, Calm DEF InitItems
  <2>3. ASSUME CurSummary("cur_summary", "cur_list") PROVE Moves
    <3>1. IsRow(run') /\ run'.status = run.status
      BY <1>0, <2>3, RowFacts DEF CurSummary
    <3> QED BY <2>3, <3>1, Calm DEF CurSummary
  <2> QED BY <1>1, <2>1, <2>2, <2>3 DEF CurBegin
<1>2. ASSUME NEW listed \in SUBSET PlainKeys, CurList(listed) PROVE Moves
  BY <1>0, <1>2, Calm DEF CurList
<1>3. ASSUME CurRunnerDone PROVE Moves
  BY <1>0, <1>3, Calm DEF CurRunnerDone, Goto
<1>4. ASSUME CurTake PROVE Moves
  BY <1>0, <1>4, Calm DEF CurTake, TakeNext
<1>5. ASSUME CurStart PROVE Moves
  <2>1. ASSUME run.status = CANCELLED, Goto("cur_start", "cur_cancelled") PROVE Moves
    BY <2>1, TurnsAway DEF Goto
  <2>2. ASSUME LoadItem("cur_start", start_item(items[cur]), "cur_start_commit") PROVE Moves
    BY <1>0, <2>2, Calm DEF LoadItem
  <2>3. ASSUME CommitItems("cur_start_commit", "cur_work") PROVE Moves
    BY <1>0, <2>3, Calm DEF CommitItems
  <2> QED BY <1>5, <2>1, <2>2, <2>3 DEF CurStart
<1>6. ASSUME CurUnknown PROVE Moves
  BY <1>0, <1>6, Calm DEF CurUnknown, Goto
<1>7. ASSUME NEW ok \in BOOLEAN, CurReport(ok) PROVE Moves
  <2>1. CASE run.status = CANCELLED
    BY <1>7, <2>1, TurnsAway DEF CurReport
  <2>2. CASE run.status # CANCELLED
    BY <1>0, <1>7, <2>2, Calm DEF CurReport
  <2> QED BY <2>1, <2>2
<1>8. ASSUME CurCommit PROVE Moves
  BY <1>0, <1>8, Calm DEF CurCommit, CommitItems
<1>9. ASSUME CurCancelled PROVE Moves
  <2>1. run.status = CANCELLED
    BY <1>9 DEF CurCancelled, RecountCancelled, CentreInv
  <2> QED BY <1>9, <2>1, RecountMoves DEF CurCancelled
<1>10. ASSUME CurEnd PROVE Moves
  <2>1. IsRow(run') /\ run'.status = run.status
    BY <1>0, <1>10, RowFacts DEF CurEnd, CurSummary
  <2> QED BY <1>10, <2>1, Calm DEF CurEnd, CurSummary
<1>11. ASSUME CurFinal PROVE Moves
  <2>1. CASE pc = "cur_final_read"
    BY <1>11, <2>1, Reads DEF CurFinal
  <2>2. CASE pc = "cur_final_commit"
    <3> DEFINE mine == finalize_run(runSeen, items)
    <3>1. runSeen.status \in {RUNNING, CANCELLED} /\ IsRow(runSeen)
      BY <2>2 DEF CentreInv, ReadOpen
    <3>2. /\ IsRow(mine)
          /\ runSeen.status = RUNNING => mine.status \in Closed
          /\ runSeen.status # RUNNING => mine.status = runSeen.status
      BY <3>1, RowFacts DEF Closed
    <3>3. run' = UpdateChanged(run, runSeen, mine) /\ UNCHANGED <<runSeen, cancels>> /\ pc' = "done"
      BY <1>11, <2>2 DEF CurFinal
    <3> HIDE DEF mine
    <3> QED BY <2>2, <3>2, <3>3, Writes
  <2> QED BY <1>11, <2>1, <2>2 DEF CurFinal
<1>12. ASSUME FailRun PROVE Moves
  BY <1>12, FailMoves
<1> QED BY <1>1, <1>2, <1>3, <1>4, <1>5, <1>6, <1>7, <1>8, <1>9, <1>10, <1>11, <1>12 DEF CurrentStep

\* calculate_account
LEMMA DailyMoves ==
    ASSUME CentreInv, DailyStep
    PROVE  Moves
<1> USE DEF plan, runRows, Special, AfterClose, Ended, AtWrite, InSource
<1>0. IsRow(run) /\ IsRow(runSeen)
  BY DEF CentreInv
<1>1. ASSUME DlStart PROVE Moves
  BY <1>0, <1>1, Calm DEF DlStart, Goto
<1>2. ASSUME DlItems PROVE Moves
  <2>1. ASSUME InitItems("dl_init", "dl_accounts") PROVE Moves
    <3>1. IsRow(run') /\ run'.status = run.status
      BY <1>0, <2>1 DEF InitItems, IsRow
    <3> QED BY <2>1, <3>1, Calm DEF InitItems
  <2>2. ASSUME Goto("dl_accounts", "mark_read") PROVE Moves
    BY <1>0, <2>2, Calm DEF Goto
  <2>3. ASSUME BeginLoop("dl_accounts", keys, "dl_loop") PROVE Moves
    BY <1>0, <2>3, Calm DEF BeginLoop
  <2> QED BY <1>2, <2>1, <2>2, <2>3 DEF DlItems
<1>3. ASSUME DlCancelled PROVE Moves
  BY <1>3, RecountMoves DEF DlCancelled
<1>4. ASSUME DlRule PROVE Moves
  <2>1. ASSUME TakeNext("dl_loop", "dl_start") PROVE Moves
    BY <1>0, <2>1, Calm DEF TakeNext
  <2>2. ASSUME LoadItem("dl_start", start_item(items[cur]), "dl_start_commit")
               \/ LoadItem("dl_work", complete_item(items[cur]), "dl_commit") PROVE Moves
    BY <1>0, <2>2, Calm DEF LoadItem
  <2>3. ASSUME CommitItems("dl_start_commit", "dl_work") \/ CommitItems("dl_commit", "dl_loop") PROVE Moves
    BY <1>0, <2>3, Calm DEF CommitItems
  <2>4. ASSUME Goto("dl_loop", "dl_stats") PROVE Moves
    BY <1>0, <2>4, Calm DEF Goto
  <2> QED BY <1>4, <2>1, <2>2, <2>3, <2>4 DEF DlRule
<1>5. ASSUME DlRuleFails PROVE Moves
  BY <1>5, Reads DEF DlRuleFails
<1>6. ASSUME DlRuleFailed PROVE Moves
  <2>1. pc = "dl_rule_failed" /\ pc' = "mark_read" /\ UNCHANGED <<runSeen, cancels>>
    BY <1>6 DEF DlRuleFailed
  <2>2. CASE runSeen.status = CANCELLED
    BY <1>0, <1>6, <2>1, <2>2, Calm DEF DlRuleFailed
  <2>3. CASE runSeen.status # CANCELLED
    <3> DEFINE mine == mark_run_failed(runSeen, View)
    <3>1. IsRow(mine) /\ mine.status = FAILED
      BY <1>0, MarkedRow
    <3>2. run' = UpdateChanged(run, runSeen, mine)
      BY <1>6, <2>3 DEF DlRuleFailed
    <3>3. runSeen.status = RUNNING
      BY <2>1, <2>3 DEF CentreInv, ReadOpen
    <3> HIDE DEF mine
    <3> QED BY <2>1, <3>1, <3>2, <3>3, Writes DEF Closed
  <2> QED BY <2>2, <2>3
<1>7. ASSUME DlStats PROVE Moves
  BY <1>0, <1>7, Calm DEF DlStats, CheckCancelled, Goto
<1>8. ASSUME DlFinalRead PROVE Moves
  BY <1>8, Reads DEF DlFinalRead
<1>9. ASSUME DlFinalCommit PROVE Moves
  <2>1. pc = "dl_final_commit" /\ pc' = "done" /\ UNCHANGED <<runSeen, cancels>>
    BY <1>9 DEF DlFinalCommit
  <2>2. CASE runSeen.status = CANCELLED
    BY <1>0, <1>9, <2>1, <2>2, Calm DEF DlFinalCommit
  <2>3. CASE runSeen.status # CANCELLED
    <3> DEFINE mine == finalize_run_with_summary(runSeen, items, NoOverride)
    <3>1. runSeen.status = RUNNING
      BY <2>1, <2>3 DEF CentreInv, ReadOpen
    <3>2. IsRow(mine) /\ mine.status \in Closed
      BY <1>0, <3>1, FinalRow
    <3>3. run' = UpdateChanged(run, runSeen, mine)
      BY <1>9, <2>3 DEF DlFinalCommit
    <3> HIDE DEF mine
    <3> QED BY <2>1, <3>1, <3>2, <3>3, Writes
  <2> QED BY <2>2, <2>3
<1>10. ASSUME FailRun PROVE Moves
  BY <1>10, FailMoves
<1> QED BY <1>1, <1>2, <1>3, <1>4, <1>5, <1>6, <1>7, <1>8, <1>9, <1>10 DEF DailyStep

\* sync_jumpserver_assets
LEMMA JumpServerMoves ==
    ASSUME CentreInv, JumpServerStep \/ JumpServerRaises
    PROVE  Moves
<1> USE DEF plan, runRows, Special, AfterClose, Ended, AtWrite, InSource
<1>0. IsRow(run) /\ IsRow(runSeen)
  BY DEF CentreInv
<1>1. ASSUME JsStart PROVE Moves
  BY <1>0, <1>1, Calm DEF JsStart
<1>2. ASSUME JsFetched PROVE Moves
  BY <1>2, Reads DEF JsFetched, JsLoad
<1>3. ASSUME JsFailed PROVE Moves
  BY <1>3, Reads DEF JsFailed, JsLoad
<1>4. ASSUME JsClose PROVE Moves
  <2> DEFINE mine == finalize_run(IF runSeen.status = CANCELLED THEN runSeen ELSE write_summary(runSeen), View)
  <2>1. /\ pc = "js_close" /\ pc' = "done" /\ UNCHANGED <<runSeen, cancels>>
        /\ run' = UpdateChanged(run, runSeen, mine)
    BY <1>4 DEF JsClose
  <2>2. runSeen.status \in {RUNNING, CANCELLED}
    BY <2>1 DEF CentreInv, ReadOpen
  <2>3. CASE runSeen.status = CANCELLED
    <3>1. IsRow(mine) /\ mine.status = runSeen.status
      BY <1>0, <2>3, RowFacts
    <3> HIDE DEF mine
    <3> QED BY <2>1, <2>3, <3>1, Writes DEF RUNNING, CANCELLED
  <2>4. CASE runSeen.status = RUNNING
    <3>1. IsRow(write_summary(runSeen)) /\ write_summary(runSeen).status = RUNNING /\ RUNNING # CANCELLED
      BY <1>0, <2>4, RowFacts DEF RUNNING, CANCELLED
    <3>2. IsRow(mine) /\ mine.status \in Closed
      BY <2>4, <3>1, RowFacts DEF Closed
    <3> HIDE DEF mine
    <3> QED BY <2>1, <2>4, <3>2, Writes
  <2> QED BY <2>2, <2>3, <2>4
<1>5. ASSUME JsRefuse PROVE Moves
  BY <1>0, <1>5, Calm DEF JsRefuse, Goto
<1>6. ASSUME JsLost PROVE Moves
  BY <1>6, RaiseMoves DEF JsLost
<1> QED BY <1>1, <1>2, <1>3, <1>4, <1>5, <1>6 DEF JumpServerStep, JumpServerRaises

\* On the way through the sources the run is open and its status is left alone.
LEMMA OnWay ==
    ASSUME CentreInv, UNCHANGED <<run, runSeen, cancels>>, run.status \notin Closed, SourcesApart',
           pc' \in (InSource \ {"vb_close"}) \cup {"vb_source"}
    PROVE  Moves
  BY DEF CentreInv, ClosedByNow, ReadOpen, Moves, ThreadMove, ThreadHolds, AtWrite, InSource, cancels

\* sync_veeam_backups
LEMMA VeeamMoves ==
    ASSUME CentreInv, VeeamStep \/ VeeamRaises
    PROVE  Moves
<1> USE DEF plan, runRows, Special, AfterClose, Ended, AtWrite, InSource
<1>0. IsRow(run) /\ IsRow(runSeen) /\ ClosedByNow /\ SourcesApart
  BY DEF CentreInv
<1>a. pc \notin AfterClose => run.status \notin Closed
  BY <1>0 DEF ClosedByNow
<1>1. ASSUME NEW sources \in SUBSET (Subjects \ {Only}), VbSources(sources) PROVE Moves
  <2>1. CASE sources = {}
    BY <1>0, <1>1, <2>1, Calm DEF VbSources
  <2>2. CASE sources # {}
    <3>1. Several(Prefixes(sources) \X {1}) \/ Prefixes(sources) \X {1} \subseteq {<<Only, 1>>}
      BY DEF Prefixes, Several
    <3>2. SourcesApart'
      BY <1>1, <2>2, <3>1 DEF VbSources, SourcesApart, Several
    <3> QED BY <1>1, <1>a, <2>2, <3>2, OnWay DEF VbSources
  <2> QED BY <2>1, <2>2
<1>2. ASSUME VbTake PROVE Moves
  <2>1. run.status \notin Closed
    BY <1>0, <1>2 DEF VbTake, TakeNext, ClosedByNow
  <2>2. SourcesApart'
    BY <1>0, <1>2 DEF VbTake, TakeNext, SourcesApart, Several
  <2> QED BY <1>2, <2>1, <2>2, OnWay DEF VbTake, TakeNext
<1>3. ASSUME VbSkipSource PROVE Moves
  <2>1. SourcesApart'
    BY <1>0, <1>3 DEF VbSkipSource, SourcesApart, Several, focus
  <2> QED BY <1>3, <1>a, <2>1, OnWay DEF VbSkipSource
<1>4. ASSUME VbEnter PROVE Moves
  <2>1. SourcesApart'
    BY <1>0, <1>4 DEF VbEnter, Goto, SourcesApart, Several, focus
  <2> QED BY <1>4, <1>a, <2>1, OnWay DEF VbEnter, Goto
<1>5. ASSUME VbStage PROVE Moves
  <2>1. /\ pc \in {"vb_stage", "vb_stage_commit", "vb_work"} /\ pc' \in {"vb_stage_commit", "vb_work", "vb_stage_done"}
        /\ UNCHANGED <<run, runSeen, cancels, todo, cur>>
    BY <1>5 DEF VbStage, LoadItem, CommitItems, focus
  <2>2. SourcesApart'
    BY <1>0, <2>1 DEF SourcesApart, Several
  <2> QED BY <1>a, <2>1, <2>2, OnWay
<1>6. ASSUME VbNextStage PROVE Moves
  <2>1. SourcesApart'
    BY <1>0, <1>6 DEF VbNextStage, SourcesApart, Several
  <2>2. pc = "vb_stage_done"
    BY <1>6, <1>0 DEF VbNextStage
  <2> QED BY <1>6, <1>a, <2>1, <2>2, OnWay DEF VbNextStage
<1>7. ASSUME VbWritten PROVE Moves
  BY <1>0, <1>7, Reads DEF VbWritten, VbLoad, SourcesApart, Several, focus
<1>8. ASSUME VbFailed PROVE Moves
  <2>1. /\ pc \in InSource /\ pc' = "vb_close" /\ UNCHANGED <<run, cancels, todo, cur>> /\ runSeen' = run
    BY <1>8 DEF VbFailed, VbLoad, focus
  <2> QED BY <1>0, <2>1, Reads DEF SourcesApart, Several
<1>9. ASSUME VbClose PROVE Moves
  <2>1. pc = "vb_close" /\ pc' = "vb_source" /\ UNCHANGED <<runSeen, cancels, todo, cur>>
    BY <1>9 DEF VbClose, focus
  <2>2. CASE cur[1] = Only /\ runSeen.status # CANCELLED
    <3> DEFINE mine == finalize_run_with_summary(runSeen, View, NoOverride)
    <3>1. runSeen.status = RUNNING
      BY <2>1, <2>2 DEF CentreInv, ReadOpen
    <3>2. IsRow(mine) /\ mine.status \in Closed
      BY <1>0, <3>1, FinalRow
    <3>3. run' = UpdateChanged(run, runSeen, mine)
      BY <1>9, <2>2 DEF VbClose
    <3> HIDE DEF mine
    <3> QED BY <2>1, <2>2, <3>1, <3>2, <3>3, Writes
  <2>3. CASE ~(cur[1] = Only /\ runSeen.status # CANCELLED)
    <3>1. UNCHANGED run
      BY <1>9, <2>3 DEF VbClose
    <3>2. SourcesApart'
      BY <1>0, <2>1 DEF SourcesApart, Several
    <3> QED BY <1>a, <2>1, <3>1, <3>2, OnWay
  <2> QED BY <2>2, <2>3
<1>10. ASSUME VbDone PROVE Moves
  <2>1. /\ pc = "vb_source" /\ pc' = IF cur[1] = Only THEN "vb_append" ELSE "vb_final_read"
        /\ UNCHANGED <<run, runSeen, cancels>>
    BY <1>10 DEF VbDone, Goto
  <2> QED BY <2>1 DEF CentreInv, ClosedByNow, ReadOpen, SourcesApart, Moves, ThreadMove, ThreadHolds, cancels
<1>11. ASSUME VbFinal PROVE Moves
  <2>1. (IF synced > 0 /\ failed > 0 THEN COMPLETED ELSE NoOverride) \in Closed \cup {NoOverride}
    BY DEF Closed
  <2> QED BY <1>11, <2>1, FinalReadMoves, FinalMoves DEF VbFinal
<1>12. ASSUME VbAppend PROVE Moves
  <2>1. IsRow(run') /\ run'.status = run.status
    BY <1>0, <1>12, RowFacts DEF VbAppend
  <2> QED BY <1>12, <2>1, Calm DEF VbAppend
<1>13. ASSUME VbEarly PROVE Moves
  BY <1>0, <1>13, Calm DEF VbEarly, Goto
<1>14. ASSUME VbLost PROVE Moves
  BY <1>14, RaiseMoves DEF VbLost
<1> QED BY <1>1, <1>2, <1>3, <1>4, <1>5, <1>6, <1>7, <1>8, <1>9, <1>10, <1>11, <1>12, <1>13, <1>14
        DEF VeeamStep, VeeamRaises

-----------------------------------------------------------------------------
\* Whatever the task: a step, an exception, the end of the process.
LEMMA TaskMoves ==
    ASSUME CentreInv, TaskStep \/ TaskRaises \/ TaskDies
    PROVE  Moves
<1>1. ASSUME ClusterStep \/ ADStep PROVE Moves
  BY <1>1, SerialMoves, FailMoves DEF ClusterStep, ADStep
<1>2. ASSUME ClusterRaises \/ ADEscapes PROVE Moves
  BY <1>2, RaiseMoves DEF ClusterRaises, ADEscapes, AfterClose, Ended
<1>3. ASSUME CurrentRaises PROVE Moves
  BY <1>3, RaiseMoves DEF CurrentRaises, AfterClose, Ended
<1>4. ASSUME DailyRaises PROVE Moves
  <2>1. ASSUME DlRuleFails PROVE Moves
    BY <2>1, Reads DEF DlRuleFails, runRows, AfterClose, Ended, AtWrite
  <2> QED BY <1>4, <2>1, RaiseMoves DEF DailyRaises, AfterClose, Ended
<1>5. ASSUME TaskDies PROVE Moves
  <2>1. IsRow(run) /\ UNCHANGED <<run, runSeen, cancels>> /\ pc' \in Ended
    BY <1>5 DEF CentreInv, TaskDies, Die, runRows, Ended
  <2> QED BY <2>1, Calm
<1> QED BY <1>1, <1>2, <1>3, <1>4, <1>5, CurrentMoves, DailyMoves, JumpServerMoves, VeeamMoves DEF TaskStep, TaskRaises

-----------------------------------------------------------------------------
(* The requests                                                            *)

\* Where a request may be.
CancelsOK == cpc \in [RunCancels -> {"read", "flush", "commit", "refused", "done"}]

\* The requests that have read "running".
Requesting == {c \in RunCancels : cpc[c] \in {"flush", "commit"}}

\* A request reads, writes or gives up as the promise says, and what holds of
\* the thread is left as it is.
LEMMA RequestMoves ==
    ASSUME CentreInv, CancelsOK, NEW c \in RunCancels, Request(c)
    PROVE  [Centre!Next]_(Centre!statusVars) /\ CentreInv' /\ CancelsOK'
<1>1. UNCHANGED <<pc, todo, cur, runSeen>>
  BY DEF Request, RunCancelStep, CancelRead, CancelFlush, CancelCommit, CancelAborts, focus
<1>2. \/ UNCHANGED run
      \/ run' = [run EXCEPT !.status = CANCELLED]
  BY DEF Request, RunCancelStep, CancelRead, CancelFlush, CancelCommit, CancelAborts, runRows
<1>3. CentreInv'
  <2>1. IsRow(run') /\ (run'.status = run.status \/ run'.status = CANCELLED)
    BY <1>2 DEF CentreInv, IsRow
  <2> QED BY <1>1, <2>1 DEF CentreInv, IsRow, ClosedByNow, ReadOpen, SourcesApart, Closed, CANCELLED, COMPLETED, COMPLETED_WITH_ERRORS, FAILED
<1>4. CancelsOK'
  BY DEF CancelsOK, Request, RunCancelStep, CancelRead, CancelFlush, CancelCommit, CancelAborts
<1>5. ThreadHolds' <=> ThreadHolds
  BY <1>1 DEF ThreadHolds
<1>6. /\ Holding = IF ThreadHolds THEN Requesting \cup {Thread} ELSE Requesting
      /\ Holding' = IF ThreadHolds THEN Requesting' \cup {Thread} ELSE Requesting'
      /\ c # Thread
  BY <1>5, ThreadIsNoRequest DEF Holding, ThreadHolds, Requesting
<1>7. ASSUME CancelRead(c) PROVE [Centre!Next]_(Centre!statusVars)
  <2>1. CASE run.status = RUNNING
    <3>1. Requesting' = Requesting \cup {c} /\ UNCHANGED run
      BY <1>7, <2>1 DEF CancelsOK, CancelRead, Requesting, runRows
    <3>2. Centre!Read(c)
      BY <1>6, <2>1, <3>1 DEF Centre!Read, RUNNING, Centre!RUNNING
    <3> QED BY <3>2 DEF Centre!Next
  <2>2. CASE run.status # RUNNING
    <3>1. Requesting' = Requesting /\ UNCHANGED run
      BY <1>7, <2>2 DEF CancelsOK, CancelRead, Requesting, runRows
    <3> QED BY <1>6, <3>1 DEF Centre!statusVars
  <2> QED BY <2>1, <2>2
<1>8. ASSUME CancelFlush(c) PROVE [Centre!Next]_(Centre!statusVars)
  <2>1. Requesting' = Requesting /\ UNCHANGED run
    BY <1>8 DEF CancelsOK, CancelFlush, Requesting, runRows
  <2> QED BY <1>6, <2>1 DEF Centre!statusVars
<1>9. ASSUME CancelCommit(c) PROVE [Centre!Next]_(Centre!statusVars)
  <2>1. c \in Requesting /\ Requesting' = Requesting \ {c} /\ run'.status = CANCELLED
    BY <1>9 DEF CancelsOK, CancelCommit, Requesting, CentreInv, IsRow
  <2>2. Centre!Write(c)
    BY <1>6, <2>1 DEF Centre!Write, Centre!Verdicts, CANCELLED, Centre!CANCELLED
  <2> QED BY <2>2 DEF Centre!Next
<1>10. ASSUME CancelAborts(c) PROVE [Centre!Next]_(Centre!statusVars)
  <2>1. Requesting' = Requesting \ {c} /\ UNCHANGED run
    BY <1>10 DEF CancelsOK, CancelAborts, Requesting, runRows
  <2>2. Centre!GiveUp(c)
    BY <1>6, <2>1 DEF Centre!GiveUp
  <2> QED BY <2>2 DEF Centre!Next
<1> QED BY <1>3, <1>4, <1>7, <1>8, <1>9, <1>10 DEF Request, RunCancelStep

-----------------------------------------------------------------------------
\* The first states: the run is running and nobody has read it.
LEMMA FirstState == Init => Centre!Init /\ CentreInv /\ CancelsOK
<1> SUFFICES ASSUME Init PROVE Centre!Init /\ CentreInv /\ CancelsOK
  OBVIOUS
<1>1. PICK prepared : ThreadInit(prepared)
  BY DEF Init, JumpServerInit, VeeamInit
<1>2. /\ IsRow(run) /\ run.status = RUNNING /\ runSeen = run /\ pc = "launched"
      /\ cpc = [c \in RunCancels |-> "read"]
  BY <1>1 DEF ThreadInit, start_run, IsRow
<1>3. Centre!Init
  BY <1>2 DEF Centre!Init, Holding, AtWrite, RUNNING, Centre!RUNNING
<1>4. CentreInv
  BY <1>2 DEF CentreInv, ClosedByNow, ReadOpen, SourcesApart, AtWrite, InSource, Closed, RUNNING, COMPLETED, COMPLETED_WITH_ERRORS, FAILED
<1>5. CancelsOK
  BY <1>2 DEF CancelsOK
<1> QED BY <1>3, <1>4, <1>5

\* Every step of the tasks and of the requests is one that the promise allows.
LEMMA EveryStep ==
    ASSUME CentreInv, CancelsOK, [Next]_vars
    PROVE  [Centre!Next]_(Centre!statusVars) /\ CentreInv' /\ CancelsOK'
<1>1. ASSUME TaskStep \/ TaskRaises \/ TaskDies
      PROVE  [Centre!Next]_(Centre!statusVars) /\ CentreInv' /\ CancelsOK'
  <2>1. ThreadMove /\ CentreInv'
    BY <1>1, TaskMoves DEF Moves
  <2>2. CancelsOK'
    BY <2>1 DEF ThreadMove, CancelsOK
  <2> QED BY <2>1, <2>2, ThreadMoveAllowed
<1>2. ASSUME NEW c \in RunCancels, Request(c)
      PROVE  [Centre!Next]_(Centre!statusVars) /\ CentreInv' /\ CancelsOK'
  BY <1>2, RequestMoves
<1>3. CASE UNCHANGED vars
  <2>1. UNCHANGED <<run, runSeen, pc, todo, cur, cpc>>
    BY <1>3 DEF vars, threadVars, runRows, focus, cancels
  <2>2. UNCHANGED Holding
    BY <2>1 DEF Holding
  <2> QED BY <2>1, <2>2 DEF CentreInv, IsRow, ClosedByNow, ReadOpen, SourcesApart, CancelsOK, Centre!statusVars
<1> QED BY <1>1, <1>2, <1>3 DEF Next, Terminating

(* Whatever task a run belongs to, however many items and requests there     *)
(* are and wherever the task fails: nobody writes the status of the run      *)
(* without having read "running", nobody writes it twice, and no run is ever *)
(* running again (TaskRunsWriteService and the threads of all tasks).        *)
THEOREM CentreKept == Spec => KeepsPromise
<1>1. Spec => [](CentreInv /\ CancelsOK)
  BY FirstState, EveryStep, PTL DEF Spec
<1>2. CentreInv /\ CancelsOK /\ [Next]_vars => [Centre!Next]_(Centre!statusVars)
  BY EveryStep
<1> QED BY FirstState, <1>1, <1>2, PTL DEF Spec, KeepsPromise, Centre!Spec

-----------------------------------------------------------------------------
(* The items and the effects committed with them. *)

\* An item and the effect committed with it tell the same.
Agree(st, e) ==
    /\ st = COMPLETED => e = COMPLETED
    /\ e = COMPLETED => st \in {COMPLETED, CANCELLED}
    /\ e = FAILED => st \in {FAILED, CANCELLED}
    /\ st # COMPLETED_WITH_ERRORS

\* Where the thread is about to commit an effect, the key it belongs to, and
\* the effects as they are after that commit.
Closing == {"settle", "js_close", "cur_commit", "vb_close"}
Target == IF pc = "vb_close" THEN SourceKey(cur) ELSE cur
Coming(k) ==
    IF pc \in Closing /\ k = Target
    THEN IF pc = "cur_commit" /\ effect[k] = FAILED THEN FAILED ELSE verdict
    ELSE effect[k]

\* Rows and the transaction under way agree with the effects.
Agreeing == \A k \in PairedKeys : Agree(items[k], effect[k]) /\ Agree(View[k], Coming(k))

\* Until the run itself is failed, an item fails with its effect.
Serial == {"loop", "start", "start_commit", "work", "settle"}
Working ==
    {"launched", "begin", "js_remote", "js_close", "vb_source", "cur_init", "cur_summary", "cur_list",
     "cur_loop", "cur_start", "cur_start_commit", "cur_work", "cur_commit"} \cup Serial \cup InSource
FailsWithEffect ==
    pc \in Working =>
        \A k \in PairedKeys :
            /\ items[k] = FAILED => effect[k] = FAILED
            /\ View[k] = FAILED => Coming(k) = FAILED

\* What is still to be done has had no effect, and is done once.
Untouched(k) == k \in PairedKeys => effect[k] = "none"
Fresh ==
    /\ pc \in {"launched", "begin", "cur_init", "js_remote", "js_close"} => \A k \in PairedKeys : effect[k] = "none"
    /\ pc \in Serial => \A k \in todo : Untouched(k)
    /\ pc \in {"start", "start_commit", "work"} => Untouched(cur)
    /\ pc \in {"start", "start_commit", "work", "settle"} => cur \notin todo
    /\ pc \in InSource \cup {"vb_source"} => \A k \in todo : k = <<k[1], 1>> /\ Untouched(SourceKey(k))
    /\ pc \in InSource => /\ cur = <<cur[1], cur[2]>> /\ cur[2] \in 1 .. LastStage /\ Untouched(SourceKey(cur))
                          /\ \A k \in todo : k[1] # cur[1]
    /\ pc = "vb_stage_done" => cur[2] < LastStage

\* Both are tables with a row per key.
Tables ==
    /\ items = [k \in ItemKeys |-> items[k]] /\ effect = [k \in ItemKeys |-> effect[k]]

EffectInv == Tables /\ Agreeing /\ FailsWithEffect /\ Fresh

\* The item operations, in terms of Agree.
LEMMA ItemOps ==
    ASSUME NEW st
    PROVE  /\ start_item(st) = st \/ (st \notin {COMPLETED, FAILED, CANCELLED} /\ start_item(st) = RUNNING)
           /\ complete_item(st) \in {COMPLETED, st} /\ (st # FAILED => complete_item(st) \in {COMPLETED, CANCELLED})
           /\ complete_item(st) = FAILED => st = FAILED
           /\ fail_item(st) \in {FAILED, CANCELLED} /\ cancel_item(st) \in {st, CANCELLED}
           /\ cancel_item(st) # FAILED \/ st = FAILED
  BY DEF start_item, complete_item, fail_item, cancel_item, TERMINAL, RUNNING, COMPLETED, COMPLETED_WITH_ERRORS, FAILED, CANCELLED

\* The tables seen by the thread.
LEMMA ViewFacts ==
    /\ View = [k \in ItemKeys |-> View[k]]
    /\ \A k \in ItemKeys : View[k] = IF k \in DOMAIN stage THEN stage[k] ELSE items[k]
  BY DEF View

LEMMA PairedAreKeys == PairedKeys \subseteq ItemKeys
  BY KeysArePairs, StagesPositive DEF PairedKeys, PlainKeys

\* A step that leaves the rows alone, changes no outcome and leads to no commit of an effect.
LEMMA Stays ==
    ASSUME EffectInv, UNCHANGED <<task, keys, items, effect>>, stage' = stage \/ stage' = NoChange,
           pc \notin Closing \/ stage' = NoChange, pc' \notin Closing, pc' \in Working => pc \in Working, Fresh'
    PROVE  EffectInv'
<1>1. Tables' /\ PairedKeys' = PairedKeys /\ PairedKeys \subseteq ItemKeys
  BY PairedAreKeys DEF EffectInv, Tables, PairedKeys
<1>2. \A k \in PairedKeys : /\ Coming(k)' = effect[k]
                            /\ View'[k] = items[k] \/ (View'[k] = View[k] /\ Coming(k) = effect[k])
  BY <1>1, ViewFacts DEF Coming, View, NoChange
<1> QED BY <1>1, <1>2 DEF EffectInv, Agreeing, FailsWithEffect

\* A step that commits what the thread has in hand, and the effect that goes with it.
LEMMA Commits ==
    ASSUME EffectInv, UNCHANGED <<task, keys>>, items' = View, stage' = NoChange,
           effect' = [k \in ItemKeys |-> Coming(k)],
           pc' \notin Closing, pc' \in Working => pc \in Working, Fresh'
    PROVE  EffectInv'
<1>1. PairedKeys' = PairedKeys /\ PairedKeys \subseteq ItemKeys
  BY PairedAreKeys DEF PairedKeys
<1>2. Tables'
  BY ViewFacts DEF EffectInv, Tables
<1>3. \A k \in PairedKeys : /\ Coming(k)' = effect'[k] /\ effect'[k] = Coming(k)
                            /\ View'[k] = items'[k] /\ items'[k] = View[k]
  BY <1>1, ViewFacts DEF Coming, View, NoChange
<1> QED BY <1>1, <1>2, <1>3 DEF EffectInv, Agreeing, FailsWithEffect

\* A step that changes what the thread has in hand.
LEMMA Changes ==
    ASSUME EffectInv, UNCHANGED <<task, keys, items, effect>>, Fresh', pc' \in Working => pc \in Working,
           \A k \in PairedKeys :
               /\ Agree(View'[k], Coming(k)')
               /\ pc' \in Working => (View'[k] = FAILED => Coming(k)' = FAILED)
    PROVE  EffectInv'
<1>1. Tables' /\ PairedKeys' = PairedKeys
  BY DEF EffectInv, Tables, PairedKeys
<1> QED BY <1>1 DEF EffectInv, Agreeing, FailsWithEffect

\* The current item is given a status by an operation of the run centre.
LEMMA Loads ==
    ASSUME EffectInv, NEW k0, NEW st, stage' = Change(k0, st), UNCHANGED <<task, keys, items>>
    PROVE  \A k \in PairedKeys : View'[k] = IF k = k0 THEN st ELSE items[k]
  BY PairedAreKeys DEF View, Change

\* The items are created: nothing has had an effect yet.
LEMMA Creates ==
    ASSUME EffectInv, UNCHANGED <<task, keys, effect, stage>>, items' = init_items(items, keys),
           pc \in {"launched", "cur_init"}, pc' \in {"begin", "cur_summary"}
    PROVE  EffectInv'
<1> USE DEF Closing, Working, Serial, InSource
<1>1. PairedKeys' = PairedKeys /\ PairedKeys \subseteq ItemKeys
  BY PairedAreKeys DEF PairedKeys
<1>2. \A k \in ItemKeys : items'[k] = IF k \in keys THEN PENDING ELSE items[k]
  BY DEF EffectInv, Tables, init_items
<1>3. Tables'
  BY DEF EffectInv, Tables, init_items
<1>4. \A k \in PairedKeys : /\ effect[k] = "none" /\ Coming(k)' = effect[k] /\ Coming(k) = effect[k]
                            /\ View'[k] \in {View[k], items'[k]} /\ items'[k] \in {PENDING, items[k]}
  BY <1>1, <1>2, ViewFacts DEF EffectInv, Fresh, Coming, View
<1>5. Fresh'
  BY <1>1, <1>4 DEF Fresh
<1> QED BY <1>1, <1>3, <1>4, <1>5 DEF EffectInv, Agreeing, FailsWithEffect, Agree, PENDING, COMPLETED, FAILED, CANCELLED, COMPLETED_WITH_ERRORS

\* A key is started.
LEMMA Starts ==
    ASSUME EffectInv, pc \in Working, NEW k \in PairedKeys
    PROVE  Agree(start_item(items[k]), effect[k]) /\ (start_item(items[k]) = FAILED => effect[k] = FAILED)
  BY ItemOps DEF EffectInv, Agreeing, FailsWithEffect, Agree, RUNNING, COMPLETED, FAILED, CANCELLED, COMPLETED_WITH_ERRORS

\* Every key agrees with its effect as it is committed.
LEMMA Settled ==
    ASSUME EffectInv, NEW k \in PairedKeys
    PROVE  Agree(items[k], effect[k]) /\ (pc \in Working => (items[k] = FAILED => effect[k] = FAILED))
  BY DEF EffectInv, Agreeing, FailsWithEffect

\* A key without an effect is given its outcome.
LEMMA Decides ==
    ASSUME EffectInv, pc \in Working, NEW ok \in BOOLEAN, NEW k \in PairedKeys, effect[k] = "none"
    PROVE  /\ Agree(Outcome(ok, items[k]), Verdict(ok))
           /\ Outcome(ok, items[k]) = FAILED => Verdict(ok) = FAILED
<1>1. items[k] \notin {COMPLETED, FAILED}
  BY DEF EffectInv, Agreeing, FailsWithEffect, Agree, COMPLETED, FAILED, COMPLETED_WITH_ERRORS
<1> QED BY <1>1, ItemOps DEF Outcome, Verdict, Agree, complete_item, fail_item, COMPLETED, FAILED, CANCELLED, COMPLETED_WITH_ERRORS

-----------------------------------------------------------------------------
\* The loop that cluster status and AD share.
LEMMA SerialKeeps ==
    ASSUME EffectInv, SerialLoop
    PROVE  EffectInv'
<1> USE DEF plan, runRows, focus, totals, cancels, effects, Closing, Working, Serial, InSource
<1>1. ASSUME InitItems("launched", "begin"), UNCHANGED effects PROVE EffectInv'
  BY <1>1, Creates DEF InitItems
<1>2. ASSUME BeginLoop("begin", keys, "loop"), UNCHANGED effects PROVE EffectInv'
  <2>1. Fresh'
    BY <1>2 DEF BeginLoop, EffectInv, Fresh, Untouched, PairedKeys
  <2> QED BY <1>2, <2>1, Stays DEF BeginLoop
<1>3. ASSUME TakeNext("loop", "start"), UNCHANGED effects PROVE EffectInv'
  <2>1. Fresh'
    BY <1>3 DEF TakeNext, EffectInv, Fresh, Untouched, PairedKeys
  <2> QED BY <1>3, <2>1, Stays DEF TakeNext
<1>4. ASSUME LoadItem("start", start_item(items[cur]), "start_commit"), UNCHANGED effects PROVE EffectInv'
  <2>1. Fresh'
    BY <1>4 DEF LoadItem, EffectInv, Fresh, Untouched, PairedKeys
  <2>2. \A k \in PairedKeys : View'[k] = (IF k = cur THEN start_item(items[cur]) ELSE items[k]) /\ Coming(k)' = effect[k]
    BY <1>4, Loads DEF LoadItem, Coming
  <2>3. \A k \in PairedKeys : Agree(View'[k], Coming(k)') /\ (View'[k] = FAILED => Coming(k)' = FAILED)
    BY <1>4, <2>2, Starts, Settled DEF LoadItem
  <2> QED BY <1>4, <2>1, <2>3, Changes DEF LoadItem
<1>5. ASSUME CommitItems("start_commit", "work"), UNCHANGED effects PROVE EffectInv'
  <2>1. Fresh'
    BY <1>5 DEF CommitItems, EffectInv, Fresh, Untouched, PairedKeys
  <2>2. effect' = [k \in ItemKeys |-> Coming(k)]
    BY <1>5 DEF CommitItems, EffectInv, Tables, Coming
  <2> QED BY <1>5, <2>1, <2>2, Commits DEF CommitItems
<1>6. ASSUME Goto("loop", "final_read"), UNCHANGED effects PROVE EffectInv'
  <2>1. Fresh'
    BY <1>6 DEF Goto, EffectInv, Fresh
  <2> QED BY <1>6, <2>1, Stays DEF Goto
<1>7. ASSUME NEW ok \in BOOLEAN, Decide("work", ok, "settle") PROVE EffectInv'
  <2>1. Fresh'
    BY <1>7 DEF Decide, LoadOutcome, EffectInv, Fresh, Untouched, PairedKeys
  <2>2. \A k \in PairedKeys : /\ View'[k] = (IF k = cur THEN Outcome(ok, items[cur]) ELSE items[k])
                              /\ Coming(k)' = (IF k = cur THEN Verdict(ok) ELSE effect[k])
    BY <1>7, Loads DEF Decide, LoadOutcome, Coming, Target
  <2>3. cur \in PairedKeys => effect[cur] = "none"
    BY <1>7 DEF Decide, LoadOutcome, EffectInv, Fresh, Untouched
  <2>4. \A k \in PairedKeys : Agree(View'[k], Coming(k)') /\ (View'[k] = FAILED => Coming(k)' = FAILED)
    BY <1>7, <2>2, <2>3, Decides, Settled DEF Decide
  <2> QED BY <1>7, <2>1, <2>4, Changes DEF Decide, LoadOutcome
<1>8. ASSUME Settle("settle", "loop") PROVE EffectInv'
  <2>1. effect' = [k \in ItemKeys |-> Coming(k)]
    BY <1>8 DEF Settle, CommitItems, EffectInv, Tables, Coming, Target
  <2>2. \A k \in ItemKeys : k # cur => effect'[k] = effect[k]
    BY <1>8 DEF Settle, EffectInv, Tables
  <2>3. Fresh'
    BY <1>8, <2>2, PairedAreKeys DEF Settle, CommitItems, EffectInv, Fresh, Untouched, PairedKeys
  <2> QED BY <1>8, <2>1, <2>3, Commits DEF Settle, CommitItems
<1> QED BY <1>1, <1>2, <1>3, <1>4, <1>5, <1>6, <1>7, <1>8 DEF SerialLoop
-----------------------------------------------------------------------------
\* The JumpServer synchronisation.
LEMMA JumpServerKeeps ==
    ASSUME EffectInv, JumpServerStep \/ JumpServerRaises
    PROVE  EffectInv'
<1> USE DEF plan, runRows, focus, totals, cancels, effects, Closing, Working, Serial, InSource
<1>1. ASSUME JsStart PROVE EffectInv'
  <2>1. Fresh'
    BY <1>1 DEF JsStart, EffectInv, Fresh, PairedKeys
  <2>2. \A k \in PairedKeys : View'[k] = (IF k = cur' THEN start_item(items[cur']) ELSE items[k]) /\ Coming(k)' = effect[k]
    BY <1>1, Loads DEF JsStart, Coming
  <2>3. \A k \in PairedKeys : Agree(View'[k], Coming(k)') /\ (View'[k] = FAILED => Coming(k)' = FAILED)
    BY <1>1, <2>2, Starts, Settled DEF JsStart
  <2> QED BY <1>1, <2>1, <2>3, Changes DEF JsStart
<1>2. ASSUME NEW st, NEW ok \in BOOLEAN, JsLoad(st, ok), pc \in {"js_remote", "js_close"},
             cur \in PairedKeys => Agree(st, Verdict(ok)) /\ (st = FAILED => Verdict(ok) = FAILED)
      PROVE  EffectInv'
  <2>1. Fresh'
    BY <1>2 DEF JsLoad, EffectInv, Fresh, PairedKeys
  <2>2. \A k \in PairedKeys : /\ View'[k] = (IF k = cur THEN st ELSE items[k])
                              /\ Coming(k)' = (IF k = cur THEN Verdict(ok) ELSE effect[k])
    BY <1>2, PairedAreKeys DEF JsLoad, View, Coming, Target
  <2>3. \A k \in PairedKeys : Agree(View'[k], Coming(k)') /\ (View'[k] = FAILED => Coming(k)' = FAILED)
    BY <1>2, <2>2, Settled
  <2> QED BY <1>2, <2>1, <2>3, Changes DEF JsLoad
<1>3. ASSUME JsFetched PROVE EffectInv'
  <2>1. cur \in PairedKeys => View[cur] # FAILED
    BY <1>3 DEF JsFetched, EffectInv, FailsWithEffect, Fresh, Coming, FAILED
  <2>2. cur \in PairedKeys => /\ Agree(complete_item(View[cur]), Verdict(TRUE))
                             /\ complete_item(View[cur]) # FAILED
    BY <2>1 DEF complete_item, Verdict, Agree, COMPLETED, FAILED, CANCELLED, COMPLETED_WITH_ERRORS
  <2> QED BY <1>2, <1>3, <2>2 DEF JsFetched
<1>4. ASSUME JsFailed PROVE EffectInv'
  <2>1. Agree(fail_item(items[cur]), Verdict(FALSE)) /\ Verdict(FALSE) = FAILED
    BY DEF fail_item, Verdict, Agree, COMPLETED, FAILED, CANCELLED, COMPLETED_WITH_ERRORS
  <2> QED BY <1>2, <1>4, <2>1 DEF JsFailed
<1>5. ASSUME JsClose PROVE EffectInv'
  <2>1. effect' = [k \in ItemKeys |-> Coming(k)]
    BY <1>5 DEF JsClose, EffectInv, Tables, Coming, Target
  <2>2. Fresh'
    BY <1>5 DEF JsClose, Fresh
  <2> QED BY <1>5, <2>1, <2>2, Commits DEF JsClose
<1>6. ASSUME JsRefuse \/ JsLost PROVE EffectInv'
  <2>1. Fresh'
    BY <1>6 DEF JsRefuse, JsLost, Goto, Raise, Fresh
  <2> QED BY <1>6, <2>1, Stays DEF JsRefuse, JsLost, Goto, Raise
<1> QED BY <1>1, <1>3, <1>4, <1>5, <1>6 DEF JumpServerStep, JumpServerRaises

\* The final status: read and commit, and the handler that fails the run.
LEMMA FinalKeeps ==
    ASSUME EffectInv, UNCHANGED effects,
           \/ \E at \in {"final_read", "vb_final_read"}, after \in {"final_commit", "vb_final_commit"} : FinalRead(at, after)
           \/ \E at \in {"final_commit", "vb_final_commit"} : \E override : FinalCommit(at, override)
           \/ \E at \in {"cur_cancelled"} : RecountCancelled(at)
           \/ MarkRead("mark_read", "done")
           \/ MarkCommit("done")
    PROVE  EffectInv'
<1> USE DEF plan, runRows, focus, totals, cancels, effects, Closing, Working, Serial, InSource
<1>1. ASSUME NEW at \in {"final_read", "vb_final_read"}, NEW after \in {"final_commit", "vb_final_commit"},
             FinalRead(at, after)
      PROVE  EffectInv'
  <2>1. Fresh'
    BY <1>1 DEF FinalRead, Fresh
  <2> QED BY <1>1, <2>1, Stays DEF FinalRead
<1>2. ASSUME NEW at \in {"final_commit", "vb_final_commit"}, NEW override, FinalCommit(at, override) PROVE EffectInv'
  <2>1. Fresh'
    BY <1>2 DEF FinalCommit, Fresh
  <2>2. effect' = [k \in ItemKeys |-> Coming(k)]
    BY <1>2 DEF FinalCommit, EffectInv, Tables, Coming
  <2> QED BY <1>2, <2>1, <2>2, Commits DEF FinalCommit
<1>3. ASSUME RecountCancelled("cur_cancelled") PROVE EffectInv'
  <2>1. Fresh'
    BY <1>3 DEF RecountCancelled, Fresh
  <2> QED BY <1>3, <2>1, Stays DEF RecountCancelled
<1>4. ASSUME MarkRead("mark_read", "done") PROVE EffectInv'
  <2>1. Fresh'
    BY <1>4 DEF MarkRead, Fresh
  <2>2. CASE run.status = CANCELLED
    BY <1>4, <2>1, <2>2, Stays DEF MarkRead
  <2>3. CASE run.status # CANCELLED
    <3>1. pc' = "mark_commit" /\ stage' = mark_items_failed(items) /\ UNCHANGED <<task, keys, items, effect>>
      BY <1>4, <2>3 DEF MarkRead
    <3>2. \A k \in PairedKeys : /\ View'[k] = (IF items[k] \in IN_PROGRESS THEN FAILED ELSE items[k])
                                /\ Coming(k)' = effect[k]
      BY <3>1, PairedAreKeys DEF View, Coming, mark_items_failed, ItemsIn, EffectInv, Tables
    <3>3. \A k \in PairedKeys : Agree(View'[k], Coming(k)')
      BY <3>2, Settled DEF Agree, IN_PROGRESS, PENDING, RUNNING, COMPLETED, FAILED, CANCELLED, COMPLETED_WITH_ERRORS
    <3> QED BY <2>1, <3>1, <3>3, Changes
  <2> QED BY <2>2, <2>3
<1>5. ASSUME MarkCommit("done") PROVE EffectInv'
  <2>1. Fresh'
    BY <1>5 DEF MarkCommit, Fresh
  <2>2. effect' = [k \in ItemKeys |-> Coming(k)]
    BY <1>5 DEF MarkCommit, EffectInv, Tables, Coming
  <2> QED BY <1>5, <2>1, <2>2, Commits DEF MarkCommit
<1> QED BY <1>1, <1>2, <1>3, <1>4, <1>5

\* An exception, or the end of the process.
LEMMA LossKeeps ==
    ASSUME EffectInv, UNCHANGED effects,
           Die \/ \E at : \E handler \in {"mark_read", "escaped"} : Raise(at, NoChange, handler)
    PROVE  EffectInv'
<1> USE DEF plan, runRows, focus, totals, cancels, effects, Closing, Working, Serial, InSource
<1>1. ASSUME Die PROVE EffectInv'
  <2>1. Fresh'
    BY <1>1 DEF Die, Fresh
  <2> QED BY <1>1, <2>1, Stays DEF Die
<1>2. ASSUME NEW at, NEW handler \in {"mark_read", "escaped"}, Raise(at, NoChange, handler) PROVE EffectInv'
  <2>1. Fresh'
    BY <1>2 DEF Raise, Fresh
  <2> QED BY <1>2, <2>1, Stays DEF Raise
<1> QED BY <1>1, <1>2

\* A request.
LEMMA RequestKeeps ==
    ASSUME EffectInv, NEW c \in RunCancels, Request(c)
    PROVE  EffectInv'
<1> USE DEF plan, runRows, focus, totals, effects
<1>1. /\ UNCHANGED <<task, keys, pc, cur, todo, stage, verdict, effect>>
      /\ \A k \in ItemKeys : items'[k] \in {items[k], CANCELLED}
      /\ items' = items \/ items' = [i \in ItemKeys |-> IF csnap[c][i] \in IN_PROGRESS THEN CANCELLED ELSE items[i]]
  BY DEF Request, RunCancelStep, CancelRead, CancelFlush, CancelCommit, CancelAborts
<1>2. Tables' /\ Fresh' /\ PairedKeys' = PairedKeys
  BY <1>1 DEF EffectInv, Tables, Fresh, Untouched, PairedKeys
<1>3. \A k \in PairedKeys : Coming(k)' = Coming(k) /\ View'[k] \in {View[k], CANCELLED} /\ items'[k] \in {items[k], CANCELLED}
  BY <1>1, PairedAreKeys DEF Coming, View, Target
<1> QED BY <1>1, <1>2, <1>3 DEF EffectInv, Agreeing, FailsWithEffect, Agree, COMPLETED, FAILED, CANCELLED, COMPLETED_WITH_ERRORS

-----------------------------------------------------------------------------
\* A key with an effect is the last stage of its subject.
LEMMA PairedAreLast ==
    /\ \A k \in PairedKeys : k = <<k[1], LastStage>>
    /\ \A k \in PairedKeys : \A s : (<<s, LastStage>> = k) <=> (k[1] = s)
    /\ LastStage \in Nat /\ 1 \in 1 .. LastStage
  BY StagesPositive DEF PairedKeys, PlainKeys

\* Several items of a source are given a status with the outcome of the source.
LEMMA SourceLoads ==
    ASSUME EffectInv, pc \in InSource, NEW new, NEW ok \in BOOLEAN, VbLoad(new, ok),
           \A k \in PairedKeys :
               k \in DOMAIN new => k = SourceKey(cur) /\ Agree(new[k], Verdict(ok)) /\ (new[k] = FAILED => ~ok),
           \A k \in PairedKeys : k = SourceKey(cur) => k \in DOMAIN new \/ (Agree(items[k], Verdict(ok)) /\ items[k] # FAILED)
    PROVE  EffectInv'
<1> USE DEF plan, runRows, focus, totals, cancels, effects, Closing, Working, Serial, InSource
<1>1. /\ UNCHANGED <<task, keys, items, effect, cur, todo>> /\ pc' = "vb_close" /\ verdict' = Verdict(ok)
      /\ stage' = [k \in {k \in DOMAIN new : new[k] # items[k]} |-> new[k]]
  BY DEF VbLoad
<1>2. Fresh'
  BY <1>1, PairedAreKeys DEF EffectInv, Fresh, Untouched, PairedKeys
<1>3. \A k \in PairedKeys : /\ View'[k] = (IF k \in DOMAIN new THEN new[k] ELSE items[k])
                            /\ Coming(k)' = (IF k = SourceKey(cur) THEN Verdict(ok) ELSE effect[k])
  BY <1>1, PairedAreKeys DEF View, Coming, Target, SourceKey
<1>4. \A k \in PairedKeys : Agree(View'[k], Coming(k)') /\ (View'[k] = FAILED => Coming(k)' = FAILED)
  BY <1>3, Settled DEF Verdict
<1> QED BY <1>1, <1>2, <1>4, Changes

\* The Veeam synchronisation.
LEMMA VeeamKeeps ==
    ASSUME EffectInv, VeeamStep \/ VeeamRaises
    PROVE  EffectInv'
<1> USE DEF plan, runRows, focus, totals, cancels, effects, Closing, Working, Serial, InSource
<1>1. ASSUME VbEarly \/ VbLost \/ VbDone \/ VbAppend PROVE EffectInv'
  <2>1. Fresh'
    BY <1>1 DEF VbEarly, VbLost, VbDone, VbAppend, Goto, Raise, Fresh
  <2> QED BY <1>1, <2>1, Stays DEF VbEarly, VbLost, VbDone, VbAppend, Goto, Raise
<1>2. ASSUME NEW sources, VbSources(sources) PROVE EffectInv'
  <2>1. PairedKeys' = PairedKeys /\ PairedKeys \subseteq ItemKeys /\ PairedKeys \subseteq keys
    BY <1>2, PairedAreKeys DEF VbSources, PairedKeys
  <2>2. /\ UNCHANGED <<task, keys, items, stage>> /\ Tables'
        /\ \A k \in PairedKeys : effect[k] = "none" /\ effect'[k] \in {"none", "skipped"}
    BY <1>2, <2>1 DEF VbSources, EffectInv, Tables, Fresh
  <2>3. ASSUME NEW k \in todo', pc' = "vb_source" PROVE k = <<k[1], 1>> /\ Untouched(SourceKey(k))'
    <3>1. k \in Prefixes(sources) \X {1} /\ \A l \in PairedKeys : l[1] \in Prefixes(sources) => effect'[l] = effect[l]
      BY <1>2, <2>1, <2>3 DEF VbSources
    <3> QED BY <2>1, <2>2, <3>1 DEF Untouched, SourceKey
  <2>4. Fresh'
    BY <1>2, <2>3 DEF VbSources, Fresh
  <2>5. \A k \in PairedKeys : Coming(k)' = effect'[k] /\ Coming(k) = effect[k] /\ View'[k] = View[k]
    BY <1>2, <2>1, <2>2 DEF VbSources, Coming, View
  <2> QED BY <1>2, <2>1, <2>2, <2>4, <2>5 DEF VbSources, EffectInv, Agreeing, FailsWithEffect, Agree, COMPLETED, FAILED, CANCELLED, COMPLETED_WITH_ERRORS
<1>3. ASSUME VbTake PROVE EffectInv'
  <2>1. cur' \in todo /\ cur' = <<cur'[1], 1>> /\ Untouched(SourceKey(cur')) /\ todo' = todo \ {cur'} /\ pc' = "vb_check"
    BY <1>3 DEF VbTake, TakeNext, EffectInv, Fresh
  <2>2. \A k \in todo' : k = <<k[1], 1>> /\ Untouched(SourceKey(k)) /\ k[1] # cur'[1]
    BY <1>3, <2>1 DEF VbTake, TakeNext, EffectInv, Fresh
  <2>3. \A k : Untouched(k)' <=> Untouched(k)
    BY <1>3 DEF VbTake, TakeNext, Untouched, PairedKeys
  <2>4. cur'[2] \in 1 .. LastStage
    BY <2>1, PairedAreLast
  <2>5. Fresh'
    BY <2>1, <2>2, <2>3, <2>4 DEF Fresh, SourceKey
  <2> QED BY <1>3, <2>5, Stays DEF VbTake, TakeNext
<1>4. ASSUME VbSkipSource PROVE EffectInv'
  <2>1. /\ PairedKeys' = PairedKeys /\ PairedKeys \subseteq ItemKeys /\ Tables' /\ pc' = "vb_source" /\ pc = "vb_check"
        /\ UNCHANGED <<task, keys, items, stage, todo, cur>>
    BY <1>4, PairedAreKeys DEF VbSkipSource, PairedKeys, EffectInv, Tables
  <2>2. \A k \in PairedKeys : k # SourceKey(cur) => effect'[k] = effect[k]
    BY <1>4, <2>1, PairedAreLast DEF VbSkipSource, Stages, SourceKey, EffectInv, Tables
  <2>3. \A k \in PairedKeys : k = SourceKey(cur) => effect[k] = "none" /\ effect'[k] \in {"none", "skipped"}
    BY <1>4, <2>1 DEF VbSkipSource, EffectInv, Fresh, Untouched
  <2>4. \A k \in todo : k = <<k[1], 1>> /\ Untouched(SourceKey(k)) /\ SourceKey(k) # SourceKey(cur)
    BY <2>1 DEF EffectInv, Fresh, SourceKey
  <2>5. Fresh'
    BY <2>1, <2>2, <2>4 DEF Fresh, Untouched
  <2>6. \A k \in PairedKeys : Coming(k)' = effect'[k] /\ Coming(k) = effect[k] /\ View'[k] = View[k]
    BY <2>1 DEF Coming, View
  <2> QED BY <2>1, <2>2, <2>3, <2>5, <2>6 DEF EffectInv, Agreeing, FailsWithEffect, Agree, COMPLETED, FAILED, CANCELLED, COMPLETED_WITH_ERRORS
<1>5. ASSUME VbEnter PROVE EffectInv'
  <2>1. Fresh'
    BY <1>5 DEF VbEnter, Goto, EffectInv, Fresh, Untouched, PairedKeys
  <2> QED BY <1>5, <2>1, Stays DEF VbEnter, Goto
<1>6. ASSUME pc = "vb_stage", LoadItem("vb_stage", start_item(items[cur]), "vb_stage_commit"), UNCHANGED effects PROVE EffectInv'
  <2>1. Fresh'
    BY <1>6 DEF LoadItem, EffectInv, Fresh, Untouched, PairedKeys
  <2>2. \A k \in PairedKeys : View'[k] = (IF k = cur THEN start_item(items[cur]) ELSE items[k]) /\ Coming(k)' = effect[k]
    BY <1>6, Loads DEF LoadItem, Coming
  <2>3. \A k \in PairedKeys : Agree(View'[k], Coming(k)') /\ (View'[k] = FAILED => Coming(k)' = FAILED)
    BY <1>6, <2>2, Starts, Settled
  <2> QED BY <1>6, <2>1, <2>3, Changes DEF LoadItem
<1>7. ASSUME CommitItems("vb_stage_commit", "vb_work"), UNCHANGED effects PROVE EffectInv'
  <2>1. Fresh'
    BY <1>7 DEF CommitItems, EffectInv, Fresh, Untouched, PairedKeys
  <2>2. effect' = [k \in ItemKeys |-> Coming(k)]
    BY <1>7 DEF CommitItems, EffectInv, Tables, Coming
  <2> QED BY <1>7, <2>1, <2>2, Commits DEF CommitItems
<1>8. ASSUME pc = "vb_work", cur[2] < LastStage, LoadItem("vb_work", complete_item(items[cur]), "vb_stage_done"),
             UNCHANGED effects
      PROVE  EffectInv'
  <2>1. Fresh'
    BY <1>8 DEF LoadItem, EffectInv, Fresh, Untouched, PairedKeys
  <2>2. cur \notin PairedKeys
    BY <1>8, PairedAreLast DEF EffectInv, Fresh
  <2>3. \A k \in PairedKeys : View'[k] = items[k] /\ Coming(k)' = effect[k]
    BY <1>8, <2>2, Loads DEF LoadItem, Coming
  <2>4. \A k \in PairedKeys : Agree(View'[k], Coming(k)') /\ (View'[k] = FAILED => Coming(k)' = FAILED)
    BY <1>8, <2>3, Settled
  <2> QED BY <1>8, <2>1, <2>4, Changes DEF LoadItem
<1>9. ASSUME VbNextStage PROVE EffectInv'
  <2>1. /\ cur' = <<cur[1], cur[2] + 1>> /\ pc = "vb_stage_done" /\ pc' = "vb_stage" /\ UNCHANGED <<task, keys, todo, effects>>
        /\ items' = View /\ stage' = NoChange
    BY <1>9 DEF VbNextStage
  <2>2. cur'[2] \in 1 .. LastStage /\ cur' = <<cur'[1], cur'[2]>> /\ SourceKey(cur') = SourceKey(cur) /\ cur'[1] = cur[1]
    BY <2>1, PairedAreLast DEF EffectInv, Fresh, SourceKey
  <2>3. \A k : Untouched(k)' <=> Untouched(k)
    BY <2>1 DEF Untouched, PairedKeys
  <2>4. Fresh'
    BY <2>1, <2>2, <2>3 DEF EffectInv, Fresh, SourceKey
  <2>5. effect' = [k \in ItemKeys |-> Coming(k)]
    BY <2>1 DEF EffectInv, Tables, Coming
  <2> QED BY <2>1, <2>4, <2>5, Commits
<1>10. ASSUME VbWritten PROVE EffectInv'
  <2> DEFINE new == [k \in {cur} |-> complete_item(items[k])]
  <2>1. pc = "vb_work" /\ cur = SourceKey(cur) /\ VbLoad(new, TRUE)
    BY <1>10 DEF VbWritten, EffectInv, Fresh, SourceKey
  <2>2. cur \in PairedKeys => complete_item(items[cur]) # FAILED /\ Agree(complete_item(items[cur]), Verdict(TRUE))
    BY <2>1, Settled DEF EffectInv, Fresh, Untouched, complete_item, Verdict, Agree, COMPLETED, FAILED, CANCELLED, COMPLETED_WITH_ERRORS
  <2>3. DOMAIN new = {cur} /\ new[cur] = complete_item(items[cur])
    OBVIOUS
  <2> HIDE DEF new
  <2>4. \A k \in PairedKeys :
            k \in DOMAIN new => k = SourceKey(cur) /\ Agree(new[k], Verdict(TRUE)) /\ new[k] # FAILED
    BY <2>1, <2>2, <2>3
  <2>5. \A k \in PairedKeys : k = SourceKey(cur) => k \in DOMAIN new
    BY <2>1, <2>3
  <2> QED BY <2>1, <2>4, <2>5, SourceLoads
<1>11. ASSUME VbFailed PROVE EffectInv'
  <2> DEFINE new == [k \in {k \in Stages(cur[1]) : k[2] >= cur[2]} |->
                         IF k = cur THEN fail_item(items[k]) ELSE cancel_item(items[k])]
  <2>1. pc \in InSource /\ VbLoad(new, FALSE)
    BY <1>11 DEF VbFailed
  <2>2. \A k \in PairedKeys : k \in DOMAIN new <=> k = SourceKey(cur)
    <3>1. cur[2] \in 1 .. LastStage /\ SourceKey(cur) \in Stages(cur[1]) /\ SourceKey(cur)[2] = LastStage
      BY <2>1, PairedAreLast DEF EffectInv, Fresh, SourceKey, Stages
    <3>2. SourceKey(cur) \in DOMAIN new
      BY <3>1, PairedAreLast
    <3>3. \A k \in PairedKeys : k \in Stages(cur[1]) => k = SourceKey(cur)
      BY PairedAreLast DEF Stages, SourceKey
    <3> QED BY <3>2, <3>3
  <2>3. \A k \in PairedKeys : k = SourceKey(cur) => items[k] \notin {COMPLETED, FAILED, COMPLETED_WITH_ERRORS}
    BY <2>1, Settled DEF EffectInv, Fresh, Untouched, Agree, COMPLETED, FAILED, CANCELLED, COMPLETED_WITH_ERRORS
  <2>4. \A k \in PairedKeys : k \in DOMAIN new => Agree(new[k], Verdict(FALSE))
    BY <2>2, <2>3 DEF fail_item, cancel_item, TERMINAL, Verdict, Agree, COMPLETED, FAILED, CANCELLED, COMPLETED_WITH_ERRORS
  <2> HIDE DEF new
  <2> QED BY <2>1, <2>2, <2>4, SourceLoads
<1>12. ASSUME VbClose PROVE EffectInv'
  <2>1. /\ pc = "vb_close" /\ pc' = "vb_source" /\ UNCHANGED <<task, keys, cur, todo>>
        /\ items' = View /\ stage' = NoChange
        /\ effect' = [effect EXCEPT ![SourceKey(cur)] = verdict]
    BY <1>12 DEF VbClose
  <2>2. effect' = [k \in ItemKeys |-> Coming(k)]
    BY <2>1 DEF EffectInv, Tables, Coming, Target
  <2>3. \A k \in PairedKeys : k # SourceKey(cur) => effect'[k] = effect[k]
    BY <2>1, PairedAreKeys DEF EffectInv, Tables
  <2>4. \A k \in todo : k = <<k[1], 1>> /\ Untouched(SourceKey(k)) /\ SourceKey(k) # SourceKey(cur)
    BY <2>1 DEF EffectInv, Fresh, SourceKey
  <2>5. Fresh'
    BY <2>1, <2>3, <2>4 DEF Fresh, Untouched, PairedKeys
  <2> QED BY <2>1, <2>2, <2>5, Commits
<1>13. ASSUME VbFinal PROVE EffectInv'
  BY <1>13, FinalKeeps DEF VbFinal
<1> QED BY <1>1, <1>2, <1>3, <1>4, <1>5, <1>6, <1>7, <1>8, <1>9, <1>10, <1>11, <1>12, <1>13
        DEF VeeamStep, VeeamRaises, VbStage

-----------------------------------------------------------------------------
\* The aggregation of the current period.
LEMMA CurrentKeeps ==
    ASSUME EffectInv, CurrentStep \/ CurrentRaises
    PROVE  EffectInv'
<1> USE DEF plan, runRows, focus, totals, cancels, effects, Closing, Working, Serial, InSource
<1>1. ASSUME CurBegin PROVE EffectInv'
  <2>1. CASE pc = "cur_init"
    BY <1>1, <2>1, Creates DEF CurBegin, CheckCancelled, Goto, InitItems, CurSummary
  <2>2. CASE pc # "cur_init"
    <3>1. Fresh'
      BY <1>1, <2>2 DEF CurBegin, CheckCancelled, Goto, InitItems, CurSummary, EffectInv, Fresh, PairedKeys
    <3> QED BY <1>1, <2>2, <3>1, Stays DEF CurBegin, CheckCancelled, Goto, InitItems, CurSummary
  <2> QED BY <2>1, <2>2
<1>2. ASSUME NEW listed, CurList(listed) PROVE EffectInv'
  <2>1. /\ PairedKeys' = PairedKeys /\ PairedKeys \subseteq ItemKeys /\ Tables' /\ Fresh'
        /\ UNCHANGED <<task, keys, items, stage>> /\ pc = "cur_list" /\ pc' = "cur_loop"
    BY <1>2, PairedAreKeys DEF CurList, PairedKeys, EffectInv, Tables, Fresh
  <2>2. \A k \in PairedKeys : effect'[k] = effect[k] \/ (effect[k] = "none" /\ effect'[k] = "skipped")
    BY <1>2, <2>1 DEF CurList, EffectInv, Tables
  <2>3. \A k \in PairedKeys : Coming(k)' = effect'[k] /\ Coming(k) = effect[k] /\ View'[k] = View[k]
    BY <2>1 DEF Coming, View
  <2> QED BY <2>1, <2>2, <2>3 DEF EffectInv, Agreeing, FailsWithEffect, Agree, COMPLETED, FAILED, CANCELLED, COMPLETED_WITH_ERRORS
<1>3. ASSUME CurRunnerDone \/ CurTake \/ CurUnknown \/ CurCancelled \/ CurEnd \/ CurFinal PROVE EffectInv'
  <2>1. Fresh'
    BY <1>3 DEF CurRunnerDone, CurTake, CurUnknown, CurCancelled, RecountCancelled, CurEnd, CurSummary, CurFinal, Goto, TakeNext, Fresh
  <2> QED BY <1>3, <2>1, Stays
          DEF CurRunnerDone, CurTake, CurUnknown, CurCancelled, RecountCancelled, CurEnd, CurSummary, CurFinal, Goto, TakeNext
<1>4. ASSUME Goto("cur_start", "cur_cancelled"), UNCHANGED effects PROVE EffectInv'
  <2>1. Fresh'
    BY <1>4 DEF Goto, Fresh
  <2> QED BY <1>4, <2>1, Stays DEF Goto
<1>5. ASSUME pc = "cur_start", LoadItem("cur_start", start_item(items[cur]), "cur_start_commit"), UNCHANGED effects PROVE EffectInv'
  <2>1. Fresh'
    BY <1>5 DEF LoadItem, Fresh
  <2>2. \A k \in PairedKeys : View'[k] = (IF k = cur THEN start_item(items[cur]) ELSE items[k]) /\ Coming(k)' = effect[k]
    BY <1>5, Loads DEF LoadItem, Coming
  <2>3. \A k \in PairedKeys : Agree(View'[k], Coming(k)') /\ (View'[k] = FAILED => Coming(k)' = FAILED)
    BY <1>5, <2>2, Starts, Settled
  <2> QED BY <1>5, <2>1, <2>3, Changes DEF LoadItem
<1>6. ASSUME CommitItems("cur_start_commit", "cur_work"), UNCHANGED effects PROVE EffectInv'
  <2>1. Fresh'
    BY <1>6 DEF CommitItems, Fresh
  <2>2. effect' = [k \in ItemKeys |-> Coming(k)]
    BY <1>6 DEF CommitItems, EffectInv, Tables, Coming
  <2> QED BY <1>6, <2>1, <2>2, Commits DEF CommitItems
<1>7. ASSUME NEW ok \in BOOLEAN, CurReport(ok) PROVE EffectInv'
  <2>1. Fresh'
    BY <1>7 DEF CurReport, Fresh
  <2>2. CASE run.status = CANCELLED
    BY <1>7, <2>1, <2>2, Stays DEF CurReport
  <2>3. CASE run.status # CANCELLED
    <3>1. /\ pc = "cur_work" /\ pc' = "cur_commit" /\ UNCHANGED <<task, keys, items, effect, cur>>
          /\ stage' = Change(cur, Outcome(ok, items[cur])) /\ verdict' = Verdict(ok)
      BY <1>7, <2>3 DEF CurReport
    <3>2. \A k \in PairedKeys :
              /\ View'[k] = (IF k = cur THEN Outcome(ok, items[cur]) ELSE items[k])
              /\ Coming(k)' = (IF k = cur THEN IF effect[k] = FAILED THEN FAILED ELSE Verdict(ok) ELSE effect[k])
      BY <3>1, Loads DEF Coming, Target
    <3>3. \A k \in PairedKeys : k = cur =>
              LET e == IF effect[k] = FAILED THEN FAILED ELSE Verdict(ok)
              IN  Agree(Outcome(ok, items[k]), e) /\ (Outcome(ok, items[k]) = FAILED => e = FAILED)
      BY <3>1, Settled DEF Outcome, Verdict, Agree, complete_item, fail_item, COMPLETED, FAILED, CANCELLED, COMPLETED_WITH_ERRORS
    <3>4. \A k \in PairedKeys : Agree(View'[k], Coming(k)') /\ (View'[k] = FAILED => Coming(k)' = FAILED)
      BY <3>2, <3>3, <3>1, Settled
    <3> QED BY <2>1, <3>1, <3>4, Changes
  <2> QED BY <2>2, <2>3
<1>8. ASSUME CurCommit PROVE EffectInv'
  <2>1. Fresh'
    BY <1>8 DEF CurCommit, CommitItems, Fresh
  <2>2. effect' = [k \in ItemKeys |-> Coming(k)]
    BY <1>8 DEF CurCommit, CommitItems, EffectInv, Tables, Coming, Target
  <2> QED BY <1>8, <2>1, <2>2, Commits DEF CurCommit, CommitItems
<1>9. ASSUME FailRun PROVE EffectInv'
  BY <1>9, FinalKeeps DEF FailRun
<1>10. ASSUME CurrentRaises PROVE EffectInv'
  BY <1>10, LossKeeps DEF CurrentRaises
<1> QED BY <1>1, <1>2, <1>3, <1>4, <1>5, <1>6, <1>7, <1>8, <1>9, <1>10 DEF CurrentStep, CurrentRaises, CurStart

\* The daily classification has no key whose effect goes with its item.
LEMMA DailyKeeps ==
    ASSUME EffectInv, task = "calculate_account", DailyStep \/ DailyRaises
    PROVE  EffectInv'
<1> USE DEF plan, runRows, focus, totals, cancels, effects
<1>1. /\ UNCHANGED <<task, keys>> /\ pc' \notin Serial \cup InSource \cup {"vb_source"}
      /\ items' \in {items, View, init_items(items, keys)}
      /\ effect' \in {effect, [k \in ItemKeys |-> IF k \in keys THEN COMPLETED ELSE effect[k]]}
  <2>1. CASE DlStart \/ DlItems \/ DlCancelled \/ DlRule
    BY <2>1 DEF DlStart, DlItems, DlCancelled, RecountCancelled, DlRule, Goto, InitItems, BeginLoop, TakeNext, LoadItem, CommitItems,
                Serial, InSource
  <2>2. CASE DlRuleFails \/ DlRuleFailed \/ DlStats \/ DlFinalRead \/ DlFinalCommit \/ FailRun
    BY <2>2 DEF DlRuleFails, DlRuleFailed, DlStats, CheckCancelled, Goto, DlFinalRead, DlFinalCommit, FailRun, MarkRead, MarkCommit,
                Serial, InSource
  <2>3. CASE DailyRaises
    BY <2>3 DEF DailyRaises, DlRuleFails, Raise, Serial, InSource
  <2> QED BY <2>1, <2>2, <2>3 DEF DailyStep
<1>2. PairedKeys = {} /\ PairedKeys' = {}
  BY <1>1 DEF PairedKeys
<1>3. items' = [k \in ItemKeys |-> items'[k]] /\ effect' = [k \in ItemKeys |-> effect'[k]]
  BY <1>1, ViewFacts DEF EffectInv, Tables, init_items
<1>4. Fresh'
  BY <1>1, <1>2 DEF Fresh, Serial, InSource
<1> QED BY <1>2, <1>3, <1>4 DEF Tables, EffectInv, Agreeing, FailsWithEffect

\* Every step of every task, and every request, keeps rows and effects in agreement.
LEMMA EffectInvKept == EffectInv /\ [Next]_vars => EffectInv'
<1> SUFFICES ASSUME EffectInv, [Next]_vars PROVE EffectInv'
  OBVIOUS
<1>1. ASSUME SerialFinal \/ FailRun PROVE EffectInv'
  BY <1>1, FinalKeeps DEF SerialFinal, FailRun
<1>2. ASSUME ClusterRaises \/ ADEscapes PROVE EffectInv'
  BY <1>2, LossKeeps DEF ClusterRaises, ADEscapes
<1>3. ASSUME TaskStep \/ TaskRaises PROVE EffectInv'
  BY <1>1, <1>2, <1>3, SerialKeeps, JumpServerKeeps, VeeamKeeps, CurrentKeeps, DailyKeeps
     DEF TaskStep, TaskRaises, ClusterStep, ADStep
<1>4. ASSUME TaskDies PROVE EffectInv'
  BY <1>4, LossKeeps DEF TaskDies
<1>5. ASSUME NEW c \in RunCancels, Request(c) PROVE EffectInv'
  BY <1>5, RequestKeeps
<1>6. ASSUME UNCHANGED vars PROVE EffectInv'
  <2>1. PairedKeys' = PairedKeys /\ Tables' /\ Fresh' /\ View' = View /\ \A k : Coming(k)' = Coming(k)
    BY <1>6 DEF vars, threadVars, plan, runRows, focus, effects, EffectInv, Tables, Fresh, Untouched, PairedKeys, View, Coming, Target
  <2> QED BY <1>6, <2>1 DEF vars, threadVars, plan, runRows, effects, EffectInv, Agreeing, FailsWithEffect
<1> QED BY <1>3, <1>4, <1>5, <1>6 DEF Next, Terminating

\* At first no key has an effect and no item an outcome.
LEMMA EffectInvInit == Init => EffectInv
<1> SUFFICES ASSUME Init PROVE EffectInv
  OBVIOUS
<1>1. /\ pc = "launched" /\ stage = NoChange /\ effect = [k \in ItemKeys |-> "none"]
      /\ \E prepared : items = init_items([i \in ItemKeys |-> ABSENT], prepared)
  BY DEF Init, EffectInit, ThreadInit, JumpServerInit, VeeamInit
<1>2. Tables /\ \A k \in PairedKeys : items[k] \in {ABSENT, PENDING} /\ View[k] = items[k] /\ effect[k] = "none" /\ Coming(k) = "none"
  BY <1>1, PairedAreKeys DEF Tables, View, NoChange, Coming, Closing, init_items
<1>3. Fresh
  BY <1>1, <1>2 DEF Fresh, Serial, InSource
<1> QED BY <1>2, <1>3 DEF EffectInv, Agreeing, FailsWithEffect, Agree, ABSENT, PENDING, COMPLETED, FAILED, CANCELLED, COMPLETED_WITH_ERRORS

\* Whatever the moment at which a task dies, raises or is cancelled: an item
\* that reads "completed" has its effect, and one that failed has none.
THEOREM EffectsBackItems == Spec => []EffectBacksItem
<1>1. EffectInv => EffectBacksItem
  BY DEF EffectInv, Agreeing, Agree, EffectBacksItem, COMPLETED, FAILED, CANCELLED
<1> QED BY <1>1, EffectInvInit, EffectInvKept, PTL DEF Spec

----------------------------------------------------------------------------
(* The books of a run.  The invariant has four parts: where the thread is   *)
(* among the keys of the run (TypeInv), which keys it has still to close    *)
(* (WorkInv), what its own counters stand for (TallyInv), and the books.    *)

(* Where the thread is among the keys of the run. *)

\* The keys of a run.
Planned ==
    /\ task # "sync_veeam_backups" => keys \subseteq PlainKeys
    /\ task = "sync_jumpserver_assets" => \A j, k \in keys : j = k
    /\ task = "sync_veeam_backups" => \A k \in keys : /\ Stages(k[1]) \subseteq keys
                                                      /\ k[1] = Only => \A j \in keys : j[1] = Only

\* Where the thread works on keys of the run.
TodoInRun == {"loop", "start", "start_commit", "work", "settle",
              "dl_loop", "dl_start", "dl_start_commit", "dl_work", "dl_commit"}
CurInRun ==
    {"start", "start_commit", "work", "settle", "js_remote", "js_close", "cur_start_commit", "cur_work", "cur_commit",
     "dl_start", "dl_start_commit", "dl_work", "dl_commit", "dl_rule_failed"} \cup (InSource \ {"vb_check"})
Located ==
    /\ pc \in TodoInRun => todo \subseteq keys
    /\ pc \in CurInRun => cur \in keys
    /\ pc \in {"cur_start", "vb_check"} => cur \in ItemKeys

\* Rows exist for keys of the run only, and for all of them once the items have been created.
Before == {"launched", "cur_init", "dl_init", "mark_read", "mark_commit"} \cup Ended
Existing ==
    /\ \A k \in ItemKeys : items[k] # ABSENT => k \in keys
    /\ DOMAIN stage \subseteq keys
    /\ \A c \in RunCancels : \A k \in ItemKeys : csnap[c][k] \in IN_PROGRESS => k \in keys
    /\ pc \notin Before \/ task \in {"sync_jumpserver_assets", "sync_veeam_backups"} => \A k \in keys : items[k] # ABSENT

\* The rows and locals are of their kinds, and the thread is where its task takes it.
TypeInv == TypeOK /\ Planned /\ Located /\ Existing

-----------------------------------------------------------------------------
\* The outcomes a key can have.
LEMMA Verdicts == \A ok \in BOOLEAN : Verdict(ok) \in {COMPLETED, FAILED}
  BY DEF Verdict

\* A step that needs no items it has not.
Onward == pc' \in Before \/ pc \notin Before \/ task \in {"sync_jumpserver_assets", "sync_veeam_backups"}

\* A step that moves control, or takes the next key.
LEMMA MovesKeep ==
    ASSUME TypeInv, UNCHANGED <<task, keys, items, cancels, effects>>, ThreadTypeOK', Located',
           stage' \in {stage, NoChange}, Onward
    PROVE  TypeInv'
<1> USE DEF cancels, effects
<1>1. TypeOK' /\ Planned'
  BY DEF TypeInv, TypeOK, Planned
<1>2. DOMAIN stage' \subseteq keys
  BY DEF TypeInv, Existing, NoChange
<1> QED BY <1>1, <1>2 DEF TypeInv, Existing, Onward

\* A step that loads changes of items.
LEMMA LoadsKeep ==
    ASSUME TypeInv, UNCHANGED <<task, keys, items, cancels, effect>>, verdict' \in {verdict, COMPLETED, FAILED}, ThreadTypeOK',
           Located', DOMAIN stage' \subseteq keys, Onward
    PROVE  TypeInv'
  BY DEF TypeInv, TypeOK, Planned, Existing, cancels, Onward

\* A step that commits them, with the effect of one key.
LEMMA CommitsKeep ==
    ASSUME TypeInv, UNCHANGED <<task, keys, cancels, verdict>>, items' = View, stage' = NoChange, ThreadTypeOK', Located',
           effect' \in [ItemKeys -> {"none", "skipped", COMPLETED, FAILED}], Onward
    PROVE  TypeInv'
<1>1. TypeOK' /\ Planned' /\ DOMAIN stage' = {}
  BY DEF TypeInv, TypeOK, Planned, NoChange
<1>2. ASSUME NEW k \in ItemKeys PROVE (items'[k] # ABSENT => k \in keys) /\ (items[k] # ABSENT => items'[k] # ABSENT)
  BY DEF View, TypeInv, TypeOK, ThreadTypeOK, Existing, TaskRunStatus, TERMINAL, IN_PROGRESS, ABSENT, PENDING, RUNNING,
         COMPLETED, COMPLETED_WITH_ERRORS, FAILED, CANCELLED
<1>3. keys \subseteq ItemKeys
  BY DEF TypeInv, TypeOK, ThreadTypeOK
<1> QED BY <1>1, <1>2, <1>3 DEF TypeInv, Existing, cancels, Onward

\* A step that creates the items.
LEMMA CreatesKeep ==
    ASSUME TypeInv, UNCHANGED <<task, keys, cancels, effects, stage>>, items' = init_items(items, keys), ThreadTypeOK', Located'
    PROVE  TypeInv'
<1>1. TypeOK' /\ Planned' /\ DOMAIN stage' \subseteq keys
  BY DEF TypeInv, TypeOK, Planned, Existing, effects
<1>2. \A k \in ItemKeys : items'[k] = IF k \in keys THEN PENDING ELSE items[k]
  BY DEF init_items, TypeInv, TypeOK, ThreadTypeOK
<1>3. keys \subseteq ItemKeys
  BY DEF TypeInv, TypeOK, ThreadTypeOK
<1> QED BY <1>1, <1>2, <1>3 DEF TypeInv, Existing, cancels, ABSENT, PENDING

\* A step that changes effects only, and where the thread is.
LEMMA SkipsKeep ==
    ASSUME TypeInv, UNCHANGED <<task, keys, items, stage, cancels, verdict>>, ThreadTypeOK', Located',
           effect' \in [ItemKeys -> {"none", "skipped", COMPLETED, FAILED}], Onward
    PROVE  TypeInv'
  BY DEF TypeInv, TypeOK, Planned, Existing, cancels, Onward

-----------------------------------------------------------------------------
\* The loop that cluster status and AD share, and the final status.
LEMMA SerialTyped ==
    ASSUME TypeInv, SerialLoop \/ SerialFinal
    PROVE  TypeInv'
<1> USE DEF plan, runRows, focus, totals, effects, TodoInRun, CurInRun, InSource, Before, Ended, Onward
<1>0. /\ ThreadTypeOK /\ keys \subseteq ItemKeys /\ Located /\ effect \in [ItemKeys -> {"none", "skipped", COMPLETED, FAILED}]
      /\ verdict \in {"none", COMPLETED, FAILED}
  BY DEF TypeInv, TypeOK, ThreadTypeOK
<1>1. ASSUME InitItems("launched", "begin"), UNCHANGED effects PROVE TypeInv'
  <2>1. ThreadTypeOK'
    BY <1>0, <1>1, ItemsTyped DEF TaskRunStatus, TERMINAL
  <2> QED BY <1>1, <2>1, CreatesKeep DEF InitItems, Located
<1>2. ASSUME BeginLoop("begin", keys, "loop") \/ TakeNext("loop", "start") \/ Goto("loop", "final_read"), UNCHANGED effects
      PROVE  TypeInv'
  <2>1. ThreadTypeOK'
    BY <1>0, <1>2, MovesTyped
  <2>2. Located'
    BY <1>0, <1>2 DEF BeginLoop, TakeNext, Goto, Located
  <2> QED BY <1>2, <2>1, <2>2, MovesKeep DEF BeginLoop, TakeNext, Goto
<1>3. ASSUME pc = "start", LoadItem("start", start_item(items[cur]), "start_commit"), UNCHANGED effects PROVE TypeInv'
  <2>1. cur \in keys /\ cur \in ItemKeys
    BY <1>0, <1>3 DEF Located
  <2>2. start_item(items[cur]) \in TaskRunStatus
    BY <1>0, <2>1, ItemStatuses DEF ThreadTypeOK
  <2>3. ThreadTypeOK' /\ DOMAIN stage' \subseteq keys
    BY <1>0, <1>3, <2>1, <2>2, ItemsTyped, ChangeTyped DEF LoadItem
  <2> QED BY <1>0, <1>3, <2>3, LoadsKeep DEF LoadItem, Located
<1>4. ASSUME CommitItems("start_commit", "work"), UNCHANGED effects PROVE TypeInv'
  <2>1. ThreadTypeOK'
    BY <1>0, <1>4, ItemsTyped DEF TaskRunStatus, TERMINAL
  <2> QED BY <1>0, <1>4, <2>1, CommitsKeep DEF CommitItems, Located
<1>5. ASSUME NEW ok \in BOOLEAN, Decide("work", ok, "settle") PROVE TypeInv'
  <2>1. cur \in keys /\ cur \in ItemKeys
    BY <1>0, <1>5 DEF Located, Decide
  <2>2. Outcome(ok, items[cur]) \in TaskRunStatus
    BY <1>0, <2>1, ItemStatuses DEF ThreadTypeOK
  <2>3. DOMAIN stage' \subseteq {cur} /\ \A i \in DOMAIN stage' : stage'[i] \in TaskRunStatus
    BY <1>5, <2>1, <2>2, ChangeTyped DEF Decide, LoadOutcome
  <2>4. synced' \in Nat /\ failed' \in Nat
    BY <1>0, <1>5 DEF Decide, LoadOutcome, ThreadTypeOK
  <2>5. ThreadTypeOK' /\ DOMAIN stage' \subseteq keys
    BY <1>0, <1>5, <2>1, <2>3, <2>4 DEF Decide, LoadOutcome, ThreadTypeOK, cancels
  <2> QED BY <1>0, <1>5, <2>5, LoadsKeep, Verdicts DEF Decide, LoadOutcome, Located
<1>6. ASSUME Settle("settle", "loop") PROVE TypeInv'
  <2>1. ThreadTypeOK'
    BY <1>0, <1>6, ItemsTyped DEF Settle, TaskRunStatus, TERMINAL
  <2>2. effect' \in [ItemKeys -> {"none", "skipped", COMPLETED, FAILED}]
    BY <1>0, <1>6 DEF Settle
  <2> QED BY <1>0, <1>6, <2>1, <2>2, CommitsKeep DEF Settle, CommitItems, Located
<1>7. ASSUME FinalRead("final_read", "final_commit"), UNCHANGED effects PROVE TypeInv'
  <2>1. ThreadTypeOK'
    BY <1>0, <1>7, MovesTyped
  <2> QED BY <1>7, <2>1, MovesKeep DEF FinalRead, Located
<1>8. ASSUME FinalCommit("final_commit", PartialFailure), UNCHANGED effects PROVE TypeInv'
  <2>1. ThreadTypeOK'
    BY <1>0, <1>8, FinalsTyped DEF PartialFailure, TaskRunStatus, TERMINAL
  <2> QED BY <1>0, <1>8, <2>1, CommitsKeep DEF FinalCommit, Located
<1> QED BY <1>1, <1>2, <1>3, <1>4, <1>5, <1>6, <1>7, <1>8 DEF SerialLoop, SerialFinal

\* The handler that fails the run; an exception; the end of the process.
LEMMA HandlersTyped ==
    ASSUME TypeInv,
           \/ FailRun \/ TaskDies
           \/ (\E at : \E handler \in {"mark_read", "escaped"} : Raise(at, NoChange, handler)) /\ UNCHANGED effects
    PROVE  TypeInv'
<1> USE DEF plan, runRows, focus, totals, effects, TodoInRun, CurInRun, InSource, Before, Ended, Onward
<1>0. ThreadTypeOK /\ DOMAIN items = ItemKeys
  BY DEF TypeInv, TypeOK, ThreadTypeOK
<1>1. ASSUME MarkRead("mark_read", "done"), UNCHANGED effects PROVE TypeInv'
  <2>1. ThreadTypeOK'
    BY <1>0, <1>1, FinalsTyped
  <2>2. DOMAIN stage' \subseteq keys
    <3>1. ItemsIn(items, IN_PROGRESS) \subseteq keys
      BY <1>0 DEF ItemsIn, TypeInv, Existing, IN_PROGRESS, PENDING, RUNNING, ABSENT
    <3> QED BY <1>1, <3>1, NoChangeTyped DEF MarkRead, TypeInv, Existing
  <2> QED BY <1>1, <2>1, <2>2, LoadsKeep DEF MarkRead, Located
<1>2. ASSUME MarkCommit("done"), UNCHANGED effects PROVE TypeInv'
  <2>1. ThreadTypeOK'
    BY <1>0, <1>2, FinalsTyped
  <2> QED BY <1>2, <2>1, CommitsKeep DEF MarkCommit, Located, TypeInv, TypeOK
<1>3. ASSUME NEW at, NEW handler \in {"mark_read", "escaped"}, Raise(at, NoChange, handler), UNCHANGED effects PROVE TypeInv'
  <2>1. ThreadTypeOK'
    BY <1>0, <1>3, MovesTyped
  <2> QED BY <1>3, <2>1, MovesKeep DEF Raise, Located
<1>4. ASSUME TaskDies PROVE TypeInv'
  <2>1. ThreadTypeOK'
    BY <1>0, <1>4, MovesTyped DEF TaskDies
  <2> QED BY <1>4, <2>1, MovesKeep DEF TaskDies, Die, Located
<1> QED BY <1>1, <1>2, <1>3, <1>4 DEF FailRun

\* The JumpServer synchronisation.
LEMMA JumpServerTyped ==
    ASSUME TypeInv, task = "sync_jumpserver_assets", JumpServerStep \/ JumpServerRaises
    PROVE  TypeInv'
<1> USE DEF plan, runRows, focus, totals, effects, TodoInRun, CurInRun, InSource, Before, Ended, Onward
<1>0. /\ ThreadTypeOK /\ keys \subseteq ItemKeys /\ Located /\ DOMAIN items = ItemKeys /\ run \in TaskRun /\ runSeen \in TaskRun
      /\ effect \in [ItemKeys -> {"none", "skipped", COMPLETED, FAILED}] /\ verdict \in {"none", COMPLETED, FAILED}
  BY DEF TypeInv, TypeOK, ThreadTypeOK
<1>1. ASSUME JsStart PROVE TypeInv'
  <2>1. cur' \in keys /\ cur' \in ItemKeys
    BY <1>0, <1>1 DEF JsStart
  <2>2. start_item(items[cur']) \in TaskRunStatus
    BY <1>0, <2>1, ItemStatuses DEF ThreadTypeOK
  <2>3. DOMAIN stage' \subseteq {cur'} /\ \A i \in DOMAIN stage' : stage'[i] \in TaskRunStatus
    BY <1>1, <2>1, <2>2, ChangeTyped DEF JsStart
  <2>4. ThreadTypeOK' /\ DOMAIN stage' \subseteq keys
    BY <1>0, <1>1, <2>1, <2>3 DEF JsStart, ThreadTypeOK, cancels
  <2> QED BY <1>1, <2>1, <2>4, LoadsKeep DEF JsStart, Located
<1>2. ASSUME NEW st \in TaskRunStatus, NEW ok \in BOOLEAN, JsLoad(st, ok), pc \in {"js_remote", "js_close"} PROVE TypeInv'
  <2>1. cur \in keys /\ cur \in ItemKeys
    BY <1>0, <1>2 DEF Located
  <2>2. DOMAIN stage' \subseteq {cur} /\ \A i \in DOMAIN stage' : stage'[i] \in TaskRunStatus
    BY <1>2 DEF JsLoad
  <2>3. ThreadTypeOK' /\ DOMAIN stage' \subseteq keys
    BY <1>0, <1>2, <2>1, <2>2 DEF JsLoad, ThreadTypeOK, cancels
  <2> QED BY <1>2, <2>1, <2>3, LoadsKeep, Verdicts DEF JsLoad, Located
<1>3. ASSUME JsFetched \/ JsFailed PROVE TypeInv'
  <2>1. pc \in {"js_remote", "js_close"} /\ cur \in ItemKeys
    BY <1>0, <1>3 DEF JsFetched, JsFailed, Located
  <2>2. complete_item(View[cur]) \in TaskRunStatus /\ fail_item(items[cur]) \in TaskRunStatus
    BY <1>0, <2>1, ViewTyped, ItemStatuses DEF Outcome, ThreadTypeOK
  <2> QED BY <1>2, <1>3, <2>1, <2>2 DEF JsFetched, JsFailed
<1>4. ASSUME JsClose PROVE TypeInv'
  <2>1. /\ UNCHANGED <<task, keys, cancels, verdict, focus, runSeen, totals>> /\ items' = View /\ stage' = NoChange /\ pc' = "done"
        /\ effect' = [effect EXCEPT ![cur] = verdict]
    BY <1>4 DEF JsClose
  <2>2. run' \in TaskRun
    BY <1>0, <1>4, ViewTyped, RunRows, RunUpdates DEF JsClose
  <2>3. ThreadTypeOK'
    BY <1>0, <2>1, <2>2, ViewTyped, NoChangeTyped DEF ThreadTypeOK, cancels
  <2> QED BY <1>0, <2>1, <2>3, CommitsKeep DEF Located
<1>5. ASSUME JsRefuse PROVE TypeInv'
  <2>1. ThreadTypeOK'
    BY <1>0, <1>5, MovesTyped DEF JsRefuse
  <2> QED BY <1>5, <2>1, MovesKeep DEF JsRefuse, Goto, Located
<1>6. ASSUME JsLost PROVE TypeInv'
  BY <1>6, HandlersTyped DEF JsLost
<1> QED BY <1>1, <1>3, <1>4, <1>5, <1>6 DEF JumpServerStep, JumpServerRaises

\* The Veeam synchronisation.
LEMMA VeeamTyped ==
    ASSUME TypeInv, Fresh, task = "sync_veeam_backups", VeeamStep \/ VeeamRaises
    PROVE  TypeInv'
<1> USE DEF plan, runRows, focus, totals, cancels, effects, TodoInRun, CurInRun, InSource, Before, Ended, Onward
<1>0. /\ ThreadTypeOK /\ keys \subseteq ItemKeys /\ Located /\ DOMAIN items = ItemKeys /\ run \in TaskRun /\ runSeen \in TaskRun
      /\ effect \in [ItemKeys -> {"none", "skipped", COMPLETED, FAILED}] /\ verdict \in {"none", COMPLETED, FAILED}
  BY DEF TypeInv, TypeOK, ThreadTypeOK
<1>a. \A k \in keys : Stages(k[1]) \subseteq keys
  BY DEF TypeInv, Planned
<1>1. ASSUME NEW sources \in SUBSET (Subjects \ {Only}), VbSources(sources) PROVE TypeInv'
  <2>1. Prefixes(sources) \X {1} \subseteq ItemKeys
    BY OnlyIsSubject, KeysArePairs, StagesPositive DEF Prefixes
  <2>2. /\ UNCHANGED <<task, keys, run, items, stage, runSeen, synced, failed, cpc, csnap, cur, verdict>>
        /\ todo' \in SUBSET ItemKeys /\ pc' \in {"escaped", "vb_source"}
        /\ effect' \in [ItemKeys -> {"none", "skipped", COMPLETED, FAILED}]
    BY <1>0, <1>1, <2>1 DEF VbSources, ThreadTypeOK
  <2>3. ThreadTypeOK'
    BY <1>0, <2>2 DEF ThreadTypeOK
  <2> QED BY <2>2, <2>3, SkipsKeep DEF Located
<1>2. ASSUME VbTake PROVE TypeInv'
  <2>1. ThreadTypeOK'
    BY <1>0, <1>2, MovesTyped DEF VbTake
  <2>2. Located'
    BY <1>0, <1>2 DEF VbTake, TakeNext, Located, ThreadTypeOK
  <2> QED BY <1>2, <2>1, <2>2, MovesKeep DEF VbTake, TakeNext
<1>3. ASSUME VbSkipSource PROVE TypeInv'
  <2>1. ThreadTypeOK'
    BY <1>0, <1>3 DEF VbSkipSource, ThreadTypeOK
  <2>2. effect' \in [ItemKeys -> {"none", "skipped", COMPLETED, FAILED}]
    BY <1>0, <1>3 DEF VbSkipSource
  <2> QED BY <1>3, <2>1, <2>2, SkipsKeep DEF VbSkipSource, Located
<1>4. ASSUME VbEnter PROVE TypeInv'
  <2>1. ThreadTypeOK'
    BY <1>0, <1>4, MovesTyped DEF VbEnter
  <2>2. cur \in keys
    BY <1>0, <1>4 DEF VbEnter, Goto, Located, TypeInv, Existing
  <2> QED BY <1>4, <2>1, <2>2, MovesKeep DEF VbEnter, Goto, Located
<1>5. ASSUME VbDone \/ VbEarly PROVE TypeInv'
  <2>1. ThreadTypeOK'
    BY <1>0, <1>5, MovesTyped DEF VbDone, VbEarly
  <2> QED BY <1>5, <2>1, MovesKeep DEF VbDone, VbEarly, Goto, Located
<1>6. ASSUME NEW st \in TaskRunStatus, NEW at \in {"vb_stage", "vb_work"}, NEW after \in {"vb_stage_commit", "vb_stage_done"},
             LoadItem(at, st, after), UNCHANGED effects
      PROVE  TypeInv'
  <2>1. cur \in keys /\ cur \in ItemKeys
    BY <1>0, <1>6 DEF LoadItem, Located
  <2>2. ThreadTypeOK' /\ DOMAIN stage' \subseteq keys
    BY <1>0, <1>6, <2>1, ItemsTyped, ChangeTyped DEF LoadItem
  <2> QED BY <1>0, <1>6, <2>1, <2>2, LoadsKeep DEF LoadItem, Located
<1>7. ASSUME CommitItems("vb_stage_commit", "vb_work"), UNCHANGED effects PROVE TypeInv'
  <2>1. ThreadTypeOK'
    BY <1>0, <1>7, ItemsTyped DEF TaskRunStatus, TERMINAL
  <2> QED BY <1>0, <1>7, <2>1, CommitsKeep DEF CommitItems, Located
<1>8. ASSUME VbStage PROVE TypeInv'
  <2>1. ASSUME pc \in {"vb_stage", "vb_work"}
        PROVE  start_item(items[cur]) \in TaskRunStatus /\ complete_item(items[cur]) \in TaskRunStatus
    BY <1>0, <2>1, ItemStatuses DEF Located, ThreadTypeOK, Outcome
  <2> QED BY <1>6, <1>7, <1>8, <2>1 DEF VbStage
<1>9. ASSUME VbNextStage PROVE TypeInv'
  <2>1. cur \in keys /\ cur[2] \in 1 .. LastStage /\ cur[2] < LastStage
    BY <1>0, <1>9 DEF VbNextStage, Located, Fresh
  <2>2. cur[2] + 1 \in 1 .. LastStage
    BY <2>1, StagesPositive
  <2>3. cur' \in keys
    BY <1>9, <1>a, <2>1, <2>2 DEF VbNextStage, Stages
  <2>4. ThreadTypeOK'
    BY <1>0, <1>9, <2>3, ViewTyped, NoChangeTyped DEF VbNextStage, ThreadTypeOK
  <2> QED BY <1>0, <1>9, <2>3, <2>4, CommitsKeep DEF VbNextStage, Located
<1>10. ASSUME NEW new, NEW ok \in BOOLEAN, VbLoad(new, ok), pc \in InSource \ {"vb_check"},
              DOMAIN new \subseteq keys, \A k \in DOMAIN new : new[k] \in TaskRunStatus
       PROVE  TypeInv'
  <2>1. DOMAIN stage' \subseteq DOMAIN new /\ \A k \in DOMAIN stage' : stage'[k] = new[k]
    BY <1>10 DEF VbLoad
  <2>2. ThreadTypeOK' /\ DOMAIN stage' \subseteq keys
    BY <1>0, <1>10, <2>1 DEF VbLoad, ThreadTypeOK
  <2> QED BY <1>0, <1>10, <2>2, LoadsKeep, Verdicts DEF VbLoad, Located
<1>11. ASSUME VbWritten PROVE TypeInv'
  <2> DEFINE new == [k \in {cur} |-> complete_item(items[k])]
  <2>1. pc = "vb_work" /\ VbLoad(new, TRUE) /\ cur \in keys
    BY <1>0, <1>11 DEF VbWritten, Located
  <2>2. complete_item(items[cur]) \in TaskRunStatus
    BY <1>0, <2>1, ItemStatuses DEF ThreadTypeOK, Outcome
  <2>3. DOMAIN new \subseteq keys /\ \A k \in DOMAIN new : new[k] \in TaskRunStatus
    BY <2>1, <2>2
  <2> HIDE DEF new
  <2> QED BY <1>10, <2>1, <2>3
<1>12. ASSUME VbFailed PROVE TypeInv'
  <2> DEFINE new == [k \in {k \in Stages(cur[1]) : k[2] >= cur[2]} |->
                         IF k = cur THEN fail_item(items[k]) ELSE cancel_item(items[k])]
  <2>1. pc \in InSource \ {"vb_check"} /\ VbLoad(new, FALSE) /\ cur \in keys
    BY <1>0, <1>12 DEF VbFailed, Located
  <2>2. \A k \in keys : fail_item(items[k]) \in TaskRunStatus /\ cancel_item(items[k]) \in TaskRunStatus
    BY <1>0 DEF ThreadTypeOK, fail_item, cancel_item, TaskRunStatus, TERMINAL
  <2>3. DOMAIN new \subseteq keys /\ \A k \in DOMAIN new : new[k] \in TaskRunStatus
    BY <1>a, <2>1, <2>2
  <2> HIDE DEF new
  <2> QED BY <1>10, <2>1, <2>3
<1>13. ASSUME VbClose PROVE TypeInv'
  <2>1. /\ UNCHANGED <<task, keys, cpc, csnap, verdict, todo, cur, runSeen>> /\ items' = View /\ stage' = NoChange
        /\ pc' = "vb_source" /\ effect' = [effect EXCEPT ![SourceKey(cur)] = verdict]
        /\ synced' = synced + (IF verdict = COMPLETED THEN 1 ELSE 0)
        /\ failed' = failed + (IF verdict = COMPLETED THEN 0 ELSE 1)
    BY <1>13 DEF VbClose
  <2>2. NoOverride \in TaskRunStatus \cup {NoOverride}
    OBVIOUS
  <2>3. run' \in TaskRun
    BY <1>0, <1>13, <2>2, ViewTyped, RunRows, RunUpdates DEF VbClose
  <2>4. synced' \in Nat /\ failed' \in Nat
    BY <1>0, <2>1 DEF ThreadTypeOK
  <2>5. ThreadTypeOK'
    BY <1>0, <2>1, <2>3, <2>4, ViewTyped, NoChangeTyped DEF ThreadTypeOK
  <2> QED BY <1>0, <2>1, <2>5, CommitsKeep DEF Located
<1>14. ASSUME VbLost PROVE TypeInv'
  BY <1>14, HandlersTyped DEF VbLost
<1>15. ASSUME FinalRead("vb_final_read", "vb_final_commit"), UNCHANGED effects PROVE TypeInv'
  <2>1. ThreadTypeOK'
    BY <1>0, <1>15, MovesTyped
  <2> QED BY <1>15, <2>1, MovesKeep DEF FinalRead, Located
<1>16. ASSUME NEW override \in {COMPLETED, NoOverride}, FinalCommit("vb_final_commit", override), UNCHANGED effects PROVE TypeInv'
  <2>1. ThreadTypeOK'
    BY <1>0, <1>16, FinalsTyped DEF TaskRunStatus, TERMINAL
  <2> QED BY <1>0, <1>16, <2>1, CommitsKeep DEF FinalCommit, Located
<1>17. ASSUME VbFinal PROVE TypeInv'
  BY <1>15, <1>16, <1>17 DEF VbFinal
<1>18. ASSUME VbAppend PROVE TypeInv'
  <2>1. run' \in TaskRun
    BY <1>0, <1>18, RunRows DEF VbAppend
  <2>2. ThreadTypeOK'
    BY <1>0, <1>18, <2>1 DEF VbAppend, ThreadTypeOK
  <2> QED BY <1>18, <2>2, MovesKeep DEF VbAppend, Located
<1> QED BY <1>1, <1>2, <1>3, <1>4, <1>5, <1>8, <1>9, <1>11, <1>12, <1>13, <1>14, <1>17, <1>18 DEF VeeamStep, VeeamRaises

\* The aggregation of the current period.
LEMMA CurrentTyped ==
    ASSUME TypeInv, CurrentStep \/ CurrentRaises
    PROVE  TypeInv'
<1> USE DEF plan, runRows, focus, totals, cancels, effects, TodoInRun, CurInRun, InSource, Before, Ended, Onward
<1>0. /\ ThreadTypeOK /\ keys \subseteq ItemKeys /\ Located /\ DOMAIN items = ItemKeys /\ run \in TaskRun /\ runSeen \in TaskRun
      /\ effect \in [ItemKeys -> {"none", "skipped", COMPLETED, FAILED}] /\ verdict \in {"none", COMPLETED, FAILED}
  BY DEF TypeInv, TypeOK, ThreadTypeOK
<1>1. ASSUME NEW at, NEW after \in {"done", "cur_init", "cur_list", "cur_end", "cur_cancelled", "mark_read"}, Goto(at, after),
             at \in {"launched", "cur_loop", "cur_start"}, at = "launched" => after \in Before, UNCHANGED effects
      PROVE  TypeInv'
  <2>1. ThreadTypeOK'
    BY <1>0, <1>1, MovesTyped
  <2> QED BY <1>1, <2>1, MovesKeep DEF Goto, Located
<1>2. ASSUME InitItems("cur_init", "cur_summary"), UNCHANGED effects PROVE TypeInv'
  <2>1. ThreadTypeOK'
    BY <1>0, <1>2, ItemsTyped DEF TaskRunStatus, TERMINAL
  <2> QED BY <1>2, <2>1, CreatesKeep DEF InitItems, Located
<1>3. ASSUME NEW at \in {"cur_summary", "cur_end"}, NEW after \in {"cur_list", "cur_final_read"}, CurSummary(at, after) PROVE TypeInv'
  <2>1. run' \in TaskRun
    BY <1>0, <1>3, RunRows DEF CurSummary
  <2>2. ThreadTypeOK'
    BY <1>0, <1>3, <2>1 DEF CurSummary, ThreadTypeOK
  <2> QED BY <1>3, <2>2, MovesKeep DEF CurSummary, Located
<1>4. ASSUME CurBegin PROVE TypeInv'
  BY <1>1, <1>2, <1>3, <1>4 DEF CurBegin, CheckCancelled
<1>5. ASSUME NEW listed \in SUBSET PlainKeys, CurList(listed) PROVE TypeInv'
  <2>1. listed \in SUBSET ItemKeys
    BY KeysArePairs, StagesPositive DEF PlainKeys
  <2>2. ThreadTypeOK'
    BY <1>0, <1>5, <2>1 DEF CurList, ThreadTypeOK
  <2>3. effect' \in [ItemKeys -> {"none", "skipped", COMPLETED, FAILED}]
    BY <1>0, <1>5 DEF CurList
  <2> QED BY <1>5, <2>2, <2>3, SkipsKeep DEF CurList, Located
<1>6. ASSUME CurRunnerDone \/ CurUnknown PROVE TypeInv'
  BY <1>1, <1>6 DEF CurRunnerDone, CurUnknown
<1>7. ASSUME CurTake PROVE TypeInv'
  <2>1. ThreadTypeOK'
    BY <1>0, <1>7, MovesTyped DEF CurTake
  <2>2. Located'
    BY <1>0, <1>7 DEF CurTake, TakeNext, Located, ThreadTypeOK
  <2> QED BY <1>7, <2>1, <2>2, MovesKeep DEF CurTake, TakeNext
<1>8. ASSUME items[cur] # ABSENT, LoadItem("cur_start", start_item(items[cur]), "cur_start_commit"), UNCHANGED effects PROVE TypeInv'
  <2>1. cur \in keys /\ cur \in ItemKeys
    BY <1>0, <1>8 DEF LoadItem, Located, TypeInv, Existing
  <2>2. start_item(items[cur]) \in TaskRunStatus
    BY <1>0, <2>1, ItemStatuses DEF ThreadTypeOK
  <2>3. ThreadTypeOK' /\ DOMAIN stage' \subseteq keys
    BY <1>0, <1>8, <2>1, <2>2, ItemsTyped, ChangeTyped DEF LoadItem
  <2> QED BY <1>0, <1>8, <2>1, <2>3, LoadsKeep DEF LoadItem, Located
<1>9. ASSUME CommitItems("cur_start_commit", "cur_work"), UNCHANGED effects PROVE TypeInv'
  <2>1. ThreadTypeOK'
    BY <1>0, <1>9, ItemsTyped DEF TaskRunStatus, TERMINAL
  <2> QED BY <1>0, <1>9, <2>1, CommitsKeep DEF CommitItems, Located
<1>10. ASSUME CurStart PROVE TypeInv'
  BY <1>1, <1>8, <1>9, <1>10 DEF CurStart
<1>11. ASSUME NEW ok \in BOOLEAN, CurReport(ok) PROVE TypeInv'
  <2>1. cur \in keys /\ cur \in ItemKeys
    BY <1>0, <1>11 DEF Located, CurReport
  <2>2. Outcome(ok, items[cur]) \in TaskRunStatus
    BY <1>0, <2>1, ItemStatuses DEF ThreadTypeOK
  <2>3. CASE run.status = CANCELLED
    <3>1. ThreadTypeOK'
      BY <1>0, <1>11, <2>3 DEF CurReport, ThreadTypeOK
    <3> QED BY <1>11, <2>3, <3>1, MovesKeep DEF CurReport, Located
  <2>4. CASE run.status # CANCELLED
    <3>1. DOMAIN stage' \subseteq {cur} /\ \A i \in DOMAIN stage' : stage'[i] \in TaskRunStatus
      BY <1>11, <2>1, <2>2, <2>4, ChangeTyped DEF CurReport
    <3>2. ThreadTypeOK' /\ DOMAIN stage' \subseteq keys
      BY <1>0, <1>11, <2>1, <2>4, <3>1 DEF CurReport, ThreadTypeOK
    <3> QED BY <1>11, <2>1, <2>4, <3>2, LoadsKeep, Verdicts DEF CurReport, Located
  <2> QED BY <2>3, <2>4
<1>12. ASSUME CurCommit PROVE TypeInv'
  <2>1. ThreadTypeOK'
    BY <1>0, <1>12, ItemsTyped DEF CurCommit, TaskRunStatus, TERMINAL
  <2>2. effect' \in [ItemKeys -> {"none", "skipped", COMPLETED, FAILED}]
    BY <1>0, <1>12 DEF CurCommit
  <2> QED BY <1>0, <1>12, <2>1, <2>2, CommitsKeep DEF CurCommit, CommitItems, Located
<1>13. ASSUME CurCancelled PROVE TypeInv'
  <2>1. ThreadTypeOK'
    BY <1>0, <1>13, FinalsTyped DEF CurCancelled
  <2> QED BY <1>13, <2>1, MovesKeep DEF CurCancelled, RecountCancelled, Located
<1>14. ASSUME CurFinal PROVE TypeInv'
  <2>1. run' \in TaskRun /\ runSeen' \in TaskRun
    <3>1. finalize_run(runSeen, items) \in TaskRun
      BY <1>0, RunRows
    <3>2. /\ run' \in {run, UpdateChanged(run, runSeen, finalize_run(runSeen, items))}
          /\ runSeen' \in {run, runSeen}
      BY <1>14 DEF CurFinal
    <3> QED BY <1>0, <3>1, <3>2, RunUpdates
  <2>2. ThreadTypeOK'
    BY <1>0, <1>14, <2>1 DEF CurFinal, ThreadTypeOK
  <2> QED BY <1>14, <2>2, MovesKeep DEF CurFinal, Located
<1>15. ASSUME FailRun \/ CurrentRaises PROVE TypeInv'
  BY <1>15, HandlersTyped DEF CurrentRaises
<1> QED BY <1>3, <1>4, <1>5, <1>6, <1>7, <1>10, <1>11, <1>12, <1>13, <1>14, <1>15 DEF CurrentStep, CurEnd

\* The daily statistics of the classification.
LEMMA DailyTyped ==
    ASSUME TypeInv, DailyStep \/ DailyRaises
    PROVE  TypeInv'
<1> USE DEF plan, runRows, focus, totals, cancels, effects, TodoInRun, CurInRun, InSource, Before, Ended, Onward
<1>0. /\ ThreadTypeOK /\ keys \subseteq ItemKeys /\ Located /\ DOMAIN items = ItemKeys /\ run \in TaskRun /\ runSeen \in TaskRun
      /\ effect \in [ItemKeys -> {"none", "skipped", COMPLETED, FAILED}] /\ verdict \in {"none", COMPLETED, FAILED}
      /\ NoOverride \in TaskRunStatus \cup {NoOverride}
  BY DEF TypeInv, TypeOK, ThreadTypeOK
<1>1. ASSUME DlStart \/ DlStats \/ ((Goto("dl_accounts", "mark_read") \/ Goto("dl_loop", "dl_stats")) /\ UNCHANGED effects)
      PROVE  TypeInv'
  <2>1. ThreadTypeOK'
    BY <1>0, <1>1, MovesTyped DEF DlStart, DlStats, CheckCancelled
  <2> QED BY <1>1, <2>1, MovesKeep DEF DlStart, DlStats, CheckCancelled, Goto, Located
<1>2. ASSUME InitItems("dl_init", "dl_accounts"), UNCHANGED effects PROVE TypeInv'
  <2>1. ThreadTypeOK'
    BY <1>0, <1>2, ItemsTyped DEF TaskRunStatus, TERMINAL
  <2> QED BY <1>2, <2>1, CreatesKeep DEF InitItems, Located
<1>3. ASSUME BeginLoop("dl_accounts", keys, "dl_loop") \/ TakeNext("dl_loop", "dl_start"), UNCHANGED effects PROVE TypeInv'
  <2>1. ThreadTypeOK'
    BY <1>0, <1>3, MovesTyped
  <2>2. Located'
    BY <1>0, <1>3 DEF BeginLoop, TakeNext, Located
  <2> QED BY <1>3, <2>1, <2>2, MovesKeep DEF BeginLoop, TakeNext
<1>4. ASSUME DlCancelled PROVE TypeInv'
  <2>1. ThreadTypeOK'
    BY <1>0, <1>4, FinalsTyped DEF DlCancelled
  <2> QED BY <1>4, <2>1, MovesKeep DEF DlCancelled, RecountCancelled, Located
<1>5. ASSUME NEW st \in TaskRunStatus, NEW at \in {"dl_start", "dl_work"}, NEW after \in {"dl_start_commit", "dl_commit"},
             LoadItem(at, st, after), UNCHANGED effects
      PROVE  TypeInv'
  <2>1. cur \in keys /\ cur \in ItemKeys
    BY <1>0, <1>5 DEF LoadItem, Located
  <2>2. ThreadTypeOK' /\ DOMAIN stage' \subseteq keys
    BY <1>0, <1>5, <2>1, ItemsTyped, ChangeTyped DEF LoadItem
  <2> QED BY <1>0, <1>5, <2>1, <2>2, LoadsKeep DEF LoadItem, Located
<1>6. ASSUME NEW at \in {"dl_start_commit", "dl_commit"}, NEW after \in {"dl_work", "dl_loop"}, CommitItems(at, after), UNCHANGED effects
      PROVE  TypeInv'
  <2>1. ThreadTypeOK'
    BY <1>0, <1>6, ItemsTyped DEF TaskRunStatus, TERMINAL
  <2> QED BY <1>0, <1>6, <2>1, CommitsKeep DEF CommitItems, Located
<1>7. ASSUME DlItems \/ DlRule PROVE TypeInv'
  <2>1. ASSUME pc \in {"dl_start", "dl_work"}
        PROVE  start_item(items[cur]) \in TaskRunStatus /\ complete_item(items[cur]) \in TaskRunStatus
    BY <1>0, <2>1, ItemStatuses DEF Located, ThreadTypeOK, Outcome
  <2> QED BY <1>1, <1>2, <1>3, <1>5, <1>6, <1>7, <2>1 DEF DlItems, DlRule
<1>8. ASSUME DlRuleFails PROVE TypeInv'
  <2> DEFINE mine == [items EXCEPT ![cur] = fail_item(@)]
             new == IF run.status = CANCELLED THEN mine
                    ELSE [k \in ItemKeys |-> IF mine[k] \in IN_PROGRESS THEN FAILED ELSE mine[k]]
  <2>1. cur \in keys /\ cur \in ItemKeys
    BY <1>0, <1>8 DEF DlRuleFails, Located
  <2>2. /\ stage' = [k \in {k \in ItemKeys : new[k] # items[k]} |-> new[k]] /\ pc = "dl_work" /\ pc' = "dl_rule_failed"
        /\ runSeen' = run
        /\ UNCHANGED <<task, keys, run, items, todo, cur, synced, failed, cpc, csnap, effect, verdict>>
    BY <1>8 DEF DlRuleFails
  <2>3. ASSUME NEW k \in ItemKeys, new[k] # items[k] PROVE k \in keys /\ new[k] \in TaskRunStatus
    <3>1. mine[k] = (IF k = cur THEN fail_item(items[cur]) ELSE items[k]) /\ fail_item(items[cur]) \in {FAILED, CANCELLED}
      BY <1>0, <2>1 DEF fail_item
    <3>2. new[k] \in {mine[k], FAILED} /\ (new[k] # mine[k] => mine[k] \in IN_PROGRESS)
      OBVIOUS
    <3>3. k # cur => items[k] \in IN_PROGRESS
      BY <2>3, <3>1, <3>2
    <3>4. k \in keys
      BY <2>1, <3>3 DEF TypeInv, Existing, IN_PROGRESS, PENDING, RUNNING, ABSENT
    <3>5. new[k] \in TaskRunStatus
      BY <2>3, <3>1, <3>2 DEF TaskRunStatus, TERMINAL
    <3> QED BY <3>4, <3>5
  <2> HIDE DEF mine, new
  <2>4. DOMAIN stage' \subseteq keys /\ \A k \in DOMAIN stage' : stage'[k] \in TaskRunStatus
    BY <2>2, <2>3
  <2>5. ThreadTypeOK'
    BY <1>0, <2>2, <2>4 DEF ThreadTypeOK
  <2> QED BY <2>1, <2>2, <2>4, <2>5, LoadsKeep DEF Located
<1>9. ASSUME DlRuleFailed PROVE TypeInv'
  <2>1. run' \in TaskRun
    <3>1. mark_run_failed(runSeen, View) \in TaskRun
      BY <1>0, ViewTyped, RunRows
    <3>2. run' \in {run, UpdateChanged(run, runSeen, mark_run_failed(runSeen, View))}
      BY <1>9 DEF DlRuleFailed
    <3> QED BY <1>0, <3>1, <3>2, RunUpdates
  <2>2. ThreadTypeOK'
    BY <1>0, <1>9, <2>1, ViewTyped, NoChangeTyped DEF DlRuleFailed, ThreadTypeOK
  <2> QED BY <1>0, <1>9, <2>2, CommitsKeep DEF DlRuleFailed, Located
<1>10. ASSUME DlFinalRead PROVE TypeInv'
  <2>1. ThreadTypeOK'
    BY <1>0, <1>10 DEF DlFinalRead, ThreadTypeOK
  <2> QED BY <1>10, <2>1, MovesKeep DEF DlFinalRead, Located
<1>11. ASSUME DlFinalCommit PROVE TypeInv'
  <2>1. run' \in TaskRun
    BY <1>0, <1>11, RunRows, RunUpdates DEF DlFinalCommit
  <2>2. ThreadTypeOK'
    BY <1>0, <1>11, <2>1 DEF DlFinalCommit, ThreadTypeOK
  <2>3. effect' \in [ItemKeys -> {"none", "skipped", COMPLETED, FAILED}]
    BY <1>0, <1>11 DEF DlFinalCommit
  <2> QED BY <1>11, <2>2, <2>3, SkipsKeep DEF DlFinalCommit, Located
<1>12. ASSUME FailRun \/ DailyRaises PROVE TypeInv'
  BY <1>8, <1>12, HandlersTyped DEF DailyRaises
<1> QED BY <1>1, <1>4, <1>7, <1>8, <1>9, <1>10, <1>11, <1>12 DEF DailyStep

\* The requests.
LEMMA RequestTyped ==
    ASSUME TypeInv, NEW c \in RunCancels, Request(c)
    PROVE  TypeInv'
<1> USE DEF plan, runRows, focus, totals, effects
<1>1. ThreadTypeOK'
  <2>1. ThreadTypeOK /\ (CancelAborts(c) => ThreadTypeOK')
    BY DEF TypeInv, TypeOK, CancelAborts, ThreadTypeOK
  <2> QED BY <2>1, RequestsTyped DEF Request
<1>2. UNCHANGED <<task, keys, pc, todo, cur, stage, effect, verdict>>
  BY DEF Request, RunCancelStep, CancelRead, CancelFlush, CancelCommit, CancelAborts
<1>3. TypeOK' /\ Planned' /\ Located'
  BY <1>1, <1>2 DEF TypeInv, TypeOK, Planned, Located
<1>4. \/ UNCHANGED <<items, csnap>>
      \/ UNCHANGED items /\ csnap' = [csnap EXCEPT ![c] = items]
      \/ UNCHANGED csnap /\ items' = [i \in ItemKeys |-> IF csnap[c][i] \in IN_PROGRESS THEN CANCELLED ELSE items[i]]
  BY DEF Request, RunCancelStep, CancelRead, CancelFlush, CancelCommit, CancelAborts
<1>5. \A k \in ItemKeys : items'[k] # items[k] => k \in keys /\ items'[k] # ABSENT
  BY <1>4 DEF TypeInv, Existing, ABSENT, CANCELLED
<1>6. \A d \in RunCancels : \A k \in ItemKeys : csnap'[d][k] \in IN_PROGRESS => k \in keys
  BY <1>4 DEF TypeInv, TypeOK, ThreadTypeOK, Existing, IN_PROGRESS, PENDING, RUNNING, ABSENT
<1> QED BY <1>2, <1>3, <1>5, <1>6 DEF TypeInv, TypeOK, ThreadTypeOK, Existing

\* Every step of every task keeps rows and locals of their kinds.
LEMMA TypeInvKept == TypeInv /\ Fresh /\ [Next]_vars => TypeInv'
<1> SUFFICES ASSUME TypeInv, Fresh, [Next]_vars PROVE TypeInv'
  OBVIOUS
<1>1. ASSUME TaskStep \/ TaskRaises PROVE TypeInv'
  <2>1. ASSUME ClusterRaises \/ ADEscapes \/ FailRun PROVE TypeInv'
    BY <2>1, HandlersTyped DEF ClusterRaises, ADEscapes
  <2> QED BY <1>1, <2>1, SerialTyped, JumpServerTyped, VeeamTyped, CurrentTyped, DailyTyped
          DEF TaskStep, TaskRaises, ClusterStep, ADStep
<1>2. ASSUME TaskDies PROVE TypeInv'
  BY <1>2, HandlersTyped
<1>3. ASSUME NEW c \in RunCancels, Request(c) PROVE TypeInv'
  BY <1>3, RequestTyped
<1>4. ASSUME UNCHANGED vars PROVE TypeInv'
  BY <1>4 DEF vars, threadVars, plan, runRows, focus, totals, cancels, effects, TypeInv, TypeOK, ThreadTypeOK, Planned, Located, Existing
<1> QED BY <1>1, <1>2, <1>3, <1>4 DEF Next, Terminating

\* At first everything is in place.
LEMMA TypeInvInit == Init => TypeInv
<1> SUFFICES ASSUME Init PROVE TypeInv
  OBVIOUS
<1>1. PlainKeys \subseteq ItemKeys /\ \A s \in Subjects : Stages(s) \subseteq ItemKeys
  BY KeysArePairs, StagesPositive DEF PlainKeys, Stages
<1>2. /\ keys \subseteq ItemKeys /\ Planned
      /\ \E prepared \in SUBSET keys : /\ ThreadInit(prepared)
                                       /\ task \in {"sync_jumpserver_assets", "sync_veeam_backups"} => prepared = keys
      /\ task \in PlainTasks \cup {"sync_jumpserver_assets", "sync_veeam_backups"}
  <2>1. CASE task \in PlainTasks /\ keys \in SUBSET PlainKeys /\ ThreadInit({})
    BY <1>1, <2>1 DEF Planned, PlainTasks
  <2>2. CASE task = "sync_jumpserver_assets" /\ JumpServerInit
    BY <1>1, <2>2 DEF Planned, JumpServerInit
  <2>3. CASE task = "sync_veeam_backups" /\ VeeamInit
    <3>1. PICK sources \in (SUBSET (Subjects \ {Only})) \ {{}} :
              keys = UNION {Stages(s) : s \in Prefixes(sources)} /\ ThreadInit(keys)
      BY <2>3 DEF VeeamInit
    <3>2. Prefixes(sources) \subseteq Subjects /\ (Only \in Prefixes(sources) => Prefixes(sources) = {Only})
      BY OnlyIsSubject DEF Prefixes
    <3>3. \A k \in keys : k[1] \in Prefixes(sources)
      BY <3>1 DEF Stages
    <3>4. Planned
      BY <2>3, <3>1, <3>2, <3>3 DEF Planned
    <3> QED BY <1>1, <2>3, <3>1, <3>2, <3>4
  <2> QED BY <2>1, <2>2, <2>3 DEF Init
<1>3. PICK prepared \in SUBSET keys : /\ ThreadInit(prepared)
                                      /\ task \in {"sync_jumpserver_assets", "sync_veeam_backups"} => prepared = keys
  BY <1>2
<1>4. /\ items = [i \in ItemKeys |-> IF i \in prepared THEN PENDING ELSE ABSENT]
      /\ csnap = [c \in RunCancels |-> items] /\ pc = "launched"
  BY <1>3 DEF ThreadInit, init_items
<1>5. run \in TaskRun /\ runSeen = run
  <2>1. Cardinality(prepared) \in Nat
    BY <1>2, <1>3, KeysFinite, FS_Subset, FS_CardinalityType
  <2> QED BY <1>3, <2>1 DEF ThreadInit, TaskRun, start_run, TaskRunStatus, TERMINAL, IN_PROGRESS
<1>6. TypeOK
  <2>1. items \in [ItemKeys -> TaskRunStatus \cup {ABSENT}]
    BY <1>4 DEF TaskRunStatus, IN_PROGRESS
  <2>2. csnap \in [RunCancels -> [ItemKeys -> TaskRunStatus \cup {ABSENT}]]
    BY <1>4, <2>1
  <2>3. /\ todo = {} /\ cur = NoKey /\ stage = NoChange /\ synced = 0 /\ failed = 0
        /\ cpc = [c \in RunCancels |-> "read"]
    BY <1>3 DEF ThreadInit
  <2>4. effect \in [ItemKeys -> {"none", "skipped", COMPLETED, FAILED}] /\ verdict = "none"
    BY DEF Init, EffectInit
  <2>5. ThreadTypeOK
    BY <1>2, <1>5, <2>1, <2>2, <2>3, NoChangeTyped DEF ThreadTypeOK
  <2> QED BY <1>2, <2>4, <2>5 DEF TypeOK
<1>7. Located
  BY <1>4 DEF Located, TodoInRun, CurInRun, InSource
<1>8. Existing
  BY <1>2, <1>3, <1>4, NoChangeTyped DEF Existing, ThreadInit, Before, IN_PROGRESS, ABSENT, PENDING, RUNNING
<1> QED BY <1>2, <1>6, <1>7, <1>8 DEF TypeInv

(* Every row and every local of the tasks without a session is of its kind, *)
(* whatever the task, the keys, the stages and the requests (TaskRun and    *)
(* TaskRunItem as the service writes them).                                 *)
THEOREM RunTasksTyped == Spec => []TypeOK
<1>1. TypeInv => TypeOK
  BY DEF TypeInv
<1>2. EffectInv => Fresh
  BY DEF EffectInv
<1> QED BY <1>1, <1>2, TypeInvInit, TypeInvKept, EffectInvInit, EffectInvKept, PTL DEF Spec

-----------------------------------------------------------------------------
(* Which keys it has still to close. *)

\* Where the thread loops over keys, where it has one of them in hand, and where it is through with them.
Loops == {"loop", "cur_loop", "dl_loop"}
InHand == {"start", "start_commit", "work", "settle", "cur_start", "cur_start_commit", "cur_work", "cur_commit",
           "dl_start", "dl_start_commit", "dl_work", "dl_commit"}
Through == {"final_read", "final_commit", "vb_final_read", "vb_final_commit", "cur_end", "cur_final_read",
            "cur_final_commit", "dl_stats", "dl_final_read", "dl_final_commit"}

\* The thread has still to close key k, or will not: it comes to it in a loop or has it in hand; of a
\* Veeam source it has the stages from the current one on before it.
Undone(k) ==
    /\ pc \in Loops \cup InHand => k \in todo \/ (pc \in InHand /\ k = cur)
    /\ pc \in InSource \cup {"vb_source"} => <<k[1], 1>> \in todo \/ (pc \in InSource /\ k[1] = cur[1] /\ k[2] >= cur[2])
    /\ pc \notin Through
Left(k) == effect[k] = "skipped" \/ Undone(k)

\* An open item is one the thread has skipped or has still to close.
OpenIsLeft == \A k \in ItemKeys : items[k] \in IN_PROGRESS \/ View[k] \in IN_PROGRESS => Left(k)

\* What is about to be committed leaves nothing open that it is meant to close.
Closes ==
    /\ pc \in {"settle", "cur_commit", "dl_commit", "js_close", "vb_stage_done"} => View[cur] \notin IN_PROGRESS
    /\ pc = "vb_close" => \A k \in Stages(cur[1]) : View[k] \in IN_PROGRESS => effect[k] = "skipped"
    /\ pc = "mark_commit" \/ (pc = "dl_rule_failed" /\ runSeen.status # CANCELLED) =>
           \A k \in ItemKeys : View[k] \notin IN_PROGRESS

WorkInv == OpenIsLeft /\ Closes

\* Where these say something.
Tracked == Loops \cup InHand \cup InSource \cup {"vb_source"} \cup Through
Closings == {"settle", "cur_commit", "dl_commit", "js_close", "vb_stage_done", "vb_close", "mark_commit", "dl_rule_failed"}

\* A step that leads to nowhere where there is work left to do.
LEMMA WorkElsewhere == pc' \notin Tracked \cup Closings => WorkInv'
  BY DEF WorkInv, OpenIsLeft, Closes, Left, Undone, Tracked, Closings

\* A step that leaves the rows and the transaction alone.
LEMMA WorkMoves ==
    ASSUME WorkInv, UNCHANGED items, stage' \in {stage, NoChange}, pc' \notin Closings,
           \A k \in ItemKeys : (items[k] \in IN_PROGRESS \/ View[k] \in IN_PROGRESS) /\ Left(k) => Left(k)'
    PROVE  WorkInv'
<1>1. \A k \in ItemKeys : View'[k] \in {View[k], items[k]}
  BY DEF View, NoChange
<1> QED BY <1>1 DEF WorkInv, OpenIsLeft, Closes, Closings

\* A step that gives the current item a status that is not committed yet.
LEMMA WorkLoads ==
    ASSUME WorkInv, UNCHANGED <<items, cur, effect, todo>>, cur \in ItemKeys, NEW st, stage' = Change(cur, st),
           pc \in InHand \cup (InSource \ {"vb_check", "vb_close"}), pc' \in InHand \cup (InSource \ {"vb_check", "vb_close"}),
           pc \in InHand <=> pc' \in InHand, pc' \in Closings => st \notin IN_PROGRESS
    PROVE  WorkInv'
<1>1. \A k \in ItemKeys : View'[k] = IF k = cur THEN st ELSE items[k]
  BY DEF View, Change
<1>2. \A k \in ItemKeys : (items[k] \in IN_PROGRESS /\ Left(k)) => Left(k)'
  BY DEF Left, Undone, InHand, InSource, Loops, Through
<1>3. Left(cur)'
  <2>1. cur[2] >= cur[2]
    BY KeysArePairs, StagesPositive
  <2> QED BY <2>1 DEF Left, Undone, InHand, InSource, Loops, Through
<1> QED BY <1>1, <1>2, <1>3 DEF WorkInv, OpenIsLeft, Closes, Closings, InHand, InSource

\* A step that commits what is in the transaction.
LEMMA WorkCommits ==
    ASSUME WorkInv, items' = View, stage' = NoChange, pc' \notin Closings,
           \A k \in ItemKeys : View[k] \in IN_PROGRESS /\ Left(k) => Left(k)'
    PROVE  WorkInv'
<1>1. \A k \in ItemKeys : View'[k] = View[k]
  BY DEF View, NoChange
<1> QED BY <1>1 DEF WorkInv, OpenIsLeft, Closes, Closings

\* A loop over all keys of the run begins, or a key is taken.
LEMMA WorkBegins ==
    ASSUME WorkInv, TypeInv, NEW at, NEW after, UNCHANGED effects,
           \/ BeginLoop(at, keys, after) /\ after \in Loops
           \/ TakeNext(at, after) /\ at \in Loops /\ after \in InHand \ Closings
    PROVE  WorkInv'
<1> USE DEF plan, runRows, focus, effects, Loops, InHand, InSource, Through, Closings
<1>1. \A k \in ItemKeys : items[k] \in IN_PROGRESS \/ View[k] \in IN_PROGRESS => k \in keys
  BY DEF View, TypeInv, Existing, IN_PROGRESS, PENDING, RUNNING, ABSENT
<1>2. \A k \in ItemKeys : (items[k] \in IN_PROGRESS \/ View[k] \in IN_PROGRESS) /\ Left(k) => Left(k)'
  BY <1>1 DEF BeginLoop, TakeNext, Left, Undone
<1>3. UNCHANGED <<items, stage>> /\ pc' \notin Closings
  BY DEF BeginLoop, TakeNext
<1> QED BY <1>2, <1>3, WorkMoves

\* The item in hand has been closed, and is committed.
LEMMA WorkSettles ==
    ASSUME WorkInv, NEW at \in {"settle", "cur_commit", "dl_commit"}, NEW after \in Loops, CommitItems(at, after),
           \A k \in ItemKeys : k # cur => effect'[k] = effect[k]
    PROVE  WorkInv'
<1> USE DEF plan, runRows, focus, Loops, InHand, InSource, Through, Closings
<1>1. \A k \in ItemKeys : View[k] \in IN_PROGRESS /\ Left(k) => Left(k)'
  BY DEF CommitItems, WorkInv, Closes, Left, Undone
<1> QED BY <1>1, WorkCommits DEF CommitItems

\* The item in hand has been started, and is committed.
LEMMA WorkStarted ==
    ASSUME WorkInv, NEW at \in {"start_commit", "cur_start_commit", "dl_start_commit"},
           NEW after \in {"work", "cur_work", "dl_work"}, CommitItems(at, after), UNCHANGED effects
    PROVE  WorkInv'
<1> USE DEF plan, runRows, focus, effects, Loops, InHand, InSource, Through, Closings
<1>1. \A k \in ItemKeys : View[k] \in IN_PROGRESS /\ Left(k) => Left(k)'
  BY DEF CommitItems, Left, Undone
<1> QED BY <1>1, WorkCommits DEF CommitItems

\* The loop is over, or its end goes on.
LEMMA WorkThrough ==
    ASSUME WorkInv, UNCHANGED <<items, stage, effect>>, (pc \in Loops \cup {"vb_source"} /\ todo = {}) \/ pc \in Through,
           pc' \in Through \/ pc' \notin Tracked \cup Closings
    PROVE  WorkInv'
<1> USE DEF Loops, InHand, InSource, Through, Closings
<1>1. CASE pc' \in Through
  <2>1. \A k \in ItemKeys : (items[k] \in IN_PROGRESS \/ View[k] \in IN_PROGRESS) /\ Left(k) => Left(k)'
    BY <1>1 DEF Left, Undone
  <2> QED BY <1>1, <2>1, WorkMoves
<1> QED BY <1>1, WorkElsewhere

-----------------------------------------------------------------------------
\* The loop that cluster status and AD share, and the final status.
LEMMA SerialWorks ==
    ASSUME WorkInv, TypeInv, SerialLoop \/ SerialFinal
    PROVE  WorkInv'
<1> USE DEF plan, runRows, focus, totals, effects, Tracked, Loops, InHand, InSource, Through, Closings
<1>0. /\ ThreadTypeOK /\ keys \subseteq ItemKeys /\ Located /\ effect \in [ItemKeys -> {"none", "skipped", COMPLETED, FAILED}]
  BY DEF TypeInv, TypeOK, ThreadTypeOK
<1>1. ASSUME InitItems("launched", "begin") PROVE WorkInv'
  BY <1>1, WorkElsewhere DEF InitItems
<1>2. ASSUME BeginLoop("begin", keys, "loop") \/ TakeNext("loop", "start"), UNCHANGED effects PROVE WorkInv'
  BY <1>2, WorkBegins
<1>3. ASSUME pc = "start", LoadItem("start", start_item(items[cur]), "start_commit"), UNCHANGED effects PROVE WorkInv'
  <2>1. cur \in ItemKeys
    BY <1>0, <1>3 DEF Located, CurInRun
  <2> QED BY <1>3, <2>1, WorkLoads DEF LoadItem
<1>4. ASSUME CommitItems("start_commit", "work"), UNCHANGED effects PROVE WorkInv'
  BY <1>4, WorkStarted
<1>5. ASSUME todo = {}, Goto("loop", "final_read"), UNCHANGED effects PROVE WorkInv'
  BY <1>5, WorkThrough DEF Goto
<1>6. ASSUME NEW ok \in BOOLEAN, Decide("work", ok, "settle") PROVE WorkInv'
  <2>1. cur \in ItemKeys
    BY <1>0, <1>6 DEF Located, CurInRun, Decide
  <2>2. Outcome(ok, items[cur]) \notin IN_PROGRESS
    BY DEF Outcome, complete_item, fail_item, IN_PROGRESS, PENDING, RUNNING, COMPLETED, FAILED, CANCELLED
  <2> QED BY <1>6, <2>1, <2>2, WorkLoads DEF Decide, LoadOutcome
<1>7. ASSUME Settle("settle", "loop") PROVE WorkInv'
  <2>1. \A k \in ItemKeys : k # cur => effect'[k] = effect[k]
    BY <1>0, <1>7 DEF Settle
  <2> QED BY <1>7, <2>1, WorkSettles DEF Settle
<1>8. ASSUME FinalRead("final_read", "final_commit"), UNCHANGED effects PROVE WorkInv'
  BY <1>8, WorkThrough DEF FinalRead
<1>9. ASSUME FinalCommit("final_commit", PartialFailure) PROVE WorkInv'
  BY <1>9, WorkElsewhere DEF FinalCommit
<1> QED BY <1>1, <1>2, <1>3, <1>4, <1>5, <1>6, <1>7, <1>8, <1>9 DEF SerialLoop, SerialFinal

\* The handler that fails the run; an exception; the end of the process.
LEMMA HandlersWork ==
    ASSUME WorkInv, TypeInv,
           \/ FailRun \/ TaskDies
           \/ (\E at : \E handler \in {"mark_read", "escaped"} : Raise(at, NoChange, handler)) /\ UNCHANGED effects
    PROVE  WorkInv'
<1> USE DEF plan, runRows, focus, totals, effects, Tracked, Loops, InHand, InSource, Through, Closings
<1>1. ASSUME MarkRead("mark_read", "done") PROVE WorkInv'
  <2>1. CASE run.status = CANCELLED
    BY <1>1, <2>1, WorkElsewhere DEF MarkRead
  <2>2. CASE run.status # CANCELLED
    <3>1. pc' = "mark_commit" /\ stage' = mark_items_failed(items) /\ UNCHANGED items
      BY <1>1, <2>2 DEF MarkRead
    <3>2. DOMAIN items = ItemKeys
      BY DEF TypeInv, TypeOK, ThreadTypeOK
    <3>3. \A k \in ItemKeys : View'[k] = IF items[k] \in IN_PROGRESS THEN FAILED ELSE items[k]
      BY <3>1, <3>2, NoChangeTyped DEF View, ItemsIn
    <3>4. \A k \in ItemKeys : View'[k] \notin IN_PROGRESS
      BY <3>3 DEF IN_PROGRESS, PENDING, RUNNING, FAILED
    <3> QED BY <3>1, <3>4 DEF WorkInv, OpenIsLeft, Closes, Left, Undone
  <2> QED BY <2>1, <2>2
<1> QED BY <1>1, WorkElsewhere DEF FailRun, MarkCommit, TaskDies, Die, Raise

\* The JumpServer synchronisation.
LEMMA JumpServerWorks ==
    ASSUME WorkInv, TypeInv, JumpServerStep \/ JumpServerRaises
    PROVE  WorkInv'
<1> USE DEF plan, runRows, focus, totals, effects, Tracked, Loops, InHand, InSource, Through, Closings
<1>1. ASSUME NEW st, NEW ok, JsLoad(st, ok), st \notin IN_PROGRESS, cur \in ItemKeys PROVE WorkInv'
  <2>1. View'[cur] = st
    BY <1>1 DEF JsLoad, View
  <2>2. pc' = "js_close" /\ cur' = cur
    BY <1>1 DEF JsLoad
  <2> QED BY <1>1, <2>1, <2>2 DEF WorkInv, OpenIsLeft, Closes, Left, Undone
<1>2. ASSUME JsFetched \/ JsFailed PROVE WorkInv'
  <2>1. cur \in ItemKeys
    BY <1>2 DEF JsFetched, JsFailed, TypeInv, TypeOK, ThreadTypeOK, Located, CurInRun
  <2>2. complete_item(View[cur]) \notin IN_PROGRESS /\ fail_item(items[cur]) \notin IN_PROGRESS
    BY DEF complete_item, fail_item, IN_PROGRESS, PENDING, RUNNING, COMPLETED, FAILED, CANCELLED
  <2> QED BY <1>1, <1>2, <2>1, <2>2 DEF JsFetched, JsFailed
<1>3. ASSUME JsStart \/ JsClose \/ JsRefuse PROVE WorkInv'
  BY <1>3, WorkElsewhere DEF JsStart, JsClose, JsRefuse, Goto
<1>4. ASSUME JsLost PROVE WorkInv'
  BY <1>4, HandlersWork DEF JsLost
<1> QED BY <1>2, <1>3, <1>4 DEF JumpServerStep, JumpServerRaises

\* The aggregation of the current period.
LEMMA CurrentWorks ==
    ASSUME WorkInv, TypeInv, EffectInv, task = "capacity_aggregate_current", CurrentStep \/ CurrentRaises
    PROVE  WorkInv'
<1> USE DEF plan, runRows, focus, totals, effects, Tracked, Loops, InHand, InSource, Through, Closings
<1>0. /\ ThreadTypeOK /\ keys \subseteq ItemKeys /\ Located /\ effect \in [ItemKeys -> {"none", "skipped", COMPLETED, FAILED}]
  BY DEF TypeInv, TypeOK, ThreadTypeOK
<1>1. ASSUME CurBegin \/ CurUnknown \/ CurCancelled PROVE WorkInv'
  BY <1>1, WorkElsewhere DEF CurBegin, CheckCancelled, Goto, InitItems, CurSummary, CurUnknown, CurCancelled, RecountCancelled
<1>2. ASSUME NEW listed \in SUBSET PlainKeys, CurList(listed) PROVE WorkInv'
  <2>1. /\ UNCHANGED <<items, stage>> /\ pc = "cur_list" /\ pc' = "cur_loop" /\ todo' = listed
        /\ effect' = [k \in ItemKeys |-> IF k \in keys \ listed /\ effect[k] = "none" THEN "skipped" ELSE effect[k]]
    BY <1>2 DEF CurList
  <2>2. ASSUME NEW k \in ItemKeys, items[k] \in IN_PROGRESS \/ View[k] \in IN_PROGRESS PROVE k \in PairedKeys
    <3>1. k \in keys
      BY <2>2 DEF View, TypeInv, Existing, IN_PROGRESS, PENDING, RUNNING, ABSENT
    <3> QED BY <3>1 DEF TypeInv, Planned, PairedKeys
  <2>3. ASSUME NEW k \in ItemKeys, items[k] \in IN_PROGRESS \/ View[k] \in IN_PROGRESS PROVE Left(k)'
    <3>1. Agree(items[k], effect[k]) /\ Agree(View[k], effect[k]) /\ k \in keys
      BY <2>1, <2>2, <2>3 DEF EffectInv, Agreeing, Coming, Closing, PairedKeys
    <3>2. effect[k] \in {"none", "skipped"}
      BY <1>0, <2>3, <3>1 DEF Agree, IN_PROGRESS, PENDING, RUNNING, COMPLETED, FAILED, CANCELLED
    <3> QED BY <2>1, <3>1, <3>2 DEF Left, Undone
  <2> QED BY <2>1, <2>3, WorkMoves
<1>3. ASSUME CurRunnerDone PROVE WorkInv'
  BY <1>3, WorkThrough, WorkElsewhere DEF CurRunnerDone, Goto
<1>4. ASSUME CurTake PROVE WorkInv'
  BY <1>4, WorkBegins DEF CurTake
<1>5. ASSUME items[cur] # ABSENT, pc = "cur_start", LoadItem("cur_start", start_item(items[cur]), "cur_start_commit"), UNCHANGED effects
      PROVE  WorkInv'
  <2>1. cur \in ItemKeys
    BY <1>0, <1>5 DEF Located
  <2> QED BY <1>5, <2>1, WorkLoads DEF LoadItem
<1>6. ASSUME CurStart PROVE WorkInv'
  BY <1>5, <1>6, WorkStarted, WorkElsewhere DEF CurStart, Goto
<1>7. ASSUME NEW ok \in BOOLEAN, CurReport(ok) PROVE WorkInv'
  <2>1. CASE run.status = CANCELLED
    BY <1>7, <2>1, WorkElsewhere DEF CurReport
  <2>2. CASE run.status # CANCELLED
    <3>1. cur \in ItemKeys
      BY <1>0, <1>7 DEF Located, CurInRun, CurReport
    <3>2. Outcome(ok, items[cur]) \notin IN_PROGRESS
      BY DEF Outcome, complete_item, fail_item, IN_PROGRESS, PENDING, RUNNING, COMPLETED, FAILED, CANCELLED
    <3> QED BY <1>7, <2>2, <3>1, <3>2, WorkLoads DEF CurReport
  <2> QED BY <2>1, <2>2
<1>8. ASSUME CurCommit PROVE WorkInv'
  <2>1. \A k \in ItemKeys : k # cur => effect'[k] = effect[k]
    BY <1>0, <1>8 DEF CurCommit
  <2> QED BY <1>8, <2>1, WorkSettles DEF CurCommit
<1>9. ASSUME CurEnd \/ CurFinal PROVE WorkInv'
  BY <1>9, WorkThrough DEF CurEnd, CurSummary, CurFinal
<1>10. ASSUME FailRun \/ CurrentRaises PROVE WorkInv'
  BY <1>10, HandlersWork DEF CurrentRaises
<1> QED BY <1>1, <1>2, <1>3, <1>4, <1>6, <1>7, <1>8, <1>9, <1>10 DEF CurrentStep

\* The daily statistics of the classification.
LEMMA DailyWorks ==
    ASSUME WorkInv, TypeInv, DailyStep \/ DailyRaises
    PROVE  WorkInv'
<1> USE DEF plan, runRows, focus, totals, effects, Tracked, Loops, InHand, InSource, Through, Closings
<1>0. /\ ThreadTypeOK /\ keys \subseteq ItemKeys /\ Located
  BY DEF TypeInv, TypeOK, ThreadTypeOK
<1>1. ASSUME DlStart \/ DlCancelled \/ DlRuleFailed \/ DlFinalCommit PROVE WorkInv'
  BY <1>1, WorkElsewhere DEF DlStart, Goto, DlCancelled, RecountCancelled, DlRuleFailed, DlFinalCommit
<1>2. ASSUME DlItems PROVE WorkInv'
  BY <1>2, WorkElsewhere, WorkBegins DEF DlItems, InitItems, Goto
<1>3. ASSUME NEW st, \/ LoadItem("dl_start", st, "dl_start_commit")
                     \/ LoadItem("dl_work", st, "dl_commit") /\ st \notin IN_PROGRESS,
             UNCHANGED effects
      PROVE  WorkInv'
  <2>1. cur \in ItemKeys
    BY <1>0, <1>3 DEF Located, CurInRun, LoadItem
  <2> QED BY <1>3, <2>1, WorkLoads DEF LoadItem
<1>4. ASSUME DlRule PROVE WorkInv'
  <2>1. complete_item(items[cur]) \notin IN_PROGRESS
    BY DEF complete_item, IN_PROGRESS, PENDING, RUNNING, COMPLETED, FAILED, CANCELLED
  <2>2. ASSUME todo = {}, Goto("dl_loop", "dl_stats"), UNCHANGED effects PROVE WorkInv'
    BY <2>2, WorkThrough DEF Goto
  <2>3. ASSUME CommitItems("dl_commit", "dl_loop"), UNCHANGED effects PROVE WorkInv'
    BY <2>3, WorkSettles
  <2> QED BY <1>3, <1>4, <2>1, <2>2, <2>3, WorkBegins, WorkStarted DEF DlRule
<1>5. ASSUME DlRuleFails PROVE WorkInv'
  <2> DEFINE mine == [items EXCEPT ![cur] = fail_item(@)]
             new == IF run.status = CANCELLED THEN mine
                    ELSE [k \in ItemKeys |-> IF mine[k] \in IN_PROGRESS THEN FAILED ELSE mine[k]]
  <2>1. /\ stage' = [k \in {k \in ItemKeys : new[k] # items[k]} |-> new[k]] /\ pc' = "dl_rule_failed"
        /\ runSeen' = run /\ items' = items
    BY <1>5 DEF DlRuleFails
  <2>2. \A k \in ItemKeys : run.status # CANCELLED => new[k] \notin IN_PROGRESS
    BY DEF IN_PROGRESS, PENDING, RUNNING, FAILED
  <2> HIDE DEF mine, new
  <2>3. \A k \in ItemKeys : View'[k] = new[k]
    BY <2>1 DEF View
  <2> QED BY <2>1, <2>2, <2>3 DEF WorkInv, OpenIsLeft, Closes, Left, Undone
<1>6. ASSUME DlStats \/ DlFinalRead PROVE WorkInv'
  BY <1>6, WorkThrough DEF DlStats, CheckCancelled, Goto, DlFinalRead
<1>7. ASSUME FailRun \/ DailyRaises PROVE WorkInv'
  BY <1>5, <1>7, HandlersWork DEF DailyRaises
<1> QED BY <1>1, <1>2, <1>4, <1>5, <1>6, <1>7 DEF DailyStep

\* The Veeam synchronisation.
LEMMA VeeamWorks ==
    ASSUME WorkInv, TypeInv, EffectInv, task = "sync_veeam_backups", VeeamStep \/ VeeamRaises
    PROVE  WorkInv'
<1> USE DEF plan, runRows, focus, totals, effects, Tracked, Loops, InHand, InSource, Through, Closings
<1>0. /\ ThreadTypeOK /\ keys \subseteq ItemKeys /\ Located /\ Fresh
      /\ effect \in [ItemKeys -> {"none", "skipped", COMPLETED, FAILED}]
  BY DEF TypeInv, TypeOK, ThreadTypeOK, EffectInv
<1>a. \A k \in ItemKeys : items[k] \in IN_PROGRESS \/ View[k] \in IN_PROGRESS => k \in keys
  BY DEF View, TypeInv, Existing, IN_PROGRESS, PENDING, RUNNING, ABSENT
<1>b. \A k \in ItemKeys : k = <<k[1], k[2]>> /\ k[2] \in 1 .. LastStage /\ k \in Stages(k[1]) /\ <<k[1], 1>> \in Stages(k[1])
  BY KeysArePairs, StagesPositive DEF Stages
<1>c. pc \in InSource => /\ cur = <<cur[1], cur[2]>> /\ cur[2] \in 1 .. LastStage
                         /\ \A k \in todo : k[1] # cur[1]
  BY <1>0 DEF Fresh
<1>d. pc \in InSource => \A k \in ItemKeys : (items[k] \in IN_PROGRESS \/ View[k] \in IN_PROGRESS) /\ k[1] = cur[1] =>
          effect[k] = "skipped" \/ k[2] >= cur[2]
  <2>1. pc \in InSource => \A k \in ItemKeys : k[1] = cur[1] => <<k[1], 1>> \notin todo
    BY <1>c
  <2> QED BY <2>1 DEF WorkInv, OpenIsLeft, Left, Undone
<1>1. ASSUME NEW sources \in SUBSET (Subjects \ {Only}), VbSources(sources) PROVE WorkInv'
  <2>1. CASE sources = {}
    BY <1>1, <2>1, WorkElsewhere DEF VbSources
  <2>2. CASE sources # {}
    <3>1. /\ UNCHANGED <<items, stage>> /\ pc' = "vb_source" /\ todo' = Prefixes(sources) \X {1}
          /\ effect' = [k \in ItemKeys |-> IF k \in keys /\ k[1] \notin Prefixes(sources) THEN "skipped" ELSE effect[k]]
      BY <1>1, <2>2 DEF VbSources
    <3>2. \A k \in ItemKeys : (items[k] \in IN_PROGRESS \/ View[k] \in IN_PROGRESS) => Left(k)'
      BY <1>a, <3>1 DEF Left, Undone
    <3> QED BY <3>1, <3>2, WorkMoves
  <2> QED BY <2>1, <2>2
<1>2. ASSUME VbTake PROVE WorkInv'
  <2>1. /\ UNCHANGED <<items, stage, effect>> /\ pc = "vb_source" /\ pc' = "vb_check" /\ cur' \in todo /\ todo' = todo \ {cur'}
    BY <1>2 DEF VbTake, TakeNext
  <2>2. cur' = <<cur'[1], 1>>
    BY <1>0, <2>1 DEF Fresh
  <2>3. ASSUME NEW k \in ItemKeys, Left(k) PROVE Left(k)'
    <3>1. effect[k] = "skipped" \/ <<k[1], 1>> \in todo
      BY <2>1, <2>3 DEF Left, Undone
    <3>2. CASE <<k[1], 1>> = cur'
      <4>1. k[1] = cur'[1] /\ cur'[2] = 1 /\ k[2] >= 1
        BY <1>b, <2>2, <3>2
      <4> QED BY <2>1, <4>1 DEF Left, Undone
    <3>3. CASE <<k[1], 1>> # cur'
      BY <2>1, <3>1, <3>3 DEF Left, Undone
    <3> QED BY <3>2, <3>3
  <2> QED BY <2>1, <2>3, WorkMoves
<1>3. ASSUME VbSkipSource PROVE WorkInv'
  <2>1. /\ UNCHANGED <<items, stage, todo, cur>> /\ pc = "vb_check" /\ pc' = "vb_source"
        /\ effect' = [k \in ItemKeys |-> IF k \in Stages(cur[1]) /\ k \in keys THEN "skipped" ELSE effect[k]]
    BY <1>3 DEF VbSkipSource
  <2>2. \A k \in ItemKeys : (items[k] \in IN_PROGRESS \/ View[k] \in IN_PROGRESS) /\ Left(k) => Left(k)'
    BY <1>a, <1>b, <2>1 DEF Left, Undone
  <2> QED BY <2>1, <2>2, WorkMoves
<1>4. ASSUME VbEnter PROVE WorkInv'
  <2>1. \A k \in ItemKeys : Left(k) => Left(k)'
    BY <1>4 DEF VbEnter, Goto, Left, Undone
  <2> QED BY <1>4, <2>1, WorkMoves DEF VbEnter, Goto
<1>5. ASSUME VbStage PROVE WorkInv'
  <2>1. pc \in {"vb_stage", "vb_work"} => cur \in ItemKeys
    BY <1>0 DEF Located, CurInRun
  <2>2. ASSUME LoadItem("vb_stage", start_item(items[cur]), "vb_stage_commit"), UNCHANGED effects PROVE WorkInv'
    BY <2>1, <2>2, WorkLoads DEF LoadItem
  <2>3. ASSUME LoadItem("vb_work", complete_item(items[cur]), "vb_stage_done"), UNCHANGED effects PROVE WorkInv'
    <3>1. complete_item(items[cur]) \notin IN_PROGRESS
      BY DEF complete_item, IN_PROGRESS, PENDING, RUNNING, COMPLETED, FAILED, CANCELLED
    <3> QED BY <2>1, <2>3, <3>1, WorkLoads DEF LoadItem
  <2>4. ASSUME CommitItems("vb_stage_commit", "vb_work"), UNCHANGED effects PROVE WorkInv'
    <3>1. \A k \in ItemKeys : Left(k) => Left(k)'
      BY <2>4 DEF CommitItems, Left, Undone
    <3> QED BY <2>4, <3>1, WorkCommits DEF CommitItems
  <2> QED BY <1>5, <2>2, <2>3, <2>4 DEF VbStage
<1>6. ASSUME VbNextStage PROVE WorkInv'
  <2>1. /\ items' = View /\ stage' = NoChange /\ UNCHANGED <<todo, effect>> /\ pc = "vb_stage_done" /\ pc' = "vb_stage"
        /\ cur' = <<cur[1], cur[2] + 1>>
    BY <1>6 DEF VbNextStage
  <2>2. ASSUME NEW k \in ItemKeys, View[k] \in IN_PROGRESS, Left(k) PROVE Left(k)'
    <3>1. k # cur
      BY <2>1, <2>2 DEF WorkInv, Closes
    <3>2. k[1] = cur[1] /\ k[2] >= cur[2] => k[2] >= cur[2] + 1
      <4>1. k = <<k[1], k[2]>> /\ k[2] \in Int /\ cur = <<cur[1], cur[2]>> /\ cur[2] \in Int
        <5>1. k[2] \in 1 .. LastStage /\ k = <<k[1], k[2]>>
          BY <1>b
        <5>2. cur[2] \in 1 .. LastStage /\ cur = <<cur[1], cur[2]>>
          BY <1>c, <2>1
        <5> QED BY <5>1, <5>2, StagesPositive
      <4>2. k[1] = cur[1] => k[2] # cur[2]
        BY <3>1, <4>1
      <4> QED BY <4>1, <4>2
    <3> QED BY <2>1, <2>2, <3>2 DEF Left, Undone
  <2> QED BY <2>1, <2>2, WorkCommits
<1>7. ASSUME NEW new, NEW ok, VbLoad(new, ok), pc \in InSource,
             \A k \in DOMAIN new : new[k] \notin IN_PROGRESS,
             \A k \in Stages(cur[1]) : k[2] >= cur[2] => k \in DOMAIN new
      PROVE  WorkInv'
  <2>1. /\ UNCHANGED <<items, todo, cur, effect>> /\ pc' = "vb_close"
        /\ stage' = [k \in {k \in DOMAIN new : new[k] # items[k]} |-> new[k]]
    BY <1>7 DEF VbLoad
  <2>2. \A k \in ItemKeys : View'[k] = IF k \in DOMAIN new THEN new[k] ELSE items[k]
    BY <2>1 DEF View
  <2>3. \A k \in ItemKeys : View'[k] \in IN_PROGRESS => items[k] \in IN_PROGRESS
    BY <1>7, <2>2
  <2>4. \A k \in ItemKeys : Left(k) => Left(k)'
    BY <1>7, <2>1 DEF Left, Undone
  <2>5. \A k \in Stages(cur[1]) : k \in ItemKeys /\ View'[k] \in IN_PROGRESS => effect[k] = "skipped"
    <3>1. \A k \in Stages(cur[1]) : k[1] = cur[1]
      BY DEF Stages
    <3> QED BY <1>7, <1>d, <2>2, <2>3, <3>1
  <2>6. Stages(cur[1]) \subseteq ItemKeys
    BY <1>0, <1>7, KeysArePairs DEF Located, CurInRun, Stages
  <2> QED BY <2>1, <2>3, <2>4, <2>5, <2>6 DEF WorkInv, OpenIsLeft, Closes
<1>8. ASSUME VbWritten PROVE WorkInv'
  <2> DEFINE new == [k \in {cur} |-> complete_item(items[k])]
  <2>1. pc = "vb_work" /\ VbLoad(new, TRUE) /\ cur[2] = LastStage
    BY <1>8 DEF VbWritten
  <2>2. \A k \in DOMAIN new : new[k] \notin IN_PROGRESS
    BY DEF complete_item, IN_PROGRESS, PENDING, RUNNING, COMPLETED, FAILED, CANCELLED
  <2>3. \A k \in Stages(cur[1]) : k[2] >= cur[2] => k = cur
    BY <1>c, <2>1, StagesPositive DEF Stages
  <2>4. \A k \in Stages(cur[1]) : k[2] >= cur[2] => k \in DOMAIN new
    BY <2>3
  <2> HIDE DEF new
  <2> QED BY <1>7, <2>1, <2>2, <2>4
<1>9. ASSUME VbFailed PROVE WorkInv'
  <2> DEFINE new == [k \in {k \in Stages(cur[1]) : k[2] >= cur[2]} |->
                         IF k = cur THEN fail_item(items[k]) ELSE cancel_item(items[k])]
  <2>1. pc \in InSource /\ VbLoad(new, FALSE)
    BY <1>9 DEF VbFailed
  <2>2. \A k \in DOMAIN new : new[k] \notin IN_PROGRESS
    BY DEF fail_item, cancel_item, TERMINAL, IN_PROGRESS, PENDING, RUNNING, COMPLETED, COMPLETED_WITH_ERRORS, FAILED, CANCELLED
  <2>3. \A k \in Stages(cur[1]) : k[2] >= cur[2] => k \in DOMAIN new
    OBVIOUS
  <2> HIDE DEF new
  <2> QED BY <1>7, <2>1, <2>2, <2>3
<1>10. ASSUME VbClose PROVE WorkInv'
  <2>1. /\ items' = View /\ stage' = NoChange /\ UNCHANGED <<todo, cur>> /\ pc = "vb_close" /\ pc' = "vb_source"
        /\ effect' = [effect EXCEPT ![SourceKey(cur)] = verdict]
    BY <1>10 DEF VbClose
  <2>2. ASSUME NEW k \in ItemKeys, View[k] \in IN_PROGRESS, Left(k) PROVE Left(k)'
    <3>1. k # SourceKey(cur) \/ effect[k] # "skipped"
      <4>1. k \in keys /\ k[1] \in Subjects
        BY <1>a, <2>2, KeysArePairs
      <4>2. k = SourceKey(cur) => k \in PairedKeys
        BY <4>1 DEF PairedKeys, PlainKeys, SourceKey
      <4>3. Untouched(SourceKey(cur))
        BY <1>0, <2>1 DEF Fresh
      <4> QED BY <4>2, <4>3 DEF Untouched
    <3>2. k[1] = cur[1] => k # SourceKey(cur) /\ effect[k] = "skipped"
      BY <1>b, <2>1, <2>2, <3>1 DEF WorkInv, Closes
    <3>3. k = SourceKey(cur) => k[1] = cur[1]
      BY DEF SourceKey
    <3>4. k # SourceKey(cur) /\ effect'[k] = effect[k]
      BY <1>0, <2>1, <3>2, <3>3
    <3> QED BY <2>1, <2>2, <3>2, <3>4 DEF Left, Undone
  <2> QED BY <2>1, <2>2, WorkCommits
<1>11. ASSUME VbDone PROVE WorkInv'
  <2>1. UNCHANGED <<items, stage, effect>> /\ pc = "vb_source" /\ todo = {} /\ pc' \in {"vb_append", "vb_final_read"}
    BY <1>11 DEF VbDone, Goto
  <2> QED BY <2>1, WorkThrough
<1>12. ASSUME VbFinal PROVE WorkInv'
  BY <1>12, WorkThrough, WorkElsewhere DEF VbFinal, FinalRead, FinalCommit
<1>13. ASSUME VbAppend \/ VbEarly PROVE WorkInv'
  BY <1>13, WorkElsewhere DEF VbAppend, VbEarly, Goto
<1>14. ASSUME VbLost PROVE WorkInv'
  BY <1>14, HandlersWork DEF VbLost
<1> QED BY <1>1, <1>2, <1>3, <1>4, <1>5, <1>6, <1>8, <1>9, <1>10, <1>11, <1>12, <1>13, <1>14 DEF VeeamStep, VeeamRaises

\* The requests close items, and leave the thread where it is.
LEMMA RequestWorks ==
    ASSUME WorkInv, TypeInv, NEW c \in RunCancels, Request(c)
    PROVE  WorkInv'
<1>1. UNCHANGED <<pc, todo, cur, runSeen, stage, effect>>
  BY DEF Request, RunCancelStep, CancelRead, CancelFlush, CancelCommit, CancelAborts, focus, effects
<1>2. \A k \in ItemKeys : items'[k] \in {items[k], CANCELLED}
  BY DEF Request, RunCancelStep, CancelRead, CancelFlush, CancelCommit, CancelAborts, runRows
<1>3. \A k \in ItemKeys : View'[k] \in {View[k], CANCELLED}
  BY <1>1, <1>2 DEF View
<1>4. CANCELLED \notin IN_PROGRESS
  BY DEF CANCELLED, IN_PROGRESS, PENDING, RUNNING
<1>5. \A k \in ItemKeys : Left(k)' <=> Left(k)
  BY <1>1 DEF Left, Undone
<1>6. /\ pc \in {"settle", "cur_commit", "dl_commit", "js_close", "vb_stage_done", "vb_close"} => cur \in ItemKeys
      /\ pc = "vb_close" => Stages(cur[1]) \subseteq ItemKeys
  BY KeysArePairs DEF TypeInv, TypeOK, ThreadTypeOK, Located, CurInRun, InSource, Stages
<1> QED BY <1>1, <1>3, <1>4, <1>5, <1>2, <1>6 DEF WorkInv, OpenIsLeft, Closes

\* Every step keeps track of what is left to do.
LEMMA WorkInvKept == WorkInv /\ TypeInv /\ EffectInv /\ [Next]_vars => WorkInv'
<1> SUFFICES ASSUME WorkInv, TypeInv, EffectInv, [Next]_vars PROVE WorkInv'
  OBVIOUS
<1>1. ASSUME TaskStep \/ TaskRaises PROVE WorkInv'
  <2>1. ASSUME ClusterRaises \/ ADEscapes \/ FailRun PROVE WorkInv'
    BY <2>1, HandlersWork DEF ClusterRaises, ADEscapes
  <2> QED BY <1>1, <2>1, SerialWorks, JumpServerWorks, VeeamWorks, CurrentWorks, DailyWorks
          DEF TaskStep, TaskRaises, ClusterStep, ADStep
<1>2. ASSUME TaskDies PROVE WorkInv'
  BY <1>2, HandlersWork
<1>3. ASSUME NEW c \in RunCancels, Request(c) PROVE WorkInv'
  BY <1>3, RequestWorks
<1>4. ASSUME UNCHANGED vars PROVE WorkInv'
  BY <1>4 DEF vars, threadVars, runRows, focus, effects, WorkInv, OpenIsLeft, Closes, View, Left, Undone
<1> QED BY <1>1, <1>2, <1>3, <1>4 DEF Next, Terminating

LEMMA WorkInvInit == Init => WorkInv
<1>1. Init => pc = "launched"
  BY DEF Init, ThreadInit, JumpServerInit, VeeamInit
<1> QED BY <1>1 DEF WorkInv, OpenIsLeft, Closes, Left, Undone, Loops, InHand, InSource, Through

-----------------------------------------------------------------------------
(* What its own counters stand for. *)

\* The counters of the run are those the thread has read.
CountersRead ==
    pc \in AtWrite => /\ runSeen.progress_completed = run.progress_completed
                      /\ runSeen.progress_failed = run.progress_failed

\* The totals of the thread stand for effects.
Totals ==
    /\ pc \in {"launched", "begin"} => synced = 0 /\ failed = 0
    /\ pc \in Serial \cup {"final_read", "final_commit"} =>
           /\ synced > 0 => \E k \in PairedKeys : Coming(k) = COMPLETED
           /\ failed > 0 => \E k \in PairedKeys : Coming(k) = FAILED
    /\ pc \in InSource \cup {"vb_source", "vb_final_read", "vb_final_commit"} =>
           (synced > 0 => \E k \in PairedKeys : effect[k] = COMPLETED)

\* The daily statistics are written at the very end, and no rule has failed before.
Daily ==
    task = "calculate_account" =>
        /\ pc # "done" => \A k \in ItemKeys : effect[k] = "none"
        /\ pc \notin {"mark_read", "mark_commit", "dl_rule_failed"} \cup Ended =>
               \A k \in ItemKeys : items[k] # FAILED /\ View[k] # FAILED

TallyInv == CountersRead /\ Totals /\ Daily

-----------------------------------------------------------------------------
\* What is only done in some tasks.
OfSerial == Serial \cup {"begin", "final_read", "final_commit"}
OfVeeam == {"vb_source", "vb_final_read", "vb_final_commit"} \cup InSource

\* The paths of the tasks: a write comes after the read of the run.
Path(S) == UNCHANGED task /\ pc' \notin S \cup {"launched"} /\ (pc' \notin AtWrite \/ (run' = run /\ runSeen' = run))

LEMMA Paths ==
    /\ SerialLoop \/ SerialFinal => Path(OfVeeam)
    /\ FailRun \/ TaskDies => Path(OfSerial \cup OfVeeam)
    /\ JumpServerStep \/ JumpServerRaises \/ CurrentStep \/ CurrentRaises \/ DailyStep \/ DailyRaises => Path(OfSerial \cup OfVeeam)
    /\ VeeamStep \/ VeeamRaises => Path(OfSerial)
    /\ ClusterRaises \/ ADEscapes => Path(OfSerial \cup OfVeeam)
<1> USE DEF plan, runRows, focus, totals, cancels, effects, AtWrite, Serial, InSource, OfSerial, OfVeeam, Path
<1>1. SerialLoop \/ SerialFinal => Path(OfVeeam)
  BY DEF SerialLoop, SerialFinal, InitItems, BeginLoop, TakeNext, LoadItem, CommitItems, Goto, Decide, LoadOutcome, Settle, FinalRead,
         FinalCommit
<1>2. FailRun \/ TaskDies => Path(OfSerial \cup OfVeeam)
  BY DEF FailRun, TaskDies, MarkRead, MarkCommit, Die
<1>3. JumpServerStep \/ JumpServerRaises => Path(OfSerial \cup OfVeeam)
  BY DEF JumpServerStep, JumpServerRaises, JsStart, JsFetched, JsLoad, JsFailed, JsClose, JsRefuse, JsLost, Goto, Raise
<1>4. VeeamStep \/ VeeamRaises => Path(OfSerial)
  BY DEF VeeamStep, VeeamRaises, VbSources, VbTake, VbSkipSource, VbEnter, VbStage, VbNextStage, VbWritten, VbFailed, VbLoad,
         VbClose, VbLost, VbDone, VbFinal, VbAppend, VbEarly, TakeNext, LoadItem, CommitItems, Goto, FinalRead, FinalCommit, Raise
<1>5. CurrentStep \/ CurrentRaises => Path(OfSerial \cup OfVeeam)
  BY <1>2 DEF CurrentStep, CurrentRaises, CurBegin, CheckCancelled, CurSummary, InitItems, CurList, CurRunnerDone, CurTake,
              CurStart, CurUnknown, CurReport, CurCommit, CurCancelled, RecountCancelled, CurEnd, CurFinal, TakeNext, LoadItem,
              CommitItems, Goto, Raise
<1>6. DailyStep \/ DailyRaises => Path(OfSerial \cup OfVeeam)
  BY <1>2 DEF DailyStep, DailyRaises, DlStart, DlItems, DlCancelled, RecountCancelled, DlRule, DlRuleFails, DlRuleFailed, DlStats,
              CheckCancelled, DlFinalRead, DlFinalCommit, InitItems, BeginLoop, TakeNext, LoadItem, CommitItems, Goto, Raise
<1>7. ClusterRaises \/ ADEscapes => Path(OfSerial \cup OfVeeam)
  BY DEF ClusterRaises, ADEscapes, Raise
<1> QED BY <1>1, <1>2, <1>3, <1>4, <1>5, <1>6, <1>7

\* A request moves nothing of the thread, and of the run its status only.
LEMMA RequestPath ==
    ASSUME CentreInv, NEW c \in RunCancels, Request(c)
    PROVE  /\ UNCHANGED <<task, keys, pc, todo, cur, runSeen, stage, synced, failed, effect, verdict>>
           /\ run'.progress_completed = run.progress_completed /\ run'.progress_failed = run.progress_failed
           /\ \A k \in ItemKeys : items'[k] \in {items[k], CANCELLED} /\ View'[k] \in {View[k], CANCELLED}
<1>1. /\ UNCHANGED <<task, keys, pc, todo, cur, runSeen, stage, synced, failed, effect, verdict>>
      /\ run' = run \/ run' = [run EXCEPT !.status = CANCELLED]
      /\ \A k \in ItemKeys : items'[k] \in {items[k], CANCELLED}
  BY DEF Request, RunCancelStep, CancelRead, CancelFlush, CancelCommit, CancelAborts, plan, runRows, focus, totals, effects
<1>2. run'.progress_completed = run.progress_completed /\ run'.progress_failed = run.progress_failed
  BY <1>1 DEF CentreInv, IsRow
<1> QED BY <1>1, <1>2 DEF View

-----------------------------------------------------------------------------
\* The totals of the serial tasks: what is decided is committed next.
LEMMA SerialTotals ==
    ASSUME TallyInv, TypeInv, EffectInv, task \in {"sync_cluster_status", "sync_ad_accounts"}, SerialLoop \/ SerialFinal
    PROVE  Totals'
<1> USE DEF plan, runRows, focus, totals, effects, Serial, InSource, Closing
<1>0. /\ Totals /\ ThreadTypeOK /\ effect \in [ItemKeys -> {"none", "skipped", COMPLETED, FAILED}] /\ keys \subseteq ItemKeys /\ Fresh
      /\ PairedKeys = keys /\ PairedKeys' = PairedKeys
  <2>1. UNCHANGED <<task, keys>>
    BY DEF SerialLoop, SerialFinal, InitItems, BeginLoop, TakeNext, LoadItem, CommitItems, Goto, Decide, LoadOutcome, Settle, FinalRead,
           FinalCommit
  <2> QED BY <2>1 DEF TallyInv, TypeInv, TypeOK, ThreadTypeOK, EffectInv, Planned, PairedKeys
<1>1. ASSUME UNCHANGED <<synced, failed, effect>>, pc \in {"begin", "loop", "start", "start_commit", "final_read"},
             pc' \in {"loop", "start", "start_commit", "work", "final_read", "final_commit", "done"}
      PROVE  Totals'
  <2>1. \A k : Coming(k) = effect[k] /\ Coming(k)' = effect[k]
    BY <1>1 DEF Coming
  <2>2. /\ synced > 0 => \E k \in PairedKeys : effect[k] = COMPLETED
        /\ failed > 0 => \E k \in PairedKeys : effect[k] = FAILED
    BY <1>0, <1>1, <2>1 DEF Totals
  <2> QED BY <1>0, <1>1, <2>1, <2>2 DEF Totals
<1>2. ASSUME SerialFinal PROVE Totals'
  BY <1>1, <1>2 DEF SerialFinal, FinalRead, FinalCommit, Totals
<1>3. ASSUME NEW ok \in BOOLEAN, Decide("work", ok, "settle") PROVE Totals'
  <2>1. /\ pc = "work" /\ pc' = "settle" /\ cur \in PairedKeys /\ effect[cur] = "none" /\ cur' = cur /\ effect' = effect
        /\ verdict' = Verdict(ok)
        /\ synced' = synced + (IF ok THEN 1 ELSE 0) /\ failed' = failed + (IF ok THEN 0 ELSE 1)
    BY <1>0, <1>3 DEF Decide, LoadOutcome, TypeInv, Located, CurInRun, Fresh, Untouched
  <2>2. \A k \in PairedKeys : Coming(k) = effect[k] /\ Coming(k)' = IF k = cur THEN Verdict(ok) ELSE effect[k]
    BY <2>1 DEF Coming, Target
  <2>3. synced' > 0 => synced > 0 \/ ok
    BY <1>0, <2>1 DEF ThreadTypeOK
  <2>4. failed' > 0 => failed > 0 \/ ~ok
    BY <1>0, <2>1 DEF ThreadTypeOK
  <2>5. synced' > 0 => \E k \in PairedKeys : Coming(k)' = COMPLETED
    BY <1>0, <2>1, <2>2, <2>3 DEF Totals, Verdict, COMPLETED
  <2>6. failed' > 0 => \E k \in PairedKeys : Coming(k)' = FAILED
    BY <1>0, <2>1, <2>2, <2>4 DEF Totals, Verdict, FAILED
  <2> QED BY <1>0, <2>1, <2>5, <2>6 DEF Totals
<1>4. ASSUME Settle("settle", "loop") PROVE Totals'
  <2>1. /\ pc = "settle" /\ pc' = "loop" /\ UNCHANGED <<synced, failed>> /\ effect' = [effect EXCEPT ![cur] = verdict]
    BY <1>4 DEF Settle, CommitItems
  <2>2. \A k \in PairedKeys : Coming(k)' = Coming(k)
    BY <1>0, <2>1 DEF Coming, Target
  <2> QED BY <1>0, <2>1, <2>2 DEF Totals
<1>5. ASSUME InitItems("launched", "begin") PROVE Totals'
  BY <1>0, <1>5 DEF InitItems, Totals
<1>6. ASSUME SerialLoop, pc # "launched", pc # "work", pc # "settle" PROVE Totals'
  BY <1>1, <1>6 DEF SerialLoop, InitItems, BeginLoop, TakeNext, LoadItem, CommitItems, Goto, Decide, LoadOutcome, Settle
<1> QED BY <1>2, <1>3, <1>4, <1>5, <1>6
        DEF SerialLoop, InitItems, BeginLoop, TakeNext, LoadItem, CommitItems, Goto, Decide, LoadOutcome, Settle

\* The totals of a Veeam synchronisation: a source is counted as it is committed.
LEMMA VeeamTotals ==
    ASSUME TallyInv, TypeInv, EffectInv, task = "sync_veeam_backups", VeeamStep \/ VeeamRaises
    PROVE  Totals'
<1> USE DEF plan, runRows, focus, totals, effects, Serial, InSource
<1>0. /\ Totals /\ ThreadTypeOK /\ effect \in [ItemKeys -> {"none", "skipped", COMPLETED, FAILED}] /\ keys \subseteq ItemKeys /\ Fresh
  BY DEF TallyInv, TypeInv, TypeOK, ThreadTypeOK, EffectInv
<1>1. ASSUME UNCHANGED <<task, keys, synced, effect>>, pc \in InSource \cup {"vb_source", "vb_final_read"},
             pc' \in InSource \cup {"vb_source", "vb_final_read", "vb_final_commit", "vb_append", "done", "escaped"}
      PROVE  Totals'
  BY <1>0, <1>1 DEF Totals, PairedKeys
<1>2. ASSUME NEW sources \in SUBSET (Subjects \ {Only}), VbSources(sources) PROVE Totals'
  BY <1>0, <1>2 DEF VbSources, Totals
<1>3. ASSUME VbSkipSource PROVE Totals'
  <2>1. /\ UNCHANGED <<task, keys, synced>> /\ pc = "vb_check" /\ pc' = "vb_source"
        /\ effect' = [k \in ItemKeys |-> IF k \in Stages(cur[1]) /\ k \in keys THEN "skipped" ELSE effect[k]]
    BY <1>3 DEF VbSkipSource
  <2>2. \A k \in PairedKeys : effect[k] = COMPLETED => k \notin Stages(cur[1])
    <3>1. Untouched(SourceKey(cur))
      BY <1>0, <2>1 DEF Fresh
    <3>2. \A k \in PairedKeys : k \in Stages(cur[1]) => k = SourceKey(cur)
      BY PairedAreLast DEF Stages, SourceKey
    <3> QED BY <3>1, <3>2 DEF Untouched, COMPLETED
  <2>3. \A k \in PairedKeys : effect[k] = COMPLETED => effect'[k] = COMPLETED
    BY <2>1, <2>2, PairedAreKeys
  <2> QED BY <1>0, <2>1, <2>3 DEF Totals, PairedKeys
<1>4. ASSUME VbClose PROVE Totals'
  <2>1. /\ UNCHANGED <<task, keys>> /\ pc = "vb_close" /\ pc' = "vb_source" /\ effect' = [effect EXCEPT ![SourceKey(cur)] = verdict]
        /\ synced' = synced + (IF verdict = COMPLETED THEN 1 ELSE 0)
    BY <1>4 DEF VbClose
  <2>2. SourceKey(cur) \in PairedKeys /\ effect[SourceKey(cur)] = "none"
    <3>1. cur \in keys /\ cur[1] \in Subjects /\ SourceKey(cur) \in Stages(cur[1])
      BY <1>0, <2>1, KeysArePairs, StagesPositive DEF TypeInv, Located, CurInRun, SourceKey, Stages
    <3>2. SourceKey(cur) \in PairedKeys
      BY <3>1 DEF TypeInv, Planned, PairedKeys, PlainKeys, SourceKey
    <3> QED BY <1>0, <2>1, <3>2 DEF Fresh, Untouched
  <2>3. \A k \in PairedKeys : effect'[k] = IF k = SourceKey(cur) THEN verdict ELSE effect[k]
    BY <1>0, <2>1, PairedAreKeys
  <2>4. synced' > 0 => synced > 0 \/ verdict = COMPLETED
    BY <1>0, <2>1 DEF ThreadTypeOK
  <2>5. synced' > 0 => \E k \in PairedKeys : effect'[k] = COMPLETED
    BY <1>0, <2>1, <2>2, <2>3, <2>4 DEF Totals, COMPLETED
  <2> QED BY <2>1, <2>5 DEF Totals, PairedKeys
<1>5. ASSUME VbTake \/ VbEnter \/ VbStage \/ VbNextStage \/ VbWritten \/ VbFailed \/ VbDone \/ VbFinal PROVE Totals'
  <2>1. ASSUME FinalCommit("vb_final_commit", IF synced > 0 /\ failed > 0 THEN COMPLETED ELSE NoOverride) PROVE Totals'
    BY <2>1 DEF FinalCommit, Totals
  <2>2. \/ FinalCommit("vb_final_commit", IF synced > 0 /\ failed > 0 THEN COMPLETED ELSE NoOverride)
        \/ /\ UNCHANGED <<task, keys, synced, effect>> /\ pc \in InSource \cup {"vb_source", "vb_final_read"}
           /\ pc' \in InSource \cup {"vb_source", "vb_final_read", "vb_final_commit", "vb_append", "done"}
    BY <1>5 DEF VbTake, VbEnter, VbStage, VbNextStage, VbWritten, VbFailed, VbLoad, VbDone, VbFinal, TakeNext, Goto, LoadItem,
                CommitItems, FinalRead
  <2> QED BY <1>1, <2>1, <2>2
<1>6. ASSUME VbAppend \/ VeeamRaises, ~VbFailed PROVE Totals'
  BY <1>6 DEF VbAppend, VeeamRaises, VbEarly, VbLost, Goto, Raise, Totals
<1> QED BY <1>2, <1>3, <1>4, <1>5, <1>6 DEF VeeamStep, VeeamRaises

\* The daily statistics.
LEMMA DailyKept ==
    ASSUME TallyInv, TypeInv, task = "calculate_account", DailyStep \/ DailyRaises \/ TaskDies
    PROVE  Daily'
<1> USE DEF plan, runRows, focus, totals, effects, Ended
<1>0. /\ Daily /\ ThreadTypeOK /\ Located
  BY DEF TallyInv, TypeInv, TypeOK
<1>1. ASSUME UNCHANGED effects, pc # "done", pc' \in {"mark_read", "mark_commit", "dl_rule_failed"} \cup Ended PROVE Daily'
  BY <1>0, <1>1 DEF Daily
<1>2. ASSUME UNCHANGED <<effects, items, stage>>, pc \notin {"mark_read", "mark_commit", "dl_rule_failed"} \cup Ended PROVE Daily'
  BY <1>0, <1>2 DEF Daily, View
<1>3. ASSUME NEW at, NEW after, UNCHANGED effects, CommitItems(at, after), pc \notin {"mark_read", "mark_commit", "dl_rule_failed"} \cup Ended
      PROVE  Daily'
  BY <1>0, <1>3 DEF CommitItems, Daily, View, NoChange
<1>4. ASSUME NEW at \in {"dl_start", "dl_work"}, NEW after, NEW st, UNCHANGED effects, LoadItem(at, st, after),
             items[cur] # FAILED => st # FAILED
      PROVE  Daily'
  <2>1. cur \in ItemKeys
    BY <1>0, <1>4 DEF LoadItem, TypeInv, TypeOK, ThreadTypeOK, Located, CurInRun
  <2>2. \A k \in ItemKeys : View'[k] = IF k = cur THEN st ELSE items[k]
    BY <1>4 DEF LoadItem, View, Change
  <2> QED BY <1>0, <1>4, <2>1, <2>2 DEF LoadItem, Daily
<1>5. ASSUME InitItems("dl_init", "dl_accounts"), UNCHANGED effects PROVE Daily'
  <2>1. \A k \in ItemKeys : items'[k] \in {PENDING, items[k]} /\ View'[k] \in {View[k], items'[k]}
    BY <1>0, <1>5 DEF InitItems, init_items, View, ThreadTypeOK
  <2> QED BY <1>0, <1>5, <2>1 DEF InitItems, Daily, PENDING, FAILED
<1>6. ASSUME DlStart \/ DlItems \/ DlStats \/ DlFinalRead PROVE Daily'
  BY <1>1, <1>2, <1>5, <1>6 DEF DlStart, DlItems, DlStats, CheckCancelled, Goto, BeginLoop, DlFinalRead
<1>7. ASSUME DlRule PROVE Daily'
  <2>1. /\ items[cur] # FAILED => start_item(items[cur]) # FAILED /\ complete_item(items[cur]) # FAILED
    BY DEF start_item, complete_item, RUNNING, COMPLETED, FAILED, CANCELLED
  <2>2. ASSUME TakeNext("dl_loop", "dl_start") \/ Goto("dl_loop", "dl_stats"), UNCHANGED effects PROVE Daily'
    BY <1>2, <2>2 DEF TakeNext, Goto
  <2>3. ASSUME CommitItems("dl_start_commit", "dl_work") \/ CommitItems("dl_commit", "dl_loop"), UNCHANGED effects PROVE Daily'
    BY <1>3, <2>3 DEF CommitItems
  <2> QED BY <1>4, <1>7, <2>1, <2>2, <2>3 DEF DlRule
<1>8. ASSUME DlCancelled \/ DlRuleFails \/ DlRuleFailed \/ FailRun \/ TaskDies PROVE Daily'
  BY <1>1, <1>8 DEF DlCancelled, RecountCancelled, DlRuleFails, DlRuleFailed, FailRun, MarkRead, MarkCommit, TaskDies, Die
<1>9. ASSUME DlFinalCommit PROVE Daily'
  BY <1>9 DEF DlFinalCommit, Daily
<1>10. ASSUME DailyRaises PROVE Daily'
  BY <1>1, <1>8, <1>10 DEF DailyRaises, Raise
<1> QED BY <1>6, <1>7, <1>8, <1>9, <1>10 DEF DailyStep

\* Every step keeps the tallies.
LEMMA TallyInvKept == TallyInv /\ TypeInv /\ CentreInv /\ EffectInv /\ [Next]_vars => TallyInv'
<1> SUFFICES ASSUME TallyInv, TypeInv, CentreInv, EffectInv, [Next]_vars PROVE TallyInv'
  OBVIOUS
<1> USE DEF OfSerial, OfVeeam
<1>1. ASSUME TaskStep \/ TaskRaises \/ TaskDies PROVE TallyInv'
  <2>1. pc' \notin AtWrite \/ (run' = run /\ runSeen' = run)
    BY <1>1, Paths DEF TaskStep, TaskRaises, ClusterStep, ADStep, Path
  <2>2. /\ UNCHANGED task /\ pc' # "launched"
        /\ pc' \in OfSerial => task \in {"sync_cluster_status", "sync_ad_accounts"} /\ (SerialLoop \/ SerialFinal)
        /\ pc' \in OfVeeam => task = "sync_veeam_backups" /\ (VeeamStep \/ VeeamRaises)
    BY <1>1, Paths DEF TaskStep, TaskRaises, ClusterStep, ADStep, Path
  <2>3. CountersRead'
    BY <2>1 DEF CountersRead
  <2>4. Totals'
    <3>1. CASE pc' \notin OfSerial \cup OfVeeam
      BY <2>2, <3>1 DEF Totals
    <3> QED BY <2>2, <3>1, SerialTotals, VeeamTotals
  <2>5. Daily'
    <3>1. CASE task = "calculate_account"
      BY <1>1, <3>1, DailyKept DEF TaskStep, TaskRaises
    <3> QED BY <2>2, <3>1 DEF Daily
  <2> QED BY <2>3, <2>4, <2>5 DEF TallyInv
<1>2. ASSUME NEW c \in RunCancels, Request(c) PROVE TallyInv'
  <2>1. CountersRead'
    BY <1>2, RequestPath DEF TallyInv, CountersRead
  <2>2. Daily'
    BY <1>2, RequestPath DEF TallyInv, Daily, FAILED, CANCELLED
  <2>3. PairedKeys' = PairedKeys /\ \A k : Coming(k)' = Coming(k)
    BY <1>2, RequestPath DEF PairedKeys, Coming, Target
  <2>4. Totals'
    BY <1>2, <2>3, RequestPath DEF TallyInv, Totals
  <2> QED BY <2>1, <2>2, <2>4 DEF TallyInv
<1>3. ASSUME UNCHANGED vars PROVE TallyInv'
  <2>1. UNCHANGED <<task, keys, run, items, pc, cur, runSeen, stage, synced, failed, effect, verdict>>
    BY <1>3 DEF vars, threadVars, plan, runRows, focus, totals, effects
  <2>2. PairedKeys' = PairedKeys /\ View' = View /\ \A k : Coming(k)' = Coming(k)
    BY <2>1 DEF PairedKeys, View, Coming, Target
  <2> QED BY <2>1, <2>2 DEF TallyInv, CountersRead, Daily, Totals
<1> QED BY <1>1, <1>2, <1>3 DEF Next, Terminating

LEMMA TallyInvInit == Init => TallyInv
<1> SUFFICES ASSUME Init PROVE TallyInv
  OBVIOUS
<1>1. PICK prepared : ThreadInit(prepared)
  BY DEF Init, JumpServerInit, VeeamInit
<1>2. /\ pc = "launched" /\ synced = 0 /\ failed = 0 /\ effect = [k \in ItemKeys |-> "none"] /\ stage = NoChange
      /\ items = [k \in ItemKeys |-> IF k \in prepared THEN PENDING ELSE ABSENT]
  BY <1>1 DEF ThreadInit, init_items, Init, EffectInit
<1>3. \A k \in ItemKeys : items[k] # FAILED /\ View[k] # FAILED
  BY <1>2 DEF View, NoChange, ABSENT, PENDING, FAILED
<1> QED BY <1>2, <1>3 DEF TallyInv, CountersRead, Totals, Daily, Serial, InSource, AtWrite

-----------------------------------------------------------------------------
(* The books of a closed run. *)

Books == ClosedRunAccounts /\ StatusTellsEffects

\* What the steps that close a run rely on.
ThreadInv == CentreInv /\ TypeInv /\ EffectInv /\ WorkInv /\ TallyInv

\* Nothing is said of a run that is not closed.
LEMMA OpenBooks == run'.status \notin Closed => Books'
  BY DEF Books, ClosedRunAccounts, StatusTellsEffects, Closed

\* A step that does not write the status, at a location where the run is still open.
LEMMA StillOpen == CentreInv /\ pc \notin AfterClose /\ run'.status = run.status => Books'
  BY OpenBooks DEF CentreInv, ClosedByNow, AfterClose

\* A step that changes nothing the books are about.
LEMMA BooksStay ==
    ASSUME Books, UNCHANGED <<task, keys, items, effect>>, run'.status = run.status,
           run'.progress_completed = run.progress_completed, run'.progress_failed = run.progress_failed
    PROVE  Books'
  BY DEF Books, ClosedRunAccounts, StatusTellsEffects

-----------------------------------------------------------------------------
\* A row that finalize_run has made: its counters, and what its status says of them.
Counted(r, its) ==
    /\ r.progress_completed = Cardinality(ItemsIn(its, {COMPLETED}))
    /\ r.progress_failed = Cardinality(ItemsIn(its, {FAILED, CANCELLED}))

LEMMA RunCounted ==
    ASSUME NEW r, IsRow(r), NEW its, DOMAIN its \subseteq ItemKeys
    PROVE  LET final == finalize_run(r, its)
           IN  /\ Counted(final, its) /\ final.status \in {COMPLETED, FAILED, CANCELLED}
               /\ final.status = COMPLETED => ItemsIn(its, {FAILED, CANCELLED}) = {}
               /\ final.status = FAILED => r.status = FAILED \/ ItemsIn(its, {FAILED, CANCELLED}) # {}
<1> DEFINE failures == ItemsIn(its, {FAILED, CANCELLED})
<1>1. Cardinality(failures) \in Nat /\ IsFiniteSet(failures) /\ Cardinality({}) = 0
  BY ItemCounts, FS_EmptySet
<1>2. Cardinality(failures) = 0 <=> failures = {}
  BY <1>1, FS_EmptySet
<1> HIDE DEF failures
<1>3. finalize_run(r, its).status =
          IF r.status \in {CANCELLED, FAILED} THEN r.status ELSE IF Cardinality(failures) > 0 THEN FAILED ELSE COMPLETED
  BY DEF finalize_run, failures
<1> QED BY <1>1, <1>2, <1>3 DEF finalize_run, Counted, failures, COMPLETED, FAILED, CANCELLED

LEMMA SummaryCounted ==
    ASSUME NEW r, IsRow(r), NEW its, DOMAIN its \subseteq ItemKeys, NEW override \in {COMPLETED, COMPLETED_WITH_ERRORS, NoOverride}
    PROVE  LET final == finalize_run_with_summary(r, its, override)
           IN  /\ Counted(final, its)
               /\ override # NoOverride => final.status = override
               /\ override = NoOverride =>
                      /\ final.status \in {COMPLETED, FAILED, CANCELLED}
                      /\ final.status = COMPLETED => ItemsIn(its, {FAILED, CANCELLED}) = {}
                      /\ final.status = FAILED => r.status = FAILED \/ ItemsIn(its, {FAILED, CANCELLED}) # {}
<1> DEFINE base == finalize_run(write_summary(r), its)
<1>1. IsRow(write_summary(r)) /\ write_summary(r).status = r.status
  BY RowFacts
<1>2. /\ Counted(base, its) /\ base.status \in {COMPLETED, FAILED, CANCELLED}
      /\ base.status = COMPLETED => ItemsIn(its, {FAILED, CANCELLED}) = {}
      /\ base.status = FAILED => r.status = FAILED \/ ItemsIn(its, {FAILED, CANCELLED}) # {}
  BY <1>1, RunCounted
<1>3. IsRow(base)
  BY <1>1, RowFacts
<1>4. finalize_run_with_summary(r, its, override) = [base EXCEPT !.status = IF override = NoOverride THEN @ ELSE override]
  BY DEF finalize_run_with_summary
<1> HIDE DEF base
<1>5. PICK q : q = base
  OBVIOUS
<1> QED BY <1>2, <1>3, <1>4, <1>5 DEF Counted, IsRow

LEMMA MarkCounted ==
    ASSUME NEW r, IsRow(r), NEW its, DOMAIN its \subseteq ItemKeys
    PROVE  Counted(mark_run_failed(r, its), its)
  BY DEF mark_run_failed, finalize_run, Counted

\* The row the thread has read has the counters of the row it writes to.
LEMMA CountsBooked ==
    ASSUME ThreadInv, pc \in AtWrite, NEW mine, run' = UpdateChanged(run, runSeen, mine), Counted(mine, items'),
           \A k \in ItemsIn(items', IN_PROGRESS) : effect'[k] = "skipped"
    PROVE  ClosedRunAccounts'
<1>1. run'.progress_completed = mine.progress_completed /\ run'.progress_failed = mine.progress_failed
  BY DEF ThreadInv, TallyInv, CountersRead, UpdateChanged
<1> QED BY <1>1 DEF ClosedRunAccounts, Counted

\* The status it writes.
LEMMA StatusWritten ==
    ASSUME ThreadInv, pc \in AtWrite, NEW mine, run' = UpdateChanged(run, runSeen, mine), run'.status \in Closed
    PROVE  run'.status = mine.status \/ (pc = "mark_commit" /\ run'.status = FAILED)
  BY DEF ThreadInv, CentreInv, ReadOpen, ClosedByNow, UpdateChanged, AtWrite, Ended, Closed, RUNNING, CANCELLED, COMPLETED,
         COMPLETED_WITH_ERRORS, FAILED

\* The rows of the keys, where the thread works on them.
LEMMA RowsThere ==
    ASSUME TypeInv, pc \notin Before \/ task \in {"sync_jumpserver_assets", "sync_veeam_backups"}, NEW k \in keys
    PROVE  k \in ItemKeys /\ items[k] \in TaskRunStatus /\ View[k] \in TaskRunStatus
<1>1. k \in ItemKeys /\ items[k] \in TaskRunStatus
  BY DEF TypeInv, TypeOK, ThreadTypeOK, Existing
<1> QED BY <1>1 DEF View, TypeInv, TypeOK, ThreadTypeOK

\* When nothing has failed and only skipped keys are open, every other key has had its effect.
LEMMA AllDone ==
    ASSUME TypeInv, EffectInv', task # "calculate_account", UNCHANGED <<task, keys>>, items' \in {items, View},
           pc \notin Before \/ task \in {"sync_jumpserver_assets", "sync_veeam_backups"},
           ItemsIn(items', {FAILED, CANCELLED}) = {},
           \A k \in ItemsIn(items', IN_PROGRESS) : effect'[k] = "skipped"
    PROVE  \A k \in keys \cap PlainKeys : effect'[k] = "skipped" \/ effect'[k] = COMPLETED
<1> SUFFICES ASSUME NEW k \in keys \cap PlainKeys PROVE effect'[k] = "skipped" \/ effect'[k] = COMPLETED
  OBVIOUS
<1>1. DOMAIN items' = ItemKeys /\ k \in ItemKeys /\ items'[k] \in TaskRunStatus
  BY RowsThere, ViewTyped DEF TypeInv, TypeOK, ThreadTypeOK
<1>2. Agree(items'[k], effect'[k])
  BY DEF EffectInv, Agreeing, PairedKeys
<1>3. items'[k] \notin {FAILED, CANCELLED, COMPLETED_WITH_ERRORS}
  BY <1>1, <1>2 DEF ItemsIn, Agree
<1>4. items'[k] \in IN_PROGRESS \/ items'[k] = COMPLETED
  BY <1>1, <1>3 DEF TaskRunStatus, TERMINAL
<1> QED BY <1>1, <1>2, <1>4 DEF ItemsIn, Agree

\* A run is closed by what its items say.
LEMMA Finalises ==
    ASSUME ThreadInv, EffectInv', task # "calculate_account", UNCHANGED <<task, keys>>, items' \in {items, View},
           pc \in AtWrite \ {"mark_commit"},
           NEW mine, run' = UpdateChanged(run, runSeen, mine), Counted(mine, items'),
           mine.status \in {COMPLETED, FAILED, CANCELLED}, mine.status = COMPLETED => ItemsIn(items', {FAILED, CANCELLED}) = {},
           \A k \in ItemsIn(items', IN_PROGRESS) : effect'[k] = "skipped"
    PROVE  Books'
<1>1. ClosedRunAccounts'
  BY CountsBooked
<1>2. CASE run'.status \notin Closed
  BY <1>2, OpenBooks
<1>3. CASE run'.status \in Closed
  <2>1. run'.status = mine.status
    BY <1>3, StatusWritten
  <2>2. run'.status # COMPLETED_WITH_ERRORS
    BY <2>1 DEF COMPLETED, COMPLETED_WITH_ERRORS, FAILED, CANCELLED
  <2>3. pc \notin Before
    BY DEF AtWrite, Before, Ended
  <2>4. run'.status = COMPLETED => \A k \in keys \cap PlainKeys : effect'[k] = "skipped" \/ effect'[k] = COMPLETED
    BY <2>1, <2>3, AllDone DEF ThreadInv
  <2>5. StatusTellsEffects'
    BY <2>2, <2>4 DEF StatusTellsEffects
  <2> QED BY <1>1, <2>5 DEF Books
<1> QED BY <1>2, <1>3

\* Nothing is left open at the end of the loops.
LEMMA NothingLeft ==
    ASSUME ThreadInv, pc \in Through, NEW k \in ItemKeys, items[k] \in IN_PROGRESS \/ View[k] \in IN_PROGRESS
    PROVE  effect[k] = "skipped"
  BY DEF ThreadInv, WorkInv, OpenIsLeft, Left, Undone

\* The handler that fails the run.
LEMMA FailBooks ==
    ASSUME ThreadInv, Books, FailRun
    PROVE  Books'
<1> USE DEF plan, runRows, effects
<1>1. CASE MarkRead("mark_read", "done")
  BY <1>1, BooksStay DEF FailRun, MarkRead
<1>2. CASE MarkCommit("done")
  <2> DEFINE mine == mark_run_failed(runSeen, View)
  <2>1. /\ pc = "mark_commit" /\ items' = View /\ UNCHANGED <<task, keys, effect>> /\ run' = UpdateChanged(run, runSeen, mine)
    BY <1>2 DEF FailRun, MarkCommit
  <2>2. Counted(mine, items') /\ mine.status = FAILED
    BY <2>1, MarkCounted, MarkedRow, ViewFacts DEF ThreadInv, CentreInv
  <2>3. ItemsIn(items', IN_PROGRESS) = {}
    BY <2>1, ViewFacts DEF ThreadInv, WorkInv, Closes, ItemsIn
  <2> HIDE DEF mine
  <2>4. ClosedRunAccounts'
    BY <2>1, <2>2, <2>3, CountsBooked DEF AtWrite
  <2>5. run'.status \in Closed => run'.status = FAILED
    BY <2>1, <2>2, StatusWritten DEF AtWrite
  <2>6. task = "calculate_account" => \A k \in ItemKeys : effect'[k] = "none"
    BY <2>1 DEF ThreadInv, TallyInv, Daily
  <2>7. StatusTellsEffects'
    <3>1. keys \subseteq ItemKeys
      BY DEF ThreadInv, TypeInv, TypeOK, ThreadTypeOK
    <3> QED BY <2>1, <2>5, <2>6, <3>1 DEF StatusTellsEffects, Closed, COMPLETED, COMPLETED_WITH_ERRORS, FAILED
  <2> QED BY <2>4, <2>7 DEF Books
<1> QED BY <1>1, <1>2 DEF FailRun

\* The final status of the serial tasks and of a Veeam synchronisation of several sources.
LEMMA FinalBooks ==
    ASSUME ThreadInv, EffectInv', UNCHANGED effects, task # "calculate_account",
           \/ FinalCommit("final_commit", PartialFailure)
           \/ /\ FinalCommit("vb_final_commit", IF synced > 0 /\ failed > 0 THEN COMPLETED ELSE NoOverride)
              /\ task = "sync_veeam_backups"
    PROVE  Books'
<1> USE DEF plan, runRows, effects
<1> DEFINE override == IF pc = "final_commit" THEN PartialFailure
                       ELSE IF synced > 0 /\ failed > 0 THEN COMPLETED ELSE NoOverride
           mine == finalize_run_with_summary(runSeen, View, override)
<1>1. /\ pc \in {"final_commit", "vb_final_commit"} /\ items' = View /\ UNCHANGED <<task, keys, effect>>
      /\ run' = UpdateChanged(run, runSeen, mine)
      /\ pc = "vb_final_commit" => task = "sync_veeam_backups"
  BY DEF FinalCommit
<1>2. override \in {COMPLETED, COMPLETED_WITH_ERRORS, NoOverride}
  BY DEF PartialFailure
<1>3. /\ Counted(mine, items')
      /\ override # NoOverride => mine.status = override
      /\ override = NoOverride => /\ mine.status \in {COMPLETED, FAILED, CANCELLED}
                                  /\ mine.status = COMPLETED => ItemsIn(items', {FAILED, CANCELLED}) = {}
  BY <1>1, <1>2, SummaryCounted, ViewFacts DEF ThreadInv, CentreInv
<1> HIDE DEF mine
<1>4. pc \in AtWrite \ {"mark_commit"} /\ pc \in Through
  BY <1>1 DEF AtWrite, Through
<1>5. \A k \in ItemsIn(items', IN_PROGRESS) : effect'[k] = "skipped"
  BY <1>1, <1>4, NothingLeft, ViewFacts DEF ItemsIn
<1>6. CASE override = NoOverride
  BY <1>1, <1>3, <1>4, <1>5, <1>6, Finalises
<1>7. CASE override # NoOverride
  <2>1. ClosedRunAccounts'
    BY <1>1, <1>3, <1>4, <1>5, CountsBooked
  <2>2. CASE run'.status \notin Closed
    BY <2>2, OpenBooks
  <2>3. CASE run'.status \in Closed
    <3>1. run'.status = override
      BY <1>1, <1>3, <1>4, <1>7, <2>3, StatusWritten
    <3>2. PairedKeys = keys \cap PlainKeys
      BY DEF PairedKeys
    <3>3. synced > 0 /\ failed > 0
      BY <1>7 DEF PartialFailure
    <3>4. CASE pc = "final_commit"
      <4>1. (\E k \in PairedKeys : effect[k] = COMPLETED) /\ (\E k \in PairedKeys : effect[k] = FAILED)
        BY <3>3, <3>4 DEF ThreadInv, TallyInv, Totals, Coming, Closing
      <4>2. run'.status = COMPLETED_WITH_ERRORS
        BY <1>7, <3>1, <3>4 DEF PartialFailure
      <4> QED BY <1>1, <2>1, <3>2, <4>1, <4>2 DEF Books, StatusTellsEffects, COMPLETED, COMPLETED_WITH_ERRORS, FAILED
    <3>5. CASE pc = "vb_final_commit"
      <4>1. \E k \in PairedKeys : effect[k] = COMPLETED
        BY <3>3, <3>5 DEF ThreadInv, TallyInv, Totals
      <4>2. run'.status = COMPLETED
        BY <1>7, <3>1, <3>5
      <4> QED BY <1>1, <2>1, <3>2, <3>5, <4>1, <4>2 DEF Books, StatusTellsEffects, COMPLETED, COMPLETED_WITH_ERRORS, FAILED
    <3> QED BY <1>1, <3>4, <3>5
  <2> QED BY <2>2, <2>3
<1> QED BY <1>6, <1>7

\* The JumpServer synchronisation.
LEMMA JumpServerBooks ==
    ASSUME ThreadInv, TypeInv', EffectInv', task = "sync_jumpserver_assets", JumpServerStep \/ JumpServerRaises
    PROVE  Books'
<1> USE DEF plan, runRows, AfterClose, Ended
<1>1. CASE ~JsClose
  <2>1. UNCHANGED run /\ pc \notin AfterClose
    BY <1>1 DEF JumpServerStep, JumpServerRaises, JsStart, JsFetched, JsFailed, JsLoad, JsRefuse, JsLost, Goto, Raise
  <2> QED BY <2>1, StillOpen DEF ThreadInv
<1>2. CASE JsClose
  <2> DEFINE row == IF runSeen.status = CANCELLED THEN runSeen ELSE write_summary(runSeen)
             mine == finalize_run(row, View)
  <2>1. pc = "js_close" /\ items' = View /\ UNCHANGED <<task, keys>> /\ run' = UpdateChanged(run, runSeen, mine)
    BY <1>2 DEF JsClose
  <2>2. IsRow(row)
    BY RowFacts DEF ThreadInv, CentreInv
  <2> HIDE DEF row
  <2>3. /\ Counted(mine, items') /\ mine.status \in {COMPLETED, FAILED, CANCELLED}
        /\ mine.status = COMPLETED => ItemsIn(items', {FAILED, CANCELLED}) = {}
    BY <2>1, <2>2, RunCounted, ViewFacts
  <2> HIDE DEF mine
  <2>4. ItemsIn(items', IN_PROGRESS) = {}
    <3>1. \A k \in ItemKeys : items'[k] \in IN_PROGRESS => k = cur
      BY <2>1 DEF ThreadInv, TypeInv, Planned, Located, CurInRun, Existing, IN_PROGRESS, PENDING, RUNNING, ABSENT
    <3> QED BY <2>1, <3>1, ViewFacts DEF ThreadInv, WorkInv, Closes, ItemsIn
  <2> QED BY <2>1, <2>3, <2>4, Finalises DEF AtWrite
<1> QED BY <1>1, <1>2

\* The aggregation of the current period.
LEMMA CurrentBooks ==
    ASSUME ThreadInv, Books, EffectInv', Moves, task = "capacity_aggregate_current", CurrentStep \/ CurrentRaises
    PROVE  Books'
<1> USE DEF plan, runRows, AfterClose, Ended, effects
<1>1. CASE pc \notin AfterClose \cup AtWrite
  BY <1>1, StillOpen DEF ThreadInv, Moves, ThreadMove, ThreadHolds
<1>2. CASE CurrentRaises
  BY <1>2, StillOpen DEF CurrentRaises, Raise, ThreadInv
<1>3. CASE pc = "cur_final_commit" /\ CurFinal
  <2> DEFINE mine == finalize_run(runSeen, items)
  <2>1. UNCHANGED <<task, keys, items, effect>> /\ run' = UpdateChanged(run, runSeen, mine) /\ DOMAIN items = ItemKeys
    BY <1>3 DEF CurFinal, ThreadInv, TypeInv, TypeOK, ThreadTypeOK
  <2>2. /\ Counted(mine, items') /\ mine.status \in {COMPLETED, FAILED, CANCELLED}
        /\ mine.status = COMPLETED => ItemsIn(items', {FAILED, CANCELLED}) = {}
    BY <2>1, RunCounted DEF ThreadInv, CentreInv
  <2> HIDE DEF mine
  <2>3. \A k \in ItemsIn(items', IN_PROGRESS) : effect'[k] = "skipped"
    BY <1>3, <2>1, NothingLeft DEF ItemsIn, Through
  <2> QED BY <1>3, <2>1, <2>2, <2>3, Finalises DEF AtWrite
<1>4. CASE pc \in AfterClose \cup AtWrite /\ CurrentStep
  BY <1>3, <1>4, FailBooks DEF AtWrite, CurrentStep, CurBegin, CheckCancelled, CurSummary, InitItems, CurList, CurRunnerDone, CurTake,
     CurStart, CurUnknown, CurReport, CurCommit, CurCancelled, RecountCancelled, CurEnd, CurFinal, TakeNext, LoadItem, CommitItems, Goto
<1> QED BY <1>1, <1>2, <1>4

\* The daily statistics of the classification.
LEMMA DailyBooks ==
    ASSUME ThreadInv, Books, Moves, task = "calculate_account", DailyStep \/ DailyRaises
    PROVE  Books'
<1> USE DEF plan, runRows, AfterClose, Ended, effects
<1>0. /\ keys \subseteq ItemKeys /\ DOMAIN items = ItemKeys /\ IsRow(runSeen) /\ Daily
  BY DEF ThreadInv, TypeInv, TypeOK, ThreadTypeOK, CentreInv, TallyInv
<1>1. CASE pc \notin AfterClose \cup AtWrite
  BY <1>1, StillOpen DEF ThreadInv, Moves, ThreadMove, ThreadHolds
<1>2. CASE DailyRaises
  BY <1>2, StillOpen DEF DailyRaises, DlRuleFails, Raise, ThreadInv
<1>3. CASE DlRuleFailed
  <2> DEFINE mine == mark_run_failed(runSeen, View)
  <2>1. pc = "dl_rule_failed" /\ items' = View /\ UNCHANGED <<task, keys, effect>>
    BY <1>3 DEF DlRuleFailed
  <2>2. CASE runSeen.status = CANCELLED
    BY <1>3, <2>1, <2>2, StillOpen DEF DlRuleFailed, ThreadInv
  <2>3. CASE runSeen.status # CANCELLED
    <3>1. run' = UpdateChanged(run, runSeen, mine)
      BY <1>3, <2>3 DEF DlRuleFailed
    <3>2. Counted(mine, items') /\ mine.status = FAILED
      BY <1>0, <2>1, MarkCounted, MarkedRow, ViewFacts
    <3>3. ItemsIn(items', IN_PROGRESS) = {}
      BY <2>1, <2>3, ViewFacts DEF ThreadInv, WorkInv, Closes, ItemsIn
    <3> HIDE DEF mine
    <3>4. ClosedRunAccounts'
      BY <2>1, <3>1, <3>2, <3>3, CountsBooked DEF AtWrite
    <3>5. run'.status \in Closed => run'.status = FAILED
      BY <2>1, <3>1, <3>2, StatusWritten DEF AtWrite
    <3>6. \A k \in ItemKeys : effect'[k] = "none"
      BY <1>0, <2>1 DEF Daily
    <3>7. StatusTellsEffects'
      BY <1>0, <2>1, <3>5, <3>6 DEF StatusTellsEffects, Closed, COMPLETED, COMPLETED_WITH_ERRORS, FAILED
    <3> QED BY <3>4, <3>7 DEF Books
  <2> QED BY <2>2, <2>3
<1>4. CASE DlFinalCommit
  <2> DEFINE mine == finalize_run_with_summary(runSeen, items, NoOverride)
  <2>1. /\ pc = "dl_final_commit" /\ UNCHANGED <<task, keys, items>>
        /\ effect' = [k \in ItemKeys |-> IF k \in keys THEN COMPLETED ELSE effect[k]]
    BY <1>4 DEF DlFinalCommit
  <2>2. CASE runSeen.status = CANCELLED
    BY <1>4, <2>1, <2>2, StillOpen DEF DlFinalCommit, ThreadInv
  <2>3. CASE runSeen.status # CANCELLED
    <3>1. run' = UpdateChanged(run, runSeen, mine) /\ runSeen.status = RUNNING
      BY <1>4, <2>1, <2>3 DEF DlFinalCommit, ThreadInv, CentreInv, ReadOpen, AtWrite
    <3>2. /\ Counted(mine, items') /\ mine.status \in {COMPLETED, FAILED, CANCELLED}
          /\ mine.status = FAILED => ItemsIn(items', {FAILED, CANCELLED}) # {}
      BY <1>0, <2>1, <3>1, SummaryCounted DEF RUNNING, FAILED
    <3> HIDE DEF mine
    <3>3. ItemsIn(items', IN_PROGRESS) = {}
      BY <1>0, <2>1, NothingLeft DEF Daily, Through, ItemsIn
    <3>4. ClosedRunAccounts'
      BY <2>1, <3>1, <3>2, <3>3, CountsBooked DEF AtWrite
    <3>5. run'.status \in Closed => run'.status = mine.status
      BY <2>1, <3>1, StatusWritten DEF AtWrite
    <3>6. run'.status = FAILED => ItemsIn(items', {CANCELLED}) # {}
      BY <1>0, <2>1, <3>2, <3>5 DEF Daily, ItemsIn, Closed
    <3>7. run'.status # COMPLETED_WITH_ERRORS
      BY <3>2, <3>5 DEF Closed, COMPLETED, COMPLETED_WITH_ERRORS, FAILED, CANCELLED
    <3>8. \A k \in keys : effect'[k] = COMPLETED
      BY <1>0, <2>1
    <3>9. StatusTellsEffects'
      BY <2>1, <3>6, <3>7, <3>8 DEF StatusTellsEffects
    <3> QED BY <3>4, <3>9 DEF Books
  <2> QED BY <2>2, <2>3
<1>5. CASE pc \in AfterClose \cup AtWrite /\ DailyStep
  BY <1>3, <1>4, <1>5, FailBooks DEF AtWrite, DailyStep, DlStart, DlItems, DlCancelled, RecountCancelled, DlRule, DlStats,
     CheckCancelled, DlFinalRead, InitItems, BeginLoop, TakeNext, LoadItem, CommitItems, Goto
<1> QED BY <1>1, <1>2, <1>5

\* The Veeam synchronisation.
LEMMA VeeamBooks ==
    ASSUME ThreadInv, Books, EffectInv', Moves, task = "sync_veeam_backups", VeeamStep \/ VeeamRaises
    PROVE  Books'
<1> USE DEF plan, runRows, focus, effects, AfterClose, Ended
<1>1. CASE VbTake
  <2>1. pc = "vb_source" /\ todo # {} /\ UNCHANGED run
    BY <1>1 DEF VbTake, TakeNext
  <2> QED BY <2>1, OpenBooks DEF ThreadInv, CentreInv, ClosedByNow
<1>2. CASE VbDone
  BY <1>2, BooksStay DEF VbDone, Goto
<1>3. CASE VbAppend
  <2>1. /\ UNCHANGED <<task, keys, items, effect>> /\ run' \in {run, write_summary(run)}
    BY <1>3 DEF VbAppend
  <2>2. /\ run'.status = run.status /\ run'.progress_completed = run.progress_completed
        /\ run'.progress_failed = run.progress_failed
    BY <2>1 DEF ThreadInv, CentreInv, IsRow, write_summary
  <2> QED BY <2>1, <2>2, BooksStay
<1>4. CASE VbClose
  <2>1. /\ pc = "vb_close" /\ items' = View /\ UNCHANGED <<task, keys, cur>>
        /\ effect' = [effect EXCEPT ![SourceKey(cur)] = verdict]
    BY <1>4 DEF VbClose
  <2>2. CASE ~(cur[1] = Only /\ runSeen.status # CANCELLED)
    BY <1>4, <2>1, <2>2, StillOpen DEF VbClose, ThreadInv
  <2>3. CASE cur[1] = Only /\ runSeen.status # CANCELLED
    <3> DEFINE mine == finalize_run_with_summary(runSeen, View, NoOverride)
    <3>1. run' = UpdateChanged(run, runSeen, mine)
      BY <1>4, <2>3 DEF VbClose
    <3>2. /\ Counted(mine, items') /\ mine.status \in {COMPLETED, FAILED, CANCELLED}
          /\ mine.status = COMPLETED => ItemsIn(items', {FAILED, CANCELLED}) = {}
      BY <2>1, SummaryCounted, ViewFacts DEF ThreadInv, CentreInv
    <3> HIDE DEF mine
    <3>3. ASSUME NEW k \in ItemKeys, View[k] \in IN_PROGRESS PROVE effect'[k] = "skipped"
      <4>1. k \in keys /\ cur \in keys
        BY <2>1, <3>3 DEF ThreadInv, TypeInv, TypeOK, ThreadTypeOK, Existing, Located, CurInRun, InSource, View, IN_PROGRESS, PENDING,
                          RUNNING, ABSENT
      <4>2. k[1] = cur[1] /\ k \in Stages(cur[1]) /\ k[1] \in Subjects
        BY <2>3, <4>1, KeysArePairs DEF ThreadInv, TypeInv, Planned, Stages
      <4>3. effect[k] = "skipped"
        BY <2>1, <3>3, <4>2 DEF ThreadInv, WorkInv, Closes
      <4>4. k = SourceKey(cur) => k \in PairedKeys
        BY <4>1, <4>2 DEF PairedKeys, PlainKeys, SourceKey
      <4>5. k # SourceKey(cur)
        BY <2>1, <4>3, <4>4 DEF ThreadInv, EffectInv, Fresh, Untouched, InSource
      <4> QED BY <2>1, <4>3, <4>5 DEF ThreadInv, TypeInv, TypeOK
    <3>4. \A k \in ItemsIn(items', IN_PROGRESS) : effect'[k] = "skipped"
      BY <2>1, <3>3, ViewFacts DEF ItemsIn
    <3> QED BY <2>1, <3>1, <3>2, <3>4, Finalises DEF AtWrite
  <2> QED BY <2>2, <2>3
<1>5. CASE VbFinal
  <2>1. CASE FinalRead("vb_final_read", "vb_final_commit")
    BY <2>1, StillOpen DEF FinalRead, ThreadInv
  <2>2. CASE ~FinalRead("vb_final_read", "vb_final_commit")
    BY <1>5, <2>2, FinalBooks DEF VbFinal
  <2> QED BY <2>1, <2>2
<1>6. CASE ~(VbTake \/ VbDone \/ VbAppend \/ VbClose \/ VbFinal)
  <2>1. UNCHANGED run /\ pc \notin AfterClose
    BY <1>6 DEF VeeamStep, VeeamRaises, VbSources, VbSkipSource, VbEnter, VbStage, VbNextStage, VbWritten, VbFailed, VbLoad, VbLost,
                VbEarly, LoadItem, CommitItems, Goto, Raise
  <2> QED BY <2>1, StillOpen DEF ThreadInv
<1> QED BY <1>1, <1>2, <1>3, <1>4, <1>5, <1>6

\* Every step keeps the books of a closed run.
LEMMA BooksKept == ThreadInv /\ Books /\ TypeInv' /\ EffectInv' /\ CancelsOK /\ [Next]_vars => Books'
<1> SUFFICES ASSUME ThreadInv, Books, TypeInv', EffectInv', CancelsOK, [Next]_vars PROVE Books'
  OBVIOUS
<1>1. ASSUME TaskStep \/ TaskRaises PROVE Books'
  <2>1. Moves
    BY <1>1, TaskMoves DEF ThreadInv
  <2>2. ASSUME SerialLoop \/ SerialFinal, task # "calculate_account" PROVE Books'
    <3>1. CASE FinalCommit("final_commit", PartialFailure) /\ UNCHANGED effects
      BY <2>2, <3>1, FinalBooks
    <3>2. CASE ~(FinalCommit("final_commit", PartialFailure) /\ UNCHANGED effects)
      <4>1. pc \notin AfterClose \cup AtWrite
        BY <2>2, <3>2 DEF SerialLoop, SerialFinal, InitItems, BeginLoop, TakeNext, LoadItem, CommitItems, Goto, Decide, LoadOutcome,
                          Settle, FinalRead, AfterClose, Ended, AtWrite
      <4> QED BY <2>1, <4>1, StillOpen DEF ThreadInv, Moves, ThreadMove, ThreadHolds
    <3> QED BY <3>1, <3>2
  <2>3. ASSUME ClusterRaises \/ ADEscapes PROVE Books'
    BY <2>3, StillOpen DEF ThreadInv, ClusterRaises, ADEscapes, Raise, runRows, AfterClose, Ended
  <2> QED BY <1>1, <2>1, <2>2, <2>3, FailBooks, JumpServerBooks, VeeamBooks, CurrentBooks, DailyBooks
          DEF TaskStep, TaskRaises, ClusterStep, ADStep
<1>2. ASSUME TaskDies PROVE Books'
  BY <1>2, BooksStay DEF TaskDies, Die, plan, runRows, effects
<1>3. ASSUME NEW c \in RunCancels, Request(c) PROVE Books'
  <2>1. CASE CancelCommit(c)
    <3>1. run'.status = CANCELLED
      BY <2>1 DEF CancelCommit, ThreadInv, CentreInv, IsRow
    <3> QED BY <3>1, OpenBooks DEF Closed, COMPLETED, COMPLETED_WITH_ERRORS, FAILED, CANCELLED
  <2>2. CASE ~CancelCommit(c)
    BY <1>3, <2>2, BooksStay DEF Request, RunCancelStep, CancelRead, CancelFlush, CancelAborts, plan, runRows, effects
  <2> QED BY <2>1, <2>2
<1>4. ASSUME UNCHANGED vars PROVE Books'
  BY <1>4, BooksStay DEF vars, threadVars, plan, runRows, effects
<1> QED BY <1>1, <1>2, <1>3, <1>4 DEF Next, Terminating

\* What holds in every reachable state.
FullInv == ThreadInv /\ Books /\ CancelsOK

LEMMA FullInvInit == Init => FullInv
<1>1. Init => run.status = RUNNING
  BY DEF Init, ThreadInit, JumpServerInit, VeeamInit, start_run
<1>2. Init => Books
  BY <1>1 DEF Books, ClosedRunAccounts, StatusTellsEffects, RUNNING, COMPLETED, COMPLETED_WITH_ERRORS, FAILED
<1> QED BY <1>2, FirstState, TypeInvInit, EffectInvInit, WorkInvInit, TallyInvInit DEF FullInv, ThreadInv

LEMMA FullInvKept == FullInv /\ [Next]_vars => FullInv'
<1> SUFFICES ASSUME FullInv, [Next]_vars PROVE FullInv'
  OBVIOUS
<1>1. CentreInv' /\ CancelsOK'
  BY EveryStep DEF FullInv, ThreadInv
<1>2. TypeInv' /\ EffectInv'
  BY TypeInvKept, EffectInvKept DEF FullInv, ThreadInv, EffectInv
<1>3. WorkInv' /\ TallyInv'
  BY WorkInvKept, TallyInvKept DEF FullInv, ThreadInv
<1> QED BY <1>1, <1>2, <1>3, BooksKept DEF FullInv, ThreadInv

\* Whatever the task, however many requests cancel its run and wherever the task raises or dies: a run
\* that reads as closed has counted its items as they are, and left open only those the thread skipped.
THEOREM ClosedRunsAccount == Spec => []ClosedRunAccounts
<1>1. FullInv => ClosedRunAccounts
  BY DEF FullInv, Books
<1> QED BY <1>1, FullInvInit, FullInvKept, PTL DEF Spec

\* A run that reads "completed" has done all of its work (one source at least, for Veeam), one that reads
\* "completed with errors" a part of it, and a failed calculation has left no statistics behind.
THEOREM StatusTells == Spec => []StatusTellsEffects
<1>1. FullInv => StatusTellsEffects
  BY DEF FullInv, Books
<1> QED BY <1>1, FullInvInit, FullInvKept, PTL DEF Spec
=============================================================================
