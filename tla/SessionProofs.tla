---------------------------- MODULE SessionProofs ----------------------------
(***************************************************************************)
(* Proofs about the three tasks that keep a sync session: the counters of  *)
(* the session are those of its records, and a run in a final status       *)
(* agrees with its items and its session, for any number of instances,     *)
(* clusters and requests that cancel the run or the session.               *)
(*                                                                         *)
(* The inductive invariant has three layers: TypeInv (types, and what each *)
(* place of the thread says of its locals), SessionInv (the books of the   *)
(* session) and RunInv (the books of the run).                             *)
(***************************************************************************)
EXTENDS SessionTasks, ThreadProofs

\* The places of the loop over the instances, of the one over the clusters and of
\* the failure handlers; and all places.
LoopPlaces == {"loop", "start_read", "start_commit", "start_record", "sync", "item_read", "item_commit"}
AgPlaces == {"ag_loop", "ag_start", "ag_start_commit", "ag_sync", "ag_commit"}
HandlerPlaces == {"fail_session", "mark_read", "mark_commit", "agg_fail_session"}
Places ==
    {"launched", "init_items", "create_session", "ag_check", "agg_check", "agg_recount",
     "finish_session", "final_read", "final_commit", "done", "dead"}
    \cup LoopPlaces \cup AgPlaces \cup HandlerPlaces

\* Where an item is in hand, and which.
HasCur == (LoopPlaces \cup AgPlaces) \ {"loop", "ag_loop"}
InHand == {k \in {cur} : pc \in HasCur}

\* The place of the thread, its loop and its current key.
Located ==
    /\ pc \in Places
    /\ task \in {"sync_accounts", "sync_databases", "calculate_database"}
    /\ task # "sync_accounts" => clusters = {}
    /\ pc \in AgPlaces \cup {"ag_check"} => task = "sync_accounts"
    /\ pc \in {"agg_check", "agg_recount", "agg_fail_session"} => task = "calculate_database"
    /\ pc \in {"fail_session"} => task # "calculate_database"
    /\ pc \in LoopPlaces => todo \subseteq insts
    /\ pc \in AgPlaces => todo \subseteq clusters
    /\ pc \in HasCur => cur \notin todo
    /\ pc \in LoopPlaces \ {"loop"} => cur \in insts
    /\ pc \in AgPlaces \ {"ag_loop"} => cur \in clusters

\* What the open transaction may hold there.
Staged ==
    /\ pc \notin {"start_commit", "item_commit", "ag_start_commit", "ag_commit", "fail_session", "mark_commit"} => stage = NoChange
    /\ pc \in {"start_commit", "item_commit", "ag_start_commit", "ag_commit"} => DOMAIN stage \subseteq {cur}

\* What the records and the session look like there.
Recorded ==
    /\ pc \in LoopPlaces => \A i \in todo : recs[i] = PENDING
    /\ pc \in {"start_read", "start_commit", "start_record"} => recs[cur] = PENDING
    /\ pc = "sync" => recs[cur] = RUNNING
    /\ \A i \in Instances \ insts : recs[i] = ABSENT
    /\ sess.status = ABSENT => sess = NoSession /\ \A i \in Instances : recs[i] = ABSENT
    /\ pc \in {"launched", "init_items", "create_session"} => sess.status = ABSENT
    /\ pc \in LoopPlaces \cup AgPlaces \cup {"ag_check", "agg_check", "finish_session"} => sess.status # ABSENT
    /\ sess.status # ABSENT /\ pc \notin HandlerPlaces \cup {"done", "dead"} => \A i \in insts : recs[i] # ABSENT
    /\ \A s \in SessionCancels : spc[s] = "write" => sess.status # ABSENT
    /\ task = "calculate_database" /\ pc \in {"mark_read", "mark_commit", "agg_fail_session"} /\ todo # {} =>
           cur \in insts /\ recs[cur] \in {PENDING, RUNNING} /\ sess.status # ABSENT

TypeInv == TypeOK /\ Located /\ Staged /\ Recorded

\* The records with an outcome.
Completed == RecordsIn(recs, {COMPLETED})
Failed == RecordsIn(recs, {FAILED})

\* The totals of the task and the session as it was loaded.
Counted ==
    /\ pc \in {"launched", "init_items", "create_session", "ag_check", "agg_check", "finish_session"} \cup LoopPlaces \cup AgPlaces =>
           synced = Cardinality(Completed) /\ failed = Cardinality(Failed)
    /\ pc = "sync" => /\ sessSeen.successful_instances = sess.successful_instances
                      /\ sessSeen.failed_instances = sess.failed_instances
    /\ pc \in {"final_read", "final_commit"} /\ sess.status # ABSENT =>
           /\ sess.status \in {CANCELLED, IF Failed = {} THEN COMPLETED ELSE FAILED}
           /\ sess.failed_instances = Cardinality(Failed)

\* A completed session and the records it stands for.
NoFailure ==
    /\ sess.status = COMPLETED /\ (task = "calculate_database" \/ pc \in {"mark_read", "mark_commit", "done"}) => Failed = {}
    /\ task = "calculate_database" /\ sess.status # ABSENT => sess.total_instances = Cardinality(insts)
    /\ task = "calculate_database" /\ sess.status = COMPLETED /\ pc \in LoopPlaces => Completed = insts

SessionInv == SessionCountsRecords /\ Counted /\ NoFailure

\* The keys whose items the thread has not closed yet, where it works on them.
Remaining ==
    CASE pc = "create_session" -> keys
      [] pc \in LoopPlaces -> todo \cup InHand \cup clusters
      [] pc = "ag_check" -> clusters
      [] pc \in AgPlaces -> todo \cup InHand
      [] OTHER -> {}
Regular == {"launched", "init_items", "create_session", "ag_check", "agg_check", "finish_session", "final_read"}
           \cup LoopPlaces \cup AgPlaces
Open == ItemsIn(items, IN_PROGRESS)

\* The items at each place of the thread.
Worked ==
    /\ pc \in Regular /\ run.status # CANCELLED => Open \subseteq Remaining
    /\ pc = "final_commit" => Open = {}
    /\ pc = "mark_commit" => Open \subseteq DOMAIN stage /\ \A k \in DOMAIN stage : stage[k] = FAILED
    /\ pc \in {"item_commit", "ag_commit"} => View[cur] \in TERMINAL
    /\ pc \in {"launched", "init_items"} => Open = {}
    /\ \A k \in ItemKeys : items[k] # COMPLETED_WITH_ERRORS /\ View[k] # COMPLETED_WITH_ERRORS
    /\ \A i \in Instances : recs[i] # ABSENT => items[i] # ABSENT
    /\ pc = "create_session" => \A k \in keys : items[k] # ABSENT
    /\ \A i \in Instances : /\ items[i] = COMPLETED => recs[i] = COMPLETED
                            /\ View[i] = COMPLETED => recs[i] = COMPLETED

\* The run at each place of the thread, and as it was loaded.
Read ==
    /\ run.status = RUNNING \/ run.status = CANCELLED \/ pc \in {"done", "dead", "agg_fail_session"}
    /\ run.status = COMPLETED => pc = "done"
    /\ pc = "agg_recount" => run.status = CANCELLED
    /\ run.status # COMPLETED_WITH_ERRORS /\ run.status # PENDING
    /\ pc \in {"final_commit", "mark_commit"} =>
           /\ runSeen.status = RUNNING
           /\ runSeen.progress_total = run.progress_total
           /\ runSeen.progress_completed = run.progress_completed
           /\ runSeen.progress_failed = run.progress_failed
           /\ runSeen.summary = run.summary

RunInv == Worked /\ Read /\ ClosedRunAgrees

\* The inductive invariant.
Inv == TypeInv /\ SessionInv /\ RunInv

-----------------------------------------------------------------------------
\* So are those of records, and of the instances of the task.
LEMMA RecordCounts ==
    ASSUME NEW f, DOMAIN f \subseteq Instances, NEW S
    PROVE  IsFiniteSet(RecordsIn(f, S)) /\ Cardinality(RecordsIn(f, S)) \in Nat
<1>1. RecordsIn(f, S) \subseteq ItemKeys
  BY InstancesAreKeys DEF RecordsIn
<1> QED BY <1>1, KeysFinite, FS_Subset, FS_CardinalityType

\* The number of instances of the task is one.
LEMMA InstanceCounts == IsFiniteSet(insts) /\ Cardinality(insts) \in Nat
<1>1. insts \subseteq ItemKeys
  BY InstancesAreKeys DEF insts
<1> QED BY <1>1, KeysFinite, FS_Subset, FS_CardinalityType

\* The operations on records and session keep their types.
LEMMA SessionRows ==
    ASSUME NEW st, st.recs \in [Instances -> SyncStatus \cup {ABSENT}], st.sess \in SyncSession,
           NEW i \in Instances, NEW status \in {COMPLETED, FAILED}
    PROVE  /\ SetRecord(st, i, status).recs = [st.recs EXCEPT ![i] = status]
           /\ SetRecord(st, i, status).recs \in [Instances -> SyncStatus \cup {ABSENT}]
           /\ SetRecord(st, i, status).sess \in SyncSession
<1> DEFINE new == [st.recs EXCEPT ![i] = status]
<1>1. new \in [Instances -> SyncStatus \cup {ABSENT}]
  BY DEF SyncStatus, SyncSessionStatus, SESSION_TERMINAL
<1>2. DOMAIN new \subseteq Instances
  BY <1>1
<1> HIDE DEF new
<1>3. update_session_statistics(st.sess, new) \in SyncSession
  BY <1>2, RecordCounts DEF update_session_statistics, update_statistics, SyncSession, SyncSessionStatus, SESSION_TERMINAL
<1>4. SetRecord(st, i, status).recs = new /\ SetRecord(st, i, status).sess = update_session_statistics(st.sess, new)
  BY DEF SetRecord, new
<1> QED BY <1>1, <1>3, <1>4 DEF new

\* So does the column-wise UPDATE of the session row.
LEMMA SessionUpdates ==
    ASSUME NEW db \in SyncSession, NEW s1 \in SyncSession, NEW s2 \in SyncSession
    PROVE  UpdateSession(db, s1, s2) \in SyncSession
  BY DEF UpdateSession, SyncSession

\* A new status leaves the other columns of the session row alone.
LEMMA SessionColumn ==
    ASSUME NEW r \in SyncSession, NEW st \in SyncSessionStatus
    PROVE  /\ [r EXCEPT !.status = st] \in SyncSession
           /\ [r EXCEPT !.status = st].status = st
           /\ [r EXCEPT !.status = st].total_instances = r.total_instances
           /\ [r EXCEPT !.status = st].successful_instances = r.successful_instances
           /\ [r EXCEPT !.status = st].failed_instances = r.failed_instances
  BY DEF SyncSession

\* At first everything is in place.
LEMMA TypeInvInit == Init => TypeInv
<1> SUFFICES ASSUME Init PROVE TypeInv
  OBVIOUS
<1> USE DEF Init, TaskInit, ThreadInit
<1>1. run \in TaskRun /\ runSeen \in TaskRun
  <2>1. Cardinality({}) \in Nat
    BY FS_EmptySet
  <2> QED BY <2>1 DEF TaskRun, start_run, TaskRunStatus, TERMINAL, IN_PROGRESS
<1>2. items \in [ItemKeys -> TaskRunStatus \cup {ABSENT}]
  BY DEF init_items
<1>3. NoSession \in SyncSession /\ DOMAIN stage = {}
  BY DEF NoSession, SyncSession, NoChange
<1>4. TypeOK
  BY <1>1, <1>2, <1>3 DEF TypeOK, ThreadTypeOK
<1>5. Located /\ Staged /\ Recorded
  BY DEF Located, Staged, Recorded, Places, LoopPlaces, AgPlaces, HandlerPlaces, HasCur, AccountsInit, clusters, insts, NoSession,
         ABSENT
<1> QED BY <1>4, <1>5 DEF TypeInv

-----------------------------------------------------------------------------
\* However the work on an instance ends: its record gets the outcome that is
\* counted, and the session row is written with the counts of the records.
Ends(rs, seen, mine, ok) ==
    /\ rs = [recs EXCEPT ![cur] = IF ok THEN COMPLETED ELSE FAILED]
    /\ seen \in {sess, sessSeen} /\ mine \in SyncSession /\ mine.status \in {seen.status, COMPLETED, FAILED}
    /\ mine.successful_instances = Cardinality(RecordsIn(rs, {COMPLETED}))
    /\ mine.failed_instances = Cardinality(RecordsIn(rs, {FAILED}))
    /\ task = "calculate_database" => seen = sess /\ mine = update_session_statistics(sess, rs)
    /\ FinishInstance([recs |-> rs, sess |-> mine], seen, ok)

\* Each of the ways in which the three tasks end the work on an instance is of that kind.
LEMMA Finishes ==
    ASSUME TypeInv,
           \/ task # "calculate_database" /\ (Unreachable \/ Collected \/ OnlyInventory \/ AlertsFail \/ Fallback)
           \/ \E ok \in BOOLEAN : task # "calculate_database" /\ SyncInstance(ok)
           \/ \E ok \in BOOLEAN : AggInstance(ok)
    PROVE  pc = "sync" /\ cur \in insts /\ \E rs, seen, mine : \E ok \in BOOLEAN : Ends(rs, seen, mine, ok)
<1>1. pc = "sync"
  BY DEF Unreachable, Collected, OnlyInventory, AlertsFail, Fallback, SyncInstance, AggInstance, FinishInstance
<1>2. cur \in insts /\ cur \in Instances
  BY <1>1 DEF TypeInv, Located, LoopPlaces, insts
<1>3. sess \in SyncSession /\ sessSeen \in SyncSession /\ recs \in [Instances -> SyncStatus \cup {ABSENT}]
  BY DEF TypeInv, TypeOK
<1>4. ASSUME NEW s \in {sess, sessSeen}, NEW ok \in BOOLEAN, NEW st,
             st = SetRecord([recs |-> recs, sess |-> s], cur, IF ok THEN COMPLETED ELSE FAILED),
             FinishInstance(st, s, ok), task = "calculate_database" => s = sess
      PROVE  \E rs, seen, mine : \E ok1 \in BOOLEAN : Ends(rs, seen, mine, ok1)
  <2>0. PICK old : old = [recs |-> recs, sess |-> s]
    OBVIOUS
  <2>1. st.recs = [recs EXCEPT ![cur] = IF ok THEN COMPLETED ELSE FAILED] /\ st.sess \in SyncSession
    <3>1. old.recs = recs /\ old.sess = s
      BY <2>0
    <3>2. PICK x \in {COMPLETED, FAILED} : x = (IF ok THEN COMPLETED ELSE FAILED) /\ st = SetRecord(old, cur, x)
      BY <1>4, <2>0
    <3> QED BY <1>2, <1>3, <3>1, <3>2, SessionRows
  <2>2. st = [recs |-> st.recs, sess |-> st.sess] /\ st.sess = update_session_statistics(s, st.recs)
    BY <1>4 DEF SetRecord
  <2>3. /\ st.sess.successful_instances = Cardinality(RecordsIn(st.recs, {COMPLETED}))
        /\ st.sess.failed_instances = Cardinality(RecordsIn(st.recs, {FAILED}))
        /\ st.sess.status \in {s.status, COMPLETED, FAILED}
    BY <2>2 DEF update_session_statistics, update_statistics
  <2>4. Ends(st.recs, s, st.sess, ok)
    BY <1>4, <2>1, <2>2, <2>3 DEF Ends
  <2> QED BY <2>4
<1>5. ASSUME NEW ok \in BOOLEAN, NEW st, task # "calculate_database",
             st = SetRecord(SetRecord([recs |-> recs, sess |-> sessSeen], cur, COMPLETED), cur, IF ok THEN COMPLETED ELSE FAILED),
             FinishInstance(st, sessSeen, ok)
      PROVE  \E rs, seen, mine : \E ok1 \in BOOLEAN : Ends(rs, seen, mine, ok1)
  <2>0. PICK old : old = [recs |-> recs, sess |-> sessSeen]
    OBVIOUS
  <2>1. PICK mid : mid = SetRecord(old, cur, COMPLETED)
    OBVIOUS
  <2>2. mid.recs = [recs EXCEPT ![cur] = COMPLETED] /\ mid.recs \in [Instances -> SyncStatus \cup {ABSENT}] /\ mid.sess \in SyncSession
    <3>1. old.recs = recs /\ old.sess = sessSeen
      BY <2>0
    <3> QED BY <1>2, <1>3, <2>1, <3>1, SessionRows
  <2>3. st.recs = [mid.recs EXCEPT ![cur] = IF ok THEN COMPLETED ELSE FAILED] /\ st.sess \in SyncSession
    <3>1. PICK x \in {COMPLETED, FAILED} : x = (IF ok THEN COMPLETED ELSE FAILED) /\ st = SetRecord(mid, cur, x)
      BY <1>5, <2>0, <2>1
    <3> QED BY <1>2, <2>2, <3>1, SessionRows
  <2>4. st.recs = [recs EXCEPT ![cur] = IF ok THEN COMPLETED ELSE FAILED]
    BY <1>2, <1>3, <2>2, <2>3
  <2>5. st = [recs |-> st.recs, sess |-> st.sess] /\ st.sess = update_session_statistics(mid.sess, st.recs)
    BY <1>5, <2>0, <2>1 DEF SetRecord
  <2>6. /\ st.sess.successful_instances = Cardinality(RecordsIn(st.recs, {COMPLETED}))
        /\ st.sess.failed_instances = Cardinality(RecordsIn(st.recs, {FAILED}))
        /\ st.sess.status \in {mid.sess.status, COMPLETED, FAILED} /\ mid.sess.status \in {sessSeen.status, COMPLETED, FAILED}
    BY <2>0, <2>1, <2>5 DEF SetRecord, update_session_statistics, update_statistics
  <2>7. Ends(st.recs, sessSeen, st.sess, ok)
    BY <1>5, <2>3, <2>4, <2>5, <2>6 DEF Ends
  <2> QED BY <2>7
<1>6. CASE task # "calculate_database" /\ (Unreachable \/ Fallback \/ \E ok \in BOOLEAN : SyncInstance(ok))
  <2>1. PICK s \in {sess, sessSeen}, ok \in BOOLEAN :
            FinishInstance(SetRecord([recs |-> recs, sess |-> s], cur, IF ok THEN COMPLETED ELSE FAILED), s, ok)
    BY <1>6 DEF Unreachable, Fallback, SyncInstance, Loaded, complete_instance_sync, fail_instance_sync
  <2>2. PICK st : st = SetRecord([recs |-> recs, sess |-> s], cur, IF ok THEN COMPLETED ELSE FAILED)
    OBVIOUS
  <2>3. FinishInstance(st, s, ok)
    BY <2>1, <2>2 DEF FinishInstance
  <2> QED BY <1>1, <1>2, <1>4, <1>6, <2>2, <2>3
<1>7. CASE task # "calculate_database" /\ (Collected \/ OnlyInventory \/ AlertsFail)
  <2>1. PICK ok \in BOOLEAN :
            FinishInstance(SetRecord(SetRecord([recs |-> recs, sess |-> sessSeen], cur, COMPLETED), cur,
                                     IF ok THEN COMPLETED ELSE FAILED), sessSeen, ok)
    BY <1>7 DEF Collected, OnlyInventory, AlertsFail, Loaded, complete_instance_sync, fail_instance_sync
  <2>2. PICK st : st = SetRecord(SetRecord([recs |-> recs, sess |-> sessSeen], cur, COMPLETED), cur,
                                 IF ok THEN COMPLETED ELSE FAILED)
    OBVIOUS
  <2>3. FinishInstance(st, sessSeen, ok)
    BY <2>1, <2>2 DEF FinishInstance
  <2> QED BY <1>1, <1>2, <1>5, <1>7, <2>2, <2>3
<1>8. CASE \E ok \in BOOLEAN : AggInstance(ok)
  <2>1. PICK ok \in BOOLEAN :
            FinishInstance(SetRecord([recs |-> recs, sess |-> sess], cur, IF ok THEN COMPLETED ELSE FAILED), sess, ok)
    BY <1>8 DEF AggInstance, complete_instance_sync, fail_instance_sync
  <2>2. PICK st : st = SetRecord([recs |-> recs, sess |-> sess], cur, IF ok THEN COMPLETED ELSE FAILED)
    OBVIOUS
  <2>3. FinishInstance(st, sess, ok)
    BY <2>1, <2>2 DEF FinishInstance
  <2> QED BY <1>1, <1>2, <1>4, <2>2, <2>3
<1> QED BY <1>1, <1>2, <1>6, <1>7, <1>8

\* The end of the work on an instance keeps types and places.
LEMMA FinishesTyped ==
    ASSUME TypeInv, pc = "sync", cur \in insts, NEW rs, NEW seen, NEW mine, NEW ok \in BOOLEAN, Ends(rs, seen, mine, ok)
    PROVE  TypeInv'
<1> USE DEF threadVars, plan, runRows, focus, totals, cancels, session
<1>1. /\ pc' = "item_read" /\ recs' = rs /\ sess' = UpdateSession(sess, seen, mine)
      /\ UNCHANGED <<plan, runRows, focus, runSeen, stage, cancels, sessSeen, spc>>
      /\ synced' = synced + (IF ok THEN 1 ELSE 0) /\ failed' = failed + (IF ok THEN 0 ELSE 1)
  <2>1. PICK st : st = [recs |-> rs, sess |-> mine] /\ FinishInstance(st, seen, ok)
    BY DEF Ends
  <2>2. st.recs = rs /\ st.sess = mine
    BY <2>1
  <2> QED BY <2>1, <2>2 DEF FinishInstance
<1>2. sess \in SyncSession /\ sessSeen \in SyncSession /\ recs \in [Instances -> SyncStatus \cup {ABSENT}] /\ cur \in Instances
  BY DEF TypeInv, TypeOK, insts
<1>3. TypeOK'
  <2>1. ThreadTypeOK'
    BY <1>1 DEF TypeInv, TypeOK, ThreadTypeOK
  <2>2. sess' \in SyncSession
    BY <1>1, <1>2, SessionUpdates DEF Ends
  <2>3. recs' \in [Instances -> SyncStatus \cup {ABSENT}]
    BY <1>1, <1>2 DEF Ends, SyncStatus, SyncSessionStatus, SESSION_TERMINAL
  <2> QED BY <1>1, <2>1, <2>2, <2>3 DEF TypeInv, TypeOK
<1>4. Located' /\ Staged'
  BY <1>1 DEF TypeInv, Located, Staged, clusters, insts, Places, LoopPlaces, AgPlaces, HandlerPlaces, HasCur
<1>5. Recorded'
  <2>1. \A i \in Instances : recs'[i] = IF i = cur THEN IF ok THEN COMPLETED ELSE FAILED ELSE recs[i]
    BY <1>1, <1>2 DEF Ends
  <2>2. sess.status # ABSENT
    BY DEF TypeInv, Recorded, LoopPlaces
  <2>3. sess'.status # ABSENT
    BY <1>1, <2>2 DEF Ends, UpdateSession, COMPLETED, FAILED, ABSENT
  <2> QED BY <1>1, <2>1, <2>2, <2>3
            DEF TypeInv, Located, Recorded, clusters, insts, Places, LoopPlaces, AgPlaces, HandlerPlaces, HasCur, COMPLETED,
            FAILED, ABSENT
<1> QED BY <1>3, <1>4, <1>5 DEF TypeInv

\* The handler of calculate_database fails the record that was left over, if there
\* is one, and the session, if there is one.
FailsSession ==
    /\ sess.status # ABSENT /\ sess'.status = FAILED /\ sess'.total_instances = sess.total_instances
    /\ sess' \in SyncSession
    /\ \/ /\ recs' = recs
          /\ sess'.successful_instances = sess.successful_instances /\ sess'.failed_instances = sess.failed_instances
       \/ /\ cur \in insts /\ recs[cur] \in {PENDING, RUNNING} /\ recs' = [recs EXCEPT ![cur] = FAILED]
          /\ sess'.successful_instances = Cardinality(RecordsIn(recs', {COMPLETED}))
          /\ sess'.failed_instances = Cardinality(RecordsIn(recs', {FAILED}))

\* The handler does that or nothing.
LEMMA AggFails ==
    ASSUME TypeInv, AggFailSession
    PROVE  FailsSession \/ UNCHANGED <<sess, recs>>
<1>1. /\ sess \in SyncSession /\ recs \in [Instances -> SyncStatus \cup {ABSENT}]
      /\ sess # NoSession => sess.status # ABSENT
      /\ todo # {} => cur \in insts /\ cur \in Instances /\ recs[cur] \in {PENDING, RUNNING} /\ sess.status # ABSENT
      /\ FAILED \in SyncSessionStatus
  BY DEF TypeInv, TypeOK, Recorded, Located, AggFailSession, Goto, insts, SyncSessionStatus, SESSION_TERMINAL
<1>2. PICK old : old = [recs |-> recs, sess |-> sess]
  OBVIOUS
<1>3. old.recs = recs /\ old.sess = sess
  BY <1>2
<1>4. CASE todo = {}
  <2>1. recs' = recs /\ sess' = IF sess = NoSession THEN sess ELSE [sess EXCEPT !.status = FAILED]
    BY <1>4 DEF AggFailSession
  <2> QED BY <1>1, <2>1, SessionColumn DEF FailsSession
<1>5. CASE todo # {}
  <2>1. PICK new : new = SetRecord(old, cur, FAILED)
    OBVIOUS
  <2>2. /\ new.recs = [recs EXCEPT ![cur] = FAILED] /\ new.sess \in SyncSession
        /\ new.sess = update_session_statistics(sess, new.recs)
    BY <1>1, <1>3, <1>5, <2>1, SessionRows DEF SetRecord
  <2>3. /\ recs' = new.recs
        /\ sess' = IF sess = NoSession THEN sess ELSE [new.sess EXCEPT !.status = FAILED]
    BY <1>2, <1>5, <2>1 DEF AggFailSession, fail_instance_sync
  <2>4. /\ new.sess.total_instances = sess.total_instances
        /\ new.sess.successful_instances = Cardinality(RecordsIn(new.recs, {COMPLETED}))
        /\ new.sess.failed_instances = Cardinality(RecordsIn(new.recs, {FAILED}))
    BY <2>2 DEF update_session_statistics, update_statistics
  <2>5. sess # NoSession
    BY <1>1, <1>5 DEF NoSession
  <2> QED BY <1>1, <1>5, <2>2, <2>3, <2>4, <2>5, SessionColumn DEF FailsSession
<1> QED BY <1>4, <1>5

\* The handler of calculate_database keeps types and places.
LEMMA AggFailsTyped ==
    ASSUME TypeInv, AggFailSession
    PROVE  TypeInv'
<1> USE DEF threadVars, plan, runRows, focus, totals, cancels, session
<1>1. /\ pc = "agg_fail_session" /\ pc' = "done" /\ task = "calculate_database"
      /\ UNCHANGED <<plan, runRows, focus, runSeen, stage, totals, cancels, sessSeen, spc>>
  BY DEF AggFailSession, Goto, TypeInv, Located
<1>2. sess' \in SyncSession /\ recs' \in [Instances -> SyncStatus \cup {ABSENT}]
  BY AggFails DEF FailsSession, TypeInv, TypeOK, SyncStatus, SyncSessionStatus, SESSION_TERMINAL
<1>3. TypeOK'
  BY <1>1, <1>2 DEF TypeInv, TypeOK, ThreadTypeOK
<1>4. Located' /\ Staged'
  BY <1>1 DEF TypeInv, Located, Staged, clusters, insts, Places, LoopPlaces, AgPlaces, HandlerPlaces, HasCur
<1>5. Recorded'
  BY <1>1, AggFails
     DEF FailsSession, TypeInv, TypeOK, Recorded, insts, LoopPlaces, AgPlaces, HandlerPlaces, ABSENT, FAILED, NoSession
<1> QED BY <1>3, <1>4, <1>5 DEF TypeInv

\* So do the requests that cancel the session.
LEMMA SessionCancelsTyped ==
    ASSUME TypeInv, NEW s \in SessionCancels, SessionCancelStep(s)
    PROVE  TypeInv'
<1> USE DEF threadVars, plan, runRows, focus, totals, cancels, session
<1>1. /\ UNCHANGED <<threadVars, recs, sessSeen>>
      /\ \/ sess' = sess /\ spc' = [spc EXCEPT ![s] = IF sess.status = RUNNING THEN "write" ELSE "refused"]
         \/ sess' = [sess EXCEPT !.status = CANCELLED] /\ spc[s] = "write" /\ spc' = [spc EXCEPT ![s] = "done"]
  BY DEF SessionCancelStep, SessionCancelRead, SessionCancelWrite
<1>2. sess \in SyncSession /\ CANCELLED \in SyncSessionStatus
  BY DEF TypeInv, TypeOK, SyncSessionStatus, SESSION_TERMINAL
<1>3. sess' \in SyncSession /\ (sess' = sess \/ (sess'.status = CANCELLED /\ spc[s] = "write"))
  BY <1>1, <1>2, SessionColumn
<1>4. TypeOK'
  BY <1>1, <1>3 DEF TypeInv, TypeOK, ThreadTypeOK
<1>5. Located' /\ Staged'
  BY <1>1 DEF TypeInv, Located, Staged, clusters, insts
<1>6. Recorded'
  BY <1>1, <1>3 DEF TypeInv, TypeOK, Recorded, insts, ABSENT, CANCELLED, RUNNING
<1> QED BY <1>4, <1>5, <1>6 DEF TypeInv

-----------------------------------------------------------------------------
\* Every step of every task, and every request, keeps types and places.
LEMMA TypeInvKept == TypeInv /\ [Next]_vars => TypeInv'
<1> SUFFICES ASSUME TypeInv, [Next]_vars PROVE TypeInv'
  OBVIOUS
<1> USE DEF threadVars, plan, runRows, focus, totals, cancels, session
<1>1. ASSUME InitItems("init_items", "create_session"), UNCHANGED session PROVE TypeInv'
  <2>1. ThreadTypeOK'
    BY <1>1, ItemsTyped, InstancesAreKeys DEF TaskRunStatus, IN_PROGRESS, TypeInv, TypeOK, Located, insts, HasCur,
           LoopPlaces, AgPlaces, ThreadTypeOK
  <2>2. /\ sess' \in SyncSession /\ sessSeen' \in SyncSession
        /\ recs' \in [Instances -> SyncStatus \cup {ABSENT}]
        /\ spc' \in [SessionCancels -> {"read", "write", "refused", "done"}]
    BY <1>1 DEF TypeInv, TypeOK
  <2>3. Located' /\ Staged'
    BY <1>1 DEF InitItems, init_items, TypeInv, Located, Staged, clusters, insts, Places, LoopPlaces, AgPlaces,
           HandlerPlaces, HasCur
  <2>4. Recorded'
    BY <1>1 DEF InitItems, init_items, TypeInv, TypeOK, Located, Recorded, clusters, insts, NoSession, PENDING,
           RUNNING, ABSENT, CANCELLED, COMPLETED, FAILED, Places, LoopPlaces, AgPlaces, HandlerPlaces, HasCur
  <2> QED BY <2>1, <2>2, <2>3, <2>4 DEF TypeInv, TypeOK
<1>2. ASSUME CreateSession PROVE TypeInv'
  <2>1. ThreadTypeOK'
    BY <1>2, MovesTyped, InstancesAreKeys DEF CreateSession, TypeInv, TypeOK, Located, insts, HasCur, LoopPlaces,
           AgPlaces, ThreadTypeOK
  <2>2. /\ sess' \in SyncSession /\ sessSeen' \in SyncSession
        /\ recs' \in [Instances -> SyncStatus \cup {ABSENT}]
        /\ spc' \in [SessionCancels -> {"read", "write", "refused", "done"}]
    BY <1>2, InstanceCounts DEF CreateSession, create_session, add_instance_records, SyncStatus, SyncSession,
           SyncSessionStatus, TypeInv, TypeOK
  <2>3. Located' /\ Staged'
    BY <1>2 DEF CreateSession, BeginLoop, create_session, add_instance_records, TypeInv, Located, Staged, clusters,
           insts, Places, LoopPlaces, AgPlaces, HandlerPlaces, HasCur
  <2>4. Recorded'
    BY <1>2 DEF CreateSession, BeginLoop, create_session, add_instance_records, TypeInv, TypeOK, Located, Recorded,
           clusters, insts, NoSession, PENDING, RUNNING, ABSENT, CANCELLED, COMPLETED, FAILED, Places, LoopPlaces,
           AgPlaces, HandlerPlaces, HasCur
  <2> QED BY <2>1, <2>2, <2>3, <2>4 DEF TypeInv, TypeOK
<1>3. ASSUME LoopNext PROVE TypeInv'
  <2>1. ThreadTypeOK'
    BY <1>3, MovesTyped, InstancesAreKeys DEF LoopNext, TypeInv, TypeOK, Located, insts, HasCur, LoopPlaces,
           AgPlaces, ThreadTypeOK
  <2>2. /\ sess' \in SyncSession /\ sessSeen' \in SyncSession
        /\ recs' \in [Instances -> SyncStatus \cup {ABSENT}]
        /\ spc' \in [SessionCancels -> {"read", "write", "refused", "done"}]
    BY <1>3 DEF LoopNext, TypeInv, TypeOK
  <2>3. Located' /\ Staged'
    BY <1>3 DEF LoopNext, TakeNext, TypeInv, Located, Staged, clusters, insts, Places, LoopPlaces, AgPlaces,
           HandlerPlaces, HasCur
  <2>4. Recorded'
    BY <1>3 DEF LoopNext, TakeNext, TypeInv, TypeOK, Located, Recorded, clusters, insts, NoSession, PENDING, RUNNING,
           ABSENT, CANCELLED, COMPLETED, FAILED, Places, LoopPlaces, AgPlaces, HandlerPlaces, HasCur
  <2> QED BY <2>1, <2>2, <2>3, <2>4 DEF TypeInv, TypeOK
<1>4. ASSUME StartRead \/ ItemRead \/ \E ok \in BOOLEAN : AgSync(ok) PROVE TypeInv'
  <2>1. ThreadTypeOK'
    BY <1>4, ItemsTyped, ItemStatuses, InstancesAreKeys DEF StartRead, ItemRead, AgSync, clusters, TypeInv, TypeOK,
           Located, insts, HasCur, LoopPlaces, AgPlaces, ThreadTypeOK
  <2>2. /\ sess' \in SyncSession /\ sessSeen' \in SyncSession
        /\ recs' \in [Instances -> SyncStatus \cup {ABSENT}]
        /\ spc' \in [SessionCancels -> {"read", "write", "refused", "done"}]
    BY <1>4 DEF StartRead, ItemRead, AgSync, TypeInv, TypeOK
  <2>3. Located' /\ Staged'
    BY <1>4 DEF StartRead, ItemRead, AgSync, LoadItem, Change, TypeInv, Located, Staged, clusters, insts, Places,
           LoopPlaces, AgPlaces, HandlerPlaces, HasCur
  <2>4. Recorded'
    BY <1>4 DEF StartRead, ItemRead, AgSync, LoadItem, Change, TypeInv, TypeOK, Located, Recorded, clusters, insts,
           NoSession, PENDING, RUNNING, ABSENT, CANCELLED, COMPLETED, FAILED, Places, LoopPlaces, AgPlaces,
           HandlerPlaces, HasCur
  <2> QED BY <2>1, <2>2, <2>3, <2>4 DEF TypeInv, TypeOK
<1>5. ASSUME StartCommit \/ ItemCommit \/ AgCommit PROVE TypeInv'
  <2>1. ThreadTypeOK'
    BY <1>5, ItemsTyped, ItemStatuses, InstancesAreKeys DEF StartCommit, ItemCommit, AgCommit, TypeInv, TypeOK,
           Located, insts, HasCur, LoopPlaces, AgPlaces, ThreadTypeOK
  <2>2. /\ sess' \in SyncSession /\ sessSeen' \in SyncSession
        /\ recs' \in [Instances -> SyncStatus \cup {ABSENT}]
        /\ spc' \in [SessionCancels -> {"read", "write", "refused", "done"}]
    BY <1>5 DEF StartCommit, ItemCommit, AgCommit, TypeInv, TypeOK
  <2>3. Located' /\ Staged'
    BY <1>5 DEF StartCommit, ItemCommit, AgCommit, CommitItems, View, NoChange, TypeInv, Located, Staged, clusters,
           insts, Places, LoopPlaces, AgPlaces, HandlerPlaces, HasCur
  <2>4. Recorded'
    BY <1>5 DEF StartCommit, ItemCommit, AgCommit, CommitItems, View, NoChange, TypeInv, TypeOK, Located, Recorded,
           clusters, insts, NoSession, PENDING, RUNNING, ABSENT, CANCELLED, COMPLETED, FAILED, Places, LoopPlaces,
           AgPlaces, HandlerPlaces, HasCur
  <2> QED BY <2>1, <2>2, <2>3, <2>4 DEF TypeInv, TypeOK
<1>6. ASSUME StartRecord PROVE TypeInv'
  <2>1. ThreadTypeOK'
    BY <1>6, MovesTyped, InstancesAreKeys DEF StartRecord, TypeInv, TypeOK, Located, insts, HasCur, LoopPlaces,
           AgPlaces, ThreadTypeOK
  <2>2. /\ sess' \in SyncSession /\ sessSeen' \in SyncSession
        /\ recs' \in [Instances -> SyncStatus \cup {ABSENT}]
        /\ spc' \in [SessionCancels -> {"read", "write", "refused", "done"}]
    BY <1>6 DEF StartRecord, start_instance_sync, SyncStatus, SyncSessionStatus, TypeInv, TypeOK
  <2>3. Located' /\ Staged'
    BY <1>6 DEF StartRecord, Goto, start_instance_sync, TypeInv, Located, Staged, clusters, insts, Places,
           LoopPlaces, AgPlaces, HandlerPlaces, HasCur
  <2>4. Recorded'
    BY <1>6 DEF StartRecord, Goto, start_instance_sync, TypeInv, TypeOK, Located, Recorded, clusters, insts,
           NoSession, PENDING, RUNNING, ABSENT, CANCELLED, COMPLETED, FAILED, Places, LoopPlaces, AgPlaces,
           HandlerPlaces, HasCur
  <2> QED BY <2>1, <2>2, <2>3, <2>4 DEF TypeInv, TypeOK
<1>7. ASSUME FinishSession PROVE TypeInv'
  <2>1. ThreadTypeOK'
    BY <1>7, MovesTyped, InstancesAreKeys DEF FinishSession, TypeInv, TypeOK, Located, insts, HasCur, LoopPlaces,
           AgPlaces, ThreadTypeOK
  <2>2. /\ sess' \in SyncSession /\ sessSeen' \in SyncSession
        /\ recs' \in [Instances -> SyncStatus \cup {ABSENT}]
        /\ spc' \in [SessionCancels -> {"read", "write", "refused", "done"}]
    BY <1>7 DEF FinishSession, ClosedSession, SyncSession, SyncSessionStatus, SESSION_TERMINAL, ThreadTypeOK,
           TypeInv, TypeOK
  <2>3. Located' /\ Staged'
    BY <1>7 DEF FinishSession, Goto, ClosedSession, TypeInv, Located, Staged, clusters, insts, Places, LoopPlaces,
           AgPlaces, HandlerPlaces, HasCur
  <2>4. Recorded'
    BY <1>7 DEF FinishSession, Goto, ClosedSession, TypeInv, TypeOK, Located, Recorded, clusters, insts, NoSession,
           PENDING, RUNNING, ABSENT, CANCELLED, COMPLETED, FAILED, Places, LoopPlaces, AgPlaces, HandlerPlaces,
           HasCur
  <2> QED BY <2>1, <2>2, <2>3, <2>4 DEF TypeInv, TypeOK
<1>8. ASSUME FinishRun PROVE TypeInv'
  <2>1. ThreadTypeOK'
    BY <1>8, MovesTyped, FinalsTyped, InstancesAreKeys DEF FinishRun, TypeInv, TypeOK, Located, insts, HasCur,
           LoopPlaces, AgPlaces, ThreadTypeOK
  <2>2. /\ sess' \in SyncSession /\ sessSeen' \in SyncSession
        /\ recs' \in [Instances -> SyncStatus \cup {ABSENT}]
        /\ spc' \in [SessionCancels -> {"read", "write", "refused", "done"}]
    BY <1>8 DEF FinishRun, TypeInv, TypeOK
  <2>3. Located' /\ Staged'
    BY <1>8 DEF FinishRun, FinalRead, FinalCommit, View, NoChange, TypeInv, Located, Staged, clusters, insts, Places,
           LoopPlaces, AgPlaces, HandlerPlaces, HasCur
  <2>4. Recorded'
    BY <1>8 DEF FinishRun, FinalRead, FinalCommit, View, NoChange, TypeInv, TypeOK, Located, Recorded, clusters,
           insts, NoSession, PENDING, RUNNING, ABSENT, CANCELLED, COMPLETED, FAILED, Places, LoopPlaces, AgPlaces,
           HandlerPlaces, HasCur
  <2> QED BY <2>1, <2>2, <2>3, <2>4 DEF TypeInv, TypeOK
<1>9. ASSUME CheckStart \/ CollectionStart \/ AggCheck \/ AgDone \/ \E skip \in BOOLEAN : AggStart(skip) PROVE TypeInv'
  <2>1. ThreadTypeOK'
    BY <1>9, MovesTyped, InstancesAreKeys DEF CheckStart, CollectionStart, AggCheck, AgDone, AggStart,
           CheckCancelled, TypeInv, TypeOK, Located, insts, HasCur, LoopPlaces, AgPlaces, ThreadTypeOK
  <2>2. /\ sess' \in SyncSession /\ sessSeen' \in SyncSession
        /\ recs' \in [Instances -> SyncStatus \cup {ABSENT}]
        /\ spc' \in [SessionCancels -> {"read", "write", "refused", "done"}]
    BY <1>9 DEF CheckStart, CollectionStart, AggCheck, AgDone, AggStart, TypeInv, TypeOK
  <2>3. Located' /\ Staged'
    BY <1>9 DEF CheckStart, CollectionStart, AggCheck, AgDone, AggStart, CheckCancelled, Goto, TypeInv, Located,
           Staged, clusters, insts, Places, LoopPlaces, AgPlaces, HandlerPlaces, HasCur
  <2>4. Recorded'
    BY <1>9 DEF CheckStart, CollectionStart, AggCheck, AgDone, AggStart, CheckCancelled, Goto, TypeInv, TypeOK,
           Located, Recorded, clusters, insts, NoSession, PENDING, RUNNING, ABSENT, CANCELLED, COMPLETED, FAILED,
           Places, LoopPlaces, AgPlaces, HandlerPlaces, HasCur
  <2> QED BY <2>1, <2>2, <2>3, <2>4 DEF TypeInv, TypeOK
<1>10. ASSUME NEW after, LoopExit(after),
             \/ task = "sync_accounts" /\ after = "ag_check"
             \/ task = "sync_databases" /\ after = "finish_session"
             \/ task = "calculate_database" /\ after = "agg_check"
      PROVE  TypeInv'
  <2>1. ThreadTypeOK'
    BY <1>10, MovesTyped, InstancesAreKeys DEF LoopExit, TypeInv, TypeOK, Located, insts, HasCur, LoopPlaces,
           AgPlaces, ThreadTypeOK
  <2>2. /\ sess' \in SyncSession /\ sessSeen' \in SyncSession
        /\ recs' \in [Instances -> SyncStatus \cup {ABSENT}]
        /\ spc' \in [SessionCancels -> {"read", "write", "refused", "done"}]
    BY <1>10 DEF LoopExit, TypeInv, TypeOK
  <2>3. Located' /\ Staged'
    BY <1>10 DEF LoopExit, Goto, TypeInv, Located, Staged, clusters, insts, Places, LoopPlaces, AgPlaces,
           HandlerPlaces, HasCur
  <2>4. Recorded'
    BY <1>10 DEF LoopExit, Goto, TypeInv, TypeOK, Located, Recorded, clusters, insts, NoSession, PENDING, RUNNING,
           ABSENT, CANCELLED, COMPLETED, FAILED, Places, LoopPlaces, AgPlaces, HandlerPlaces, HasCur
  <2> QED BY <2>1, <2>2, <2>3, <2>4 DEF TypeInv, TypeOK
<1>11. ASSUME AgCheck PROVE TypeInv'
  <2>1. ThreadTypeOK'
    BY <1>11, MovesTyped, InstancesAreKeys DEF AgCheck, clusters, TypeInv, TypeOK, Located, insts, HasCur,
           LoopPlaces, AgPlaces, ThreadTypeOK
  <2>2. /\ sess' \in SyncSession /\ sessSeen' \in SyncSession
        /\ recs' \in [Instances -> SyncStatus \cup {ABSENT}]
        /\ spc' \in [SessionCancels -> {"read", "write", "refused", "done"}]
    BY <1>11 DEF AgCheck, TypeInv, TypeOK
  <2>3. Located' /\ Staged'
    BY <1>11 DEF AgCheck, BeginLoop, Goto, TypeInv, Located, Staged, clusters, insts, Places, LoopPlaces, AgPlaces,
           HandlerPlaces, HasCur
  <2>4. Recorded'
    BY <1>11 DEF AgCheck, BeginLoop, Goto, TypeInv, TypeOK, Located, Recorded, clusters, insts, NoSession, PENDING,
           RUNNING, ABSENT, CANCELLED, COMPLETED, FAILED, Places, LoopPlaces, AgPlaces, HandlerPlaces, HasCur
  <2> QED BY <2>1, <2>2, <2>3, <2>4 DEF TypeInv, TypeOK
<1>12. ASSUME AgStart PROVE TypeInv'
  <2>1. ThreadTypeOK'
    BY <1>12, ItemsTyped, ItemStatuses, MovesTyped, InstancesAreKeys DEF AgStart, clusters, TypeInv, TypeOK, Located,
           insts, HasCur, LoopPlaces, AgPlaces, ThreadTypeOK
  <2>2. /\ sess' \in SyncSession /\ sessSeen' \in SyncSession
        /\ recs' \in [Instances -> SyncStatus \cup {ABSENT}]
        /\ spc' \in [SessionCancels -> {"read", "write", "refused", "done"}]
    BY <1>12 DEF AgStart, TypeInv, TypeOK
  <2>3. Located' /\ Staged'
    BY <1>12 DEF AgStart, TakeNext, LoadItem, CommitItems, Change, View, NoChange, TypeInv, Located, Staged,
           clusters, insts, Places, LoopPlaces, AgPlaces, HandlerPlaces, HasCur
  <2>4. Recorded'
    BY <1>12 DEF AgStart, TakeNext, LoadItem, CommitItems, Change, View, NoChange, TypeInv, TypeOK, Located,
           Recorded, clusters, insts, NoSession, PENDING, RUNNING, ABSENT, CANCELLED, COMPLETED, FAILED, Places,
           LoopPlaces, AgPlaces, HandlerPlaces, HasCur
  <2> QED BY <2>1, <2>2, <2>3, <2>4 DEF TypeInv, TypeOK
<1>13. ASSUME FailSession PROVE TypeInv'
  <2>1. ThreadTypeOK'
    BY <1>13, ItemsTyped, ItemStatuses, InstancesAreKeys DEF FailSession, TypeInv, TypeOK, Located, insts, HasCur,
           LoopPlaces, AgPlaces, ThreadTypeOK
  <2>2. /\ sess' \in SyncSession /\ sessSeen' \in SyncSession
        /\ recs' \in [Instances -> SyncStatus \cup {ABSENT}]
        /\ spc' \in [SessionCancels -> {"read", "write", "refused", "done"}]
    BY <1>13, InstanceCounts DEF FailSession, SyncSession, SyncSessionStatus, SESSION_TERMINAL, TypeInv, TypeOK
  <2>3. Located' /\ Staged'
    BY <1>13 DEF FailSession, CommitItems, View, NoChange, TypeInv, Located, Staged, clusters, insts, Places,
           LoopPlaces, AgPlaces, HandlerPlaces, HasCur
  <2>4. Recorded'
    BY <1>13 DEF FailSession, CommitItems, View, NoChange, TypeInv, TypeOK, Located, Recorded, clusters, insts,
           NoSession, PENDING, RUNNING, ABSENT, CANCELLED, COMPLETED, FAILED, Places, LoopPlaces, AgPlaces,
           HandlerPlaces, HasCur
  <2> QED BY <2>1, <2>2, <2>3, <2>4 DEF TypeInv, TypeOK
<1>14. ASSUME NEW after, FailRun(after),
             after = IF task = "calculate_database" THEN "agg_fail_session" ELSE "done"
      PROVE  TypeInv'
  <2>1. ThreadTypeOK'
    BY <1>14, FinalsTyped, InstancesAreKeys DEF FailRun, TypeInv, TypeOK, Located, insts, HasCur, LoopPlaces,
           AgPlaces, ThreadTypeOK
  <2>2. /\ sess' \in SyncSession /\ sessSeen' \in SyncSession
        /\ recs' \in [Instances -> SyncStatus \cup {ABSENT}]
        /\ spc' \in [SessionCancels -> {"read", "write", "refused", "done"}]
    BY <1>14 DEF FailRun, TypeInv, TypeOK
  <2>3. Located' /\ Staged'
    BY <1>14 DEF FailRun, MarkRead, MarkCommit, View, NoChange, mark_items_failed, TypeInv, Located, Staged,
           clusters, insts, Places, LoopPlaces, AgPlaces, HandlerPlaces, HasCur
  <2>4. Recorded'
    BY <1>14 DEF FailRun, MarkRead, MarkCommit, View, NoChange, mark_items_failed, TypeInv, TypeOK, Located,
           Recorded, clusters, insts, NoSession, PENDING, RUNNING, ABSENT, CANCELLED, COMPLETED, FAILED, Places,
           LoopPlaces, AgPlaces, HandlerPlaces, HasCur
  <2> QED BY <2>1, <2>2, <2>3, <2>4 DEF TypeInv, TypeOK
<1>15. ASSUME (task = "sync_accounts" /\ AccountsRaises) \/ (task = "sync_databases" /\ CollectionRaises) PROVE TypeInv'
  <2>1. ThreadTypeOK'
    BY <1>15, MovesTyped, InstancesAreKeys DEF AccountsRaises, CollectionRaises, TypeInv, TypeOK, Located, insts,
           HasCur, LoopPlaces, AgPlaces, ThreadTypeOK
  <2>2. /\ sess' \in SyncSession /\ sessSeen' \in SyncSession
        /\ recs' \in [Instances -> SyncStatus \cup {ABSENT}]
        /\ spc' \in [SessionCancels -> {"read", "write", "refused", "done"}]
    BY <1>15 DEF AccountsRaises, CollectionRaises, TypeInv, TypeOK
  <2>3. Located' /\ Staged'
    BY <1>15 DEF AccountsRaises, AccountsGuarded, CollectionRaises, CollectionGuarded, Raise, NoChange, TypeInv,
           Located, Staged, clusters, insts, Places, LoopPlaces, AgPlaces, HandlerPlaces, HasCur
  <2>4. Recorded'
    BY <1>15 DEF AccountsRaises, AccountsGuarded, CollectionRaises, CollectionGuarded, Raise, NoChange, TypeInv,
           TypeOK, Located, Recorded, clusters, insts, NoSession, PENDING, RUNNING, ABSENT, CANCELLED, COMPLETED,
           FAILED, Places, LoopPlaces, AgPlaces, HandlerPlaces, HasCur
  <2> QED BY <2>1, <2>2, <2>3, <2>4 DEF TypeInv, TypeOK
<1>16. ASSUME task = "sync_accounts", RecordsFail PROVE TypeInv'
  <2>1. ThreadTypeOK'
    BY <1>16, MovesTyped, InstancesAreKeys DEF RecordsFail, TypeInv, TypeOK, Located, insts, HasCur, LoopPlaces,
           AgPlaces, ThreadTypeOK
  <2>2. /\ sess' \in SyncSession /\ sessSeen' \in SyncSession
        /\ recs' \in [Instances -> SyncStatus \cup {ABSENT}]
        /\ spc' \in [SessionCancels -> {"read", "write", "refused", "done"}]
    BY <1>16, InstanceCounts DEF RecordsFail, SyncSession, SyncSessionStatus, SESSION_TERMINAL, TypeInv, TypeOK
  <2>3. Located' /\ Staged'
    BY <1>16 DEF RecordsFail, Goto, TypeInv, Located, Staged, clusters, insts, Places, LoopPlaces, AgPlaces,
           HandlerPlaces, HasCur
  <2>4. Recorded'
    BY <1>16 DEF RecordsFail, Goto, TypeInv, TypeOK, Located, Recorded, clusters, insts, NoSession, PENDING, RUNNING,
           ABSENT, CANCELLED, COMPLETED, FAILED, Places, LoopPlaces, AgPlaces, HandlerPlaces, HasCur
  <2> QED BY <2>1, <2>2, <2>3, <2>4 DEF TypeInv, TypeOK
<1>17. ASSUME AggRecount PROVE TypeInv'
  <2>1. ThreadTypeOK'
    BY <1>17, FinalsTyped, InstancesAreKeys DEF AggRecount, TypeInv, TypeOK, Located, insts, HasCur, LoopPlaces,
           AgPlaces, ThreadTypeOK
  <2>2. /\ sess' \in SyncSession /\ sessSeen' \in SyncSession
        /\ recs' \in [Instances -> SyncStatus \cup {ABSENT}]
        /\ spc' \in [SessionCancels -> {"read", "write", "refused", "done"}]
    BY <1>17 DEF AggRecount, TypeInv, TypeOK
  <2>3. Located' /\ Staged'
    BY <1>17 DEF AggRecount, RecountCancelled, TypeInv, Located, Staged, clusters, insts, Places, LoopPlaces,
           AgPlaces, HandlerPlaces, HasCur
  <2>4. Recorded'
    BY <1>17 DEF AggRecount, RecountCancelled, TypeInv, TypeOK, Located, Recorded, clusters, insts, NoSession,
           PENDING, RUNNING, ABSENT, CANCELLED, COMPLETED, FAILED, Places, LoopPlaces, AgPlaces, HandlerPlaces,
           HasCur
  <2> QED BY <2>1, <2>2, <2>3, <2>4 DEF TypeInv, TypeOK
<1>18. ASSUME task = "calculate_database", AggRaises PROVE TypeInv'
  <2>1. ThreadTypeOK'
    BY <1>18, NoChangeTyped, InstancesAreKeys DEF AggRaises, ThreadTypeOK, AggGuarded, TypeInv, TypeOK, Located,
           insts, HasCur, LoopPlaces, AgPlaces
  <2>2. /\ sess' \in SyncSession /\ sessSeen' \in SyncSession
        /\ recs' \in [Instances -> SyncStatus \cup {ABSENT}]
        /\ spc' \in [SessionCancels -> {"read", "write", "refused", "done"}]
    BY <1>18 DEF AggRaises, TypeInv, TypeOK
  <2>3. Located' /\ Staged'
    BY <1>18 DEF AggRaises, AggGuarded, NoChange, TypeInv, Located, Staged, clusters, insts, Places, LoopPlaces,
           AgPlaces, HandlerPlaces, HasCur
  <2>4. Recorded'
    BY <1>18 DEF AggRaises, AggGuarded, NoChange, TypeInv, TypeOK, Located, Recorded, clusters, insts, NoSession,
           PENDING, RUNNING, ABSENT, CANCELLED, COMPLETED, FAILED, Places, LoopPlaces, AgPlaces, HandlerPlaces,
           HasCur
  <2> QED BY <2>1, <2>2, <2>3, <2>4 DEF TypeInv, TypeOK
<1>19. ASSUME TaskDies PROVE TypeInv'
  <2>1. ThreadTypeOK'
    BY <1>19, MovesTyped, InstancesAreKeys DEF TaskDies, TypeInv, TypeOK, Located, insts, HasCur, LoopPlaces,
           AgPlaces, ThreadTypeOK
  <2>2. /\ sess' \in SyncSession /\ sessSeen' \in SyncSession
        /\ recs' \in [Instances -> SyncStatus \cup {ABSENT}]
        /\ spc' \in [SessionCancels -> {"read", "write", "refused", "done"}]
    BY <1>19 DEF TaskDies, TypeInv, TypeOK
  <2>3. Located' /\ Staged'
    BY <1>19 DEF TaskDies, Die, NoChange, TypeInv, Located, Staged, clusters, insts, Places, LoopPlaces, AgPlaces,
           HandlerPlaces, HasCur
  <2>4. Recorded'
    BY <1>19 DEF TaskDies, Die, NoChange, TypeInv, TypeOK, Located, Recorded, clusters, insts, NoSession, PENDING,
           RUNNING, ABSENT, CANCELLED, COMPLETED, FAILED, Places, LoopPlaces, AgPlaces, HandlerPlaces, HasCur
  <2> QED BY <2>1, <2>2, <2>3, <2>4 DEF TypeInv, TypeOK
<1>20. ASSUME NEW c \in RunCancels, RunCancel(c) PROVE TypeInv'
  <2>1. ThreadTypeOK'
    BY <1>20, RequestsTyped, InstancesAreKeys DEF RunCancel, TypeInv, TypeOK, Located, insts, HasCur, LoopPlaces,
           AgPlaces, ThreadTypeOK
  <2>2. /\ sess' \in SyncSession /\ sessSeen' \in SyncSession
        /\ recs' \in [Instances -> SyncStatus \cup {ABSENT}]
        /\ spc' \in [SessionCancels -> {"read", "write", "refused", "done"}]
    BY <1>20 DEF RunCancel, TypeInv, TypeOK
  <2>3. Located' /\ Staged'
    BY <1>20 DEF RunCancel, RunCancelStep, CancelRead, CancelFlush, CancelCommit, TypeInv, Located, Staged, clusters,
           insts, Places, LoopPlaces, AgPlaces, HandlerPlaces, HasCur
  <2>4. Recorded'
    BY <1>20 DEF RunCancel, RunCancelStep, CancelRead, CancelFlush, CancelCommit, TypeInv, TypeOK, Located, Recorded,
           clusters, insts, NoSession, PENDING, RUNNING, ABSENT, CANCELLED, COMPLETED, FAILED, Places, LoopPlaces,
           AgPlaces, HandlerPlaces, HasCur
  <2> QED BY <2>1, <2>2, <2>3, <2>4 DEF TypeInv, TypeOK
<1>21. ASSUME UNCHANGED vars PROVE TypeInv'
  <2>1. ThreadTypeOK'
    BY <1>21 DEF vars, ThreadTypeOK, TypeInv, TypeOK, Located, insts, HasCur, LoopPlaces, AgPlaces
  <2>2. /\ sess' \in SyncSession /\ sessSeen' \in SyncSession
        /\ recs' \in [Instances -> SyncStatus \cup {ABSENT}]
        /\ spc' \in [SessionCancels -> {"read", "write", "refused", "done"}]
    BY <1>21 DEF vars, TypeInv, TypeOK
  <2>3. Located' /\ Staged'
    BY <1>21 DEF vars, TypeInv, Located, Staged, clusters, insts, Places, LoopPlaces, AgPlaces, HandlerPlaces, HasCur
  <2>4. Recorded'
    BY <1>21 DEF vars, TypeInv, TypeOK, Located, Recorded, clusters, insts, NoSession, PENDING, RUNNING, ABSENT,
           CANCELLED, COMPLETED, FAILED, Places, LoopPlaces, AgPlaces, HandlerPlaces, HasCur
  <2> QED BY <2>1, <2>2, <2>3, <2>4 DEF TypeInv, TypeOK
<1>22. ASSUME AccountsStep, task = "sync_accounts" PROVE TypeInv'
  <2>1. CASE AlertsFail \/ \E ok \in BOOLEAN : SyncInstance(ok)
    BY <1>22, <2>1, Finishes, FinishesTyped
  <2> QED BY <1>22, <2>1, <1>4, <1>5, <1>9, <1>10, <1>11, <1>12, <1>13, <1>14 DEF AccountsStep
<1>23. ASSUME CollectionStep, task = "sync_databases" PROVE TypeInv'
  <2>1. CASE Unreachable \/ Collected \/ OnlyInventory \/ Fallback
    BY <1>23, <2>1, Finishes, FinishesTyped
  <2> QED BY <1>23, <2>1, <1>9, <1>10, <1>13, <1>14 DEF CollectionStep
<1>24. ASSUME AggStep, task = "calculate_database" PROVE TypeInv'
  <2>1. CASE \E ok \in BOOLEAN : AggInstance(ok)
    BY <2>1, Finishes, FinishesTyped
  <2> QED BY <1>24, <2>1, <1>9, <1>10, <1>14, <1>17, AggFailsTyped DEF AggStep
<1>25. ASSUME CommonStep PROVE TypeInv'
  BY <1>25, <1>1, <1>2, <1>3, <1>4, <1>5, <1>6, <1>7, <1>8 DEF CommonStep
<1>26. ASSUME TaskRaises PROVE TypeInv'
  BY <1>26, <1>15, <1>16, <1>18 DEF TaskRaises
<1> QED BY <1>22, <1>23, <1>24, <1>25, <1>26, <1>19, <1>20, <1>21, SessionCancelsTyped
        DEF Next, TaskStep, Request, Terminating

-----------------------------------------------------------------------------
\* Where the totals of the task are those of the records.
CountPlaces ==
    {"launched", "init_items", "create_session", "ag_check", "agg_check", "finish_session"} \cup LoopPlaces \cup AgPlaces

\* A step that leaves session, records and totals alone.
LEMMA SessionStays ==
    ASSUME TypeInv, SessionInv, UNCHANGED <<plan, totals>>, UNCHANGED <<sess, recs, sessSeen>>,
           pc' \in CountPlaces => pc \in CountPlaces, pc' = "sync" => pc = "sync",
           pc' \in {"final_read", "final_commit"} => pc \in {"final_read", "final_commit"} \/ sess.status = ABSENT,
           pc' \in {"mark_read", "mark_commit", "done"} =>
               \/ pc \in {"mark_read", "mark_commit", "done", "final_read", "final_commit"}
               \/ task = "calculate_database" \/ sess.status = ABSENT,
           pc' \in LoopPlaces => pc \in LoopPlaces
    PROVE  SessionInv'
<1> USE DEF plan, totals
<1>1. Completed' = Completed /\ Failed' = Failed /\ insts' = insts
  BY DEF Completed, Failed, insts
<1>2. SessionCountsRecords' /\ Counted'
  BY <1>1 DEF SessionInv, SessionCountsRecords, Counted, CountPlaces
<1>3. NoFailure'
  BY <1>1 DEF SessionInv, Counted, NoFailure, COMPLETED, FAILED, CANCELLED, ABSENT
<1> QED BY <1>2, <1>3 DEF SessionInv

\* The steps of that kind.
LEMMA TurnsKeepSession ==
    ASSUME TypeInv, SessionInv,
           \/ InitItems("init_items", "create_session") /\ UNCHANGED session
           \/ LoopNext \/ StartRead \/ StartCommit \/ ItemRead \/ ItemCommit \/ FinishRun
           \/ CheckStart \/ CollectionStart \/ (\E skip \in BOOLEAN : AggStart(skip))
           \/ (\E after \in {"ag_check", "agg_check"} : LoopExit(after)) \/ LoopExit("finish_session")
           \/ AgCheck \/ AgStart \/ (\E ok \in BOOLEAN : AgSync(ok)) \/ AgCommit \/ AgDone
           \/ AggCheck \/ AggRecount \/ FailRun("done") \/ FailRun("agg_fail_session")
           \/ AccountsRaises \/ CollectionRaises \/ (task = "calculate_database" /\ AggRaises)
           \/ TaskDies \/ (\E c \in RunCancels : RunCancel(c)) \/ UNCHANGED vars
    PROVE  SessionInv'
<1> USE DEF threadVars, plan, runRows, focus, totals, cancels, session
<1>1. UNCHANGED <<plan, totals>> /\ UNCHANGED <<sess, recs, sessSeen>>
  BY DEF InitItems, LoopNext, TakeNext, StartRead, LoadItem, StartCommit, CommitItems, ItemRead, ItemCommit, FinishRun, FinalRead,
         FinalCommit, CheckStart, CollectionStart, AggStart, LoopExit, Goto, AgCheck, BeginLoop, AgStart, AgSync, AgCommit, AgDone,
         AggCheck, CheckCancelled, AggRecount, RecountCancelled, FailRun, MarkRead, MarkCommit, AccountsRaises, CollectionRaises,
         Raise, AggRaises, TaskDies, Die, RunCancel, RunCancelStep, CancelRead, CancelFlush, CancelCommit, vars
<1>2. /\ pc' \in CountPlaces => pc \in CountPlaces
      /\ pc' = "sync" => pc = "sync"
      /\ pc' \in {"final_read", "final_commit"} => pc \in {"final_read", "final_commit"} \/ sess.status = ABSENT
      /\ pc' \in {"mark_read", "mark_commit", "done"} =>
             \/ pc \in {"mark_read", "mark_commit", "done", "final_read", "final_commit"}
             \/ task = "calculate_database" \/ sess.status = ABSENT
      /\ pc' \in LoopPlaces => pc \in LoopPlaces
  BY DEF InitItems, LoopNext, TakeNext, StartRead, LoadItem, StartCommit, CommitItems, ItemRead, ItemCommit, FinishRun, FinalRead,
         FinalCommit, CheckStart, CollectionStart, AggStart, LoopExit, Goto, AgCheck, BeginLoop, AgStart, AgSync, AgCommit, AgDone,
         AggCheck, CheckCancelled, AggRecount, RecountCancelled, FailRun, MarkRead, MarkCommit, AccountsRaises, CollectionRaises,
         Raise, AggRaises, TaskDies, Die, RunCancel, RunCancelStep, CancelRead, CancelFlush, CancelCommit, vars,
         TypeInv, Located, Recorded, CountPlaces, LoopPlaces, AgPlaces
<1> QED BY <1>1, <1>2, SessionStays

\* At first there is nothing to count.
LEMMA SessionInvInit == Init => SessionInv
<1> SUFFICES ASSUME Init PROVE SessionInv
  OBVIOUS
<1>1. Completed = {} /\ Failed = {}
  BY DEF Init, TaskInit, Completed, Failed, RecordsIn, ABSENT, COMPLETED, FAILED
<1> QED BY <1>1, FS_EmptySet
        DEF Init, TaskInit, ThreadInit, NoSession, SessionInv, SessionCountsRecords, Counted, NoFailure, Completed, Failed,
            LoopPlaces, ABSENT, COMPLETED

\* The records of a new session have no outcome.
LEMMA CreateKeepsSession ==
    ASSUME TypeInv, SessionInv, CreateSession
    PROVE  SessionInv'
<1> USE DEF threadVars, plan, runRows, focus, totals, cancels, session
<1>1. /\ pc = "create_session" /\ pc' = "loop" /\ UNCHANGED <<plan, totals>>
      /\ sess' = create_session(Cardinality(insts)) /\ recs' = add_instance_records(recs, insts)
  BY DEF CreateSession, BeginLoop
<1>2. Completed = {} /\ Failed = {} /\ Completed' = {} /\ Failed' = {} /\ insts' = insts
  BY <1>1
     DEF TypeInv, TypeOK, Recorded, add_instance_records, Completed, Failed, RecordsIn, insts, PENDING, ABSENT, COMPLETED,
         FAILED
<1>3. synced' = 0 /\ failed' = 0
  BY <1>1, <1>2, FS_EmptySet DEF SessionInv, Counted
<1> QED BY <1>1, <1>2, <1>3, FS_EmptySet
        DEF SessionInv, SessionCountsRecords, Counted, NoFailure, Completed, Failed, create_session, RUNNING, COMPLETED

\* A record that is started had no outcome, and has none.
LEMMA StartKeepsSession ==
    ASSUME TypeInv, SessionInv, StartRecord
    PROVE  SessionInv'
<1> USE DEF threadVars, plan, runRows, focus, totals, cancels, session
<1>1. /\ pc = "start_record" /\ pc' = "sync" /\ UNCHANGED <<plan, totals, sess>>
      /\ sessSeen' = sess /\ recs' = [recs EXCEPT ![cur] = RUNNING] /\ recs[cur] = PENDING
  BY DEF StartRecord, Goto, start_instance_sync, TypeInv, Recorded
<1>2. Completed' = Completed /\ Failed' = Failed /\ insts' = insts
  BY <1>1 DEF TypeInv, TypeOK, Completed, Failed, RecordsIn, insts, PENDING, RUNNING, COMPLETED, FAILED
<1> QED BY <1>1, <1>2 DEF SessionInv, SessionCountsRecords, Counted, NoFailure, Completed, Failed, LoopPlaces

\* The task ends its session with totals that are those of the records.
LEMMA FinishKeepsSession ==
    ASSUME TypeInv, SessionInv, FinishSession
    PROVE  SessionInv'
<1> USE DEF threadVars, plan, runRows, focus, totals, cancels, session
<1>1. /\ pc = "finish_session" /\ pc' = "final_read" /\ UNCHANGED <<plan, totals, recs>>
      /\ sess' = ClosedSession(IF failed = 0 THEN COMPLETED ELSE FAILED)
  BY DEF FinishSession, Goto
<1>2. Completed' = Completed /\ Failed' = Failed /\ insts' = insts
  BY <1>1 DEF Completed, Failed, insts
<1>3. synced = Cardinality(Completed) /\ failed = Cardinality(Failed) /\ (failed = 0 <=> Failed = {})
  BY <1>1, RecordCounts, FS_EmptySet DEF SessionInv, Counted, Failed, TypeInv, TypeOK
<1>4. /\ sess'.status = IF Failed = {} THEN COMPLETED ELSE FAILED
      /\ sess'.total_instances = sess.total_instances /\ sess.status # ABSENT
      /\ sess'.successful_instances = Cardinality(Completed) /\ sess'.failed_instances = Cardinality(Failed)
  BY <1>1, <1>3 DEF ClosedSession, TypeInv, Recorded
<1> QED BY <1>1, <1>2, <1>4
        DEF SessionInv, SessionCountsRecords, Counted, NoFailure, Completed, Failed, LoopPlaces, AgPlaces, COMPLETED, FAILED

\* The handlers fail the session and count every instance as failed.
LEMMA FailKeepsSession ==
    ASSUME TypeInv, SessionInv, FailSession \/ (task = "sync_accounts" /\ RecordsFail)
    PROVE  SessionInv'
<1> USE DEF threadVars, plan, runRows, focus, totals, cancels, session
<1>1. /\ pc' = "mark_read" /\ UNCHANGED <<plan, totals, recs>> /\ task # "calculate_database"
      /\ \/ sess.status = ABSENT /\ sess' = sess
         \/ /\ sess'.status = FAILED /\ sess'.successful_instances = sess.successful_instances
            /\ sess'.failed_instances = Cardinality(insts)
  <2>1. CASE FailSession
    BY <2>1 DEF FailSession, CommitItems, TypeInv, Located
  <2>2. CASE task = "sync_accounts" /\ RecordsFail
    BY <2>2 DEF RecordsFail, Goto, TypeInv, Recorded, NoSession
  <2> QED BY <2>1, <2>2
<1>2. Completed' = Completed /\ Failed' = Failed /\ insts' = insts
  BY <1>1 DEF Completed, Failed, insts
<1> QED BY <1>1, <1>2
        DEF SessionInv, SessionCountsRecords, Counted, NoFailure, Completed, Failed, LoopPlaces, AgPlaces, COMPLETED, FAILED, ABSENT

\* A record that gets its outcome is one more in the counts.
LEMMA EndsCount ==
    ASSUME TypeInv, NEW rs, NEW ok \in BOOLEAN, cur \in insts, recs[cur] = RUNNING,
           rs = [recs EXCEPT ![cur] = IF ok THEN COMPLETED ELSE FAILED]
    PROVE  /\ Cardinality(RecordsIn(rs, {COMPLETED})) = Cardinality(Completed) + (IF ok THEN 1 ELSE 0)
           /\ Cardinality(RecordsIn(rs, {FAILED})) = Cardinality(Failed) + (IF ok THEN 0 ELSE 1)
<1>1. /\ RecordsIn(rs, {COMPLETED}) = IF ok THEN Completed \cup {cur} ELSE Completed
      /\ RecordsIn(rs, {FAILED}) = IF ok THEN Failed ELSE Failed \cup {cur}
      /\ cur \notin Completed /\ cur \notin Failed
  BY DEF TypeInv, TypeOK, Completed, Failed, RecordsIn, insts, RUNNING, COMPLETED, FAILED
<1>2. IsFiniteSet(Completed) /\ IsFiniteSet(Failed) /\ Cardinality(Completed) \in Nat /\ Cardinality(Failed) \in Nat
  BY RecordCounts DEF TypeInv, TypeOK, Completed, Failed
<1>3. Cardinality(Completed \cup {cur}) = Cardinality(Completed) + 1 /\ Cardinality(Failed \cup {cur}) = Cardinality(Failed) + 1
  BY <1>1, <1>2, FS_AddElement
<1>4. CASE ok
  <2>1. RecordsIn(rs, {COMPLETED}) = Completed \cup {cur} /\ RecordsIn(rs, {FAILED}) = Failed
    BY <1>1, <1>4
  <2>2. /\ Cardinality(RecordsIn(rs, {COMPLETED})) = Cardinality(Completed) + 1
        /\ Cardinality(RecordsIn(rs, {FAILED})) = Cardinality(Failed)
    BY <1>3, <2>1
  <2>3. ASSUME NEW n \in Nat PROVE n + 0 = n
    OBVIOUS
  <2> QED BY <1>4, <1>2, <2>2, <2>3
<1>5. CASE ~ok
  <2>1. RecordsIn(rs, {COMPLETED}) = Completed /\ RecordsIn(rs, {FAILED}) = Failed \cup {cur}
    BY <1>1, <1>5
  <2>2. /\ Cardinality(RecordsIn(rs, {COMPLETED})) = Cardinality(Completed)
        /\ Cardinality(RecordsIn(rs, {FAILED})) = Cardinality(Failed) + 1
    BY <1>3, <2>1
  <2>3. ASSUME NEW n \in Nat PROVE n + 0 = n
    OBVIOUS
  <2> QED BY <1>5, <1>2, <2>2, <2>3
<1> QED BY <1>4, <1>5

\* The end of one instance keeps the books.
LEMMA FinishesKeepSession ==
    ASSUME TypeInv, SessionInv, pc = "sync", cur \in insts, NEW rs, NEW seen, NEW mine, NEW ok \in BOOLEAN, Ends(rs, seen, mine, ok)
    PROVE  SessionInv'
<1> USE DEF threadVars, plan, runRows, focus, totals, cancels, session
<1>1. /\ pc' = "item_read" /\ recs' = rs /\ sess' = UpdateSession(sess, seen, mine) /\ UNCHANGED plan
      /\ synced' = synced + (IF ok THEN 1 ELSE 0) /\ failed' = failed + (IF ok THEN 0 ELSE 1)
  <2>1. PICK st : st = [recs |-> rs, sess |-> mine] /\ FinishInstance(st, seen, ok)
    BY DEF Ends
  <2>2. st.recs = rs /\ st.sess = mine
    BY <2>1
  <2> QED BY <2>1, <2>2 DEF FinishInstance
<1>2. recs[cur] = RUNNING /\ rs = [recs EXCEPT ![cur] = IF ok THEN COMPLETED ELSE FAILED] /\ insts' = insts
  BY <1>1 DEF TypeInv, Recorded, Ends, insts
<1>3. Completed' = RecordsIn(rs, {COMPLETED}) /\ Failed' = RecordsIn(rs, {FAILED})
  BY <1>1 DEF Completed, Failed
<1>4. synced' = Cardinality(Completed') /\ failed' = Cardinality(Failed')
  BY <1>1, <1>2, <1>3, EndsCount DEF SessionInv, Counted, LoopPlaces
<1>5. /\ sess'.successful_instances = Cardinality(Completed') /\ sess'.failed_instances = Cardinality(Failed')
      /\ sess'.total_instances = sess.total_instances
  BY <1>1, <1>3 DEF Ends, UpdateSession, SessionInv, Counted
<1>6. SessionCountsRecords' /\ Counted'
  BY <1>1, <1>4, <1>5 DEF SessionCountsRecords, Counted, Completed, Failed
<1>7. ASSUME task = "calculate_database" PROVE NoFailure'
  <2>1. sess.status # COMPLETED /\ sess.status # ABSENT /\ sess.total_instances = Cardinality(insts)
    BY <1>2, <1>7 DEF SessionInv, NoFailure, Completed, RecordsIn, TypeInv, Recorded, LoopPlaces, RUNNING, COMPLETED
  <2>2. sess' = UpdateSession(sess, sess, mine) /\ mine = update_session_statistics(sess, rs)
    BY <1>1, <1>7 DEF Ends
  <2>3. sess'.status = COMPLETED =>
            /\ Cardinality(Completed') + Cardinality(Failed') = Cardinality(insts)
            /\ ~(Cardinality(Failed') > 0)
    BY <1>3, <2>1, <2>2 DEF UpdateSession, update_session_statistics, update_statistics, COMPLETED, FAILED
  <2>4. Completed' \subseteq insts /\ Failed' \subseteq insts
    BY <1>2, <1>3 DEF TypeInv, TypeOK, Recorded, RecordsIn, insts, ABSENT, COMPLETED, FAILED
  <2>5. Cardinality(Completed') \in Nat /\ Cardinality(Failed') \in Nat /\ IsFiniteSet(Failed') /\ IsFiniteSet(insts)
    BY <2>4, InstanceCounts, FS_Subset, FS_CardinalityType
  <2>6. sess'.status = COMPLETED => Failed' = {} /\ Completed' = insts
    BY <2>3, <2>4, <2>5, FS_EmptySet, FS_Subset
  <2> QED BY <1>1, <1>2, <1>5, <2>1, <2>6 DEF NoFailure
<1>8. ASSUME task # "calculate_database" PROVE NoFailure'
  BY <1>1, <1>8 DEF NoFailure
<1> QED BY <1>6, <1>7, <1>8 DEF SessionInv

\* The handler of calculate_database.
LEMMA AggFailKeepsSession ==
    ASSUME TypeInv, SessionInv, AggFailSession
    PROVE  SessionInv'
<1> USE DEF threadVars, plan, runRows, focus, totals, cancels, session
<1>1. pc' = "done" /\ task = "calculate_database" /\ UNCHANGED <<plan, totals, sessSeen>> /\ insts' = insts
  BY DEF AggFailSession, Goto, TypeInv, Located, insts
<1>2. CASE UNCHANGED <<sess, recs>>
  BY <1>1, <1>2, SessionStays DEF CountPlaces, LoopPlaces, AgPlaces
<1>3. CASE FailsSession
  <2>1. SessionCountsRecords'
    BY <1>1, <1>3 DEF FailsSession, SessionInv, SessionCountsRecords
  <2> QED BY <1>1, <1>3, <2>1
          DEF FailsSession, SessionInv, Counted, NoFailure, LoopPlaces, AgPlaces, COMPLETED, FAILED, Completed, Failed
<1> QED BY <1>2, <1>3, AggFails

\* A request that cancels the session touches its status only.
LEMMA CancelKeepsSession ==
    ASSUME TypeInv, SessionInv, NEW s \in SessionCancels, SessionCancelStep(s)
    PROVE  SessionInv'
<1> USE DEF threadVars, plan, runRows, focus, totals, cancels, session
<1>1. UNCHANGED <<threadVars, recs, sessSeen>> /\ (sess' = sess \/ (sess' = [sess EXCEPT !.status = CANCELLED] /\ spc[s] = "write"))
  BY DEF SessionCancelStep, SessionCancelRead, SessionCancelWrite
<1>2. sess \in SyncSession /\ CANCELLED \in SyncSessionStatus
  BY DEF TypeInv, TypeOK, SyncSessionStatus, SESSION_TERMINAL
<1>3. \/ sess' = sess
      \/ /\ sess'.status = CANCELLED /\ sess.status # ABSENT /\ sess'.total_instances = sess.total_instances
         /\ sess'.successful_instances = sess.successful_instances /\ sess'.failed_instances = sess.failed_instances
  <2>1. CASE sess' = [sess EXCEPT !.status = CANCELLED] /\ spc[s] = "write"
    <3>1. PICK q : q = [sess EXCEPT !.status = CANCELLED]
      OBVIOUS
    <3>2. /\ q.status = CANCELLED /\ q.total_instances = sess.total_instances
          /\ q.successful_instances = sess.successful_instances /\ q.failed_instances = sess.failed_instances
      BY <1>2, <3>1 DEF SyncSession
    <3>3. sess.status # ABSENT
      BY <2>1 DEF TypeInv, Recorded
    <3> QED BY <2>1, <3>1, <3>2, <3>3
  <2> QED BY <1>1, <2>1
<1>4. Completed' = Completed /\ Failed' = Failed /\ insts' = insts
  BY <1>1 DEF Completed, Failed, insts
<1> QED BY <1>1, <1>3, <1>4
        DEF SessionInv, SessionCountsRecords, Counted, NoFailure, Completed, Failed, CANCELLED, COMPLETED

\* Every step keeps the books of the session.
LEMMA SessionInvKept == TypeInv /\ SessionInv /\ [Next]_vars => SessionInv'
<1> SUFFICES ASSUME TypeInv, SessionInv, [Next]_vars PROVE SessionInv'
  OBVIOUS
<1>1. CASE \/ task # "calculate_database" /\ (Unreachable \/ Collected \/ OnlyInventory \/ AlertsFail \/ Fallback)
           \/ \E ok \in BOOLEAN : task # "calculate_database" /\ SyncInstance(ok)
           \/ \E ok \in BOOLEAN : AggInstance(ok)
  BY <1>1, Finishes, FinishesKeepSession
<1>2. CASE TaskStep
  BY <1>1, <1>2, TurnsKeepSession, CreateKeepsSession, StartKeepsSession, FinishKeepsSession, FailKeepsSession, AggFailKeepsSession
     DEF TaskStep, CommonStep, AccountsStep, CollectionStep, AggStep
<1>3. CASE TaskRaises
  BY <1>3, TurnsKeepSession, FailKeepsSession DEF TaskRaises
<1>4. CASE TaskDies \/ Request \/ Terminating \/ UNCHANGED vars
  BY <1>4, TurnsKeepSession, CancelKeepsSession DEF Request, Terminating
<1> QED BY <1>2, <1>3, <1>4 DEF Next


-----------------------------------------------------------------------------
\* What the thread still has to do, at each of its places.
LEMMA WorkLeft ==
    /\ pc = "create_session" => Remaining = keys
    /\ pc = "loop" => Remaining = todo \cup clusters
    /\ pc \in LoopPlaces \ {"loop"} => Remaining = todo \cup {cur} \cup clusters
    /\ pc = "ag_check" => Remaining = clusters
    /\ pc = "ag_loop" => Remaining = todo
    /\ pc \in AgPlaces \ {"ag_loop"} => Remaining = todo \cup {cur}
    /\ pc \in {"launched", "init_items", "agg_check", "finish_session", "final_read"} => Remaining = {}
<1>1. InHand = IF pc \in HasCur THEN {cur} ELSE {}
  BY DEF InHand
<1> QED BY <1>1 DEF Remaining, HasCur, LoopPlaces, AgPlaces

\* A step that touches neither the run, nor its items, nor the records.
LEMMA RunStays ==
    ASSUME TypeInv, RunInv, UNCHANGED <<plan, run, items, recs, stage>>,
           run.status # CANCELLED /\ pc' \in Regular => Open \subseteq Remaining',
           \A p \in {"final_commit", "mark_commit", "item_commit", "ag_commit", "create_session"} : pc' = p => pc = p,
           pc' \in {"launched", "init_items"} => pc \in {"launched", "init_items"},
           run.status \in {RUNNING, CANCELLED} \/ pc' \in {"done", "dead", "agg_fail_session"},
           run.status = COMPLETED => pc' = "done",
           pc' = "agg_recount" => run.status = CANCELLED,
           \/ sess' = sess \/ run.status # COMPLETED
           \/ /\ sess # NoSession /\ sess'.status = CANCELLED
              /\ sess'.successful_instances = sess.successful_instances /\ sess'.failed_instances = sess.failed_instances,
           pc' \in {"final_commit", "mark_commit"} => runSeen' = runSeen,
           pc' \in {"item_commit", "ag_commit"} => cur' = cur
    PROVE  RunInv'
<1> USE DEF plan
<1>1. View' = View /\ Open' = Open /\ insts' = insts
  BY DEF View, Open, insts
<1>2. Worked'
  BY <1>1 DEF RunInv, Worked
<1>3. Read'
  BY DEF RunInv, Read
<1>4. ClosedRunAgrees'
  BY <1>1 DEF RunInv, ClosedRunAgrees, CompletedRunIsBacked, ClosedRunCounts
<1> QED BY <1>2, <1>3, <1>4 DEF RunInv

\* The steps of that kind, but for the loops.
LEMMA TurnsKeepRun ==
    ASSUME TypeInv, RunInv,
           \/ CheckStart \/ CollectionStart \/ (\E skip \in BOOLEAN : AggStart(skip))
           \/ FinishSession \/ AggCheck
           \/ LoopNext \/ LoopExit("ag_check")
           \/ (task # "sync_accounts" /\ \E after \in {"agg_check", "finish_session"} : LoopExit(after))
           \/ AgCheck \/ (TakeNext("ag_loop", "ag_start") /\ UNCHANGED session) \/ AgDone
           \/ (\E c \in RunCancels : (CancelRead(c) \/ CancelFlush(c)) /\ UNCHANGED session) \/ UNCHANGED vars
    PROVE  RunInv'
<1> USE DEF threadVars, plan, runRows, focus, totals, cancels, session
<1>1. UNCHANGED <<plan, run, items, recs, stage, runSeen>>
  BY DEF CheckStart, CollectionStart, AggStart, FinishSession, Goto, AggCheck, CheckCancelled, LoopNext, TakeNext, LoopExit,
         AgCheck, BeginLoop, AgDone, CancelRead, CancelFlush, vars
<1>2. run.status # CANCELLED /\ pc' \in Regular => Open \subseteq Remaining'
  <2>1. CASE CheckStart \/ CollectionStart \/ \E skip \in BOOLEAN : AggStart(skip)
    <3>1. Open = {}
      BY <2>1 DEF CheckStart, CollectionStart, AggStart, Goto, RunInv, Worked
    <3> QED BY <3>1
  <2>2. CASE FinishSession \/ AggCheck
    <3>1. Open \subseteq Remaining \/ run.status = CANCELLED
      BY <2>2 DEF FinishSession, AggCheck, CheckCancelled, Goto, RunInv, Worked, Regular
    <3> QED BY <2>2, <3>1, WorkLeft DEF FinishSession, AggCheck, CheckCancelled, Goto
  <2>3. CASE LoopNext \/ (TakeNext("ag_loop", "ag_start") /\ UNCHANGED session)
    <3>1. Remaining' = Remaining
      BY <2>3 DEF LoopNext, TakeNext, Remaining, InHand, HasCur, LoopPlaces, AgPlaces, clusters
    <3> QED BY <2>3, <3>1 DEF RunInv, Worked, LoopNext, TakeNext, Regular, LoopPlaces, AgPlaces
  <2>4. CASE LoopExit("ag_check") \/ (task # "sync_accounts" /\ \E after \in {"agg_check", "finish_session"} : LoopExit(after))
    <3>1. run.status = CANCELLED \/ Open \subseteq clusters
      BY <2>4, WorkLeft DEF LoopExit, Goto, RunInv, Worked, Regular, LoopPlaces
    <3>2. CASE LoopExit("ag_check")
      BY <3>1, <3>2 DEF LoopExit, Goto, Remaining, clusters, LoopPlaces, AgPlaces
    <3>3. CASE task # "sync_accounts"
      BY <3>1, <3>3 DEF TypeInv, Located
    <3> QED BY <2>4, <3>2, <3>3
  <2>5. CASE AgCheck
    <3>1. run.status = CANCELLED \/ Open \subseteq clusters
      BY <2>5, WorkLeft DEF AgCheck, Goto, BeginLoop, RunInv, Worked, Regular
    <3> QED BY <2>5, <3>1 DEF AgCheck, Goto, BeginLoop, Remaining, InHand, LoopPlaces, AgPlaces
  <2>6. CASE AgDone
    <3>1. run.status = CANCELLED \/ Open \subseteq {}
      BY <2>6, WorkLeft DEF AgDone, Goto, RunInv, Worked, Regular, AgPlaces
    <3> QED BY <3>1
  <2>7. CASE (\E c \in RunCancels : (CancelRead(c) \/ CancelFlush(c)) /\ UNCHANGED session) \/ UNCHANGED vars
    <3>1. Remaining' = Remaining /\ pc' = pc
      BY <2>7 DEF CancelRead, CancelFlush, vars, Remaining, InHand, clusters
    <3> QED BY <3>1 DEF RunInv, Worked
  <2> QED BY <2>1, <2>2, <2>3, <2>4, <2>5, <2>6, <2>7
<1>3. /\ \A p \in {"final_commit", "mark_commit", "item_commit", "ag_commit", "create_session"} : pc' = p => pc = p
      /\ pc' \in {"launched", "init_items"} => pc \in {"launched", "init_items"}
      /\ pc' = "agg_recount" => run.status = CANCELLED
      /\ run.status \in {RUNNING, CANCELLED} \/ pc' \in {"done", "dead", "agg_fail_session"}
      /\ run.status = COMPLETED => pc' = "done" /\ sess' = sess
      /\ pc' \in {"item_commit", "ag_commit"} => cur' = cur
  BY DEF CheckStart, CollectionStart, AggStart, FinishSession, Goto, AggCheck, CheckCancelled, LoopNext, TakeNext, LoopExit,
         AgCheck, BeginLoop, AgDone, CancelRead, CancelFlush, vars, RunInv, Read, RUNNING, COMPLETED, CANCELLED
<1> QED BY <1>1, <1>2, <1>3, RunStays

\* A request that cancels the session touches a column of its row.
LEMMA SessionCancelKeepsRun ==
    ASSUME TypeInv, RunInv, NEW s \in SessionCancels, SessionCancelStep(s)
    PROVE  RunInv'
<1> USE DEF threadVars, plan, runRows, focus, totals, cancels, session
<1>1. UNCHANGED <<threadVars, recs>> /\ (sess' = sess \/ (sess' = [sess EXCEPT !.status = CANCELLED] /\ spc[s] = "write"))
  BY DEF SessionCancelStep, SessionCancelRead, SessionCancelWrite
<1>2. sess \in SyncSession /\ CANCELLED \in SyncSessionStatus
  BY DEF TypeInv, TypeOK, SyncSessionStatus, SESSION_TERMINAL
<1>3. \/ sess' = sess
      \/ /\ sess # NoSession /\ sess'.status = CANCELLED
         /\ sess'.successful_instances = sess.successful_instances /\ sess'.failed_instances = sess.failed_instances
  <2>1. CASE sess' = [sess EXCEPT !.status = CANCELLED] /\ spc[s] = "write"
    <3>1. PICK q : q = [sess EXCEPT !.status = CANCELLED]
      OBVIOUS
    <3>2. /\ q.status = CANCELLED
          /\ q.successful_instances = sess.successful_instances /\ q.failed_instances = sess.failed_instances
      BY <1>2, <3>1 DEF SyncSession
    <3>3. sess # NoSession
      BY <2>1 DEF TypeInv, Recorded, NoSession
    <3> QED BY <2>1, <3>1, <3>2, <3>3
  <2> QED BY <1>1, <2>1
<1>4. Remaining' = Remaining
  BY <1>1 DEF Remaining, InHand, clusters
<1>5. /\ run.status # CANCELLED /\ pc \in Regular => Open \subseteq Remaining
      /\ run.status \in {RUNNING, CANCELLED} \/ pc \in {"done", "dead", "agg_fail_session"}
      /\ run.status = COMPLETED => pc = "done"
      /\ pc = "agg_recount" => run.status = CANCELLED
  BY DEF RunInv, Worked, Read
<1> QED BY <1>1, <1>3, <1>4, <1>5, RunStays

\* A step of the thread on its items: it loads one, commits what is loaded, or
\* gives up what is not committed.
LEMMA ItemsKeepRun ==
    ASSUME TypeInv, RunInv,
           \/ StartRead \/ StartCommit \/ ItemRead \/ ItemCommit \/ AgCommit \/ (\E ok \in BOOLEAN : AgSync(ok))
           \/ (pc = "ag_start" /\ LoadItem("ag_start", start_item(items[cur]), "ag_start_commit") /\ UNCHANGED session)
           \/ (CommitItems("ag_start_commit", "ag_sync") /\ UNCHANGED session)
    PROVE  RunInv'
<1> USE DEF threadVars, plan, runRows, focus, totals, cancels, session
<1>1. /\ items \in [ItemKeys -> TaskRunStatus \cup {ABSENT}] /\ cur \in ItemKeys /\ cur \notin todo
      /\ pc \in LoopPlaces => cur \in insts /\ cur \in Instances
      /\ pc \in AgPlaces => cur \in clusters /\ cur \notin Instances
      /\ pc \in HasCur /\ DOMAIN stage \subseteq {cur} /\ \A i \in DOMAIN stage : stage[i] \in TaskRunStatus
      /\ UNCHANGED <<plan, run, recs, sess, runSeen, focus>>
      /\ run.status # COMPLETED /\ run.status \in {RUNNING, CANCELLED} /\ insts' = insts
  BY DEF StartRead, StartCommit, ItemRead, ItemCommit, AgCommit, AgSync, LoadItem, CommitItems, TypeInv, TypeOK, ThreadTypeOK,
         Located, Staged, NoChange, LoopPlaces, AgPlaces, HasCur, clusters, insts, RunInv, Read
<1>2. CASE UNCHANGED items /\ \E st : stage' = Change(cur, st) /\ st # COMPLETED_WITH_ERRORS
                           /\ (st = COMPLETED /\ cur \in Instances => recs[cur] = COMPLETED)
                           /\ (pc' \in {"item_commit", "ag_commit"} => st \in TERMINAL)
                           /\ \/ (pc \in LoopPlaces /\ pc' \in LoopPlaces \ {"loop"})
                              \/ (pc \in AgPlaces /\ pc' \in AgPlaces \ {"ag_loop"})
  <2>1. PICK st : /\ stage' = Change(cur, st) /\ st # COMPLETED_WITH_ERRORS
                  /\ st = COMPLETED /\ cur \in Instances => recs[cur] = COMPLETED
                  /\ pc' \in {"item_commit", "ag_commit"} => st \in TERMINAL
    BY <1>2
  <2>2. \A k \in ItemKeys : View'[k] = IF k = cur THEN st ELSE items[k]
    BY <1>1, <1>2, <2>1 DEF View, Change
  <2>3. Remaining' = Remaining /\ Open' = Open
    <3>1. clusters' = clusters
      BY <1>1 DEF clusters
    <3> QED BY <1>1, <1>2, <3>1 DEF Remaining, InHand, HasCur, LoopPlaces, AgPlaces, Open
  <2>4. Worked'
    <3>1. run.status # CANCELLED => Open \subseteq Remaining
      BY <1>2 DEF RunInv, Worked, Regular
    <3> QED BY <1>1, <1>2, <2>1, <2>2, <2>3, <3>1, InstancesAreKeys DEF RunInv, Worked, LoopPlaces, AgPlaces
  <2>5. Read' /\ ClosedRunAgrees'
    BY <1>1, <1>2 DEF RunInv, Read, ClosedRunAgrees, CompletedRunIsBacked, ClosedRunCounts, LoopPlaces, AgPlaces,
           RUNNING, COMPLETED, CANCELLED, FAILED
  <2> QED BY <2>4, <2>5 DEF RunInv
<1>3. CASE /\ items' = View /\ stage' = NoChange
           /\ \/ pc \in LoopPlaces /\ pc' \in LoopPlaces /\ (pc' = "loop" => pc = "item_commit")
              \/ pc \in AgPlaces /\ pc' \in AgPlaces /\ (pc' = "ag_loop" => pc = "ag_commit")
           /\ pc' \notin {"item_commit", "ag_commit"}
  <2>1. \A k \in ItemKeys : items'[k] = View[k] /\ View'[k] = View[k] /\ (k # cur => View[k] = items[k])
    BY <1>1, <1>3 DEF View, NoChange
  <2>2. DOMAIN items' = ItemKeys /\ DOMAIN items = ItemKeys
    BY <1>1, <1>3 DEF View
  <2>3. Open' \subseteq Open \cup {cur} /\ (pc \in {"item_commit", "ag_commit"} => cur \notin Open')
    BY <2>1, <2>2
       DEF Open, ItemsIn, RunInv, Worked, IN_PROGRESS, TERMINAL, PENDING, RUNNING, COMPLETED, COMPLETED_WITH_ERRORS, FAILED,
           CANCELLED
  <2>4. Remaining' = IF pc' \in {"loop", "ag_loop"} THEN Remaining \ {cur} ELSE Remaining
    <3>1. clusters' = clusters /\ (pc \in LoopPlaces => cur \notin clusters)
      BY <1>1 DEF clusters, insts
    <3> QED BY <1>1, <1>3, <3>1 DEF Remaining, InHand, HasCur, LoopPlaces, AgPlaces
  <2>5. cur \in Remaining
    BY <1>1, <1>3 DEF Remaining, InHand, HasCur, LoopPlaces, AgPlaces
  <2>6. Worked'
    <3>1. run.status # CANCELLED => Open \subseteq Remaining
      BY <1>3 DEF RunInv, Worked, Regular
    <3>2. run.status # CANCELLED => Open' \subseteq Remaining'
      BY <1>3, <2>3, <2>4, <2>5, <3>1 DEF LoopPlaces, AgPlaces
    <3>3. \A i \in Instances : View[i] = ABSENT => items[i] = ABSENT
      BY <1>1, InstancesAreKeys
         DEF View, TaskRunStatus, TERMINAL, IN_PROGRESS, ABSENT, PENDING, RUNNING, COMPLETED, COMPLETED_WITH_ERRORS,
             FAILED, CANCELLED
    <3> QED BY <1>1, <1>3, <2>1, <2>2, <3>2, <3>3, InstancesAreKeys DEF RunInv, Worked, LoopPlaces, AgPlaces
  <2>7. Read' /\ ClosedRunAgrees'
    BY <1>1, <1>3 DEF RunInv, Read, ClosedRunAgrees, CompletedRunIsBacked, ClosedRunCounts, LoopPlaces, AgPlaces,
           RUNNING, COMPLETED, CANCELLED, FAILED
  <2> QED BY <2>6, <2>7 DEF RunInv
<1>4. CASE StartRead \/ (pc = "ag_start" /\ LoadItem("ag_start", start_item(items[cur]), "ag_start_commit") /\ UNCHANGED session)
  <2>1. /\ start_item(items[cur]) # COMPLETED_WITH_ERRORS
        /\ start_item(items[cur]) = COMPLETED /\ cur \in Instances => recs[cur] = COMPLETED
    BY <1>1 DEF start_item, RunInv, Worked, TERMINAL, RUNNING, COMPLETED, COMPLETED_WITH_ERRORS, FAILED, CANCELLED
  <2> QED BY <1>2, <1>4, <2>1 DEF StartRead, LoadItem, LoopPlaces, AgPlaces
<1>5. CASE ItemRead \/ \E ok \in BOOLEAN : AgSync(ok)
  <2>1. \A ok \in BOOLEAN : Outcome(ok, items[cur]) \in TERMINAL /\ Outcome(ok, items[cur]) # COMPLETED_WITH_ERRORS
    BY <1>1
       DEF Outcome, complete_item, fail_item, RunInv, Worked, TERMINAL, RUNNING, COMPLETED, COMPLETED_WITH_ERRORS, FAILED,
           CANCELLED
  <2>2. Outcome(FALSE, items[cur]) # COMPLETED
    BY DEF Outcome, fail_item, COMPLETED, FAILED, CANCELLED
  <2>3. CASE ItemRead
    <3>1. PICK ok \in BOOLEAN : ok = (recs[cur] = COMPLETED)
      OBVIOUS
    <3> QED BY <1>2, <2>1, <2>2, <2>3, <3>1 DEF ItemRead, LoadItem, LoopPlaces, AgPlaces
  <2>4. CASE \E ok \in BOOLEAN : AgSync(ok)
    BY <1>1, <1>2, <2>1, <2>4 DEF AgSync, LoadItem, LoopPlaces, AgPlaces
  <2> QED BY <1>5, <2>3, <2>4
<1>6. CASE StartCommit \/ ItemCommit \/ AgCommit \/ (CommitItems("ag_start_commit", "ag_sync") /\ UNCHANGED session)
  BY <1>3, <1>6 DEF StartCommit, ItemCommit, AgCommit, CommitItems, LoopPlaces, AgPlaces
<1> QED BY <1>4, <1>5, <1>6

\* A step that gives records another status: none of them was completed.
LEMMA RecordsKeepRun ==
    ASSUME TypeInv, RunInv, UNCHANGED <<plan, run, items, stage, runSeen>>, run.status # COMPLETED,
           DOMAIN recs' = Instances,
           \A i \in Instances : recs'[i] # recs[i] => recs[i] # COMPLETED /\ items[i] # ABSENT,
           run.status # CANCELLED /\ pc' \in Regular => Open \subseteq Remaining',
           pc' \in {"loop", "sync", "item_read", "done"},
           run.status \in {RUNNING, CANCELLED} \/ pc' = "done"
    PROVE  RunInv'
<1> USE DEF plan
<1>1. View' = View /\ Open' = Open
  BY DEF View, Open
<1>2. Worked'
  <2>1. ASSUME NEW i \in Instances
        PROVE  /\ recs'[i] # ABSENT => items[i] # ABSENT
               /\ items[i] = COMPLETED => recs'[i] = COMPLETED
               /\ View[i] = COMPLETED => recs'[i] = COMPLETED
    BY <2>1 DEF RunInv, Worked
  <2> QED BY <1>1, <2>1 DEF RunInv, Worked
<1>3. Read' /\ ClosedRunAgrees'
  BY <1>1 DEF RunInv, Read, ClosedRunAgrees, CompletedRunIsBacked, ClosedRunCounts, RUNNING, COMPLETED, CANCELLED, FAILED
<1> QED BY <1>2, <1>3 DEF RunInv

\* The steps of that kind.
LEMMA SessionStepsKeepRun ==
    ASSUME TypeInv, RunInv,
           \/ CreateSession \/ StartRecord \/ AggFailSession
           \/ (pc = "sync" /\ cur \in insts /\ \E rs, seen, mine : \E ok \in BOOLEAN : Ends(rs, seen, mine, ok))
    PROVE  RunInv'
<1> USE DEF threadVars, plan, runRows, focus, totals, cancels, session
<1>1. recs \in [Instances -> SyncStatus \cup {ABSENT}] /\ insts \subseteq Instances
  BY DEF TypeInv, TypeOK, insts
<1>2. CASE CreateSession
  <2>1. /\ UNCHANGED <<plan, run, items, stage, runSeen>> /\ pc = "create_session" /\ pc' = "loop" /\ todo' = insts
        /\ recs' = add_instance_records(recs, insts)
    BY <1>2 DEF CreateSession, BeginLoop
  <2>2. \A i \in Instances : recs'[i] # recs[i] => recs[i] # COMPLETED /\ items[i] # ABSENT
    BY <1>1, <2>1 DEF add_instance_records, TypeInv, Recorded, RunInv, Worked, insts, ABSENT, COMPLETED
  <2>3. run.status # CANCELLED => Open \subseteq Remaining'
    <3>1. run.status # CANCELLED => Open \subseteq keys
      BY <2>1, WorkLeft DEF RunInv, Worked, Regular
    <3>2. Remaining' = insts \cup clusters
      BY <2>1 DEF Remaining, InHand, HasCur, LoopPlaces, AgPlaces, clusters
    <3> QED BY <3>1, <3>2 DEF insts, clusters
  <2>4. run.status # COMPLETED /\ run.status \in {RUNNING, CANCELLED}
    BY <2>1 DEF RunInv, Read
  <2>5. DOMAIN recs' = Instances
    BY <1>1, <2>1 DEF add_instance_records
  <2> QED BY <2>1, <2>2, <2>3, <2>4, <2>5, RecordsKeepRun
<1>3. CASE StartRecord \/ (pc = "sync" /\ cur \in insts /\ \E rs, seen, mine : \E ok \in BOOLEAN : Ends(rs, seen, mine, ok))
  <2>1. /\ UNCHANGED <<plan, run, items, stage, runSeen, focus>> /\ cur \in insts /\ recs[cur] \in {PENDING, RUNNING}
        /\ \/ pc = "start_record" /\ pc' = "sync"
           \/ pc = "sync" /\ pc' = "item_read"
        /\ \E st : recs' = [recs EXCEPT ![cur] = st]
    <3>1. CASE StartRecord
      BY <3>1 DEF StartRecord, Goto, start_instance_sync, TypeInv, Located, Recorded, LoopPlaces
    <3>2. CASE pc = "sync" /\ cur \in insts /\ \E rs, seen, mine : \E ok \in BOOLEAN : Ends(rs, seen, mine, ok)
      <4>1. PICK rs, seen, mine, ok : Ends(rs, seen, mine, ok)
        BY <3>2
      <4>2. PICK st : st = [recs |-> rs, sess |-> mine] /\ FinishInstance(st, seen, ok)
        BY <4>1 DEF Ends
      <4>3. st.recs = rs
        BY <4>2
      <4>4. recs' = rs /\ UNCHANGED <<plan, run, items, stage, runSeen, focus>> /\ pc' = "item_read"
        BY <4>2, <4>3 DEF FinishInstance
      <4> QED BY <3>2, <4>1, <4>4 DEF Ends, TypeInv, Recorded
    <3> QED BY <1>3, <3>1, <3>2
  <2>2. \A i \in Instances : recs'[i] # recs[i] => recs[i] # COMPLETED /\ items[i] # ABSENT
    BY <1>1, <2>1 DEF RunInv, Worked, PENDING, RUNNING, COMPLETED, ABSENT
  <2>3. run.status # CANCELLED => Open \subseteq Remaining'
    <3>1. Remaining' = Remaining
      BY <2>1 DEF Remaining, InHand, HasCur, LoopPlaces, AgPlaces, clusters
    <3> QED BY <2>1, <3>1 DEF RunInv, Worked, Regular, LoopPlaces
  <2>4. run.status # COMPLETED /\ run.status \in {RUNNING, CANCELLED}
    BY <2>1 DEF RunInv, Read
  <2>5. DOMAIN recs' = Instances
    BY <1>1, <2>1
  <2> QED BY <2>1, <2>2, <2>3, <2>4, <2>5, RecordsKeepRun
<1>4. CASE AggFailSession
  <2>1. pc = "agg_fail_session" /\ pc' = "done" /\ UNCHANGED <<plan, run, items, stage, runSeen>>
    BY <1>4 DEF AggFailSession, Goto
  <2>2. DOMAIN recs' = Instances /\ \A i \in Instances : recs'[i] # recs[i] => recs[i] # COMPLETED /\ items[i] # ABSENT
    BY <1>1, <1>4, AggFails DEF FailsSession, RunInv, Worked, PENDING, RUNNING, COMPLETED, ABSENT
  <2>3. run.status # COMPLETED /\ "done" \notin Regular
    BY <2>1 DEF RunInv, Read, Regular, LoopPlaces, AgPlaces
  <2> QED BY <2>1, <2>2, <2>3, RecordsKeepRun
<1> QED BY <1>2, <1>3, <1>4

\* A step that leads to the failure handler, or on in it, or ends the task: the
\* items it has not committed are given up, or committed.
LEMMA HandlersKeepRun ==
    ASSUME TypeInv, RunInv, UNCHANGED <<plan, run, recs>>, run.status \in {RUNNING, CANCELLED} \/ pc' = "dead",
           run.status # COMPLETED,
           pc' \in {"fail_session", "mark_read", "dead"},
           \/ items' = items /\ stage' \in {stage, NoChange}
           \/ items' = View /\ stage' = NoChange /\ run.status \in {RUNNING, CANCELLED}
    PROVE  RunInv'
<1> USE DEF plan
<1>1. pc' \notin Regular
  BY DEF Regular, LoopPlaces, AgPlaces
<1>2. ASSUME NEW k \in ItemKeys
      PROVE  /\ items'[k] \in {items[k], View[k]} /\ View'[k] \in {items[k], View[k]}
             /\ View[k] = ABSENT => items[k] = ABSENT
  BY <1>2 DEF View, NoChange, TypeInv, TypeOK, ThreadTypeOK, TaskRunStatus, TERMINAL, IN_PROGRESS, ABSENT, PENDING, RUNNING,
         COMPLETED, COMPLETED_WITH_ERRORS, FAILED, CANCELLED
<1>3. Worked'
  BY <1>1, <1>2, InstancesAreKeys DEF RunInv, Worked
<1>4. Read' /\ ClosedRunAgrees'
  BY DEF RunInv, Read, ClosedRunAgrees, CompletedRunIsBacked, ClosedRunCounts, RUNNING, COMPLETED, CANCELLED, FAILED
<1> QED BY <1>3, <1>4 DEF RunInv

\* The steps of that kind.
LEMMA EndingsKeepRun ==
    ASSUME TypeInv, RunInv,
           \/ FailSession \/ AccountsRaises \/ CollectionRaises \/ RecordsFail \/ AggRaises \/ TaskDies
    PROVE  RunInv'
<1> USE DEF threadVars, plan, runRows, focus, totals, cancels, session
<1>1. UNCHANGED <<plan, run, recs>> /\ pc' \in {"fail_session", "mark_read", "dead"}
  BY DEF FailSession, CommitItems, AccountsRaises, CollectionRaises, Raise, RecordsFail, Goto, AggRaises, TaskDies, Die
<1>2. run.status \in {RUNNING, CANCELLED} \/ (pc' = "dead" /\ TaskDies)
  BY
     DEF FailSession, CommitItems, AccountsRaises, CollectionRaises, Raise, RecordsFail, Goto, AggRaises, TaskDies, Die,
         RunInv, Read,
         AccountsGuarded, CollectionGuarded, AggGuarded
<1>3. run.status # COMPLETED
  BY
     DEF FailSession, CommitItems, AccountsRaises, CollectionRaises, Raise, RecordsFail, Goto, AggRaises, TaskDies, Die,
         RunInv, Read,
         AccountsGuarded, CollectionGuarded, AggGuarded
<1>4. \/ items' = items /\ stage' \in {stage, NoChange}
      \/ items' = View /\ stage' = NoChange /\ run.status \in {RUNNING, CANCELLED}
  BY <1>2 DEF FailSession, CommitItems, AccountsRaises, CollectionRaises, Raise, RecordsFail, Goto, AggRaises, TaskDies, Die
<1> QED BY <1>1, <1>2, <1>3, <1>4, HandlersKeepRun

\* The items of the run are inserted.
LEMMA InitItemsKeepRun ==
    ASSUME TypeInv, RunInv, InitItems("init_items", "create_session"), UNCHANGED session
    PROVE  RunInv'
<1> USE DEF threadVars, plan, runRows, focus, totals, cancels, session
<1>1. /\ pc = "init_items" /\ pc' = "create_session" /\ stage = NoChange /\ UNCHANGED <<plan, stage, recs, sess>>
      /\ items \in [ItemKeys -> TaskRunStatus \cup {ABSENT}]
      /\ items' = [k \in ItemKeys |-> IF k \in keys THEN PENDING ELSE items[k]]
      /\ run'.status = run.status /\ run.status \in {RUNNING, CANCELLED}
      /\ \A i \in Instances : recs[i] = ABSENT
  BY DEF InitItems, init_items, TypeInv, TypeOK, ThreadTypeOK, Staged, Recorded, RunInv, Read, TaskRun
<1>2. \A k \in ItemKeys : View[k] = items[k] /\ View'[k] = items'[k]
  BY <1>1 DEF View, NoChange
<1>3. Open' \subseteq Remaining'
  <2>1. Open = {} /\ Remaining' = keys
    BY <1>1 DEF RunInv, Worked, Remaining, LoopPlaces, AgPlaces
  <2> QED BY <1>1, <2>1 DEF Open, ItemsIn
<1>4. Worked'
  BY <1>1, <1>2, <1>3, InstancesAreKeys
     DEF RunInv, Worked, TypeInv, TypeOK, ThreadTypeOK, ABSENT, PENDING, COMPLETED, COMPLETED_WITH_ERRORS
<1>5. Read' /\ ClosedRunAgrees'
  BY <1>1 DEF RunInv, Read, ClosedRunAgrees, CompletedRunIsBacked, ClosedRunCounts, RUNNING, COMPLETED, CANCELLED, FAILED, PENDING,
         COMPLETED_WITH_ERRORS
<1> QED BY <1>4, <1>5 DEF RunInv

\* A request that cancels the run leaves no item more open than it was.
LEMMA CancelKeepsRun ==
    ASSUME TypeInv, RunInv, NEW c \in RunCancels, CancelCommit(c), UNCHANGED session
    PROVE  RunInv'
<1> USE DEF threadVars, plan, runRows, focus, totals, cancels, session
<1>1. /\ UNCHANGED <<plan, pc, focus, runSeen, stage, recs, sess>> /\ run' = [run EXCEPT !.status = CANCELLED]
      /\ items' = [i \in ItemKeys |-> IF csnap[c][i] \in IN_PROGRESS THEN CANCELLED ELSE items[i]]
      /\ items \in [ItemKeys -> TaskRunStatus \cup {ABSENT}] /\ run \in TaskRun
  BY DEF CancelCommit, TypeInv, TypeOK, ThreadTypeOK
<1>2. /\ run'.status = CANCELLED /\ run'.progress_total = run.progress_total
      /\ run'.progress_completed = run.progress_completed /\ run'.progress_failed = run.progress_failed
      /\ run'.summary = run.summary
  BY <1>1 DEF TaskRun
<1>3. ASSUME NEW k \in ItemKeys
      PROVE  /\ items'[k] \in {items[k], CANCELLED} /\ View'[k] \in {View[k], CANCELLED}
  BY <1>1 DEF View
<1>4. Open' \subseteq Open
  BY <1>1 DEF Open, ItemsIn, IN_PROGRESS, PENDING, RUNNING, CANCELLED
<1>5. Worked'
  <2>1. pc \in {"item_commit", "ag_commit"} => cur \in ItemKeys
    BY InstancesAreKeys DEF TypeInv, TypeOK, ThreadTypeOK, Located, LoopPlaces, AgPlaces, insts, clusters
  <2>2. pc \in {"item_commit", "ag_commit"} => View'[cur] \in TERMINAL
    BY <1>3, <2>1 DEF RunInv, Worked, TERMINAL
  <2>3. ASSUME NEW k \in ItemKeys PROVE items'[k] # COMPLETED_WITH_ERRORS /\ View'[k] # COMPLETED_WITH_ERRORS
    BY <1>3 DEF RunInv, Worked, COMPLETED_WITH_ERRORS, CANCELLED
  <2>4. ASSUME NEW i \in Instances
        PROVE  /\ recs[i] # ABSENT => items'[i] # ABSENT
               /\ items'[i] = COMPLETED => recs[i] = COMPLETED
               /\ View'[i] = COMPLETED => recs[i] = COMPLETED
    BY <1>3, InstancesAreKeys DEF RunInv, Worked, ABSENT, COMPLETED, CANCELLED
  <2>5. pc = "create_session" => \A k \in keys : items'[k] # ABSENT
    BY <1>3 DEF RunInv, Worked, TypeInv, TypeOK, ThreadTypeOK, ABSENT, CANCELLED
  <2> QED BY <1>1, <1>2, <1>4, <2>2, <2>3, <2>4, <2>5 DEF RunInv, Worked
<1>6. Read' /\ ClosedRunAgrees'
  BY <1>1, <1>2
     DEF RunInv, Read, ClosedRunAgrees, CompletedRunIsBacked, ClosedRunCounts, RUNNING, COMPLETED, CANCELLED, FAILED, PENDING,
         COMPLETED_WITH_ERRORS
<1> QED BY <1>5, <1>6 DEF RunInv

-----------------------------------------------------------------------------
\* Every item is open, completed, or failed or cancelled.
LEMMA NothingOpen ==
    ASSUME NEW f \in [ItemKeys -> TaskRunStatus \cup {ABSENT}], ItemsIn(f, IN_PROGRESS) = {},
           \A k \in ItemKeys : f[k] # COMPLETED_WITH_ERRORS,
           Cardinality(ItemsIn(f, {FAILED, CANCELLED})) = 0
    PROVE  \A k \in ItemKeys : f[k] \in {ABSENT, COMPLETED}
<1>1. ItemsIn(f, {FAILED, CANCELLED}) = {}
  BY ItemCounts, FS_EmptySet
<1> QED BY <1>1 DEF ItemsIn, TaskRunStatus, TERMINAL, IN_PROGRESS

\* What a finalisation of the run as it was read leaves in the row.
LEMMA Finalised ==
    ASSUME TypeInv, RunInv, pc \in {"final_commit", "mark_commit"}, NEW r \in TaskRun, r.status \in {RUNNING, FAILED},
           NEW f, DOMAIN f \subseteq ItemKeys, run' = UpdateChanged(run, runSeen, finalize_run(r, f))
    PROVE  /\ run'.status = IF r.status = FAILED \/ Cardinality(ItemsIn(f, {FAILED, CANCELLED})) > 0 THEN FAILED ELSE COMPLETED
           /\ run'.progress_completed = Cardinality(ItemsIn(f, {COMPLETED}))
           /\ run'.progress_failed = Cardinality(ItemsIn(f, {FAILED, CANCELLED}))
<1>1. PICK m : m = finalize_run(r, f)
  OBVIOUS
<1>2. /\ m.status = IF r.status = FAILED \/ Cardinality(ItemsIn(f, {FAILED, CANCELLED})) > 0 THEN FAILED ELSE COMPLETED
      /\ m.progress_completed = Cardinality(ItemsIn(f, {COMPLETED}))
      /\ m.progress_failed = Cardinality(ItemsIn(f, {FAILED, CANCELLED}))
  BY <1>1 DEF finalize_run, RUNNING, FAILED, CANCELLED
<1>3. run' = UpdateChanged(run, runSeen, m)
  BY <1>1
<1> QED BY <1>2, <1>3 DEF UpdateChanged, RunInv, Read, RUNNING, FAILED, COMPLETED

\* A run that ends.
LEMMA FinalsKeepRun ==
    ASSUME TypeInv, SessionInv, RunInv, FinishRun \/ FailRun("done")
                                         \/ (task = "calculate_database" /\ FailRun("agg_fail_session")) \/ AggRecount
    PROVE  RunInv'
<1> USE DEF threadVars, plan, runRows, focus, totals, cancels, session
<1>1. CASE AggRecount
  <2>1. /\ UNCHANGED <<plan, items, focus, runSeen, stage, recs, sess>> /\ pc' = "done" /\ run' = finalize_run(run, items)
        /\ run.status = CANCELLED
    BY <1>1 DEF AggRecount, RecountCancelled, RunInv, Read
  <2>2. run'.status = CANCELLED
    BY <2>1 DEF finalize_run
  <2>3. View' = View /\ Open' = Open
    BY <2>1 DEF View, Open
  <2> QED BY <2>1, <2>2, <2>3
            DEF RunInv, Worked, Read, Regular, LoopPlaces, AgPlaces, ClosedRunAgrees, CompletedRunIsBacked, ClosedRunCounts,
             COMPLETED, CANCELLED, FAILED, PENDING, COMPLETED_WITH_ERRORS
<1>2. CASE FinalRead("final_read", "final_commit") /\ UNCHANGED session
  <2>1. /\ UNCHANGED <<plan, run, items, stage, recs, sess>> /\ runSeen' = run /\ pc = "final_read"
        /\ pc' = IF run.status = CANCELLED THEN "done" ELSE "final_commit"
    BY <1>2 DEF FinalRead
  <2>2. View' = View /\ Open' = Open
    BY <2>1 DEF View, Open
  <2>3. run.status # CANCELLED => Open = {} /\ run.status = RUNNING
    BY <2>1, WorkLeft DEF RunInv, Worked, Read, Regular
  <2>4. Worked'
    BY <2>1, <2>2, <2>3 DEF RunInv, Worked, Regular, LoopPlaces, AgPlaces
  <2>5. Read' /\ ClosedRunAgrees'
    BY <2>1, <2>3 DEF RunInv, Read, ClosedRunAgrees, CompletedRunIsBacked, ClosedRunCounts, RUNNING, COMPLETED, CANCELLED, FAILED
  <2> QED BY <2>4, <2>5 DEF RunInv
<1>3. CASE \E after \in {"done", "agg_fail_session"} : MarkRead("mark_read", after) /\ UNCHANGED session
  <2>1. /\ UNCHANGED <<plan, run, items, recs, sess>> /\ runSeen' = run /\ pc = "mark_read" /\ stage = NoChange
        /\ \/ run.status = CANCELLED /\ pc' \in {"done", "agg_fail_session"} /\ stage' = stage
           \/ run.status = RUNNING /\ pc' = "mark_commit" /\ stage' = mark_items_failed(items)
    BY <1>3 DEF MarkRead, TypeInv, Staged, RunInv, Read
  <2>2. Open' = Open /\ DOMAIN items = ItemKeys
    BY <2>1 DEF Open, TypeInv, TypeOK, ThreadTypeOK
  <2>3. ASSUME NEW k \in ItemKeys PROVE View'[k] \in {View[k], FAILED}
    BY <2>1 DEF View, NoChange, mark_items_failed
  <2>4. pc' = "mark_commit" => Open \subseteq DOMAIN stage' /\ \A k \in DOMAIN stage' : stage'[k] = FAILED
    BY <2>1, NoChangeTyped DEF Open
  <2>5. Worked'
    BY <2>1, <2>2, <2>3, <2>4, InstancesAreKeys
       DEF RunInv, Worked, Regular, LoopPlaces, AgPlaces, COMPLETED, COMPLETED_WITH_ERRORS, FAILED
  <2>6. Read' /\ ClosedRunAgrees'
    BY <2>1 DEF RunInv, Read, ClosedRunAgrees, CompletedRunIsBacked, ClosedRunCounts, RUNNING, COMPLETED, CANCELLED, FAILED
  <2> QED BY <2>5, <2>6 DEF RunInv
<1>4. ASSUME items' = View, stage' = NoChange, pc' \in {"done", "agg_fail_session"}, UNCHANGED <<plan, recs, sess>>
      PROVE  Worked'
  <2>1. ASSUME NEW k \in ItemKeys PROVE items'[k] = View[k] /\ View'[k] = View[k] /\ (View[k] = ABSENT => items[k] = ABSENT)
    BY <1>4 DEF View, NoChange, TypeInv, TypeOK, ThreadTypeOK, TaskRunStatus, TERMINAL, IN_PROGRESS, ABSENT, PENDING, RUNNING,
           COMPLETED, COMPLETED_WITH_ERRORS, FAILED, CANCELLED
  <2> QED BY <1>4, <2>1, InstancesAreKeys DEF RunInv, Worked, Regular, LoopPlaces, AgPlaces
<1>5. View \in [ItemKeys -> TaskRunStatus \cup {ABSENT}] /\ runSeen \in TaskRun
  BY ViewTyped DEF TypeInv, TypeOK, ThreadTypeOK
<1>6. CASE FinalCommit("final_commit", NoOverride) /\ UNCHANGED session
  <2>1. /\ pc = "final_commit" /\ pc' = "done" /\ stage = NoChange /\ items' = View /\ stage' = NoChange
        /\ UNCHANGED <<plan, recs, sess>> /\ insts' = insts
        /\ run' = UpdateChanged(run, runSeen, finalize_run_with_summary(runSeen, View, NoOverride))
        /\ runSeen.status = RUNNING
    BY <1>6 DEF FinalCommit, TypeInv, Staged, RunInv, Read, insts
  <2>2. PICK r : r = write_summary(runSeen)
    OBVIOUS
  <2>3. r \in TaskRun /\ r.status = RUNNING
    BY <1>5, <2>1, <2>2 DEF write_summary, TaskRun
  <2>4. run' = UpdateChanged(run, runSeen, finalize_run(r, View))
    <3>1. PICK m : m = finalize_run(r, View)
      OBVIOUS
    <3>2. m = [m EXCEPT !.status = m.status]
      BY <3>1 DEF finalize_run
    <3>3. finalize_run_with_summary(runSeen, View, NoOverride) = [m EXCEPT !.status = m.status]
      BY <2>2, <3>1 DEF finalize_run_with_summary
    <3> QED BY <2>1, <3>1, <3>2, <3>3
  <2>5. /\ run'.status = IF Cardinality(ItemsIn(View, {FAILED, CANCELLED})) > 0 THEN FAILED ELSE COMPLETED
        /\ run'.progress_completed = Cardinality(ItemsIn(View, {COMPLETED}))
        /\ run'.progress_failed = Cardinality(ItemsIn(View, {FAILED, CANCELLED}))
    BY <1>5, <2>1, <2>3, <2>4, Finalised DEF RUNNING, FAILED
  <2>6. \A k \in ItemKeys : View[k] = items[k]
    BY <2>1 DEF View, NoChange
  <2>7. ItemsIn(View, IN_PROGRESS) = {}
    BY <1>5, <2>1, <2>6 DEF RunInv, Worked, Open, ItemsIn, TypeInv, TypeOK, ThreadTypeOK
  <2>8. ASSUME run'.status = COMPLETED
        PROVE  /\ \A i \in DOMAIN View : View[i] \in {ABSENT, COMPLETED}
               /\ \A i \in Instances : recs[i] \in {ABSENT, COMPLETED}
               /\ sess # NoSession => /\ sess.status \in {COMPLETED, CANCELLED}
                                      /\ sess.successful_instances = Cardinality(insts)
                                      /\ sess.failed_instances = 0
    <3>1. Cardinality(ItemsIn(View, {FAILED, CANCELLED})) = 0
      BY <1>5, <2>5, <2>8, ItemCounts DEF FAILED, COMPLETED
    <3>2. \A k \in ItemKeys : View[k] \in {ABSENT, COMPLETED}
      BY <1>5, <2>7, <3>1, NothingOpen DEF RunInv, Worked
    <3>3. \A i \in Instances : recs[i] \in {ABSENT, COMPLETED}
      BY <2>6, <3>2, InstancesAreKeys DEF RunInv, Worked
    <3>4. Failed = {} /\ Cardinality(Failed) = 0
      BY <3>3, FS_EmptySet DEF Failed, RecordsIn, TypeInv, TypeOK, ABSENT, FAILED, COMPLETED
    <3>5. ASSUME sess # NoSession
          PROVE  /\ sess.status \in {COMPLETED, CANCELLED} /\ Completed = insts /\ sess.failed_instances = 0
      <4>1. sess.status # ABSENT /\ \A i \in insts : recs[i] # ABSENT
        BY <2>1, <3>5 DEF TypeInv, Recorded, HandlerPlaces
      <4>2. \A i \in Instances \ insts : recs[i] = ABSENT
        BY DEF TypeInv, Recorded
      <4>3. Completed = insts
        BY <3>3, <4>1, <4>2 DEF Completed, RecordsIn, insts, TypeInv, TypeOK, ABSENT, COMPLETED
      <4> QED BY <2>1, <3>4, <4>1, <4>3 DEF SessionInv, Counted
    <3>6. sess # NoSession => sess.successful_instances = Cardinality(insts)
      BY <3>5 DEF SessionInv, SessionCountsRecords, Completed
    <3> QED BY <1>5, <3>2, <3>3, <3>5, <3>6
  <2>9. Read' /\ ClosedRunAgrees'
    BY <2>1, <2>5, <2>7, <2>8
       DEF Read, ClosedRunAgrees, CompletedRunIsBacked, ClosedRunCounts, COMPLETED, FAILED, COMPLETED_WITH_ERRORS, PENDING
  <2> QED BY <1>4, <2>1, <2>9 DEF RunInv
<1>7. CASE \E after \in {"done", "agg_fail_session"} : MarkCommit(after) /\ UNCHANGED session
  <2>1. /\ pc = "mark_commit" /\ pc' \in {"done", "agg_fail_session"} /\ items' = View /\ stage' = NoChange
        /\ UNCHANGED <<plan, recs, sess>>
        /\ run' = UpdateChanged(run, runSeen, mark_run_failed(runSeen, View))
    BY <1>7 DEF MarkCommit
  <2>2. PICK r : r = [runSeen EXCEPT !.status = FAILED]
    OBVIOUS
  <2>3. r \in TaskRun /\ r.status = FAILED
    BY <1>5, <2>2 DEF TaskRun, TaskRunStatus, TERMINAL
  <2>4. run' = UpdateChanged(run, runSeen, finalize_run(r, View))
    BY <2>1, <2>2 DEF mark_run_failed
  <2>5. /\ run'.status = FAILED
        /\ run'.progress_completed = Cardinality(ItemsIn(View, {COMPLETED}))
        /\ run'.progress_failed = Cardinality(ItemsIn(View, {FAILED, CANCELLED}))
    BY <1>5, <2>1, <2>3, <2>4, Finalised
  <2>6. ItemsIn(View, IN_PROGRESS) = {}
    <3>1. ASSUME NEW k \in ItemKeys, View[k] \in IN_PROGRESS PROVE FALSE
      <4>1. k \notin DOMAIN stage
        BY <2>1, <3>1 DEF RunInv, Worked, View, IN_PROGRESS, PENDING, RUNNING, FAILED
      <4>2. items[k] \in IN_PROGRESS
        BY <3>1, <4>1 DEF View
      <4> QED BY <2>1, <4>1, <4>2 DEF RunInv, Worked, Open, ItemsIn, TypeInv, TypeOK, ThreadTypeOK
    <3> QED BY <1>5, <3>1 DEF ItemsIn
  <2>7. Read' /\ ClosedRunAgrees'
    BY <2>1, <2>5, <2>6
      
                 DEF Read, ClosedRunAgrees, CompletedRunIsBacked, ClosedRunCounts, COMPLETED, FAILED, COMPLETED_WITH_ERRORS, PENDING,
                 CANCELLED
  <2> QED BY <1>4, <2>1, <2>7 DEF RunInv
<1> QED BY <1>1, <1>2, <1>3, <1>6, <1>7 DEF FinishRun, FailRun

-----------------------------------------------------------------------------
\* At first nothing is open and nothing is closed.
LEMMA RunInvInit == Init => RunInv
<1> SUFFICES ASSUME Init PROVE RunInv
  OBVIOUS
<1>1. /\ run.status = RUNNING /\ pc = "launched" /\ stage = NoChange /\ sess = NoSession
      /\ items = [k \in ItemKeys |-> ABSENT] /\ recs = [i \in Instances |-> ABSENT]
  BY DEF Init, TaskInit, ThreadInit, start_run, init_items
<1>2. Open = {} /\ \A k \in ItemKeys : View[k] = ABSENT
  BY <1>1 DEF Open, ItemsIn, IN_PROGRESS, View, NoChange, ABSENT, PENDING, RUNNING
<1> QED BY <1>1, <1>2, InstancesAreKeys
        DEF RunInv, Worked, Read, ClosedRunAgrees, CompletedRunIsBacked, ClosedRunCounts, ABSENT, RUNNING, PENDING, COMPLETED,
            COMPLETED_WITH_ERRORS, FAILED, CANCELLED

\* Every step of every task, and every request, keeps it.
LEMMA RunInvKept == TypeInv /\ SessionInv /\ RunInv /\ [Next]_vars => RunInv'
<1> SUFFICES ASSUME TypeInv, SessionInv, RunInv, [Next]_vars PROVE RunInv'
  OBVIOUS
<1>1. CASE \/ task # "calculate_database" /\ (Unreachable \/ Collected \/ OnlyInventory \/ AlertsFail \/ Fallback)
           \/ \E ok \in BOOLEAN : task # "calculate_database" /\ SyncInstance(ok)
           \/ \E ok \in BOOLEAN : AggInstance(ok)
  BY <1>1, Finishes, SessionStepsKeepRun
<1>2. CASE CommonStep
  BY <1>2, InitItemsKeepRun, SessionStepsKeepRun, TurnsKeepRun, ItemsKeepRun, FinalsKeepRun DEF CommonStep
<1>3. CASE task = "sync_accounts" /\ AccountsStep
  BY <1>1, <1>3, TurnsKeepRun, ItemsKeepRun, FinalsKeepRun, EndingsKeepRun DEF AccountsStep, AgStart
<1>4. CASE task = "sync_databases" /\ CollectionStep
  BY <1>1, <1>4, TurnsKeepRun, FinalsKeepRun, EndingsKeepRun DEF CollectionStep
<1>5. CASE task = "calculate_database" /\ AggStep
  BY <1>1, <1>5, TurnsKeepRun, SessionStepsKeepRun, FinalsKeepRun DEF AggStep
<1>6. CASE TaskRaises \/ TaskDies
  BY <1>6, EndingsKeepRun DEF TaskRaises
<1>7. CASE \E c \in RunCancels : RunCancel(c)
  BY <1>7, TurnsKeepRun, CancelKeepsRun DEF RunCancel, RunCancelStep
<1>8. CASE (\E s \in SessionCancels : SessionCancelStep(s)) \/ Terminating \/ UNCHANGED vars
  BY <1>8, SessionCancelKeepsRun, TurnsKeepRun DEF Terminating
<1> QED BY <1>2, <1>3, <1>4, <1>5, <1>6, <1>7, <1>8 DEF Next, TaskStep, Request

-----------------------------------------------------------------------------
\* The three together are inductive.
LEMMA InvAlways == Spec => []Inv
<1>1. Init => Inv
  BY TypeInvInit, SessionInvInit, RunInvInit DEF Inv
<1>2. Inv /\ [Next]_vars => Inv'
  BY TypeInvKept, SessionInvKept, RunInvKept DEF Inv
<1> QED BY <1>1, <1>2, PTL DEF Spec

\* The rows and the locals of the three tasks with a session are always of their
\* kinds (accounts_sync_tasks, capacity_collection_tasks and
\* capacity_aggregation_tasks, with the requests of the task run centre).
THEOREM SessionTasksTyped == Spec => []TypeOK
<1>1. Inv => TypeOK
  BY DEF Inv, TypeInv
<1> QED BY <1>1, InvAlways, PTL

\* The counters of a session are those of its records, although the task writes
\* them from a session row it loaded before the work on the instance, and a
\* session that reads "completed" when the task has returned has no failed record.
THEOREM SessionsAgree == Spec => []SessionAgrees
<1>1. Inv => SessionCountsRecords
  BY DEF Inv, SessionInv
<1>2. Inv => CompletedSessionHasNoFailure
  BY DEF Inv, SessionInv, NoFailure, CompletedSessionHasNoFailure, Failed
<1>3. Inv => SessionAgrees
  BY <1>1, <1>2 DEF SessionAgrees
<1> QED BY <1>3, InvAlways, PTL

\* A run in a final status agrees with its items and with its session, however
\* cancellations of the run, of the session, exceptions and the end of the process
\* interleave with the task.
THEOREM ClosedRunsAgree == Spec => []ClosedRunAgrees
<1>1. Inv => ClosedRunAgrees
  BY DEF Inv, RunInv
<1> QED BY <1>1, InvAlways, PTL

-----------------------------------------------------------------------------
(* The promise of the task run centre.                                     *)

\* The final statuses a task may write, and the thread as one of the writers
\* that have read "running".
Closed == {COMPLETED, COMPLETED_WITH_ERRORS, FAILED}
ThreadHolds == pc \in AtWrite /\ runSeen.status = RUNNING

\* What a step of the thread may do about the status of the run.
ThreadMove ==
    /\ UNCHANGED cpc
    /\ \/ run'.status = run.status /\ (ThreadHolds' => ThreadHolds \/ run.status = RUNNING)
       \/ ThreadHolds /\ ~ThreadHolds' /\ run'.status \in Closed

\* The requests that have read "running".
Requesting == {c \in RunCancels : cpc[c] \in {"flush", "commit"}}

LEMMA Holders ==
    /\ Holding = IF ThreadHolds THEN Requesting \cup {Thread} ELSE Requesting
    /\ Holding' = IF ThreadHolds' THEN Requesting' \cup {Thread} ELSE Requesting'
    /\ Thread \notin Requesting /\ Thread \notin Requesting'
  BY ThreadIsNoRequest DEF Holding, ThreadHolds, Requesting

\* The thread reads, writes or gives up, or nothing happens.
LEMMA ThreadMoveAllowed == ThreadMove => [Centre!Next]_(Centre!statusVars)
<1> SUFFICES ASSUME ThreadMove PROVE [Centre!Next]_(Centre!statusVars)
  OBVIOUS
<1>0. Requesting' = Requesting
  BY DEF ThreadMove, Requesting
<1>1. CASE run'.status = run.status /\ (ThreadHolds' => ThreadHolds \/ run.status = RUNNING)
  <2>1. CASE ThreadHolds' <=> ThreadHolds
    BY <1>0, <1>1, <2>1, Holders DEF Centre!statusVars
  <2>2. CASE ThreadHolds /\ ~ThreadHolds'
    <3>1. Centre!GiveUp(Thread)
      BY <1>0, <1>1, <2>2, Holders DEF Centre!GiveUp
    <3> QED BY <3>1 DEF Centre!Next
  <2>3. CASE ~ThreadHolds /\ ThreadHolds'
    <3>1. Centre!Read(Thread)
      BY <1>0, <1>1, <2>3, Holders DEF Centre!Read, RUNNING, Centre!RUNNING
    <3> QED BY <3>1 DEF Centre!Next
  <2> QED BY <2>1, <2>2, <2>3
<1>2. CASE ThreadHolds /\ ~ThreadHolds' /\ run'.status \in Closed
  <2>1. Centre!Write(Thread)
    BY <1>0, <1>2, Holders DEF Centre!Write, Centre!Verdicts, Closed, COMPLETED, COMPLETED_WITH_ERRORS, FAILED,
       Centre!COMPLETED, Centre!COMPLETED_WITH_ERRORS, Centre!FAILED
  <2> QED BY <2>1 DEF Centre!Next
<1> QED BY <1>1, <1>2 DEF ThreadMove

\* A step of the thread that keeps away from the status and from the places
\* where it is about to be written.
LEMMA AwayFromStatus ==
    ASSUME run'.status = run.status, UNCHANGED cpc, pc' \notin AtWrite
    PROVE  ThreadMove
  BY DEF ThreadMove, ThreadHolds

\* The reads before a status is written.
LEMMA ReadsMove ==
    ASSUME NEW after, FinalRead("final_read", "final_commit") \/ MarkRead("mark_read", after), after \notin AtWrite, Read
    PROVE  ThreadMove
  BY DEF FinalRead, MarkRead, runRows, cancels, ThreadMove, ThreadHolds, AtWrite, Read, RUNNING, CANCELLED

\* What finalize_run makes of a row's status.
LEMMA FinalStatus ==
    ASSUME NEW r, NEW its
    PROVE  finalize_run(r, its).status \in {r.status, COMPLETED, FAILED}
  BY DEF finalize_run

\* The commits that write it: the row was read as running.
LEMMA CommitsMove ==
    ASSUME NEW after, after \notin AtWrite, Read, runSeen \in TaskRun,
           FinalCommit("final_commit", NoOverride) \/ MarkCommit(after)
    PROVE  ThreadMove
<1>1. UNCHANGED <<runSeen, cpc>> /\ ThreadHolds /\ ~ThreadHolds'
  BY DEF FinalCommit, MarkCommit, ThreadHolds, Read, AtWrite, cancels
<1>2. CASE FinalCommit("final_commit", NoOverride)
  <2>1. PICK mine : mine = finalize_run(write_summary(runSeen), View)
    OBVIOUS
  <2>2. write_summary(runSeen).status = RUNNING
    BY <1>1 DEF write_summary, TaskRun, ThreadHolds
  <2>3. mine.status \in {COMPLETED, FAILED}
    BY <2>1, <2>2 DEF finalize_run, RUNNING, CANCELLED, FAILED
  <2>4. finalize_run_with_summary(runSeen, View, NoOverride).status = mine.status
    BY <2>1 DEF finalize_run_with_summary, finalize_run
  <2>5. run'.status = mine.status
    BY <1>1, <1>2, <2>3, <2>4 DEF FinalCommit, UpdateChanged, ThreadHolds, RUNNING, COMPLETED, FAILED
  <2> QED BY <1>1, <2>3, <2>5 DEF ThreadMove, Closed
<1>3. CASE MarkCommit(after)
  <2>1. [runSeen EXCEPT !.status = FAILED].status = FAILED
    BY DEF TaskRun
  <2>2. mark_run_failed(runSeen, View).status = FAILED
    BY <2>1 DEF mark_run_failed, finalize_run
  <2>3. run'.status = FAILED
    BY <1>1, <1>3, <2>2 DEF MarkCommit, UpdateChanged, ThreadHolds, RUNNING, FAILED
  <2> QED BY <1>1, <2>3 DEF ThreadMove, Closed
<1> QED BY <1>2, <1>3

\* Every step of the thread is such a move.
LEMMA StepsMove ==
    ASSUME Inv, TaskStep \/ TaskRaises \/ TaskDies
    PROVE  ThreadMove
<1> USE AwayFromStatus DEF plan, runRows, cancels, AtWrite
<1>0. Read /\ runSeen \in TaskRun /\ run \in TaskRun
  BY DEF Inv, RunInv, TypeInv, TypeOK, ThreadTypeOK
<1>1. CASE CommonStep
  <2>1. CASE InitItems("init_items", "create_session")
    <3>1. run'.status = run.status
      BY <1>0, <2>1 DEF InitItems, TaskRun
    <3> QED BY <2>1, <3>1 DEF InitItems
  <2>2. CASE CreateSession \/ LoopNext \/ StartRead \/ StartCommit \/ StartRecord \/ ItemRead \/ ItemCommit \/ FinishSession
    BY <2>2 DEF CreateSession, BeginLoop, LoopNext, TakeNext, StartRead, LoadItem, StartCommit, CommitItems, StartRecord,
       Goto, ItemRead, ItemCommit, FinishSession
  <2>3. CASE FinishRun
    BY <1>0, <2>3, ReadsMove, CommitsMove DEF FinishRun
  <2> QED BY <1>1, <2>1, <2>2, <2>3 DEF CommonStep
<1>2. CASE \E after \in {"done", "agg_fail_session"} : FailRun(after)
  BY <1>0, <1>2, ReadsMove, CommitsMove DEF FailRun
<1>3. CASE FailSession \/ \E after \in {"ag_check", "agg_check", "finish_session"} : LoopExit(after)
  BY <1>3 DEF FailSession, CommitItems, LoopExit, Goto
<1>4. CASE AccountsStep
  BY <1>2, <1>3, <1>4 DEF AccountsStep, CheckStart, SyncInstance, AlertsFail, FinishInstance, AgSync, AgCheck, AgStart, AgCommit, AgDone,
     Goto, BeginLoop, TakeNext, LoadItem, CommitItems
<1>5. CASE CollectionStep
  BY <1>2, <1>3, <1>5 DEF CollectionStep, CollectionStart, Unreachable, Collected, OnlyInventory, Fallback, FinishInstance, Goto
<1>6. CASE AggStep
  <2>1. CASE AggRecount
    <3>1. run.status = CANCELLED
      BY <1>0, <2>1 DEF AggRecount, RecountCancelled, Read
    <3>2. run'.status = run.status
      BY <2>1, <3>1 DEF AggRecount, RecountCancelled, finalize_run
    <3> QED BY <2>1, <3>2 DEF AggRecount, RecountCancelled
  <2>2. CASE AggCheck \/ AggFailSession \/ (\E skip \in BOOLEAN : AggStart(skip)) \/ (\E ok \in BOOLEAN : AggInstance(ok))
    BY <2>2 DEF AggCheck, CheckCancelled, AggFailSession, AggStart, AggInstance, FinishInstance, Goto
  <2> QED BY <1>2, <1>3, <1>6, <2>1, <2>2 DEF AggStep
<1>7. CASE TaskRaises
  BY <1>7 DEF TaskRaises, AccountsRaises, RecordsFail, CollectionRaises, AggRaises, Raise, Goto
<1>8. CASE TaskDies
  BY <1>8 DEF TaskDies, Die
<1> QED BY <1>1, <1>4, <1>5, <1>6, <1>7, <1>8 DEF TaskStep

\* A request reads and writes as the promise says; a request about the session
\* has nothing to do with the run.
LEMMA RequestsMove ==
    ASSUME Inv, Request
    PROVE  [Centre!Next]_(Centre!statusVars)
<1>1. UNCHANGED <<pc, runSeen>>
  BY DEF Request, RunCancel, RunCancelStep, CancelRead, CancelFlush, CancelCommit, SessionCancelStep, SessionCancelRead,
         SessionCancelWrite, threadVars
<1>2. ThreadHolds' <=> ThreadHolds
  BY <1>1 DEF ThreadHolds
<1>3. cpc \in [RunCancels -> {"read", "flush", "commit", "refused", "done"}] /\ run \in TaskRun
  BY DEF Inv, TypeInv, TypeOK, ThreadTypeOK
<1>4. ASSUME NEW c \in RunCancels, CancelRead(c) PROVE [Centre!Next]_(Centre!statusVars)
  <2>0. c # Thread /\ UNCHANGED run
    BY <1>4, ThreadIsNoRequest DEF CancelRead, runRows
  <2>1. CASE run.status = RUNNING
    <3>1. Requesting' = Requesting \cup {c}
      BY <1>3, <1>4, <2>1 DEF CancelRead, Requesting
    <3>2. Centre!Read(c)
      BY <1>2, <2>0, <2>1, <3>1, Holders DEF Centre!Read, RUNNING, Centre!RUNNING
    <3> QED BY <3>2 DEF Centre!Next
  <2>2. CASE run.status # RUNNING
    <3>1. Requesting' = Requesting
      BY <1>3, <1>4, <2>2 DEF CancelRead, Requesting
    <3> QED BY <1>2, <2>0, <3>1, Holders DEF Centre!statusVars
  <2> QED BY <2>1, <2>2
<1>5. ASSUME NEW c \in RunCancels, CancelFlush(c) PROVE [Centre!Next]_(Centre!statusVars)
  <2>1. Requesting' = Requesting /\ UNCHANGED run
    BY <1>3, <1>5 DEF CancelFlush, Requesting, runRows
  <2> QED BY <1>2, <2>1, Holders DEF Centre!statusVars
<1>6. ASSUME NEW c \in RunCancels, CancelCommit(c) PROVE [Centre!Next]_(Centre!statusVars)
  <2>1. c \in Requesting /\ Requesting' = Requesting \ {c} /\ run'.status = CANCELLED /\ c # Thread
    BY <1>3, <1>6, ThreadIsNoRequest DEF CancelCommit, Requesting, TaskRun
  <2>2. Centre!Write(c)
    BY <1>2, <2>1, Holders DEF Centre!Write, Centre!Verdicts, CANCELLED, Centre!CANCELLED
  <2> QED BY <2>2 DEF Centre!Next
<1>7. ASSUME NEW s \in SessionCancels, SessionCancelStep(s) PROVE [Centre!Next]_(Centre!statusVars)
  <2>1. UNCHANGED <<run, cpc>>
    BY <1>7 DEF SessionCancelStep, SessionCancelRead, SessionCancelWrite, threadVars, runRows, cancels
  <2>2. Requesting' = Requesting
    BY <2>1 DEF Requesting
  <2> QED BY <1>2, <2>1, <2>2, Holders DEF Centre!statusVars
<1> QED BY <1>4, <1>5, <1>6, <1>7 DEF Request, RunCancel, RunCancelStep

\* The tasks that keep a session implement TaskRunCentre, for any number of
\* instances, clusters and requests and wherever the task fails: the recount of
\* a cancelled run, the handlers that mark a run as failed and the requests of
\* both kinds never write the status without having read "running", never twice,
\* and never make a run running again.
THEOREM SessionTasksKeepPromise == Spec => KeepsPromise
<1>1. Init => Centre!Init
  <2> SUFFICES ASSUME Init PROVE Centre!Init
    OBVIOUS
  <2>1. run.status = RUNNING /\ pc = "launched" /\ \A c \in RunCancels : cpc[c] = "read"
    BY DEF Init, TaskInit, ThreadInit, start_run
  <2> QED BY <2>1 DEF Centre!Init, Holding, AtWrite, RUNNING, Centre!RUNNING
<1>2. Inv /\ [Next]_vars => [Centre!Next]_(Centre!statusVars)
  <2> SUFFICES ASSUME Inv, [Next]_vars PROVE [Centre!Next]_(Centre!statusVars)
    OBVIOUS
  <2>1. CASE TaskStep \/ TaskRaises \/ TaskDies
    BY <2>1, StepsMove, ThreadMoveAllowed
  <2>2. CASE UNCHANGED vars
    <3>1. UNCHANGED <<run, runSeen, pc, cpc>>
      BY <2>2 DEF vars, threadVars, runRows, cancels
    <3>2. UNCHANGED Holding
      BY <3>1 DEF Holding
    <3> QED BY <3>1, <3>2 DEF Centre!statusVars
  <2> QED BY <2>1, <2>2, RequestsMove DEF Next, Terminating
<1> QED BY <1>1, <1>2, InvAlways, PTL DEF Spec, KeepsPromise, Centre!Spec
=============================================================================
