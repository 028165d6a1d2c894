---------------------------- MODULE ServerSyncs -----------------------------
(* Four tasks that read another server and keep what they found: the status *)
(* of the clusters, the principals of the domains, the assets of JumpServer, *)
(* the backups of Veeam.                                                     *)
EXTENDS RunTask

\* The sync_cluster_status task: the replication status of every enabled
\* cluster is read and an event recorded, with the item, for what is
\* wrong.  An error of one cluster becomes a failed result; everything
\* else that goes wrong fails the run.

ClusterStep == SerialLoop \/ SerialFinal \/ FailRun

\* The handler rolls back, then fails the run.
ClusterRaises ==
    /\ Raise({"launched", "begin", "loop", "start", "start_commit", "work", "settle",
              "final_read", "final_commit"}, NoChange, "mark_read")
    /\ UNCHANGED effects

-----------------------------------------------------------------------------
\* The sync_ad_accounts task: the principals of every enabled domain are
\* fetched and matched with the accounts.  The exceptions of a directory
\* fail the domain; those of the database are not among the ones it
\* catches, and the task has no handler around its loop.

ADStep == SerialLoop \/ SerialFinal

\* An error of the database leaves the task: nothing is written any more.
ADEscapes ==
    /\ Raise({"launched", "begin", "loop", "start", "start_commit", "work", "settle",
              "final_read", "final_commit"}, NoChange, "escaped")
    /\ UNCHANGED effects

-----------------------------------------------------------------------------
\* The JumpServer asset synchronisation: one item, one transaction.  The
\* item is started in the ORM session only, the assets are fetched, and
\* then everything is written and committed at once.

\* The run is created with its only item.
JumpServerInit == \E k \in PlainKeys : keys = {k} /\ ThreadInit(keys)

\* The binding is gone or its credential has changed since the request: the
\* exception is raised before the try block and ends the thread.
JsRefuse ==
    /\ MayRaise
    /\ Goto("launched", "escaped")
    /\ UNCHANGED effects

\* start_item, not flushed before the assets have been fetched.
JsStart ==
    /\ pc = "launched"
    /\ cur' \in keys
    /\ stage' = Change(cur', start_item(items[cur']))
    /\ pc' = "js_remote"
    /\ UNCHANGED <<plan, runRows, todo, runSeen, totals, cancels, effects>>

\* The item, its change flushed, is given its outcome and the run is read.
JsLoad(st, ok) ==
    /\ stage' = [k \in {k \in {cur} : items[k] # st} |-> st]
    /\ runSeen' = run
    /\ verdict' = Verdict(ok)
    /\ pc' = "js_close"
    /\ UNCHANGED <<plan, runRows, focus, totals, cancels, effect>>

\* The assets replace the snapshots.
JsFetched == pc = "js_remote" /\ JsLoad(complete_item(View[cur]), TRUE)

\* Anything that goes wrong: the handler rolls back and reads the item again.
JsFailed ==
    /\ MayRaise
    /\ pc = "js_remote" \/ (pc = "js_close" /\ verdict = COMPLETED)
    /\ JsLoad(fail_item(items[cur]), FALSE)

\* The binding cannot be read again, or the handler's own transaction fails.
JsLost ==
    /\ Raise({"js_remote", "js_close"}, NoChange, "escaped")
    /\ UNCHANGED effects

\* Binding, item, summary and run are committed together; the counters of a
\* cancelled run are written too.
JsClose ==
    /\ pc = "js_close"
    /\ ~RunLocked
    /\ run' = UpdateChanged(run, runSeen,
                  finalize_run(IF runSeen.status = CANCELLED THEN runSeen
                               ELSE write_summary(runSeen), View))
    /\ items' = View
    /\ stage' = NoChange
    /\ effect' = [effect EXCEPT ![cur] = verdict]
    /\ pc' = "done"
    /\ UNCHANGED <<plan, focus, runSeen, totals, cancels, verdict>>

JumpServerStep == JsStart \/ JsFetched \/ JsClose
JumpServerRaises == JsRefuse \/ JsFailed \/ JsLost

-----------------------------------------------------------------------------
\* The Veeam backup synchronisation: one item per enabled source and stage,
\* created with the run.  The thread lists the enabled sources again; with one
\* source the items carry no source prefix, so a source switched on or off in
\* between changes the keys the thread looks for.

CONSTANT Only       \* the subject of the items of a run with a single source

ASSUME OnlyIsSubject == Only \in Subjects

\* The stages of a source, and the key that stands for the source itself.
Stages(s) == {s} \X (1..LastStage)
SourceKey(k) == <<k[1], LastStage>>

\* _build_stage_items_for_bindings: the subjects of the items for some sources.
Prefixes(sources) == IF Cardinality(sources) > 1 THEN sources ELSE {Only}

\* prepare_background_sync: at least one source, and the run with all its items.
VeeamInit ==
    \E sources \in (SUBSET (Subjects \ {Only})) \ {{}} :
        /\ keys = UNION {Stages(s) : s \in Prefixes(sources)}
        /\ ThreadInit(keys)

\* The manual thread starts before the request commits: it finds no run and no
\* item, and every write it attempts fails.
VbEarly ==
    /\ MayRaise
    /\ Goto("launched", "escaped")
    /\ UNCHANGED effects

\* _sync_once: the sources that are enabled now.  Without one the thread ends.
\* The items of a prepared source that is not among them are never touched.
VbSources(sources) ==
    /\ pc = "launched"
    /\ IF sources = {} THEN pc' = "escaped" /\ UNCHANGED <<todo, effect>>
       ELSE /\ pc' = "vb_source"
            /\ todo' = Prefixes(sources) \X {1}
            /\ effect' = [k \in ItemKeys |-> IF k \in keys /\ k[1] \notin Prefixes(sources)
                                             THEN "skipped" ELSE effect[k]]
    /\ UNCHANGED <<plan, runRows, cur, runSeen, stage, totals, cancels, verdict>>

\* The next source.
VbTake == TakeNext("vb_source", "vb_check") /\ UNCHANGED effects

\* A source fails without a trace in its items: its credential is gone, or the
\* items its keys name were never created.
VbSkipSource ==
    /\ pc = "vb_check"
    /\ MayRaise \/ items[cur] = ABSENT
    /\ failed' = failed + 1
    /\ effect' = [k \in ItemKeys |-> IF k \in Stages(cur[1]) /\ k \in keys THEN "skipped" ELSE effect[k]]
    /\ pc' = "vb_source"
    /\ UNCHANGED <<plan, runRows, focus, runSeen, stage, synced, cancels, verdict>>

VbEnter ==
    /\ pc = "vb_check"
    /\ items[cur] # ABSENT
    /\ Goto("vb_check", "vb_stage")
    /\ UNCHANGED effects

\* _start_stage and _complete_stage; the last stage is closed below.
VbStage ==
    /\ \/ pc = "vb_stage" /\ LoadItem("vb_stage", start_item(items[cur]), "vb_stage_commit")
       \/ CommitItems("vb_stage_commit", "vb_work")
       \/ /\ pc = "vb_work" /\ cur[2] < LastStage
          /\ LoadItem("vb_work", complete_item(items[cur]), "vb_stage_done")
    /\ UNCHANGED effects

VbNextStage ==
    /\ pc = "vb_stage_done"
    /\ items' = View
    /\ stage' = NoChange
    /\ cur' = <<cur[1], cur[2] + 1>>
    /\ pc' = "vb_stage"
    /\ UNCHANGED <<plan, run, todo, runSeen, totals, cancels, effects>>

\* What the transaction that ends a source has flushed: new holds statuses.
VbLoad(new, ok) ==
    /\ stage' = [k \in {k \in DOMAIN new : new[k] # items[k]} |-> new[k]]
    /\ runSeen' = run
    /\ verdict' = Verdict(ok)
    /\ pc' = "vb_close"
    /\ UNCHANGED <<plan, runRows, focus, totals, cancels, effect>>

\* The last stage: the snapshots are written and the source is up to date.
VbWritten ==
    /\ pc = "vb_work" /\ cur[2] = LastStage
    /\ VbLoad([k \in {cur} |-> complete_item(items[k])], TRUE)

\* Mutant of VbFailed: the stages that follow stay as they are.
VbFailedAlone ==
    /\ MayRaise
    /\ pc \in {"vb_stage", "vb_stage_commit", "vb_work", "vb_stage_done"}
    /\ VbLoad([k \in {cur} |-> fail_item(items[k])], FALSE)

\* Any exception fails the current stage and cancels the ones that follow.
VbFailed ==
    /\ MayRaise
    /\ \/ pc \in {"vb_stage", "vb_stage_commit", "vb_work", "vb_stage_done"}
       \/ pc = "vb_close" /\ verdict = COMPLETED
    /\ VbLoad([k \in {k \in Stages(cur[1]) : k[2] >= cur[2]} |->
                  IF k = cur THEN fail_item(items[k]) ELSE cancel_item(items[k])], FALSE)

\* The status of the source and its items are committed; the run of a single
\* source is finalised in the same transaction, unless it was cancelled.
VbClose ==
    /\ pc = "vb_close"
    /\ IF cur[1] = Only /\ runSeen.status # CANCELLED
       THEN /\ ~RunLocked
            /\ run' = UpdateChanged(run, runSeen, finalize_run_with_summary(runSeen, View, NoOverride))
       ELSE UNCHANGED run
    /\ items' = View
    /\ stage' = NoChange
    /\ effect' = [effect EXCEPT ![SourceKey(cur)] = verdict]
    /\ synced' = synced + (IF verdict = COMPLETED THEN 1 ELSE 0)
    /\ failed' = failed + (IF verdict = COMPLETED THEN 0 ELSE 1)
    /\ pc' = "vb_source"
    /\ UNCHANGED <<plan, focus, runSeen, cancels, verdict>>

\* The handler's own transaction fails: the source counts as failed, and the
\* session is not usable any more.
VbLost ==
    /\ Raise({"vb_close", "vb_final_read", "vb_final_commit"}, NoChange, "escaped")
    /\ UNCHANGED effects

\* All sources are done.  With several of them the run is finalised now, and
\* is "completed" as soon as one of them succeeded.
VbDone ==
    /\ todo = {}
    /\ Goto("vb_source", IF cur[1] = Only THEN "vb_append" ELSE "vb_final_read")
    /\ UNCHANGED effects

VbFinal ==
    /\ \/ FinalRead("vb_final_read", "vb_final_commit")
       \/ FinalCommit("vb_final_commit", IF synced > 0 /\ failed > 0 THEN COMPLETED ELSE NoOverride)
    /\ UNCHANGED effects

\* append_sources_to_run_summary, after the run of the single source has been
\* finalised, or has been left running by a source that could not start.
VbAppend ==
    /\ pc = "vb_append"
    /\ ~RunLocked
    /\ run' = IF run.status = CANCELLED THEN run ELSE write_summary(run)
    /\ pc' = IF run.status = RUNNING THEN "escaped" ELSE "done"
    /\ UNCHANGED <<plan, items, focus, runSeen, stage, totals, cancels, effects>>

VeeamStep ==
    \/ \E sources \in SUBSET (Subjects \ {Only}) : VbSources(sources)
    \/ VbTake \/ VbSkipSource \/ VbEnter \/ VbStage \/ VbNextStage
    \/ VbWritten \/ VbClose \/ VbDone \/ VbFinal \/ VbAppend

VeeamRaises == VbEarly \/ VbFailed \/ VbLost
=============================================================================
