------------------------------ MODULE RunTask ------------------------------
(***************************************************************************)
(* The tasks without a sync session.  Besides its items such a task leaves *)
(* something behind for every key it works on (the status of a source, an  *)
(* event, a statistic), committed together with the item or at the end.    *)
(*                                                                         *)
(* A key is a pair <<subject, stage>>.  Only Veeam synchronisation has     *)
(* several stages; the other tasks use the last one.                       *)
(***************************************************************************)
EXTENDS TaskThread

CONSTANTS
    Subjects,       \* what the items are about: clusters, domains, sources, rules, instances
    LastStage       \* the number of stages of a Veeam synchronisation

ASSUME StagesPositive == LastStage \in Nat \ {0}
ASSUME KeysArePairs == ItemKeys = Subjects \X (1..LastStage)

VARIABLES
    effect,     \* what has been committed about a key besides its item
    verdict     \* the outcome the thread is about to commit for the current key

effects == <<effect, verdict>>
vars == <<threadVars, effects>>

\* The keys of tasks with one stage.
PlainKeys == Subjects \X {LastStage}

EffectInit == effect = [k \in ItemKeys |-> "none"] /\ verdict = "none"

Verdict(ok) == IF ok THEN COMPLETED ELSE FAILED

\* The outcome of the current item is known: its row is loaded.
Decide(at, ok, after) ==
    /\ pc = at
    /\ LoadOutcome(at, ok, after)
    /\ verdict' = Verdict(ok)
    /\ UNCHANGED effect

\* Mutant of Settle: the effect is written as if the work had succeeded.
SettleUnchecked(at, after) ==
    /\ CommitItems(at, after)
    /\ effect' = [effect EXCEPT ![cur] = COMPLETED]
    /\ UNCHANGED verdict

\* Item and effect are committed in one transaction.
Settle(at, after) ==
    /\ CommitItems(at, after)
    /\ effect' = [effect EXCEPT ![cur] = verdict]
    /\ UNCHANGED verdict

\* A loop over the keys of the run, without a question whether it has been
\* cancelled: start_item and its commit, the work, the outcome and its commit.
SerialLoop ==
    \/ /\ \/ InitItems("launched", "begin")
          \/ BeginLoop("begin", keys, "loop")
          \/ TakeNext("loop", "start")
          \/ pc = "start" /\ LoadItem("start", start_item(items[cur]), "start_commit")
          \/ CommitItems("start_commit", "work")
          \/ todo = {} /\ Goto("loop", "final_read")
       /\ UNCHANGED effects
    \/ \E ok \in BOOLEAN : Decide("work", ok, "settle")
    \/ Settle("settle", "loop")

\* status_override of the tasks that tell partial from total failure.
PartialFailure == IF synced > 0 /\ failed > 0 THEN COMPLETED_WITH_ERRORS ELSE NoOverride

SerialFinal ==
    /\ \/ FinalRead("final_read", "final_commit")
       \/ FinalCommit("final_commit", PartialFailure)
    /\ UNCHANGED effects

\* mark_run_failed and its commit, the end of most failure handlers.
FailRun ==
    /\ MarkRead("mark_read", "done") \/ MarkCommit("done")
    /\ UNCHANGED effects
=============================================================================
