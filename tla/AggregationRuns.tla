--------------------------- MODULE AggregationRuns ---------------------------
(* AggregationService and its two runners under their three callers: the     *)
(* nightly run (calculate_database), the aggregation of the current day, and *)
(* the capacity synchronisation of one instance.  A unit is what a runner    *)
(* does for one instance and one period, in a savepoint.  The question is    *)
(* what the result says when units fail in different ways, and what of them  *)
(* is committed.  What a unit stores is in CapacityData.                     *)
EXTENDS Naturals, FiniteSets, Sequences, SequencesExt

CONSTANTS LastInstance      \* the active instances are 1..LastInstance

ASSUME AggregationAssumption == LastInstance \in Nat

Allowed == <<"daily", "weekly">>            \* period_types; the others behave like weekly
AllPeriods == ToSet(Allowed)
Unit == [kind : {"instance", "database"}, period : AllPeriods, instance : 1..LastInstance]

VARIABLES
    caller,     \* "nightly", "current" or "single"
    plan,       \* what is left, in groups that are committed together
    told,       \* unit -> what its summary says
    stored,     \* units whose rows are in the transaction
    kept,       \* units whose rows are committed
    broken,     \* a statement failed outside of a savepoint: the next ones fail too
    overtaken,  \* units told failed because of a later period of their instance
    phase       \* "work", then "ended", "cancelled" or "escaped"

aggregationVars == <<caller, plan, told, stored, kept, broken, overtaken, phase>>

\* In the order of the allowed periods, each once.
Ordered(periods) ==
    CASE periods = {} -> <<>>
      [] periods = AllPeriods -> Allowed
      [] OTHER -> <<CHOOSE p \in periods : TRUE>>

\* Unknown periods are ignored, and a request without a known one means all.
select_periods(requested) ==
    LET known == requested \cap AllPeriods
    IN  Ordered(IF known = {} THEN AllPeriods ELSE known)

\* Only a scheduled run without a request passes over what is aggregated.
filter_periods_already_aggregated(periods, done) == Ordered(periods \ done)

Of(kind, p, i) == [kind |-> kind, period |-> p, instance |-> i]
Everyone(kind, p) == [i \in 1..LastInstance |-> Of(kind, p, i)]

\* One of the sequences after the other: there are one or two of them.
Joined(seqs) == IF Len(seqs) = 1 THEN seqs[1] ELSE seqs[1] \o seqs[2]

\* Each instance over its periods, then the databases of all of them.
NightlyPlan(periods) ==
    [i \in 1..LastInstance |-> [k \in DOMAIN periods |-> Of("instance", periods[k], i)]]
    \o <<Joined([k \in DOMAIN periods |-> Everyone("database", periods[k])])>>

(* Today, for a scope: the callbacks of the runners commit after each unit.  *)
_normalize_scope(scope) ==
    CASE scope = "all" -> <<"database", "instance">>
      [] OTHER -> <<scope>>
CurrentPlan(scope) ==
    LET kinds == _normalize_scope(scope)
        units == Joined([k \in DOMAIN kinds |-> Everyone(kinds[k], "daily")])
    IN  [k \in DOMAIN units |-> <<units[k]>>]

\* After the sizes were stored, in the transaction of the request.
SinglePlan(i) == << <<Of("database", "daily", i), Of("instance", "daily", i)>> >>

AggregationInit ==
    /\ \/ /\ caller = "nightly"
          /\ \E requested \in SUBSET {"daily", "weekly", "yearly"}, done \in SUBSET AllPeriods, manual \in BOOLEAN :
               LET periods == IF requested = {} /\ ~manual
                              THEN filter_periods_already_aggregated(AllPeriods, done)
                              ELSE select_periods(requested)
               IN  periods # <<>> /\ plan = NightlyPlan(periods)
       \/ caller = "current" /\ \E scope \in {"all", "instance", "database"} : plan = CurrentPlan(scope)
       \/ caller = "single" /\ \E i \in 1..LastInstance : plan = SinglePlan(i)
    /\ told = [u \in Unit |-> "nothing"]
    /\ stored = {} /\ kept = {} /\ overtaken = {}
    /\ broken = FALSE /\ phase = "work"

----------------------------------------------------------------------------
Group == Head(plan)
Next_unit == Head(Group)

(* A query that fails and, in the databases' runner, an unexpected value are *)
(* among the exceptions the service catches.  What fails while the rows are  *)
(* written, and anything within the instances' runner after its query, is    *)
(* raised again as a DatabaseError, which is not.                            *)
Raised(kind, failure) ==
    IF failure = "query" \/ (failure = "value" /\ kind = "database") THEN "caught" ELSE "wrapped"

\* aggregate_period and aggregate_database_period query within the savepoint,
\* aggregate_instance_period before it.
InSavepoint(u) == u.kind = "database" \/ caller = "current"

Told(u, what) == told' = [told EXCEPT ![u] = what]
Rest(units) == plan' = <<units>> \o Tail(plan)

\* Rows for the period, or no sizes in it (the instance may not be active).
Aggregate ==
    /\ phase = "work" /\ plan # <<>> /\ Group # <<>> /\ ~broken
    /\ \/ Told(Next_unit, "completed") /\ stored' = stored \cup {Next_unit}
       \/ Told(Next_unit, "skipped") /\ stored' = stored
    /\ Rest(Tail(Group))
    /\ UNCHANGED <<caller, kept, broken, overtaken, phase>>

(* The unit is told as failed and the next one is begun; the capacity        *)
(* synchronisation logs the failure and is done.                             *)
Caught ==
    /\ phase = "work" /\ plan # <<>> /\ Group # <<>>
    /\ \E failure \in {"query", "value"} :
         /\ Raised(Next_unit.kind, failure) = "caught"
         /\ broken => failure = "query"
         /\ broken' = (broken \/ (failure = "query" /\ ~InSavepoint(Next_unit)))
    /\ Told(Next_unit, "failed")
    /\ Rest(IF caller = "single" THEN <<>> ELSE Tail(Group))
    /\ UNCHANGED <<caller, stored, kept, overtaken, phase>>

(* In the nightly run of an instance all of its periods are told as failed,  *)
(* those before this one included; the capacity synchronisation logs it; the *)
(* others let it through, and the task rolls back.                           *)
Wrapped ==
    /\ phase = "work" /\ plan # <<>> /\ Group # <<>> /\ ~broken
    /\ \E failure \in {"value", "flush"} : Raised(Next_unit.kind, failure) = "wrapped"
    /\ LET own == {u \in Unit : u.kind = "instance" /\ u.instance = Next_unit.instance}
           done == {u \in own : told[u] # "nothing"}
           rest == {u \in own : u \in ToSet(Group)}
       IN  CASE caller = "nightly" /\ Next_unit.kind = "instance" ->
                  /\ told' = [u \in Unit |-> IF u \in done \cup rest THEN "failed" ELSE told[u]]
                  /\ overtaken' = overtaken \cup (done \cap stored)
                  /\ Rest(<<>>)
                  /\ UNCHANGED <<stored, phase>>
             [] caller = "single" ->
                  Told(Next_unit, "failed") /\ Rest(<<>>) /\ UNCHANGED <<stored, overtaken, phase>>
             [] OTHER ->
                  /\ Told(Next_unit, "failed") /\ phase' = "escaped" /\ stored' = {}
                  /\ UNCHANGED <<plan, overtaken>>
    /\ UNCHANGED <<caller, kept, broken>>

(* The record and the item of the instance, the run, or the request are      *)
(* committed.  In a broken transaction the statements for the record fail;   *)
(* the request has none left, and its commit keeps nothing.                  *)
CommitGroup ==
    /\ phase = "work" /\ plan # <<>> /\ Group = <<>>
    /\ kept' = IF broken THEN kept ELSE kept \cup stored
    /\ stored' = {}
    /\ IF broken /\ caller # "single"
       THEN phase' = "escaped" /\ UNCHANGED plan
       ELSE plan' = Tail(plan) /\ phase' = IF Tail(plan) = <<>> THEN "ended" ELSE "work"
    /\ UNCHANGED <<caller, told, broken, overtaken>>

\* is_cancelled before an instance, before the databases, and in each callback.
AggregationCancelled ==
    /\ phase = "work" /\ caller # "single" /\ plan # <<>> /\ Group # <<>>
    /\ stored = {} /\ ~broken /\ \A u \in ToSet(Group) : told[u] = "nothing"
    /\ phase' = "cancelled"
    /\ UNCHANGED <<caller, plan, told, stored, kept, broken, overtaken>>

AggregationNext == Aggregate \/ Caught \/ Wrapped \/ CommitGroup \/ AggregationCancelled

AggregationSpec == AggregationInit /\ [][AggregationNext]_aggregationVars

----------------------------------------------------------------------------
(* The statuses of the summaries                                            *)

StatusOfNothingFirst(units) ==
    LET words == {told[u] : u \in units}
    IN  IF "completed" \notin words THEN "skipped"
        ELSE IF "failed" \in words THEN "failed" ELSE "completed"
StatusOf(units) ==
    LET words == {told[u] : u \in units}
    IN  IF "failed" \in words THEN "failed"
        ELSE IF "completed" \in words THEN "completed" ELSE "skipped"

\* PeriodSummary: of the instances of a period.
period_status(kind, p) == StatusOf({u \in Unit : u.kind = kind /\ u.period = p})

\* The current period: what its runners say, if any ran.
current_status ==
    LET ran == {k \in {"instance", "database"} : \E u \in Unit : u.kind = k /\ told[u] # "nothing"}
        words == {period_status(k, "daily") : k \in ran}
    IN  IF words = {} THEN "skipped"
        ELSE IF "failed" \in words THEN "failed"
        ELSE IF words = {"skipped"} THEN "skipped" ELSE "completed"

\* The nightly run of an instance over its periods.
instance_status(i) == StatusOf({u \in Unit : u.kind = "instance" /\ u.instance = i})
aggregated_count(i) == Cardinality({u \in Unit : u.kind = "instance" /\ u.instance = i /\ told[u] = "completed"})

AggregationTypeOK ==
    /\ caller \in {"nightly", "current", "single"}
    /\ told \in [Unit -> {"nothing", "completed", "skipped", "failed"}]
    /\ stored \cup kept \cup overtaken \subseteq Unit
    /\ phase \in {"work", "ended", "cancelled", "escaped"}

Claimed(units) == {u \in units : told[u] = "completed"}
Committing == IF plan = <<>> THEN {} ELSE ToSet(Group) \cup stored

(* What is told as completed is committed, once its group is, and what is    *)
(* committed was told, but for the periods of an instance one of whose later *)
(* periods could not be written.                                             *)
ToldIsKept ==
    /\ caller # "single" /\ phase \in {"work", "ended", "cancelled"} =>
         Claimed(Unit) \ Committing = (kept \ overtaken) \ Committing \/ broken
    /\ kept \subseteq Claimed(Unit) \cup overtaken
    /\ phase = "ended" /\ ~broken => Claimed(Unit) \subseteq kept

(* "Nothing to do" is said only when nothing failed and nothing was stored,  *)
(* "completed" only when everything told is stored, and a count of new       *)
(* aggregates never exceeds them.                                            *)
StatusTells ==
    /\ caller = "current" /\ phase = "ended" =>
         /\ current_status = "skipped" => kept = {} /\ \A u \in Unit : told[u] # "failed"
         /\ current_status = "completed" => kept # {} /\ kept = Claimed(Unit)
    /\ caller = "nightly" /\ phase = "ended" =>
         \A i \in 1..LastInstance :
           LET own == {u \in kept : u.kind = "instance" /\ u.instance = i}
           IN  /\ instance_status(i) = "completed" => own # {}
               /\ instance_status(i) = "skipped" => own = {}
               /\ aggregated_count(i) <= Cardinality(own)

\* Both: what the summaries say is what is stored.
AggregationTells == ToldIsKept /\ StatusTells
=============================================================================
