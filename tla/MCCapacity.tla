----------------------------- MODULE MCCapacity -----------------------------
(* Small instances of CapacityData, of the calendar its periods and         *)
(* partitions follow, of the daily statistics that are shown by the same    *)
(* calendar, and of what the aggregations tell of their results: a          *)
(* behaviour is about one of them, and the others stay in their first       *)
(* states.                                                                  *)
EXTENDS CapacityData, TrendStats, AggregationRuns

\* Bound: the days whose views are compared, about the turns of a year, of
\* months and of a quarter, the leap day and the day rule 2 came.
TrendDates == {720, 729, 730, 790, 820, 821}

VARIABLE subject

\* Rules 1 and 2 overlap; the daily run misses every eleventh day, and rule 2
\* came late.
MCClassOf(r)        == IF r = 3 THEN "b" ELSE "a"
MCActiveClass(c)    == c = "a"
MCActiveOn(n)       == IF n % 11 = 0 THEN {} ELSE IF n < 720 THEN {1, 3} ELSE {1, 2, 3}
MCCollected(n)      == IF n % 11 = 0 THEN 0 ELSE n % 3
MCAggregated(p, n)  == IF KeyDate(p, n) = n THEN 2 ELSE 0
MCMatched(r, o, n)  == {a \in 1 .. 3 : (a * r + n) % (o + 2) = 0}

MCInit ==
    /\ CapacityInit /\ CalendarInit /\ AggregationInit
    /\ subject \in {"rows", "calendar", "results", "trends"}
    /\ subject # "results" => caller = "single" /\ plan = SinglePlan(1)
    /\ subject # "rows" => \A d \in Databases : inventory[d] = "absent"

\* Bound: the manual collections find the databases grown, the others small.
SizesFound == \A s \in Syncs : \A d \in DOMAIN sync'[s].sizes :
                sync'[s].sizes[d] = IF s \in ManualSyncs THEN Max(Sizes) ELSE Min(Sizes)

MCNext ==
    /\ \/ subject = "rows" /\ CapacityNext /\ SizesFound /\ UNCHANGED <<calendarVars, aggregationVars>>
       \/ subject = "calendar" /\ CalendarNext /\ UNCHANGED <<capacityVars, aggregationVars>>
       \/ subject = "trends" /\ (\E n \in TrendDates : today < n) /\ (Midnight \/ UtcMidnight) /\ UNCHANGED <<capacityVars, aggregationVars>>
       \/ subject = "results" /\ AggregationNext /\ UNCHANGED <<capacityVars, calendarVars>>
    /\ UNCHANGED subject

MCSpec == MCInit /\ [][MCNext]_<<capacityVars, calendarVars, aggregationVars, subject>>

Symmetry == Permutations(Databases)

\* CalendarHolds, evaluated where its state changes: periods follow each other,
\* a clean-up keeps what it promises, and what is told of the partitions is so
\* (PeriodCalculator, cleanup_old_partitions, get_partition_info).
CalendarTells == subject = "calendar" => CalendarHolds

\* The views of the statistics of a window agree (the statistics read service
\* and the metrics of the partitions page).
TrendsHold == subject = "trends" /\ utc = today /\ today \in TrendDates => TrendsAddUp
=============================================================================
