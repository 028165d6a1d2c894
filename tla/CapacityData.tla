---------------------------- MODULE CapacityData ----------------------------
(***************************************************************************)
(* The capacity data of one instance: the database list                    *)
(* (instance_databases), the daily sizes (database_size_stats), the daily  *)
(* totals (instance_size_stats) and the aggregates of both, which          *)
(* collections, aggregation runs, the monthly partitions and midnight      *)
(* change in any order.                                                    *)
(*                                                                         *)
(* A collection is one transaction that begins before the remote server is *)
(* asked and ends when the sizes are stored.  Rows it has changed stay     *)
(* locked until then, and other transactions do not see them.              *)
(*                                                                         *)
(* Days are numbered.  "daily" periods are one day; "long" ones stand for  *)
(* the weekly, monthly and quarterly periods, which the code treats alike  *)
(* (PeriodCalendar has their real boundaries).                             *)
(***************************************************************************)
EXTENDS Naturals, FiniteSets, FiniteSetsExt

CONSTANTS Databases,    \* names of databases on the instance
          Sizes,        \* sizes they may have
          Syncs,        \* the collections of a behaviour
          ManualSyncs,  \* those a user starts on the instance's page
          LastDay,      \* bound: the last day of a behaviour
          PeriodLength, \* days of a "long" period
          MonthLength,  \* days of a month
          None          \* no such row

ASSUME CapacityAssumption ==
         /\ Sizes \subseteq Nat \ {0} /\ LastDay \in Nat
         /\ PeriodLength \in Nat \ {0} /\ MonthLength \in Nat \ {0}
         /\ ManualSyncs \subseteq Syncs

VARIABLES day,       \* today, in the time zone of the stamps
          inventory, \* is_active of the stored databases: absent, active, inactive
          rows,      \* rows[d][t]: the size of d on day t, and whether it was stored
             \* after that day
          totals,    \* totals[t]: the instance's total, and what it counted
          stale,     \* the days whose total a collection has left behind its sizes
             \* (no variable of the code: for the properties)
          months,    \* the months the four tables have a partition for
          dbAggs,    \* dbAggs[d][p][t]: aggregate of d in the p period that starts on t
          instAggs,  \* instAggs[p][t]: aggregate of the totals
          sync,      \* the collections
          calc       \* the nightly aggregation: where it is, and its periods

capacityVars == <<day, inventory, rows, totals, stale, months, dbAggs, instAggs, sync, calc>>
data == <<rows, totals, stale, months, dbAggs, instAggs>>

\* No such aggregate: one that is stored counts at least one day.
NoAggregate == [max |-> 0, min |-> 0, sum |-> 0, count |-> 0, closed |-> FALSE]

Days     == 0 .. LastDay
Periods  == {"daily", "long"}
Month(t) == t \div MonthLength

Length(p)    == IF p = "daily" THEN 1 ELSE PeriodLength
\* The first day of the p period that holds day t, and the days of a period.
Start(p, t)  == (t \div Length(p)) * Length(p)
Span(p, t)   == t .. t + Length(p) - 1
HasLast(p)   == Start(p, day) > 0
LastStart(p) == Start(p, day) - Length(p)

Row   == [size : Sizes, late : BOOLEAN]

ASSUME NoneIsNoRow == None \notin Row

Idle  == [pc |-> "idle", known |-> [d \in Databases |-> "absent"],
          listed |-> {}, sizes |-> [d \in {} |-> 0], stamp |-> 0,
          tally |-> [d \in {} |-> 0], of |-> 0, missed |-> FALSE]

CapacityInit ==
        /\ day = 0
        /\ \E stored \in SUBSET Databases :
             inventory = [d \in Databases |-> IF d \in stored THEN "active" ELSE "absent"]
        /\ rows = [d \in Databases |-> [t \in Days |-> None]]
        /\ totals = [t \in Days |-> None]
        /\ stale = {}
        /\ months = {Month(0), Month(1)}
        /\ dbAggs = [d \in Databases |-> [p \in Periods |-> [t \in Days |-> NoAggregate]]]
        /\ instAggs = [p \in Periods |-> [t \in Days |-> NoAggregate]]
        /\ sync = [s \in Syncs |-> Idle]
        /\ calc = [pc |-> "idle", periods |-> {}]

Tick == /\ day < LastDay
        /\ day' = day + 1
        /\ UNCHANGED <<inventory, data, sync, calc>>

----------------------------------------------------------------------------
(* Aggregates                                                              *)

TotalOf(sizes) == MapThenSumSet(LAMBDA x : sizes[x], DOMAIN sizes)

\* The metrics of the sizes f has on the days ts of a period.
Metrics(f, ts, span) ==
  LET sizes == [t \in ts |-> f[t].size]
  IN  [max |-> Max({sizes[t] : t \in ts}), min |-> Min({sizes[t] : t \in ts}),
       sum |-> TotalOf(sizes), count |-> Cardinality(ts),
       closed |-> \A t \in span : t < day]

FilledOpen(f, span) ==
  { t \in span \intersect Days : f[t] # None /\ (t = Min(span) \/ \E u \in span : u > t) }

\* The days of a period on which f has something.
Filled(f, span) == { t \in span \intersect Days : f[t] # None }

\* One aggregate of the sizes in f, over the one there is.  A period without
\* sizes leaves it alone.
Aggregated(agg, f, p, t) ==
  IF Filled(f, Span(p, t)) = {} THEN agg
  ELSE [agg EXCEPT ![p][t] = Metrics(f, Filled(f, Span(p, t)), Span(p, t))]

DbAggregated(aggs, rs, p, t) ==
  [d \in Databases |-> Aggregated(aggs[d], rs[d], p, t)]

----------------------------------------------------------------------------
(* A collection                                                            *)

Set(s, r)  == sync' = [sync EXCEPT ![s] = r]
End(s)     == Set(s, [Idle EXCEPT !.pc = "done"])

\* The remote list, without system and filtered databases, and the stored
\* one.
SyncRead(s) ==
  /\ sync[s].pc = "idle"
  /\ \E listed \in SUBSET Databases :
       Set(s, [Idle EXCEPT !.pc = "read", !.listed = listed, !.known = inventory])
  /\ UNCHANGED <<day, inventory, data, calc>>

\* The stored rows the inventory pass of s changes: a listed database's
\* last_seen_date, and is_active of a missing one.
Missing(s) == { d \in Databases \ sync[s].listed : sync[s].known[d] = "active" }
Touched(s) == sync[s].listed \union Missing(s)
Holds(s)   == sync[s].pc \in {"synced", "collected", "summed"}
Blocked(s) == \E o \in Syncs \ {s} : Holds(o) /\ Touched(o) \intersect Touched(s) # {}

\* A database was inserted by another collection after this one looked.
Conflict(s) == \E d \in sync[s].listed : sync[s].known[d] = "absent" /\ inventory[d] # "absent"

\* The list as s sees and will commit it.  An is_active that was already
\* true when it was read is not written again.
Own(s) == [d \in Databases |->
             IF d \in Missing(s) THEN "inactive"
             ELSE IF d \in sync[s].listed /\ sync[s].known[d] # "active" THEN "active"
             ELSE inventory[d]]

SyncInventory(s) ==
  /\ sync[s].pc = "read"
  /\ ~Blocked(s) /\ ~Conflict(s)
  /\ IF sync[s].listed = {}
       THEN inventory' = Own(s) /\ End(s)
       ELSE inventory' = inventory /\ Set(s, [sync[s] EXCEPT !.pc = "synced"])
  /\ UNCHANGED <<day, data, calc>>

\* The sizes are read and stamped with today.
SyncCollect(s) ==
  /\ sync[s].pc = "synced"
  /\ \E got \in SUBSET sync[s].listed \ {{}} : \E sizes \in [got -> Sizes] :
       Set(s, [sync[s] EXCEPT !.pc = "collected", !.sizes = sizes, !.stamp = day])
  /\ UNCHANGED <<day, inventory, data, calc>>

\* rows after the sizes of s have been upserted.
Upserted(s) ==
  [d \in Databases |->
     IF d \notin DOMAIN sync[s].sizes THEN rows[d]
     ELSE [rows[d] EXCEPT ![sync[s].stamp] = [size |-> sync[s].sizes[d], late |-> sync[s].stamp < day]]]

\* The sizes are stored, and today's are read for the total: those of the
\* databases that are not inactive, as s sees them.  Storing a size needs the
\* partition of its day.
SyncSum(s) ==
  LET counted == { d \in Databases : Upserted(s)[d][day] # None /\ Own(s)[d] # "inactive" }
  IN  /\ sync[s].pc = "collected"
      /\ Month(sync[s].stamp) \in months
      /\ Set(s, [sync[s] EXCEPT !.pc = "summed", !.of = day,
                   !.tally = [d \in counted |-> Upserted(s)[d][day].size]])
      /\ UNCHANGED <<day, inventory, data, calc>>

RetotalledOnce(s) ==
  IF DOMAIN sync[s].tally = {} \/ totals[day] # None THEN totals
  ELSE [totals EXCEPT ![day] = [size |-> TotalOf(sync[s].tally), counted |-> DOMAIN sync[s].tally]]

\* save_instance_stats asks for today again: what was counted before midnight
\* becomes the total of the new day.  Without rows the total is left alone.
Retotalled(s) ==
  IF DOMAIN sync[s].tally = {} THEN totals
  ELSE [totals EXCEPT ![day] = [size |-> TotalOf(sync[s].tally), counted |-> DOMAIN sync[s].tally]]

\* The total of the day the sizes are from, if it counted one of them, has its
\* size of before; what has been counted is right if nothing came in between.
LeftBehind(s) ==
  stale \union { t \in Days : /\ t = sync[s].stamp /\ totals[t] # None
                              /\ totals[t].counted \intersect DOMAIN sync[s].sizes # {} }
Recounted(s) ==
  IF DOMAIN sync[s].tally = {} THEN LeftBehind(s)
  ELSE (LeftBehind(s) \ {day}) \union (IF sync[s].missed \/ sync[s].of # day THEN {day} ELSE {})

\* s ends, and the other collections that have counted one of its databases
\* have counted its size of before.
Overtaking(s) ==
  sync' = [o \in Syncs |->
             IF o = s THEN [Idle EXCEPT !.pc = "done"]
             ELSE IF sync[o].pc = "summed" /\ DOMAIN sync[o].tally \intersect DOMAIN sync[s].sizes # {}
                    THEN [sync[o] EXCEPT !.missed = TRUE]
                    ELSE sync[o]]

\* The total is stored and everything is committed; an upsert of the total
\* that fails in its savepoint (as it does without today's partition) is only
\* answered with False, and the sizes are committed without it.  A manual
\* collection also calculates today's aggregates, the databases' first; an
\* exception there is swallowed and keeps what has been calculated.
SyncSave(s) ==
  /\ sync[s].pc = "summed"
  /\ inventory' = Own(s)
  /\ rows' = Upserted(s)
  /\ \/ Month(day) \in months /\ totals' = Retotalled(s) /\ stale' = Recounted(s)
     \/ totals' = totals /\ stale' = LeftBehind(s)
  /\ \E n \in IF s \in ManualSyncs /\ Month(day) \in months THEN 0 .. 2 ELSE {0} :
       /\ dbAggs'   = IF n > 0 THEN DbAggregated(dbAggs, rows', "daily", day) ELSE dbAggs
       /\ instAggs' = IF n > 1 THEN Aggregated(instAggs, totals', "daily", day) ELSE instAggs
  /\ Overtaking(s)
  /\ UNCHANGED <<day, months, calc>>

\* The server cannot be reached, a size cannot be read, or a statement
\* fails.  The caller commits the list nevertheless when the failure is one
\* it handles.
SyncFails(s) ==
  /\ sync[s].pc \notin {"idle", "done"}
  /\ \E kept \in BOOLEAN : inventory' = IF kept /\ Holds(s) THEN Own(s) ELSE inventory
  /\ End(s)
  /\ UNCHANGED <<day, data, calc>>

----------------------------------------------------------------------------
(* The nightly aggregation, and the manual one of today                    *)

CoveredByTotals(p, others) == others /\ instAggs[p][LastStart(p)] # NoAggregate

\* What the filter takes as done: each active instance, other ones included,
\* has an aggregate in both tables.
Covered(p, others) ==
  /\ others
  /\ instAggs[p][LastStart(p)] # NoAggregate
  /\ \E d \in Databases : dbAggs[d][p][LastStart(p)] # NoAggregate

\* The periods left by the filter, which a manual run does not apply.
CalcBegin ==
  /\ calc.pc = "idle"
  /\ \E others, manual \in BOOLEAN :
       LET todo == { p \in Periods : HasLast(p) /\ (manual \/ ~Covered(p, others)) }
       IN  todo # {} /\ calc' = [pc |-> "instances", periods |-> todo]
  /\ UNCHANGED <<day, inventory, data, sync>>

\* An aggregate is stored in the partition of its period's first day.
Storable(ps) == { p \in ps : Month(LastStart(p)) \in months }

\* The aggregates of the totals, committed before those of the databases.
CalcInstances ==
  /\ calc.pc = "instances"
  /\ instAggs' = [p \in Periods |->
                    IF p \in Storable(calc.periods)
                      THEN Aggregated(instAggs, totals, p, LastStart(p))[p]
                      ELSE instAggs[p]]
  /\ calc' = [calc EXCEPT !.pc = "databases"]
  /\ UNCHANGED <<day, inventory, rows, totals, stale, months, dbAggs, sync>>

CalcDatabases ==
  /\ calc.pc = "databases"
  /\ dbAggs' = [d \in Databases |-> [p \in Periods |->
                  IF p \in Storable(calc.periods)
                    THEN Aggregated(dbAggs[d], rows[d], p, LastStart(p))[p]
                    ELSE dbAggs[d][p]]]
  /\ calc' = [pc |-> "idle", periods |-> {}]
  /\ UNCHANGED <<day, inventory, rows, totals, stale, months, instAggs, sync>>

\* Cancelled, or killed, between its commits.
CalcDies ==
  /\ calc.pc # "idle"
  /\ calc' = [pc |-> "idle", periods |-> {}]
  /\ UNCHANGED <<day, inventory, data, sync>>

\* The manual aggregation of the current day, its two scopes.
CurrentDatabases ==
  /\ Month(day) \in months
  /\ dbAggs' = DbAggregated(dbAggs, rows, "daily", day)
  /\ dbAggs' # dbAggs
  /\ UNCHANGED <<day, inventory, rows, totals, stale, months, instAggs, sync, calc>>

CurrentInstance ==
  /\ Month(day) \in months
  /\ instAggs' = Aggregated(instAggs, totals, "daily", day)
  /\ instAggs' # instAggs
  /\ UNCHANGED <<day, inventory, rows, totals, stale, months, dbAggs, sync, calc>>

----------------------------------------------------------------------------
(* Partitions                                                              *)

\* The four tables get a partition for the current month or a later one.
CreatePartition ==
  /\ \E m \in Month(day) .. Month(LastDay) : months' = months \union {m} /\ m \notin months
  /\ UNCHANGED <<day, inventory, rows, totals, stale, dbAggs, instAggs, sync, calc>>

\* f without what it has in the months before c.
Since(c, f, nothing) == [t \in Days |-> IF Month(t) < c THEN nothing ELSE f[t]]

\* At least one whole month is retained (PeriodCalendar).  A table is not
\* dropped while a transaction that has used it goes on.
DropPartitions ==
  \E c \in 1 .. Month(day) :
    /\ \A s \in Syncs : sync[s].pc # "summed"
    /\ c <= Month(day) - 1 /\ \E m \in months : m < c
    /\ months'   = { m \in months : m >= c }
    /\ rows'     = [d \in Databases |-> Since(c, rows[d], None)]
    /\ totals'   = Since(c, totals, None)
    /\ stale'    = { t \in stale : Month(t) >= c }
    /\ dbAggs'   = [d \in Databases |-> [p \in Periods |-> Since(c, dbAggs[d][p], NoAggregate)]]
    /\ instAggs' = [p \in Periods |-> Since(c, instAggs[p], NoAggregate)]
    /\ UNCHANGED <<day, inventory, sync, calc>>

CapacityNext ==
  \/ Tick
  \/ \E s \in Syncs : SyncRead(s) \/ SyncInventory(s) \/ SyncCollect(s)
                      \/ SyncSum(s) \/ SyncSave(s) \/ SyncFails(s)
  \/ CalcBegin \/ CalcInstances \/ CalcDatabases \/ CalcDies
  \/ CurrentDatabases \/ CurrentInstance
  \/ CreatePartition \/ DropPartitions

CapacitySpec == CapacityInit /\ [][CapacityNext]_capacityVars

----------------------------------------------------------------------------
(* Properties                                                              *)

\* Every variable has its type, and what is stored lies in a partition.
CapacityTypeOK ==
  /\ day \in Days
  /\ inventory \in [Databases -> {"absent", "active", "inactive"}]
  /\ rows \in [Databases -> [Days -> Row \union {None}]]
  /\ \A t \in Days : totals[t] # None => totals[t].size \in Nat /\ totals[t].counted \subseteq Databases
  /\ months \subseteq 0 .. Month(LastDay) + 1
  /\ calc.pc \in {"idle", "instances", "databases"} /\ calc.periods \subseteq Periods
  /\ \A s \in Syncs : sync[s].pc \in {"idle", "read", "synced", "collected", "summed", "done"}
  /\ \A t \in Days :
       (\/ totals[t] # None \/ \E d \in Databases : rows[d][t] # None
        \/ \E p \in Periods : instAggs[p][t] # NoAggregate \/ \E d \in Databases : dbAggs[d][p][t] # NoAggregate)
       => Month(t) \in months

Late(d, span) == \E t \in Filled(rows[d], span) : rows[d][t].late
\* What an aggregate says is what the sizes f of its period say.
Exact(agg, f, span) ==
  LET truth == Metrics(f, { t \in span \intersect Days : f[t] # None }, span)
  IN  \A m \in {"max", "min", "sum", "count"} : agg[m] = truth[m]

\* An aggregate calculated after its period has ended says what the sizes of
\* the period say, whatever collections, partitions and aggregations of the
\* current day came in between; only a size stored after its own day
\* (a collection that ran over midnight) is missed.
AggregatesExact ==
  \A p \in Periods, t \in Days :
    LET span == Span(p, t)
    IN  /\ instAggs[p][t].closed => Exact(instAggs[p][t], totals, span)
        /\ \A d \in Databases :
             dbAggs[d][p][t].closed /\ ~Late(d, span)
               => Exact(dbAggs[d][p][t], rows[d], span)

\* A day's total is the sum of the stored sizes of the databases it counted:
\* no collection, scheduled or manual, changes a size of the day without
\* bringing the total up to date, except for what the code lets through until
\* the next total of the day (the day is stale): the upsert of the total that
\* goes with a size fails, or has nothing to count because another collection
\* marked the databases inactive; the size is stored after its day; the sizes
\* were read before midnight, or before another collection stored one of them.
TotalIsSumOfRows ==
  \A t \in Days :
    totals[t] # None /\ t \notin stale =>
      /\ \A d \in totals[t].counted : rows[d][t] # None
      /\ totals[t].size = TotalOf([d \in totals[t].counted |-> rows[d][t].size])

\* Both: what is stored of a day and of a period adds up.
RowsAddUp == AggregatesExact /\ TotalIsSumOfRows

Complete(p) ==
  \A d \in Databases :
    LET span == Span(p, LastStart(p))
    IN  Filled(rows[d], span) # {} /\ ~Late(d, span)
          => dbAggs[d][p][LastStart(p)] # NoAggregate /\ Exact(dbAggs[d][p][LastStart(p)], rows[d], span)

\* A week, month or quarter the nightly run skips because it is already
\* aggregated has an up-to-date aggregate for every database with sizes in
\* it, although the run that calculated it may have died half-way.
CoveredIsComplete == HasLast("long") /\ Covered("long", TRUE) => Complete("long")

\* Both: what is stored adds up, and what is passed over needs no work.
CapacityRowsHold == RowsAddUp /\ CoveredIsComplete

\* The same for the daily aggregates: "whether the aggregation of a period is
\* done" (has_aggregation_for_period).
CoveredDayIsComplete == HasLast("daily") /\ Covered("daily", TRUE) => Complete("daily")
=============================================================================
