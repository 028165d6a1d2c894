---------------------------- MODULE VeeamSnapshots ----------------------------
(***************************************************************************)
(* The backup snapshots of one Veeam source: reading the backup objects    *)
(* page by page, matching them with the instances, the newest restore      *)
(* point of every machine, and the rows of veeam_machine_backup_snapshots, *)
(* which are unique by name and by address.                                *)
(*                                                                         *)
(* A name is the sequence of its labels, an address a name in Addresses;   *)
(* << >> stands for none.  A restore point is its object and its time.     *)
(***************************************************************************)
EXTENDS Naturals, Sequences, FiniteSets, SequencesExt

CONSTANTS
    Workers,      \* runs of the synchronisation, of the source or of an instance
    Inventory,    \* instance -> its name and host
    Domain,       \* the domain of the source
    Addresses,    \* the names that are addresses
    FirstObjects, \* the backup objects at first
    Files,        \* backup files: backup, id, the point it is made for, the points it lists, time, size
    PageLimit,    \* backup_objects_limit
    MaxTime, MaxChanges, MaxSyncs, \* bounds
    All,          \* the goal of a run for the whole source
    Nothing       \* no row, nothing written

VARIABLES
    objects, points, clock, changes, \* the Veeam server
    snapshots,    \* the table: id -> row
    serial,       \* ids used so far
    workers,      \* the runs
    syncs,        \* runs started so far
    written       \* what the last step wrote

snapshotVars == <<objects, points, clock, changes, snapshots, serial, workers, syncs, written>>

None == << >>
Ids == {FirstObjects[n].id : n \in DOMAIN FirstObjects}
BackupObjects == [id : Ids, name : {FirstObjects[n].name : n \in DOMAIN FirstObjects},
                  ip : {FirstObjects[n].ip : n \in DOMAIN FirstObjects}]

\* Ids and times are told apart by their order.  A restore point without the
\* name of a machine is dropped: there are no objects without one.
ASSUME SnapshotAssumption ==
    /\ PageLimit \in Nat \ {0}
    /\ FirstObjects \in Seq(BackupObjects)
    /\ \A n \in DOMAIN FirstObjects : FirstObjects[n].id \in Nat /\ FirstObjects[n].name # None
    /\ \A n, m \in DOMAIN FirstObjects : n # m => FirstObjects[n].id # FirstObjects[m].id
    /\ \A f \in Files : f.id \in Nat /\ f.at \in Nat

-----------------------------------------------------------------------------
(* Matching                                                                *)

\* normalize_ip_address
address(name) == IF name \in Addresses THEN name ELSE None

\* build_instance_match_candidates, with one domain.
name_candidates(i) ==
    LET base == Inventory[i].name
    IN {base, IF Len(base) > 1 /\ Last(base) = Domain THEN base ELSE base \o <<Domain>>}

\* build_instance_ip_candidates: the host, be it an address or a name.
ip_candidates(i) == {Inventory[i].host}

Goals(goal) == IF goal = All THEN DOMAIN Inventory ELSE {goal}

\* match_backup_objects
Matched(o, goal) ==
    LET ip == IF address(o.ip) # None THEN o.ip ELSE address(o.name)
    IN \E i \in Goals(goal) : o.name \in name_candidates(i) \/ (ip # None /\ ip \in ip_candidates(i))

-----------------------------------------------------------------------------
(* Restore points                                                          *)

\* select_best_backup_file_record: the file the restore point names, else the
\* one made closest to it.
Distance(a, b) == IF a > b THEN a - b ELSE b - a
Closest(record, f) == <<Distance(f.at, record.at), IF f.id = record.file THEN 0 ELSE 1, f.id>>
Precedes(a, b) == \/ a[1] < b[1]
                  \/ a[1] = b[1] /\ a[2] < b[2]
                  \/ a[1] = b[1] /\ a[2] = b[2] /\ a[3] <= b[3]
best_file(record, candidates) ==
    LET exact == {f \in candidates : f.id = record.file}
        filtered == IF exact # {} THEN exact ELSE candidates
    IN CHOOSE f \in filtered : \A g \in filtered : Precedes(Closest(record, f), Closest(record, g))

\* merge_metrics_into_records
merged(record, files) ==
    LET candidates == {f \in files : <<record.object, record.at>> \in f.points}
    IN IF candidates = {} THEN record ELSE [record EXCEPT !.size = best_file(record, candidates).size]

\* summarize_coverage: restore points no file of their own backup lists.
uncovered(records, files) ==
    {r \in records : \A f \in files : f.backup = r.backup => <<r.object, r.at>> \notin f.points}

\* _select_latest_records: of each machine the newest, the first of several.
newest(records) ==
    {r \in records : \A q \in records : q.name = r.name => r.at > q.at \/ (r.at = q.at /\ r.object <= q.object)}

\* _build_snapshot_write_records: newest first, each name and address once.
Later(a, b) == a.at > b.at \/ (a.at = b.at /\ a.object > b.object)
write_records(records) ==
    {r \in records : \A q \in records : q.ip # None /\ q.ip = r.ip => q = r \/ ~Later(q, r)}

-----------------------------------------------------------------------------
(* _write_machine_backup_snapshots                                         *)

\* A unique column of the rows that were loaded: the row with a value.
RowWith(loaded, column, value) ==
    LET found == {id \in DOMAIN loaded : loaded[id][column] = value}
    IN IF value = None \/ found = {} THEN 0 ELSE CHOOSE id \in found : TRUE

\* _find_snapshot_row and _apply_snapshot_write_record.  The maps are those of
\* the rows as loaded.  Adding a row to the session takes back its deletion.
Applied(loaded, session, record) ==
    LET byName == RowWith(loaded, "name", record.name)
        byIp == RowWith(loaded, "ip", record.ip)
        target == IF byName # 0 THEN byName ELSE IF byIp # 0 THEN byIp ELSE session.next
        twin == IF byName # 0 /\ byIp # 0 /\ byName # byIp THEN {byIp} ELSE {}
    IN [rows |-> [id \in DOMAIN session.rows \cup {target} |->
                    IF id = target THEN record
                    ELSE IF id \in twin THEN [session.rows[id] EXCEPT !.ip = None]
                    ELSE session.rows[id]],
        doomed |-> (session.doomed \cup twin) \ {target},
        kept |-> session.kept \cup {target},
        next |-> IF target = session.next THEN target + 1 ELSE session.next]

\* The records are applied one after the other, the oldest last.
Oldest(records) == CHOOSE r \in records : \A q \in records \ {r} : Later(q, r)
AllApplied(loaded, records, next) ==
    MapThenFoldSet(LAMBDA r, session : Applied(loaded, session, r),
                   [rows |-> loaded, doomed |-> {}, kept |-> {}, next |-> next],
                   LAMBDA r : r, Oldest, records)

\* Mutant of SessionAfter: a full run keeps what it did not see.
SessionAfterUpsert(loaded, records, replace, next) == AllApplied(loaded, records, next)

SessionAfter(loaded, records, replace, next) ==
    LET s == AllApplied(loaded, records, next)
    IN [s EXCEPT !.doomed = @ \cup (IF replace THEN DOMAIN loaded \ s.kept ELSE {})]

\* The unit of work: updates by primary key, then inserts, then deletions; the
\* two unique constraints are checked at every statement.  A row that is gone
\* fails the run when it is updated, when it is deleted it does not.
Clashes(table, id, row) ==
    \E other \in DOMAIN table \ {id} :
        table[other].name = row.name \/ (row.ip # None /\ table[other].ip = row.ip)
Stated(table, session, ids) ==
    [id \in DOMAIN table \cup ids |-> IF id \in ids THEN session.rows[id] ELSE table[id]]
Flushed(loaded, table, session) ==
    LET ids == {id \in DOMAIN session.rows \ session.doomed :
                  id \notin DOMAIN loaded \/ session.rows[id] # loaded[id]}
        result == Stated(table, session, ids)
    IN [failed |-> \/ \E id \in DOMAIN loaded \cap ids : id \notin DOMAIN table
                   \/ \E id \in ids : Clashes(Stated(table, session, {n \in ids : n < id}), id, session.rows[id]),
        table |-> [id \in DOMAIN result \ session.doomed |-> result[id]]]

-----------------------------------------------------------------------------
(* find_best_backup_for_instance_name and fetch_backup_summary_map         *)

lookup(table, i) ==
    LET rows == {id \in DOMAIN table : table[id].name \in name_candidates(i) \/ table[id].ip \in ip_candidates(i)}
    IN IF rows = {} THEN Nothing
       ELSE table[CHOOSE id \in rows : \A other \in rows :
                     table[id].at > table[other].at \/ (table[id].at = table[other].at /\ id >= other)]

-----------------------------------------------------------------------------
Resting == [pc |-> "idle", goal |-> All, offset |-> 0, got |-> None, records |-> {},
            whole |-> FALSE, partial |-> FALSE, loaded |-> None]

SnapshotInit ==
    /\ objects = FirstObjects
    /\ points = [o \in Ids |-> {1}] /\ clock = 1 /\ changes = 0
    /\ snapshots = None /\ serial = 0
    /\ workers = [w \in Workers |-> Resting] /\ syncs = 0
    /\ written = Nothing

ServerUnchanged == UNCHANGED <<objects, points, clock, changes>>
TableUnchanged == UNCHANGED <<snapshots, serial>> /\ written' = Nothing
Goto(w, state) == workers' = [workers EXCEPT ![w] = state]

\* Veeam makes a restore point, machines exchange their addresses, an object
\* is removed.
Change ==
    /\ changes < MaxChanges /\ changes' = changes + 1
    /\ \/ /\ clock < MaxTime /\ clock' = clock + 1
          /\ \E n \in DOMAIN objects : points' = [points EXCEPT ![objects[n].id] = @ \cup {clock + 1}]
          /\ UNCHANGED objects
       \/ /\ \E n, m \in DOMAIN objects :
                /\ n < m /\ objects[n].ip # objects[m].ip
                /\ objects' = [objects EXCEPT ![n].ip = objects[m].ip, ![m].ip = objects[n].ip]
          /\ UNCHANGED <<points, clock>>
       \/ /\ \E n \in DOMAIN objects : objects' = RemoveAt(objects, n)
          /\ UNCHANGED <<points, clock>>
    /\ TableUnchanged /\ UNCHANGED <<workers, syncs>>

\* _sync_source_once or sync_instance_now, up to the access token.
StartSync(w) ==
    /\ workers[w].pc = "idle" /\ syncs < MaxSyncs /\ syncs' = syncs + 1
    /\ \E goal \in {All} \cup DOMAIN Inventory : Goto(w, [Resting EXCEPT !.pc = "objects", !.goal = goal])
    /\ ServerUnchanged /\ TableUnchanged

\* A request fails, or times out in both attempts, with it the run.
FetchFails(w) ==
    /\ workers[w].pc \in {"objects", "points"}
    /\ Goto(w, Resting)
    /\ ServerUnchanged /\ TableUnchanged /\ UNCHANGED syncs

\* _resolve_next_url: offset, limit and total of the answer, while there is more.
More(offset) == Len(objects) > offset + PageLimit
Page(offset) == SubSeq(objects, offset + 1, IF More(offset) THEN offset + PageLimit ELSE Len(objects))

\* _collect_paginated_items: a page of the objects as they are by now.
FetchPage(w) ==
    /\ workers[w].pc = "objects"
    /\ LET offset == workers[w].offset
       IN Goto(w, [workers[w] EXCEPT !.got = @ \o Page(offset), !.offset = offset + PageLimit,
                                     !.pc = IF More(offset) THEN "objects" ELSE "points"])
    /\ ServerUnchanged /\ TableUnchanged /\ UNCHANGED syncs

\* fetch_restore_point_records and fetch_backup_file_records: what cannot be
\* read is skipped.  An object that is gone cannot be read.  A run that read
\* nothing of what it matched fails; for an instance it ends there.  What the
\* files do not cover is only looked at by a run for the source.
Backup(o) == IF \E f \in Files : <<o, 1>> \in f.points
             THEN (CHOOSE f \in Files : <<o, 1>> \in f.points).backup ELSE "b0"
File(o, t) == IF \E f \in Files : f.own = <<o, t>> THEN (CHOOSE f \in Files : f.own = <<o, t>>).id ELSE 0
RecordOf(o, t) ==
    [name |-> o.name, ip |-> IF address(o.ip) # None THEN o.ip ELSE address(o.name), at |-> t,
     object |-> o.id, backup |-> Backup(o.id), file |-> File(o.id, t), size |-> 0]
FetchPoints(w) ==
    /\ workers[w].pc = "points"
    /\ LET goal == workers[w].goal
           matched == {o \in Range(workers[w].got) : Matched(o, goal)}
           gone == {o \in matched : \A n \in DOMAIN objects : objects[n].id # o.id}
       IN \E skipped \in SUBSET matched :
          LET records == UNION {{RecordOf(o, t) : t \in points[o.id]} : o \in matched \ skipped}
              all == [workers[w] EXCEPT !.got = None, !.whole = skipped = {}]
          IN /\ gone \subseteq skipped
             /\ goal = All => skipped = {} \/ skipped # matched
             /\ \E lost \in SUBSET {r.backup : r \in records} :
                  LET files == {f \in Files : f.backup \in {r.backup : r \in records} \ lost}
                  IN IF goal # All /\ records = {} THEN Goto(w, Resting)
                     ELSE Goto(w, [all EXCEPT !.pc = "write",
                                      !.records = {merged(r, files) : r \in records},
                                      !.partial = goal = All /\ (\/ skipped # {} \/ lost # {}
                                                                 \/ uncovered(records, files) # {})])
    /\ ServerUnchanged /\ TableUnchanged /\ UNCHANGED syncs

\* The rows are loaded ...
LoadRows(w) ==
    /\ workers[w].pc = "write"
    /\ Goto(w, [workers[w] EXCEPT !.pc = "flush", !.loaded = snapshots])
    /\ ServerUnchanged /\ TableUnchanged /\ UNCHANGED syncs

\* Mutant of Told: the run only tells of objects it could not read.
ToldOfObjects(s, several) ==
    IF s.whole THEN {} ELSE IF several THEN {"stages"} ELSE {"stages", "run"}

\* Where a gap is told: in the stages of the run, and in its summary if the
\* run is about this source only (finalize_run).  sync_instance_now always
\* answers that the backups have been synchronised.
Told(s, several) ==
    IF ~s.partial THEN {} ELSE IF several THEN {"stages"} ELSE {"stages", "run"}

\* ... written and committed.  A run over the whole source without a gap
\* deletes what it did not see; an instance is only added.
FlushRows(w) ==
    /\ workers[w].pc = "flush"
    /\ LET s == workers[w]
           replace == s.goal = All /\ s.whole
           session == SessionAfter(s.loaded, write_records(newest(s.records)), replace, serial + 1)
           flush == Flushed(s.loaded, snapshots, session)
       IN /\ IF flush.failed THEN UNCHANGED <<snapshots, serial>>
             ELSE snapshots' = flush.table /\ serial' = session.next - 1
          /\ \E several \in IF s.goal = All THEN BOOLEAN ELSE {FALSE} :
                written' = [records |-> s.records, before |-> Range(s.loaded), failed |-> flush.failed,
                            goal |-> s.goal, several |-> several, told |-> Told(s, several),
                            replaced |-> replace, alone |-> s.loaded = snapshots]
    /\ Goto(w, Resting)
    /\ ServerUnchanged /\ UNCHANGED syncs

SnapshotNext ==
    \/ Change
    \/ \E w \in Workers : StartSync(w) \/ FetchPage(w) \/ FetchFails(w) \/ FetchPoints(w) \/ LoadRows(w) \/ FlushRows(w)

SnapshotSpec == SnapshotInit /\ [][SnapshotNext]_snapshotVars

-----------------------------------------------------------------------------
(* _write_machine_backup_snapshots: where names and addresses go together, *)
(* in what is written and with what was stored before, and nothing else is *)
(* written in between, a write succeeds, of every machine that was fetched *)
(* the newest restore point is stored, and after a full run nothing else.  *)
OneToOne(records) ==
    \A r, q \in records : r.name = q.name \/ (r.ip # None /\ r.ip = q.ip) => r.name = q.name /\ r.ip = q.ip
WrittenAsFetched ==
    written # Nothing /\ written.alone /\ OneToOne(written.records \cup written.before) =>
        /\ ~written.failed
        /\ \A r \in written.records :
               \E row \in Range(snapshots) \cap written.records : row.name = r.name /\ row.at >= r.at
        /\ written.replaced => Range(snapshots) \subseteq written.records

(* merge_metrics_into_records and summarize_coverage: unless its stages say *)
(* that there is a gap, and the summary too of a run about one source, the  *)
(* size of a restore point that a run for the source stores is that of a    *)
(* file that lists it.  A run about several sources and a synchronisation   *)
(* of one instance do not promise that.                                     *)
SizesAreTold ==
    written # Nothing /\ written.goal = All
    /\ ("stages" \notin written.told \/ (~written.several /\ "run" \notin written.told)) =>
        \A r \in written.records : \E f \in Files : <<r.object, r.at>> \in f.points /\ f.size = r.size

(* find_best_backup_for_instance_name: under the same condition an instance *)
(* is shown, after a full run, the newest restore point that was fetched of *)
(* any machine it matches.                                                  *)
LookupFindsNewest ==
    written # Nothing /\ written.alone /\ written.replaced /\ OneToOne(written.records \cup written.before) =>
        \A i \in DOMAIN Inventory :
            LET mine == {r \in written.records : r.name \in name_candidates(i) \/ r.ip \in ip_candidates(i)}
                row == lookup(snapshots, i)
            IN IF mine = {} THEN row = Nothing ELSE row \in mine /\ \A r \in mine : r.at <= row.at

(* Both: what is stored and what is shown of a machine is its newest       *)
(* restore point that was fetched.                                         *)
SnapshotsAreNewest == WrittenAsFetched /\ LookupFindsNewest

(* What is known of the backups is stored and shown, and what a run for the *)
(* source does not know of their sizes is reported (SnapshotsAreNewest,     *)
(* SizesAreTold).                                                           *)
BackupsAreTold == SnapshotsAreNewest /\ SizesAreTold

(* "Replaces the snapshots by the result of this synchronisation, matching *)
(* by machine name and by address" (replace_machine_backup_snapshots):     *)
(* after a full run the table holds what was selected.                     *)
ReplacedByResult ==
    written # Nothing /\ written.alone /\ written.replaced /\ ~written.failed =>
        Range(snapshots) = write_records(newest(written.records))
=============================================================================
