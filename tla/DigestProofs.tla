---------------------------- MODULE DigestProofs ----------------------------
(***************************************************************************)
(* Proofs about the alert digests, for any number of them, of events and   *)
(* of reports: an event sent by e-mail is never deleted, what counts as    *)
(* delivered has been sent, and nothing is reported twice to who has it.   *)
(*                                                                         *)
(* The invariant Inv is about the rows and their locks.  Placed says what  *)
(* a digest may hold where it is; Stored what the committed rows are;      *)
(* Owned that a row changed by a digest is changed by no other one, and    *)
(* only from what is committed; Mined that a delivery that has been        *)
(* written and not yet committed refers to an event nobody is deleting,    *)
(* and that what is recorded as sent by e-mail gets its mark before the    *)
(* commit.  Delivered, and Ended with Mailed and ReportsStay, are inductive   *)
(* beside it.                                                              *)
(***************************************************************************)
EXTENDS AlertDigest, FiniteSetTheorems, TLAPS

\* Before anything is listed; while it is delivered; and while a channel is recorded.
Early == {"begin", "upsert", "upsert_write", "purge"}
Delivering == {"deliver", "record", "record_write", "mark"}
Recording == {"record_write", "mark"}

\* What a digest, or the database on its behalf, does.
Moves(d) == DigestStep(d) \/ DeadlockVictim(d) \/ Die(d)

\* What the tasks do that record and withdraw events.
Tasks == CreateEvent \/ ClusterRecovers \/ Withdraw \/ WithdrawVictim

\* The event has been committed: by a digest that has ended, or by another task.
Used(i) == IF i[2] \in Digests THEN pc[i[2]] = "done" ELSE i[2] <= reports

\* What digest d may hold where it is.
PlacedAt(d) ==
    /\ pc[d] \in {"upsert", "upsert_write"} => todo[d] \subseteq BackupKeys
    /\ pc[d] = "upsert_write" => cur[d] \in BackupKeys
    /\ pc[d] = "list" \/ pc[d] \in Delivering => todo[d] \subseteq enabled
    /\ pc[d] \in {"record"} \cup Recording => cur[d] \in todo[d]
    /\ pc[d] \in Early \cup {"list", "dead"} => mine[d] = NoRows
    /\ pc[d] \in Early => \A c \in Channels : pending[d][c] = {}
    /\ \A c \in Channels \ enabled : pending[d][c] = {}
    /\ pc[d] = "done" <=> run[d] # RUNNING
    /\ ~Active(d) => own[d] = Untouched
    /\ ~Active(d) \/ pc[d] \in Early \cup {"list"} => noted[d] = {}
    /\ pc[d] = "purge" => \A i \in left[d] : i[1] \in BackupKeys
    /\ pc[d] \in Recording => left[d] \subseteq pending[d][cur[d]]
    /\ pc[d] = "mark" => cur[d] = EMAIL /\ sent[d]

Placed == \A d \in Digests : PlacedAt(d)

\* The digests that had ended when d began have ended.
Ended == \A d \in Digests : \A e \in before[d] : ~Active(e)

\* The committed rows: an event is that of its key, a delivery belongs to an event
\* that exists, one sent by e-mail is marked, and so is what is to be withdrawn.
Stored ==
    /\ \A k \in Keys : events[k] # None => events[k][1] = k /\ Used(events[k])
    /\ \A i \in Ids, c \in Channels : rows[i, c] # ABSENT => events[i[1]] = i
    /\ \A i \in Ids : rows[i, EMAIL] = SENT => i \in marked
    /\ withdrawn # None => withdrawn[1] \in TaskKeys /\ events[withdrawn[1]] = withdrawn

\* A row that d has written holds the committed event or a new one of d; only an
\* unmarked backup event is deleted; and nobody else has written the row.
OwnedWell(d, k) ==
    /\ own[d][k] \in Ids =>
          /\ own[d][k][1] = k
          /\ \/ events[k] = own[d][k]
             \/ events[k] = None /\ own[d][k] = <<k, d>> /\ k \in BackupKeys
    /\ own[d][k] = None => k \in BackupKeys /\ events[k] \notin marked
    /\ own[d][k] # Same => \A e \in Digests \ {d} : own[e][k] = Same

Owned == \A d \in Digests : \A k \in Keys : OwnedWell(d, k)

\* A delivery d has written is of an event it had listed, which, while d runs, is
\* there for d and is deleted by nobody.
MineWell(d, i, c) ==
    mine[d][i, c] # ABSENT =>
        /\ i \in pending[d][c]
        /\ Active(d) => EventOf(d, i[1]) = i /\ \A e \in Digests \ {d} : own[e][i[1]] # None

\* An event d has recorded as sent by e-mail is marked, or will be.
MailWell(d, i) ==
    mine[d][i, EMAIL] = SENT =>
        \/ i \in marked \cup noted[d]
        \/ /\ sent[d] /\ cur[d] = EMAIL
           /\ pc[d] = "record_write" \/ (pc[d] = "mark" /\ i \in left[d])

\* An event d has marked is locked by d.
NotedWell(d, i) == i \in noted[d] => own[d][i[1]] = i

Mined ==
    \A d \in Digests : \A i \in Ids :
        /\ \A c \in Channels : MineWell(d, i, c)
        /\ MailWell(d, i)
        /\ NotedWell(d, i)

\* Somebody has sent the event; d has sent what it had listed.
Reached(i, c) == \E d \in Digests : <<d, i>> \in inbox[c]

Went(d, c) == \A i \in pending[d][c] : <<d, i>> \in inbox[c]

\* What d records as sent has been sent, and a channel is done, has failed or waits.
DeliveredAt(d) ==
    /\ \A i \in Ids, c \in Channels : mine[d][i, c] = SENT => Reached(i, c)
    /\ \A i \in noted[d] : Reached(i, EMAIL)
    /\ pc[d] \in {"record"} \cup Recording /\ sent[d] => Went(d, cur[d])
    /\ pc[d] \in Delivering =>
          \A c \in Channels : c \in todo[d] \cup bad[d] \/ (c = EMAIL /\ ~recipients) \/ Went(d, c)
    /\ run[d] = COMPLETED => \A c \in Channels : (c = EMAIL => recipients) => Went(d, c)

Delivered == CountedIsDelivered /\ \A d \in Digests : DeliveredAt(d)

\* A digest never lists for e-mail what an earlier one has sent by e-mail.
Mailed ==
    \A d \in Digests : \A e \in before[d] : \A i \in Ids : mine[e][i, EMAIL] = SENT => i \notin pending[d][EMAIL]

\* The event has been deleted, for good; a digest that was not before e, and has
\* ended, recorded a failure for the event on Feishu.
Gone(i) == events[i[1]] # i /\ Used(i)
Over(e, i) == \E f \in Digests : pc[f] = "done" /\ e \notin before[f] /\ mine[f][i, FEISHU] = FAILED

\* What e has sent on Feishu stays recorded as sent, or goes, and no later digest lists
\* it, unless a concurrent one recorded a failure over it.
ReportedWell(e, i) ==
    pc[e] = "done" /\ mine[e][i, FEISHU] = SENT =>
        \/ Over(e, i)
        \/ /\ rows[i, FEISHU] = SENT \/ Gone(i)
           /\ \A d \in Digests : e \in before[d] => i \notin pending[d][FEISHU]

ReportsStay == \A e \in Digests, i \in Ids : ReportedWell(e, i)

\* The rows and their locks.
Inv == TypeOK /\ Placed /\ Stored /\ Owned /\ Mined

-----------------------------------------------------------------------------
\* The tables of a digest that has written nothing.
LEMMA BlankTyped ==
    /\ NoRows \in [Ids \X Channels -> DeliveryStatus \cup {ABSENT}]
    /\ Untouched \in [Keys -> Ids \cup {None, Same}]
  BY DEF NoRows, Untouched

\* The rows as a digest sees them are rows.
LEMMA SeenTyped ==
    ASSUME TypeOK, NEW d \in Digests
    PROVE  /\ \A k \in Keys : EventOf(d, k) \in Ids \cup {None}
           /\ \A i \in Ids, c \in Channels : StatusOf(d, i, c) \in DeliveryStatus \cup {ABSENT}
<1>1. own[d] \in [Keys -> Ids \cup {None, Same}] /\ events \in [Keys -> Ids \cup {None}]
  BY DEF TypeOK
<1>2. mine[d] \in [Ids \X Channels -> DeliveryStatus \cup {ABSENT}] /\ rows \in [Ids \X Channels -> DeliveryStatus \cup {ABSENT}]
  BY DEF TypeOK
<1>3. ASSUME NEW k \in Keys PROVE EventOf(d, k) \in Ids \cup {None}
  BY <1>1 DEF EventOf
<1>4. ASSUME NEW i \in Ids, NEW c \in Channels PROVE StatusOf(d, i, c) \in DeliveryStatus \cup {ABSENT}
  BY <1>2 DEF StatusOf
<1> QED BY <1>3, <1>4

\* What a move is.
LEMMA MovesAre ==
    ASSUME NEW d \in Digests, Moves(d)
    PROVE  \/ Begin(d) \/ UpsertRead(d) \/ UpsertWrite(d) \/ PurgeRead(d) \/ PurgeRow(d)
           \/ ListPending(d) \/ (\E ok \in BOOLEAN : Send(d, ok)) \/ RecordRead(d) \/ RecordRow(d)
           \/ MarkRow(d) \/ Commit(d) \/ Fail(d) \/ Die(d)
BY DEF Moves, DigestStep, UpsertFails, RecordFails, DeadlockVictim

\* Who is chosen as the victim of a deadlock waits for a row.
LEMMA DeadlockedIsActive ==
    ASSUME NEW d \in Digests, Deadlocked(d)
    PROVE  pc[d] \in {"upsert_write", "purge", "record_write", "mark"}
<1>1. CASE \E S \in SUBSET Digests : d \in S /\ LockCycle(S)
  <2>1. WaitsFor(d) # {}
    BY <1>1 DEF LockCycle, Entangled
  <2>2. CASE pc[d] # "upsert_write"
    <3>1. PICK i \in left[d] : Holders(d, i) # {}
      BY <2>1, <2>2 DEF WaitsFor
    <3> QED BY <3>1 DEF Holders
  <2> QED BY <2>2
<1>2. CASE \E e \in Digests \ {d} : Crosses(d, Chosen(e)) \/ Crosses(e, Chosen(d))
  BY <1>2 DEF Crosses, Chosen
<1>3. CASE Crosses(d, {withdrawn})
  BY <1>3 DEF Crosses
<1> QED BY <1>1, <1>2, <1>3 DEF Deadlocked

\* A digest that has ended does nothing.
LEMMA OnlyActiveMoves ==
    ASSUME NEW d \in Digests, Moves(d)
    PROVE  Active(d)
<1>1. CASE DeadlockVictim(d)
  BY <1>1, DeadlockedIsActive DEF DeadlockVictim, Active
<1> QED BY <1>1 DEF Moves, Active, Die, DigestStep, Begin, UpsertRead, UpsertWrite, UpsertFails, PurgeRead,
       PurgeRow, ListPending, Send, RecordRead, RecordRow, RecordFails, MarkRow, Commit

\* What a digest that writes one row of an event has written.
LEMMA OneRow ==
    ASSUME TypeOK, NEW d \in Digests, NEW k \in Keys, NEW v \in Ids \cup {None},
           own' = [own EXCEPT ![d][k] = v]
    PROVE  /\ own' \in [Digests -> [Keys -> Ids \cup {None, Same}]]
           /\ own'[d][k] = v
           /\ \A j \in Keys \ {k} : own'[d][j] = own[d][j]
           /\ \A e \in Digests \ {d} : own'[e] = own[e]
<1>1. own \in [Digests -> [Keys -> Ids \cup {None, Same}]]
  BY DEF TypeOK
<1>2. own' = [own EXCEPT ![d] = [own[d] EXCEPT ![k] = v]]
  OBVIOUS
<1> HIDE DEF Ids, Keys
<1>3. [own[d] EXCEPT ![k] = v] \in [Keys -> Ids \cup {None, Same}]
  BY <1>1
<1> QED BY <1>1, <1>2, <1>3

\* The channel whose deliveries are recorded is one.
LEMMA CurIsChannel ==
    ASSUME TypeOK, Placed, NEW d \in Digests, pc[d] \in {"record"} \cup Recording
    PROVE  cur[d] \in Channels /\ cur[d] \in todo[d]
<1>1. cur[d] \in todo[d] /\ todo[d] \subseteq enabled /\ enabled \subseteq Channels
  BY DEF Placed, PlacedAt, TypeOK, Delivering, Recording
<1> QED BY <1>1

\* The end of a statement about deliveries keeps the types of what it changes.
LEMMA StatementTyped ==
    ASSUME TypeOK, Placed, NEW d \in Digests, pc[d] \in Recording,
           \/ Settle(d)
           \/ \E l \in Recording, rest \in SUBSET Ids : Onward(d, l, rest)
    PROVE  /\ pc' \in [Digests -> Locations]
           /\ left' \in [Digests -> SUBSET Ids]
           /\ cur' \in [Digests -> BackupKeys \cup Channels \cup {None}]
           /\ prior' \in [Digests -> [Ids \X Channels -> DeliveryStatus \cup {ABSENT}]]
           /\ todo' \in [Digests -> SUBSET (BackupKeys \cup Channels)]
           /\ sent' \in [Digests -> BOOLEAN]
           /\ bad' \in [Digests -> SUBSET Channels]
<1>0. cur[d] \in Channels
  BY CurIsChannel
<1>1. CASE Settle(d)
  <2>1. prior' \in [Digests -> [Ids \X Channels -> DeliveryStatus \cup {ABSENT}]]
    BY <1>1, BlankTyped DEF Settle, TypeOK
  <2>2. bad' \in [Digests -> SUBSET Channels]
    <3>1. bad' \in {bad, [bad EXCEPT ![d] = bad[d] \cup {cur[d]}]}
      BY <1>1 DEF Settle, TypeOK
    <3>2. bad \in [Digests -> SUBSET Channels]
      BY DEF TypeOK
    <3>3. bad[d] \cup {cur[d]} \in SUBSET Channels
      BY <1>0, <3>2
    <3> QED BY <3>1, <3>2, <3>3
  <2>3. /\ pc' \in [Digests -> Locations]
        /\ left' \in [Digests -> SUBSET Ids]
        /\ cur' \in [Digests -> BackupKeys \cup Channels \cup {None}]
        /\ sent' \in [Digests -> BOOLEAN]
    BY <1>1 DEF Settle, At, TypeOK, Locations
  <2>4. todo' \in [Digests -> SUBSET (BackupKeys \cup Channels)]
    BY <1>1 DEF Settle, TypeOK
  <2> QED BY <2>1, <2>2, <2>3, <2>4
<1>2. CASE \E l \in Recording, rest \in SUBSET Ids : Onward(d, l, rest)
  <2>1. PICK l \in Recording, rest \in SUBSET Ids : Onward(d, l, rest)
    BY <1>2
  <2>2. pc' \in [Digests -> Locations] /\ left' \in [Digests -> SUBSET Ids]
    BY <2>1 DEF Onward, At, TypeOK, Locations, Recording
  <2> QED BY <2>1, <2>2 DEF Onward, TypeOK
<1> QED BY <1>1, <1>2

\* A move keeps the types, one step of the proof for each variable it changes.
LEMMA DigestTyped ==
    ASSUME TypeOK, Placed, NEW d \in Digests, Moves(d)
    PROVE  TypeOK'
<1> USE DEF settings, tables, query, progress, written, others
<1>1. CASE Begin(d)
  <2>1. pc' \in [Digests -> Locations]
    <3>1. pc' \in {[pc EXCEPT ![d] = "upsert"], [pc EXCEPT ![d] = "list"], [pc EXCEPT ![d] = "deliver"]}
      BY <1>1 DEF Begin, At
    <3> QED BY <3>1 DEF TypeOK, Locations
  <2>2. issues' \in [Digests -> SUBSET BackupKeys]
    BY <1>1 DEF TypeOK, Begin
  <2>3. todo' \in [Digests -> SUBSET (BackupKeys \cup Channels)]
    BY <1>1, ZenonT(40) DEF TypeOK, Begin, At, Channels
  <2>4. before' \in [Digests -> SUBSET Digests]
    BY <1>1 DEF TypeOK, Begin
  <2>5. UNCHANGED <<enabled, recipients, backupOn, events, marked, rows, inbox, run, cur, seen, prior,
                    left, pending, sent, bad, own, mine, noted, reports, withdrawn, unusual>>
    BY <1>1 DEF Begin
  <2> QED BY <2>1, <2>2, <2>3, <2>4, <2>5 DEF TypeOK
<1>2. CASE UpsertRead(d)
  <2>1. pc' \in [Digests -> Locations]
    <3>1. pc' \in {pc, [pc EXCEPT ![d] = "upsert_write"]}
      BY <1>2 DEF UpsertRead, At
    <3> QED BY <3>1 DEF TypeOK, Locations
  <2>2. cur' \in [Digests -> BackupKeys \cup Channels \cup {None}]
    <3>1. cur' = cur \/ \E k \in BackupKeys \cup Channels : cur' = [cur EXCEPT ![d] = k]
      BY <1>2 DEF UpsertRead, TypeOK
    <3> QED BY <3>1 DEF TypeOK
  <2>3. seen' \in [Digests -> Ids \cup {None}]
    <3>1. seen' = seen \/ \E k \in Keys : seen' = [seen EXCEPT ![d] = EventOf(d, k)]
      BY <1>2 DEF UpsertRead, Keys
    <3>2. \A k \in Keys : EventOf(d, k) \in Ids \cup {None}
      BY SeenTyped
    <3>3. seen \in [Digests -> Ids \cup {None}]
      BY DEF TypeOK
    <3>4. CASE seen' = seen
      BY <3>3, <3>4
    <3>5. CASE \E k \in Keys : seen' = [seen EXCEPT ![d] = EventOf(d, k)]
      <4>1. PICK k \in Keys : seen' = [seen EXCEPT ![d] = EventOf(d, k)]
        BY <3>5
      <4> QED BY <3>2, <3>3, <4>1
    <3> QED BY <3>1, <3>4, <3>5
  <2>4. todo' \in [Digests -> SUBSET (BackupKeys \cup Channels)]
    BY <1>2 DEF TypeOK, UpsertRead
  <2>5. UNCHANGED <<enabled, recipients, backupOn, events, marked, rows, inbox, run, prior, left,
                    issues, pending, sent, bad, own, mine, noted, before, reports, withdrawn, unusual>>
    BY <1>2 DEF UpsertRead
  <2> QED BY <2>1, <2>2, <2>3, <2>4, <2>5 DEF TypeOK
<1>3. CASE UpsertWrite(d)
  <2>1. pc' \in [Digests -> Locations]
    BY <1>3 DEF TypeOK, Locations, UpsertWrite, At
  <2>2. cur' \in [Digests -> BackupKeys \cup Channels \cup {None}]
    BY <1>3 DEF TypeOK, UpsertWrite
  <2>3. seen' \in [Digests -> Ids \cup {None}]
    BY <1>3 DEF TypeOK, UpsertWrite
  <2>4. own' \in [Digests -> [Keys -> Ids \cup {None, Same}]]
    <3>1. PICK v : v = (IF seen[d] = None THEN <<cur[d], d>> ELSE seen[d])
      OBVIOUS
    <3>2. cur[d] \in BackupKeys /\ v \in Ids
      BY <1>3, <3>1 DEF UpsertWrite, Placed, PlacedAt, TypeOK, Ids, Keys
    <3>3. own' = [own EXCEPT ![d] = [own[d] EXCEPT ![cur[d]] = v]]
      BY <1>3, <3>1 DEF UpsertWrite, TypeOK
    <3>4. [own[d] EXCEPT ![cur[d]] = v] \in [Keys -> Ids \cup {None, Same}]
      BY <3>2 DEF TypeOK
    <3> QED BY <3>3, <3>4 DEF TypeOK
  <2>5. UNCHANGED <<enabled, recipients, backupOn, events, marked, rows, inbox, run, prior, left,
                    issues, todo, pending, sent, bad, mine, noted, before, reports, withdrawn, unusual>>
    BY <1>3 DEF UpsertWrite
  <2> QED BY <2>1, <2>2, <2>3, <2>4, <2>5 DEF TypeOK
<1>4. CASE PurgeRead(d) \/ PurgeRow(d)
  <2>0. PICK rest \in SUBSET Ids : Purging(d, rest)
    <3>1. CASE PurgeRead(d)
      BY <3>1 DEF PurgeRead
    <3>2. CASE PurgeRow(d)
      <4>1. PICK i \in left[d] : Purging(d, left[d] \ {i})
        BY <3>2 DEF PurgeRow
      <4>2. left[d] \ {i} \in SUBSET Ids
        BY DEF TypeOK
      <4> QED BY <4>1, <4>2
    <3> QED BY <1>4, <3>1, <3>2
  <2>1. pc' \in [Digests -> Locations]
    <3>1. pc' \in {[pc EXCEPT ![d] = "list"], [pc EXCEPT ![d] = "purge"]}
      BY <2>0 DEF Purging, At
    <3> QED BY <3>1 DEF TypeOK, Locations
  <2>2. left' \in [Digests -> SUBSET Ids]
    BY <2>0 DEF TypeOK, Purging
  <2>3. todo' \in [Digests -> SUBSET (BackupKeys \cup Channels)]
    <3>1. todo' \in {[todo EXCEPT ![d] = enabled], [todo EXCEPT ![d] = {}]}
      BY <2>0 DEF Purging
    <3> QED BY <3>1 DEF TypeOK
  <2>4. own' \in [Digests -> [Keys -> Ids \cup {None, Same}]]
    <3>1. CASE own' = own
      BY <3>1 DEF TypeOK
    <3>2. CASE own' # own
      <4>1. PICK i \in left[d] : own' = [own EXCEPT ![d][i[1]] = None]
        BY <1>4, <3>2 DEF PurgeRead, PurgeRow
      <4>2. i[1] \in Keys
        BY DEF TypeOK, Ids
      <4> QED BY <4>1, <4>2, OneRow
    <3> QED BY <3>1, <3>2
  <2>5. UNCHANGED <<enabled, recipients, backupOn, events, marked, rows, inbox, run, cur, seen, prior,
                    issues, pending, sent, bad, mine, noted, before, reports, withdrawn, unusual>>
    BY <1>4 DEF PurgeRead, PurgeRow
  <2> QED BY <2>1, <2>2, <2>3, <2>4, <2>5 DEF TypeOK
<1>5. CASE ListPending(d)
  <2>1. pc' \in [Digests -> Locations]
    <3>1. pc' \in {pc, [pc EXCEPT ![d] = "deliver"]}
      BY <1>5 DEF ListPending, At
    <3> QED BY <3>1 DEF TypeOK, Locations
  <2>2. todo' \in [Digests -> SUBSET (BackupKeys \cup Channels)]
    <3>1. PICK rest \in SUBSET (BackupKeys \cup Channels) : todo' = [todo EXCEPT ![d] = rest]
      <4>1. Addressed(pending'[d]) \in SUBSET (BackupKeys \cup Channels)
        BY DEF Addressed, TypeOK
      <4>2. \A c : todo[d] \ {c} \in SUBSET (BackupKeys \cup Channels)
        BY DEF TypeOK
      <4> QED BY <1>5, <4>1, <4>2 DEF ListPending
    <3> QED BY <3>1 DEF TypeOK
  <2>3. pending' \in [Digests -> [Channels -> SUBSET Ids]]
    BY <1>5 DEF TypeOK, ListPending, Pending
  <2>4. UNCHANGED <<enabled, recipients, backupOn, events, marked, rows, inbox, run, cur, seen, prior,
                    left, issues, sent, bad, own, mine, noted, before, reports, withdrawn, unusual>>
    BY <1>5 DEF ListPending
  <2> QED BY <2>1, <2>2, <2>3, <2>4 DEF TypeOK
<1>6. CASE \E ok \in BOOLEAN : Send(d, ok)
  <2>0. PICK ok \in BOOLEAN : Send(d, ok)
    BY <1>6
  <2>1. inbox' \in [Channels -> SUBSET (Digests \X Ids)]
    BY <2>0 DEF TypeOK, Send, Text
  <2>2. pc' \in [Digests -> Locations]
    BY <2>0 DEF TypeOK, Locations, Send, At
  <2>3. cur' \in [Digests -> BackupKeys \cup Channels \cup {None}]
    BY <2>0 DEF TypeOK, Send
  <2>4. sent' \in [Digests -> BOOLEAN]
    BY <2>0 DEF TypeOK, Send
  <2>5. unusual' \in 0..MaxUnusual
    BY <2>0, UnusualBound DEF TypeOK, Send, Unusually
  <2>6. UNCHANGED <<enabled, recipients, backupOn, events, marked, rows, run, seen, prior, left,
                    issues, todo, pending, bad, own, mine, noted, before, reports, withdrawn>>
    BY <2>0 DEF Send
  <2> QED BY <2>1, <2>2, <2>3, <2>4, <2>5, <2>6 DEF TypeOK
<1>7. CASE RecordRead(d)
  <2>1. pc' \in [Digests -> Locations]
    BY <1>7 DEF TypeOK, Locations, RecordRead, At
  <2>2. prior' \in [Digests -> [Ids \X Channels -> DeliveryStatus \cup {ABSENT}]]
    BY <1>7 DEF TypeOK, RecordRead
  <2>3. left' \in [Digests -> SUBSET Ids]
    <3>1. cur[d] \in Channels
      BY <1>7, CurIsChannel DEF RecordRead
    <3> QED BY <1>7, <3>1 DEF TypeOK, RecordRead
  <2>4. UNCHANGED <<enabled, recipients, backupOn, events, marked, rows, inbox, run, cur, seen,
                    issues, todo, pending, sent, bad, own, mine, noted, before, reports, withdrawn,
                    unusual>>
    BY <1>7 DEF RecordRead
  <2> QED BY <2>1, <2>2, <2>3, <2>4 DEF TypeOK
<1>8. CASE RecordRow(d)
  <2>0. pc[d] \in Recording /\ cur[d] \in Channels
    BY <1>8, CurIsChannel DEF RecordRow, Recording
  <2>1. PICK i \in left[d] :
          /\ mine' = [mine EXCEPT ![d][<<i, cur[d]>>] = Recorded(d, i)]
          /\ Settle(d) \/ \E l \in Recording, rest \in SUBSET Ids : Onward(d, l, rest)
    <3>1. \A i \in left[d] : left[d] \ {i} \in SUBSET Ids
      BY DEF TypeOK
    <3>2. pending[d][EMAIL] \in SUBSET Ids
      BY DEF TypeOK, Channels
    <3> QED BY <1>8, <3>1, <3>2 DEF RecordRow, Recording
  <2>2. mine' \in [Digests -> [Ids \X Channels -> DeliveryStatus \cup {ABSENT}]]
    <3>1. <<i, cur[d]>> \in Ids \X Channels
      BY <2>0 DEF TypeOK
    <3>2. Recorded(d, i) \in DeliveryStatus \cup {ABSENT}
      BY <3>1 DEF Recorded, Outcome, DeliveryStatus, TypeOK
    <3> QED BY <2>1, <3>1, <3>2 DEF TypeOK
  <2>3. UNCHANGED <<enabled, recipients, backupOn, events, marked, rows, inbox, run, seen, issues,
                    pending, own, noted, before, reports, withdrawn, unusual>>
    BY <1>8 DEF RecordRow
  <2> QED BY <2>0, <2>1, <2>2, <2>3, StatementTyped DEF TypeOK
<1>9. CASE MarkRow(d)
  <2>0. pc[d] \in Recording
    BY <1>9 DEF MarkRow, Recording
  <2>1. PICK i \in left[d] :
          /\ \/ own' = [own EXCEPT ![d][i[1]] = i] /\ noted' = [noted EXCEPT ![d] = @ \cup {i}]
             \/ UNCHANGED <<own, noted>>
          /\ Settle(d) \/ \E l \in Recording, rest \in SUBSET Ids : Onward(d, l, rest)
    <3>1. \A i \in left[d] : left[d] \ {i} \in SUBSET Ids
      BY DEF TypeOK
    <3> QED BY <1>9, <3>1, ZenonT(40) DEF MarkRow, Recording
  <2>2. i \in Ids /\ i[1] \in Keys
    BY DEF TypeOK, Ids
  <2>3. own' \in [Digests -> [Keys -> Ids \cup {None, Same}]]
    <3>1. CASE own' = [own EXCEPT ![d][i[1]] = i]
      BY <2>2, <3>1, OneRow
    <3>2. CASE own' = own
      BY <3>2 DEF TypeOK
    <3> QED BY <2>1, <3>1, <3>2
  <2>4. noted' \in [Digests -> SUBSET Ids]
    <3>1. noted' = noted \/ noted' = [noted EXCEPT ![d] = noted[d] \cup {i}]
      BY <2>1
    <3>2. noted \in [Digests -> SUBSET Ids] /\ noted[d] \cup {i} \in SUBSET Ids
      BY <2>2 DEF TypeOK
    <3> QED BY <3>1, <3>2
  <2>5. UNCHANGED <<enabled, recipients, backupOn, events, marked, rows, inbox, run, seen, issues,
                    pending, mine, before, reports, withdrawn, unusual>>
    BY <1>9 DEF MarkRow
  <2> QED BY <2>0, <2>1, <2>3, <2>4, <2>5, StatementTyped DEF TypeOK
<1>10. ASSUME Forget(d) PROVE
          /\ cur' \in [Digests -> BackupKeys \cup Channels \cup {None}]
          /\ seen' \in [Digests -> Ids \cup {None}]
          /\ prior' \in [Digests -> [Ids \X Channels -> DeliveryStatus \cup {ABSENT}]]
          /\ left' \in [Digests -> SUBSET Ids]
          /\ issues' \in [Digests -> SUBSET BackupKeys]
          /\ todo' \in [Digests -> SUBSET (BackupKeys \cup Channels)]
          /\ sent' \in [Digests -> BOOLEAN]
          /\ bad' \in [Digests -> SUBSET Channels]
          /\ own' \in [Digests -> [Keys -> Ids \cup {None, Same}]]
          /\ noted' \in [Digests -> SUBSET Ids]
  <2>1. cur' \in [Digests -> BackupKeys \cup Channels \cup {None}] /\ seen' \in [Digests -> Ids \cup {None}]
    BY <1>10 DEF Forget, TypeOK
  <2>2. prior' \in [Digests -> [Ids \X Channels -> DeliveryStatus \cup {ABSENT}]]
    BY <1>10, BlankTyped DEF Forget, TypeOK
  <2>3. left' \in [Digests -> SUBSET Ids] /\ noted' \in [Digests -> SUBSET Ids]
    BY <1>10 DEF Forget, TypeOK
  <2>4. issues' \in [Digests -> SUBSET BackupKeys] /\ todo' \in [Digests -> SUBSET (BackupKeys \cup Channels)]
    BY <1>10 DEF Forget, TypeOK
  <2>5. sent' \in [Digests -> BOOLEAN] /\ bad' \in [Digests -> SUBSET Channels]
    BY <1>10 DEF Forget, TypeOK
  <2>6. own' \in [Digests -> [Keys -> Ids \cup {None, Same}]]
    BY <1>10, BlankTyped DEF Forget, TypeOK
  <2> QED BY <2>1, <2>2, <2>3, <2>4, <2>5, <2>6
<1>11. ASSUME RollBack(d) PROVE
          /\ mine' \in [Digests -> [Ids \X Channels -> DeliveryStatus \cup {ABSENT}]]
          /\ pending' \in [Digests -> [Channels -> SUBSET Ids]]
  <2>1. mine' \in [Digests -> [Ids \X Channels -> DeliveryStatus \cup {ABSENT}]]
    BY <1>11, BlankTyped DEF RollBack, TypeOK
  <2>2. pending' \in [Digests -> [Channels -> SUBSET Ids]]
    BY <1>11 DEF RollBack, TypeOK
  <2> QED BY <2>1, <2>2
<1>12. CASE Commit(d)
  <2>1. events' \in [Keys -> Ids \cup {None}]
    BY <1>12, SeenTyped DEF Commit, TypeOK
  <2>2. marked' \in SUBSET Ids
    BY <1>12 DEF TypeOK, Commit
  <2>3. rows' \in [Ids \X Channels -> DeliveryStatus \cup {ABSENT}]
    BY <1>12, SeenTyped DEF Commit, WithoutEvents
  <2>4. run' \in [Digests -> {RUNNING, COMPLETED, FAILED}] /\ pc' \in [Digests -> Locations]
    BY <1>12 DEF TypeOK, Locations, Commit, At
  <2>5. Forget(d)
    BY <1>12 DEF Commit
  <2>6. UNCHANGED <<enabled, recipients, backupOn, inbox, pending, mine, before, reports, withdrawn, unusual>>
    BY <1>12 DEF Commit
  <2> QED BY <1>10, <2>1, <2>2, <2>3, <2>4, <2>5, <2>6 DEF TypeOK
<1>13. CASE Fail(d)
  <2>1. run' \in [Digests -> {RUNNING, COMPLETED, FAILED}] /\ pc' \in [Digests -> Locations]
    BY <1>13 DEF TypeOK, Locations, Fail, At
  <2>2. Forget(d) /\ RollBack(d)
    BY <1>13 DEF Fail, RollBack
  <2>3. UNCHANGED <<enabled, recipients, backupOn, events, marked, rows, inbox, before, reports,
                    withdrawn, unusual>>
    BY <1>13 DEF Fail
  <2> QED BY <1>10, <1>11, <2>1, <2>2, <2>3 DEF TypeOK
<1>14. CASE Die(d)
  <2>1. pc' \in [Digests -> Locations]
    BY <1>14 DEF TypeOK, Locations, Die, At
  <2>2. Forget(d) /\ RollBack(d)
    BY <1>14 DEF Die, RollBack
  <2>3. UNCHANGED <<enabled, recipients, backupOn, events, marked, rows, inbox, run, before, reports,
                    withdrawn>>
    BY <1>14 DEF Die
  <2>4. unusual' \in 0..MaxUnusual
    BY <1>14, UnusualBound DEF Die, Unusually, TypeOK
  <2> QED BY <1>10, <1>11, <2>1, <2>2, <2>3, <2>4 DEF TypeOK
<1> QED BY <1>1, <1>2, <1>3, <1>4, <1>5, <1>6, <1>7, <1>8, <1>9, <1>12, <1>13, <1>14, MovesAre

\* The other tasks change only rows and what they count, within their kinds.
LEMMA OthersTyped ==
    ASSUME TypeOK, Stored, Tasks
    PROVE  TypeOK'
<1> USE DEF settings, tables, query, progress, written, others
<1>1. CASE CreateEvent
  <2>1. PICK k \in TaskKeys : events' = [events EXCEPT ![k] = <<k, reports + 1>>]
    BY <1>1 DEF CreateEvent
  <2>2. reports + 1 \in 0..MaxReports /\ k \in Keys
    BY <1>1, ReportBound DEF CreateEvent, TypeOK, Keys
  <2>3. events' \in [Keys -> Ids \cup {None}]
    BY <2>1, <2>2 DEF TypeOK, Ids
  <2>4. reports' \in 0..MaxReports
    BY <1>1, <2>2 DEF CreateEvent
  <2>5. unusual' \in 0..MaxUnusual
    BY <1>1, UnusualBound DEF CreateEvent, Unusually, TypeOK
  <2> QED BY <1>1, <2>3, <2>4, <2>5 DEF CreateEvent, TypeOK
<1>2. CASE ClusterRecovers
  <2>1. ClusterKeys \subseteq Keys
    BY KindsDiffer DEF Keys
  <2>2. PICK k \in ClusterKeys : events[k] # None /\ withdrawn' = events[k]
    BY <1>2 DEF ClusterRecovers
  <2>3. events[k] \in Ids \cup {None}
    BY <2>1 DEF TypeOK
  <2> QED BY <1>2, <2>2, <2>3 DEF ClusterRecovers, TypeOK
<1>3. CASE Withdraw
  <2>1. withdrawn[1] \in Keys
    BY <1>3 DEF Withdraw, Stored, Keys
  <2>2. events' \in [Keys -> Ids \cup {None}]
    BY <1>3, <2>1 DEF Withdraw, TypeOK
  <2>3. rows' \in [Ids \X Channels -> DeliveryStatus \cup {ABSENT}]
    BY <1>3 DEF Withdraw, WithoutEvents, TypeOK
  <2> QED BY <1>3, <2>2, <2>3 DEF Withdraw, TypeOK
<1>4. CASE WithdrawVictim
  BY <1>4 DEF WithdrawVictim, TypeOK
<1> QED BY <1>1, <1>2, <1>3, <1>4 DEF Tasks

\* A digest changes only what is its own, and the rows when it commits.
LEMMA OthersStay ==
    ASSUME TypeOK, Placed, NEW d \in Digests, Moves(d), NEW e \in Digests \ {d}
    PROVE  /\ pc'[e] = pc[e]
           /\ run'[e] = run[e]
           /\ cur'[e] = cur[e]
           /\ seen'[e] = seen[e]
           /\ left'[e] = left[e]
           /\ prior'[e] = prior[e]
           /\ issues'[e] = issues[e]
           /\ todo'[e] = todo[e]
           /\ pending'[e] = pending[e]
           /\ sent'[e] = sent[e]
           /\ bad'[e] = bad[e]
           /\ own'[e] = own[e]
           /\ mine'[e] = mine[e]
           /\ noted'[e] = noted[e]
           /\ before'[e] = before[e]
<1> USE DEF settings, tables, query, progress, written, others
<1>1. CASE Begin(d)
  BY <1>1 DEF TypeOK, Begin, At
<1>2. CASE UpsertRead(d)
  BY <1>2 DEF TypeOK, UpsertRead, At
<1>3. CASE UpsertWrite(d)
  BY <1>3 DEF TypeOK, UpsertWrite, At
<1>4. CASE PurgeRead(d)
  BY <1>4 DEF TypeOK, PurgeRead, Purging, At
<1>5. CASE PurgeRow(d)
  BY <1>5 DEF TypeOK, PurgeRow, Purging, At
<1>6. CASE ListPending(d)
  BY <1>6 DEF TypeOK, ListPending, At
<1>7. CASE \E ok \in BOOLEAN : Send(d, ok)
  BY <1>7 DEF TypeOK, Send, At
<1>8. CASE RecordRead(d)
  BY <1>8 DEF TypeOK, RecordRead, At
<1>9. CASE RecordRow(d)
  BY <1>9 DEF TypeOK, RecordRow, Onward, Settle, At
<1>10. CASE MarkRow(d)
  BY <1>10 DEF TypeOK, MarkRow, Onward, Settle, At
<1>11. CASE Commit(d)
  BY <1>11 DEF TypeOK, Commit, At, Forget
<1>12. CASE Fail(d)
  BY <1>12 DEF TypeOK, Fail, At, RollBack, Forget
<1>13. CASE Die(d)
  BY <1>13 DEF TypeOK, Die, At, RollBack, Forget
<1> QED BY <1>1, <1>2, <1>3, <1>4, <1>5, <1>6, <1>7, <1>8, <1>9, <1>10, <1>11, <1>12, <1>13, MovesAre

\* A digest changes no setting, and the committed rows only when it commits.
LEMMA SharedStay ==
    ASSUME NEW d \in Digests, Moves(d)
    PROVE  /\ UNCHANGED <<enabled, recipients, backupOn, reports, withdrawn>>
           /\ ~Commit(d) => UNCHANGED <<events, marked, rows>>
<1> USE DEF settings, tables, query, progress, written, others
<1> QED BY MovesAre DEF Begin, UpsertRead, UpsertWrite, PurgeRead, PurgeRow, ListPending, Send, RecordRead,
                        RecordRow, MarkRow, Commit, Fail, Die

-----------------------------------------------------------------------------
\* An event a digest sees is the event of its key.
LEMMA EventFirst ==
    ASSUME TypeOK, Stored, Owned, NEW d \in Digests, NEW k \in Keys, EventOf(d, k) # None
    PROVE  EventOf(d, k) \in Ids /\ EventOf(d, k)[1] = k
<1>1. EventOf(d, k) \in Ids
  BY SeenTyped
<1> QED BY <1>1, MarkersDiffer DEF EventOf, Stored, Owned, OwnedWell

\* The row of a key that nobody else has written is nobody else's.
LEMMA NotLocked ==
    ASSUME Placed, NEW d \in Digests, NEW k \in Keys, Writers(d, k) = {}, NEW e \in Digests \ {d}
    PROVE  own[e][k] = Same
<1>1. CASE Active(e)
  BY <1>1 DEF Writers
<1>2. CASE ~Active(e)
  BY <1>2 DEF Placed, PlacedAt, Untouched
<1> QED BY <1>1, <1>2

\* A digest whose statement may go on with an event finds nobody else's lock on it.
LEMMA RowFree ==
    ASSUME Placed, NEW d \in Digests, NEW i \in Ids, Holders(d, i) = {}, NEW e \in Digests \ {d}
    PROVE  /\ pc[d] \in {"purge", "mark"} => own[e][i[1]] = Same
           /\ pc[d] = "purge" /\ Active(e) => \A c \in Channels : mine[e][i, c] = ABSENT
           /\ pc[d] = "record_write" => own[e][i[1]] # None
<1>0. i[1] \in Keys
  BY DEF Ids
<1>1. CASE Active(e)
  BY <1>1 DEF Holders
<1>2. CASE ~Active(e)
  <2>1. own[e][i[1]] = Same
    BY <1>0, <1>2 DEF Placed, PlacedAt, Untouched
  <2> QED BY <1>2, <2>1, MarkersDiffer
<1> QED BY <1>1, <1>2

\* Where a digest is tells what it holds.
LEMMA PlacedKept ==
    ASSUME TypeOK, Placed, Stored, Owned, Mined, NEW d \in Digests, Moves(d)
    PROVE  PlacedAt(d)'
<1> USE DEF settings, tables, query, progress, written, others
<1>0. PlacedAt(d) /\ TypeOK'
  BY DigestTyped DEF Placed
<1>1. CASE Begin(d)
  BY <1>0, <1>1 DEF TypeOK, Begin, At, PlacedAt, Early, Delivering, Recording, Active
<1>2. CASE UpsertRead(d)
  BY <1>0, <1>2 DEF TypeOK, UpsertRead, At, PlacedAt, Early, Delivering, Recording, Active
<1>3. CASE UpsertWrite(d)
  BY <1>0, <1>3 DEF TypeOK, UpsertWrite, At, PlacedAt, Early, Delivering, Recording, Active
<1>4. CASE PurgeRead(d)
  <2>0. PICK rest : /\ Purging(d, rest)
                    /\ rest = {i \in Ids : \E k \in BackupKeys \ issues[d] : i = EventOf(d, k) /\ Undelivered(i)}
    BY <1>4 DEF PurgeRead
  <2>1. ASSUME NEW i \in rest PROVE i[1] \in BackupKeys
    <3>1. PICK k \in BackupKeys : i = EventOf(d, k) /\ i \in Ids
      BY <2>0
    <3>2. k \in Keys /\ None \notin Ids /\ Same \notin Ids
      BY MarkersDiffer DEF Keys
    <3>3. i[1] = k
      BY <3>1, <3>2, EventFirst
    <3> QED BY <3>1, <3>3
  <2>2. left'[d] = rest /\ pc'[d] \in {"purge", "list"} /\ todo'[d] \subseteq enabled
    BY <2>0 DEF Purging, At, TypeOK
  <2>3. UNCHANGED <<enabled, run, cur, pending, mine, noted>> /\ pc[d] = "upsert"
    BY <1>4 DEF PurgeRead
  <2> QED BY <1>0, <2>1, <2>2, <2>3 DEF PlacedAt, Early, Delivering, Recording, Active
<1>5. CASE PurgeRow(d)
  <2>1. PICK i \in left[d] : Purging(d, left[d] \ {i})
    BY <1>5 DEF PurgeRow
  <2>2. left'[d] \subseteq left[d] /\ pc'[d] \in {"purge", "list"} /\ todo'[d] \subseteq enabled
    BY <2>1 DEF Purging, At, TypeOK
  <2>3. UNCHANGED <<enabled, run, cur, pending, mine, noted>> /\ pc[d] = "purge"
    BY <1>5 DEF PurgeRow
  <2> QED BY <1>0, <2>2, <2>3 DEF PlacedAt, Early, Delivering, Recording, Active
<1>6. CASE ListPending(d)
  <2>1. UNCHANGED <<enabled, run, cur, left, own, mine, noted, sent>> /\ pc[d] = "list"
        /\ pc'[d] \in {"list", "deliver"}
    BY <1>6 DEF ListPending, At, TypeOK
  <2>2. PICK c \in Channels : c \in todo[d] /\ pending' = [pending EXCEPT ![d][c] = Pending(d, c)]
    BY <1>6 DEF ListPending, NextChannel
  <2>3. c \in enabled
    BY <1>0, <2>1, <2>2 DEF PlacedAt
  <2>4. \A b \in Channels \ enabled : pending'[d][b] = {}
    BY <1>0, <2>2, <2>3 DEF PlacedAt, TypeOK
  <2>5. todo'[d] \subseteq enabled
    <3>1. Addressed(pending'[d]) \subseteq enabled
      BY DEF Addressed
    <3>2. todo'[d] = Addressed(pending'[d]) \/ todo'[d] \subseteq todo[d]
      BY <1>6 DEF ListPending, TypeOK
    <3> QED BY <1>0, <2>1, <3>1, <3>2 DEF PlacedAt
  <2> QED BY <1>0, <2>1, <2>4, <2>5 DEF PlacedAt, Early, Delivering, Recording, Active
<1>7. CASE \E ok \in BOOLEAN : Send(d, ok)
  BY <1>0, <1>7 DEF TypeOK, Send, At, PlacedAt, Early, Delivering, Recording, Active, NextChannel
<1>8. CASE RecordRead(d)
  BY <1>0, <1>8 DEF TypeOK, RecordRead, At, PlacedAt, Early, Delivering, Recording, Active
<1>9. CASE RecordRow(d) \/ MarkRow(d)
  <2>0. pc[d] \in Recording /\ UNCHANGED <<enabled, run, pending>>
    BY <1>9 DEF RecordRow, MarkRow, Recording
  <2>1. PICK i \in left[d] :
          \/ Settle(d)
          \/ Onward(d, pc[d], left[d] \ {i})
          \/ cur[d] = EMAIL /\ sent[d] /\ Onward(d, "mark", pending[d][EMAIL])
    BY <1>9 DEF RecordRow, MarkRow
  <2>2. CASE Settle(d)
    <3>1. pc'[d] = "deliver" /\ todo'[d] \subseteq todo[d]
      BY <2>2 DEF Settle, At, TypeOK
    <3> QED BY <1>0, <2>0, <3>1 DEF PlacedAt, Early, Delivering, Recording, Active
  <2>3. CASE Onward(d, pc[d], left[d] \ {i})
    <3>1. pc'[d] = pc[d] /\ left'[d] \subseteq left[d] /\ UNCHANGED <<cur, todo, sent>>
      BY <2>3 DEF Onward, At, TypeOK
    <3> QED BY <1>0, <2>0, <3>1 DEF PlacedAt, Early, Delivering, Recording, Active
  <2>4. CASE cur[d] = EMAIL /\ sent[d] /\ Onward(d, "mark", pending[d][EMAIL])
    <3>1. pc'[d] = "mark" /\ left'[d] = pending[d][cur[d]] /\ UNCHANGED <<cur, todo, sent>>
      BY <2>4 DEF Onward, At, TypeOK
    <3> QED BY <1>0, <2>0, <2>4, <3>1 DEF PlacedAt, Early, Delivering, Recording, Active
  <2> QED BY <2>1, <2>2, <2>3, <2>4
<1>10. CASE Commit(d)
  <2>1. pc'[d] = "done" /\ own'[d] = Untouched /\ left'[d] = {} /\ noted'[d] = {} /\ run'[d] # RUNNING
    BY <1>10 DEF Commit, Forget, At, TypeOK, RUNNING, COMPLETED, FAILED
  <2>2. UNCHANGED <<pending, enabled>>
    BY <1>10 DEF Commit
  <2> QED BY <1>0, <2>1, <2>2 DEF PlacedAt, Early, Delivering, Recording, Active
<1>11. CASE Fail(d)
  <2>1. pc'[d] = "done" /\ own'[d] = Untouched /\ noted'[d] = {} /\ run'[d] # RUNNING
    BY <1>11 DEF Fail, RollBack, Forget, At, TypeOK, RUNNING, FAILED
  <2>2. \A c \in Channels : pending'[d][c] = {}
    BY <1>11 DEF Fail, RollBack, TypeOK
  <2> QED BY <2>1, <2>2 DEF PlacedAt, Early, Delivering, Recording, Active
<1>12. CASE Die(d)
  <2>1. pc'[d] = "dead" /\ own'[d] = Untouched /\ noted'[d] = {} /\ mine'[d] = NoRows /\ run' = run
        /\ pc[d] # "done"
    BY <1>12 DEF Die, RollBack, Forget, At, TypeOK, Active
  <2>2. \A c \in Channels : pending'[d][c] = {}
    BY <1>12 DEF Die, RollBack, TypeOK
  <2> QED BY <1>0, <2>1, <2>2 DEF PlacedAt, Early, Delivering, Recording, Active
<1> QED BY <1>1, <1>2, <1>3, <1>4, <1>5, <1>6, <1>7, <1>8, <1>9, <1>10, <1>11, <1>12, MovesAre

-----------------------------------------------------------------------------
\* The committed rows and what has ended tell what is stored.
LEMMA StoredStays ==
    ASSUME TypeOK, Stored, UNCHANGED <<events, marked, rows, reports, withdrawn>>,
           \A e \in Digests : pc[e] = "done" => pc'[e] = "done"
    PROVE  Stored'
<1>1. ASSUME NEW k \in Keys, events'[k] # None
      PROVE  events'[k][1] = k /\ Used(events[k])'
  <2>1. events'[k] = events[k] /\ events[k][1] = k /\ Used(events[k])
    BY <1>1 DEF Stored
  <2> QED BY <2>1 DEF Used
<1> QED BY <1>1 DEF Stored

\* What is known of the deliveries of the other digests while one of them writes.
LEMMA OthersMined ==
    ASSUME TypeOK, Placed, Mined, NEW d \in Digests, Moves(d), UNCHANGED events, marked \subseteq marked',
           NEW e \in Digests \ {d}, NEW i \in Ids,
           own'[d][i[1]] = None => \/ own[d][i[1]] = None
                                   \/ Active(e) => \A c \in Channels : mine[e][i, c] = ABSENT
    PROVE  (\A c \in Channels : MineWell(e, i, c)') /\ MailWell(e, i)' /\ NotedWell(e, i)'
<1>1. /\ pc'[e] = pc[e] /\ mine'[e] = mine[e] /\ pending'[e] = pending[e] /\ noted'[e] = noted[e]
      /\ sent'[e] = sent[e] /\ cur'[e] = cur[e] /\ left'[e] = left[e]
      /\ \A x \in Digests \ {d} : own'[x] = own[x]
  BY OthersStay
<1>2. (\A c \in Channels : MineWell(e, i, c)) /\ MailWell(e, i) /\ NotedWell(e, i)
  BY DEF Mined
<1>3. ASSUME NEW c \in Channels PROVE MineWell(e, i, c)'
  <2>1. MineWell(e, i, c)
    BY <1>2
  <2>2. ASSUME mine[e][i, c] # ABSENT, Active(e)
        PROVE  EventOf(e, i[1])' = i /\ \A x \in Digests \ {e} : own'[x][i[1]] # None
    <3>1. EventOf(e, i[1]) = i /\ \A x \in Digests \ {e} : own[x][i[1]] # None
      BY <2>1, <2>2 DEF MineWell
    <3>2. own'[d][i[1]] # None
      BY <2>2, <3>1
    <3> QED BY <1>1, <3>1, <3>2 DEF EventOf
  <2> QED BY <1>1, <2>1, <2>2 DEF MineWell, Active
<1>4. MailWell(e, i)'
  BY <1>1, <1>2 DEF MailWell
<1>5. NotedWell(e, i)'
  BY <1>1, <1>2 DEF NotedWell
<1> QED BY <1>3, <1>4, <1>5

\* A step that changes no event, no delivery and no lock.
Quietly(d) ==
    \/ Begin(d) \/ UpsertRead(d) \/ PurgeRead(d) \/ ListPending(d)
    \/ (\E ok \in BOOLEAN : Send(d, ok)) \/ RecordRead(d)

\* Such an action keeps what is known of the rows.
LEMMA QuietStep ==
    ASSUME TypeOK, Placed, Stored, Owned, Mined, NEW d \in Digests, Quietly(d)
    PROVE  Stored' /\ Owned' /\ Mined'
<1> USE DEF settings, tables, query, progress, written, others
<1>0. PlacedAt(d) /\ Moves(d)
  BY DEF Placed, Quietly, Moves, DigestStep
<1>1. UNCHANGED <<events, marked, rows, own, mine, noted, reports, withdrawn>>
  BY DEF Quietly, Begin, UpsertRead, PurgeRead, ListPending, Send, RecordRead
<1>2. Active(d) /\ pc[d] \notin Recording /\ (pending' = pending \/ pc[d] = "list")
  BY DEF Quietly, Begin, UpsertRead, PurgeRead, ListPending, Send, RecordRead, Active, Recording
<1>3. \A e \in Digests \ {d} : pc'[e] = pc[e]
  BY <1>0, OthersStay
<1>4. Stored'
  BY <1>1, <1>2, <1>3, StoredStays DEF Active
<1>5. Owned'
  BY <1>1 DEF Owned, OwnedWell
<1>6. ASSUME NEW i \in Ids
      PROVE  (\A c \in Channels : MineWell(d, i, c)') /\ MailWell(d, i)' /\ NotedWell(d, i)'
  <2>1. (\A c \in Channels : MineWell(d, i, c)) /\ MailWell(d, i) /\ NotedWell(d, i)
    BY DEF Mined
  <2>2. ASSUME NEW c \in Channels PROVE MineWell(d, i, c)'
    <3>1. mine[d][i, c] # ABSENT => pending' = pending
      <4>1. <<i, c>> \in Ids \X Channels
        OBVIOUS
      <4> QED BY <1>0, <1>2, <4>1 DEF PlacedAt, NoRows
    <3>2. MineWell(d, i, c)
      BY <2>1
    <3> QED BY <1>1, <1>2, <3>1, <3>2 DEF MineWell, EventOf
  <2>3. MailWell(d, i)'
    BY <1>1, <1>2, <2>1 DEF MailWell, Recording
  <2>4. NotedWell(d, i)'
    BY <1>1, <2>1 DEF NotedWell
  <2> QED BY <2>2, <2>3, <2>4
<1>7. Mined'
  <2> SUFFICES ASSUME NEW e \in Digests, NEW i \in Ids
               PROVE  (\A c \in Channels : MineWell(e, i, c)') /\ MailWell(e, i)' /\ NotedWell(e, i)'
    BY DEF Mined
  <2>1. CASE e = d
    BY <1>6, <2>1
  <2>2. CASE e # d
    BY <1>0, <1>1, <2>2, OthersMined
  <2> QED BY <2>1, <2>2
<1> QED BY <1>4, <1>5, <1>7

\* The insert or update of a backup event.
LEMMA UpsertStep ==
    ASSUME TypeOK, Placed, Stored, Owned, Mined, NEW d \in Digests, UpsertWrite(d)
    PROVE  Stored' /\ Owned' /\ Mined'
<1> USE DEF settings, tables, query, progress, written, others
<1>0. PlacedAt(d) /\ Moves(d) /\ pc[d] = "upsert_write"
  BY DEF Placed, Moves, DigestStep, UpsertWrite
<1>1. \A e \in Digests \ {d} : pc'[e] = pc[e] /\ own'[e] = own[e]
  BY <1>0, OthersStay
<1>2. UNCHANGED <<events, marked, rows, mine, noted, pending, reports, withdrawn>>
  BY DEF UpsertWrite
<1>3. PICK k : k = cur[d]
  OBVIOUS
<1>4. k \in BackupKeys /\ k \in Keys
  BY <1>0, <1>3 DEF PlacedAt, Keys
<1>5. \A e \in Digests \ {d} : own[e][k] = Same
  BY <1>3, <1>4, NotLocked DEF UpsertWrite
<1>6. PICK v : v = (IF events[k] = None THEN <<k, d>> ELSE events[k])
  OBVIOUS
<1>7. own' = [own EXCEPT ![d][k] = v]
  BY <1>3, <1>6 DEF UpsertWrite
<1>8. v \in Ids /\ v # None /\ v # Same /\ v[1] = k
  <2>1. v \in Ids /\ v[1] = k
    <3>1. CASE events[k] = None
      BY <1>4, <1>6, <3>1 DEF Ids
    <3>2. CASE events[k] # None
      BY <1>4, <1>6, <3>2 DEF TypeOK, Stored
    <3> QED BY <3>1, <3>2
  <2> QED BY <2>1, MarkersDiffer
<1>9. own'[d][k] = v /\ \A j \in Keys \ {k} : own'[d][j] = own[d][j]
  <2>1. k \in Keys /\ v \in Ids \cup {None}
    BY <1>4, <1>8
  <2> QED BY <1>7, <2>1, OneRow, Zenon
<1>10. mine[d] = NoRows /\ noted[d] = {}
  BY <1>0 DEF PlacedAt, Early
<1>11. Stored'
  BY <1>0, <1>1, <1>2, StoredStays
<1>12. Owned'
  <2> SUFFICES ASSUME NEW e \in Digests, NEW j \in Keys
               PROVE  OwnedWell(e, j)'
    BY DEF Owned
  <2>1. OwnedWell(e, j)
    BY DEF Owned
  <2>2. CASE j = k /\ e = d
    BY <1>1, <1>2, <1>4, <1>5, <1>6, <1>8, <1>9, <2>2 DEF OwnedWell
  <2>3. CASE j = k /\ e # d
    BY <1>1, <1>5, <2>3, MarkersDiffer DEF OwnedWell
  <2>4. CASE j # k
    <3>1. \A x \in Digests : own'[x][j] = own[x][j]
      BY <1>1, <1>9, <2>4
    <3> QED BY <1>2, <2>1, <3>1 DEF OwnedWell
  <2> QED BY <2>2, <2>3, <2>4
<1>13. Mined'
  <2> SUFFICES ASSUME NEW e \in Digests, NEW i \in Ids
               PROVE  (\A c \in Channels : MineWell(e, i, c)') /\ MailWell(e, i)' /\ NotedWell(e, i)'
    BY DEF Mined
  <2>1. CASE e = d
    <3>1. \A c \in Channels : mine'[d][i, c] = ABSENT
      BY <1>2, <1>10 DEF NoRows
    <3> QED BY <1>2, <1>10, <2>1, <3>1 DEF MineWell, MailWell, NotedWell, Channels, SENT, ABSENT
  <2>2. CASE e # d
    <3>1. i[1] \in Keys
      BY DEF Ids
    <3>2. own'[d][i[1]] = None => own[d][i[1]] = None
      BY <1>8, <1>9, <3>1
    <3> QED BY <1>0, <1>2, <2>2, <3>2, OthersMined
  <2> QED BY <2>1, <2>2
<1> QED BY <1>11, <1>12, <1>13

\* The DELETE takes one of the backup events that have no issue any more.
LEMMA PurgeStep ==
    ASSUME TypeOK, Placed, Stored, Owned, Mined, NEW d \in Digests, PurgeRow(d)
    PROVE  Stored' /\ Owned' /\ Mined'
<1> USE DEF settings, tables, query, progress, written, others
<1>0. PlacedAt(d) /\ Moves(d) /\ pc[d] = "purge"
  BY DEF Placed, Moves, DigestStep, PurgeRow
<1>1. \A e \in Digests \ {d} : pc'[e] = pc[e] /\ own'[e] = own[e]
  BY <1>0, OthersStay
<1>2. UNCHANGED <<events, marked, rows, mine, noted, pending, reports, withdrawn>>
  BY DEF PurgeRow
<1>3. PICK i \in left[d] :
        /\ Holders(d, i) = {}
        /\ own' = IF events[i[1]] = i /\ Unmarked(i) THEN [own EXCEPT ![d][i[1]] = None] ELSE own
  BY DEF PurgeRow
<1>4. PICK k : k = i[1]
  OBVIOUS
<1>5. i \in Ids /\ k \in Keys /\ k \in BackupKeys
  BY <1>0, <1>4 DEF TypeOK, PlacedAt, Ids
<1>6. /\ \A e \in Digests \ {d} : own[e][k] = Same
      /\ \A e \in Digests \ {d} : Active(e) => \A c \in Channels : mine[e][i, c] = ABSENT
  BY <1>0, <1>3, <1>4, <1>5, RowFree
<1>7. mine[d] = NoRows /\ noted[d] = {}
  BY <1>0 DEF PlacedAt, Early
<1>8. Stored'
  BY <1>0, <1>1, <1>2, StoredStays
<1>9. \/ own' = own
      \/ /\ events[k] = i /\ i \notin marked /\ own'[d][k] = None
         /\ \A j \in Keys \ {k} : own'[d][j] = own[d][j]
  <2>1. CASE events[i[1]] = i /\ Unmarked(i)
    <3>1. own' = [own EXCEPT ![d][k] = None]
      BY <1>3, <1>4, <2>1
    <3>2. None \in Ids \cup {None}
      OBVIOUS
    <3>3. own'[d][k] = None /\ \A j \in Keys \ {k} : own'[d][j] = own[d][j]
      BY <1>5, <3>1, <3>2, OneRow, Zenon
    <3> QED BY <1>4, <2>1, <3>3 DEF Unmarked
  <2>2. CASE ~(events[i[1]] = i /\ Unmarked(i))
    BY <1>3, <2>2
  <2> QED BY <2>1, <2>2
<1>10. Owned'
  <2> SUFFICES ASSUME NEW e \in Digests, NEW j \in Keys
               PROVE  OwnedWell(e, j)'
    BY DEF Owned
  <2>1. OwnedWell(e, j)
    BY DEF Owned
  <2>2. CASE j = k /\ own' # own
    <3>1. own'[d][j] = None /\ events'[j] \notin marked' /\ \A x \in Digests \ {d} : own'[x][j] = Same
      BY <1>1, <1>2, <1>6, <1>9, <2>2
    <3> QED BY <1>5, <2>2, <3>1, MarkersDiffer DEF OwnedWell
  <2>3. CASE j # k \/ own' = own
    <3>1. \A x \in Digests : own'[x][j] = own[x][j]
      BY <1>1, <1>9, <2>3
    <3> QED BY <1>2, <2>1, <3>1 DEF OwnedWell
  <2> QED BY <2>2, <2>3
<1>11. Mined'
  <2> SUFFICES ASSUME NEW e \in Digests, NEW j \in Ids
               PROVE  (\A c \in Channels : MineWell(e, j, c)') /\ MailWell(e, j)' /\ NotedWell(e, j)'
    BY DEF Mined
  <2>1. CASE e = d
    <3>1. \A c \in Channels : mine'[d][j, c] = ABSENT
      BY <1>2, <1>7 DEF NoRows
    <3> QED BY <1>2, <1>7, <2>1, <3>1 DEF MineWell, MailWell, NotedWell, Channels, SENT, ABSENT
  <2>2. CASE e # d
    <3>1. j[1] \in Keys
      BY DEF Ids
    <3>2. ASSUME own'[d][j[1]] = None, own[d][j[1]] # None, Active(e), NEW c \in Channels
          PROVE  mine[e][j, c] = ABSENT
      <4>1. j[1] = k /\ events[k] = i
        BY <1>9, <3>1, <3>2
      <4>2. own[e][k] = Same /\ mine[e][i, c] = ABSENT
        BY <1>6, <2>2, <3>2
      <4>3. MineWell(e, j, c)
        BY DEF Mined
      <4> QED BY <3>2, <4>1, <4>2, <4>3 DEF MineWell, EventOf
    <3> QED BY <1>0, <1>2, <2>2, <3>2, OthersMined
  <2> QED BY <2>1, <2>2
<1> QED BY <1>8, <1>10, <1>11

\* The end of a statement about deliveries, or its next row.
LEMMA StatementGoesOn ==
    ASSUME TypeOK, NEW d \in Digests, NEW c \in Channels, c = cur[d], pc[d] \in Recording
    PROVE  /\ Settle(d) => pc'[d] = "deliver"
           /\ \A rest : \A l \in Recording : Onward(d, l, rest) =>
                 pc'[d] = l /\ left'[d] = rest /\ cur'[d] = cur[d] /\ sent'[d] = sent[d]
BY DEF Settle, Onward, At, TypeOK

\* One delivery of the channel is written.
LEMMA RecordStep ==
    ASSUME TypeOK, Placed, Stored, Owned, Mined, NEW d \in Digests, RecordRow(d)
    PROVE  Stored' /\ Owned' /\ Mined'
<1> USE DEF settings, tables, query, progress, written, others
<1>0. PlacedAt(d) /\ Moves(d) /\ pc[d] = "record_write" /\ pc[d] \in Recording
  BY DEF Placed, Moves, DigestStep, RecordRow, Recording
<1>1. \A e \in Digests \ {d} : pc'[e] = pc[e]
  BY <1>0, OthersStay
<1>2. UNCHANGED <<events, marked, rows, own, noted, pending, reports, withdrawn>>
  BY DEF RecordRow
<1>3. PICK i \in left[d] :
        /\ Holders(d, i) = {}
        /\ ~RecordConflict(d, i)
        /\ mine' = [mine EXCEPT ![d][<<i, cur[d]>>] = Recorded(d, i)]
        /\ LET rest == left[d] \ {i} IN
             IF rest # {} THEN Onward(d, "record_write", rest)
             ELSE IF cur[d] = EMAIL /\ sent[d] THEN Onward(d, "mark", pending[d][EMAIL])
             ELSE Settle(d)
  BY DEF RecordRow
<1>4. PICK c \in Channels : c = cur[d]
  BY <1>0, CurIsChannel
<1>5. i \in Ids /\ i \in pending[d][c]
  BY <1>0, <1>4 DEF TypeOK, PlacedAt
<1>6. PICK r : r = Recorded(d, i)
  OBVIOUS
<1>7. /\ mine'[d][i, c] = r
      /\ \A j \in Ids, b \in Channels : ~(j = i /\ b = c) => mine'[d][j, b] = mine[d][j, b]
  <2>1. mine \in [Digests -> [Ids \X Channels -> DeliveryStatus \cup {ABSENT}]]
    BY DEF TypeOK
  <2>2. mine' = [mine EXCEPT ![d] = [mine[d] EXCEPT ![<<i, c>>] = r]]
    BY <1>3, <1>4, <1>6
  <2>3. mine'[d] = [mine[d] EXCEPT ![<<i, c>>] = r] /\ mine[d] \in [Ids \X Channels -> DeliveryStatus \cup {ABSENT}]
    BY <2>1, <2>2
  <2>4. <<i, c>> \in Ids \X Channels
    BY <1>4, <1>5
  <2>5. mine'[d][<<i, c>>] = r
    BY <2>3, <2>4
  <2>6. ASSUME NEW j \in Ids, NEW b \in Channels, ~(j = i /\ b = c)
        PROVE  mine'[d][<<j, b>>] = mine[d][<<j, b>>]
    <3>1. <<j, b>> \in Ids \X Channels /\ <<j, b>> # <<i, c>>
      BY <2>6
    <3> QED BY <2>3, <3>1
  <2> QED BY <2>5, <2>6
<1>8. EventOf(d, i[1]) = i /\ \A e \in Digests \ {d} : own[e][i[1]] # None
  BY <1>0, <1>3, <1>5, RowFree DEF RecordConflict
<1>9. pc'[d] # "done" /\ pc[d] # "done"
  BY <1>0, <1>3, <1>4, StatementGoesOn DEF Recording
<1>10. Stored'
  BY <1>1, <1>2, <1>9, StoredStays
<1>11. Owned'
  BY <1>2 DEF Owned, OwnedWell
<1>12. ASSUME NEW j \in Ids
       PROVE  (\A b \in Channels : MineWell(d, j, b)') /\ MailWell(d, j)' /\ NotedWell(d, j)'
  <2>1. (\A b \in Channels : MineWell(d, j, b)) /\ MailWell(d, j) /\ NotedWell(d, j) /\ EMAIL \in Channels
    BY DEF Mined, Channels
  <2>2. ASSUME NEW b \in Channels PROVE MineWell(d, j, b)'
    <3>1. CASE j = i /\ b = c
      <4>1. i \in pending'[d][c] /\ EventOf(d, i[1])' = i /\ \A e \in Digests \ {d} : own'[e][i[1]] # None
        BY <1>2, <1>5, <1>8 DEF EventOf
      <4> QED BY <3>1, <4>1 DEF MineWell
    <3>2. CASE ~(j = i /\ b = c)
      <4>1. mine'[d][j, b] = mine[d][j, b]
        BY <1>7, <3>2
      <4>2. Active(d)
        BY <1>0 DEF Active
      <4> QED BY <1>2, <2>1, <4>1, <4>2 DEF MineWell, EventOf
    <3> QED BY <3>1, <3>2
  <2>3. MailWell(d, j)'
    <3> SUFFICES ASSUME mine'[d][j, EMAIL] = SENT, j \notin marked \cup noted[d]
                 PROVE  sent'[d] /\ cur'[d] = EMAIL
                        /\ (pc'[d] = "record_write" \/ (pc'[d] = "mark" /\ j \in left'[d]))
      BY <1>2 DEF MailWell
    <3>1. cur[d] = EMAIL /\ sent[d] /\ j \in pending[d][EMAIL]
      <4>1. CASE j = i /\ c = EMAIL
        <5>1. SENT = Recorded(d, i)
          BY <1>6, <1>7, <4>1
        <5>2. rows[i, EMAIL] # SENT
          BY <4>1 DEF Stored
        <5>3. sent[d]
          BY <1>4, <4>1, <5>1, <5>2 DEF Recorded, Outcome, SENT, FAILED
        <5> QED BY <1>4, <1>5, <4>1, <5>3
      <4>2. CASE ~(j = i /\ c = EMAIL)
        <5>1. mine[d][j, EMAIL] = SENT
          BY <1>7, <2>1, <4>2
        <5>2. sent[d] /\ cur[d] = EMAIL
          BY <2>1, <5>1 DEF MailWell
        <5>3. j \in pending[d][EMAIL]
          BY <2>1, <5>1 DEF MineWell, SENT, ABSENT
        <5> QED BY <5>2, <5>3
      <4> QED BY <4>1, <4>2
    <3>2. \/ Onward(d, "record_write", left[d] \ {i})
          \/ Onward(d, "mark", pending[d][EMAIL])
      BY <1>3, <3>1, Zenon
    <3>3. CASE Onward(d, "record_write", left[d] \ {i})
      BY <1>0, <1>4, <3>1, <3>3, StatementGoesOn DEF Recording
    <3>4. CASE Onward(d, "mark", pending[d][EMAIL])
      BY <1>0, <1>4, <3>1, <3>4, StatementGoesOn DEF Recording
    <3> QED BY <3>2, <3>3, <3>4
  <2>4. NotedWell(d, j)'
    BY <1>2, <2>1 DEF NotedWell
  <2> QED BY <2>2, <2>3, <2>4
<1>13. Mined'
  <2> SUFFICES ASSUME NEW e \in Digests, NEW j \in Ids
               PROVE  (\A b \in Channels : MineWell(e, j, b)') /\ MailWell(e, j)' /\ NotedWell(e, j)'
    BY DEF Mined
  <2>1. CASE e = d
    BY <1>12, <2>1
  <2>2. CASE e # d
    BY <1>0, <1>2, <2>2, OthersMined
  <2> QED BY <2>1, <2>2
<1> QED BY <1>10, <1>11, <1>13

\* digest_sent_at of one event is set.
LEMMA MarkStep ==
    ASSUME TypeOK, Placed, Stored, Owned, Mined, NEW d \in Digests, MarkRow(d)
    PROVE  Stored' /\ Owned' /\ Mined'
<1> USE DEF settings, tables, query, progress, written, others
<1>0. PlacedAt(d) /\ Moves(d) /\ pc[d] = "mark" /\ pc[d] \in Recording /\ Active(d)
  BY DEF Placed, Moves, DigestStep, MarkRow, Recording, Active
<1>1. \A e \in Digests \ {d} : pc'[e] = pc[e] /\ own'[e] = own[e]
  BY <1>0, OthersStay
<1>2. UNCHANGED <<events, marked, rows, mine, pending, reports, withdrawn>>
  BY DEF MarkRow
<1>3. PICK i \in left[d] :
        /\ Holders(d, i) = {}
        /\ IF EventOf(d, i[1]) = i
           THEN own' = [own EXCEPT ![d][i[1]] = i] /\ noted' = [noted EXCEPT ![d] = @ \cup {i}]
           ELSE UNCHANGED <<own, noted>>
        /\ IF left[d] # {i} THEN Onward(d, "mark", left[d] \ {i}) ELSE Settle(d)
  BY DEF MarkRow
<1>4. PICK c \in Channels : c = cur[d]
  BY <1>0, CurIsChannel
<1>5. c = EMAIL /\ sent[d]
  BY <1>0, <1>4 DEF PlacedAt
<1>6. PICK k \in Keys : k = i[1]
  BY DEF TypeOK, Ids
<1>7. i \in Ids /\ i # None /\ i # Same
  BY MarkersDiffer DEF TypeOK
<1>8. \A e \in Digests \ {d} : own[e][k] = Same
  BY <1>0, <1>3, <1>6, <1>7, RowFree
<1>9. \/ own' = own /\ noted' = noted /\ EventOf(d, k) # i
      \/ /\ EventOf(d, k) = i /\ own'[d][k] = i /\ \A j \in Keys \ {k} : own'[d][j] = own[d][j]
         /\ noted'[d] = noted[d] \cup {i}
  <2>1. CASE EventOf(d, i[1]) = i
    <3>1. own' = [own EXCEPT ![d][k] = i] /\ i \in Ids \cup {None}
      BY <1>3, <1>6, <1>7, <2>1
    <3>2. own'[d][k] = i /\ \A j \in Keys \ {k} : own'[d][j] = own[d][j]
      BY <3>1, OneRow, Zenon
    <3>3. noted'[d] = noted[d] \cup {i}
      BY <1>3, <2>1 DEF TypeOK
    <3> QED BY <1>6, <2>1, <3>2, <3>3
  <2>2. CASE EventOf(d, i[1]) # i
    BY <1>3, <1>6, <2>2
  <2> QED BY <2>1, <2>2
<1>10. \A j \in Keys : EventOf(d, j)' = EventOf(d, j)
  BY <1>2, <1>7, <1>9 DEF EventOf
<1>11. pc'[d] # "done" /\ pc[d] # "done"
  BY <1>0, <1>3, <1>4, StatementGoesOn DEF Recording
<1>12. Stored'
  BY <1>1, <1>2, <1>11, StoredStays
<1>13. Owned'
  <2> SUFFICES ASSUME NEW e \in Digests, NEW j \in Keys
               PROVE  OwnedWell(e, j)'
    BY DEF Owned
  <2>1. OwnedWell(e, j)
    BY DEF Owned
  <2>2. CASE j = k /\ e = d /\ EventOf(d, k) = i
    <3>1. own'[d][k] = i /\ \A x \in Digests \ {d} : own'[x][k] = Same
      BY <1>1, <1>8, <1>9, <2>2
    <3>2. events[k] = i \/ (events[k] = None /\ i = <<k, d>> /\ k \in BackupKeys)
      BY <1>7, <2>1, <2>2 DEF EventOf, OwnedWell
    <3> QED BY <1>2, <1>6, <1>7, <2>2, <3>1, <3>2 DEF OwnedWell
  <2>3. CASE j = k /\ e # d
    <3>1. own'[e][j] = Same
      BY <1>1, <1>8, <2>3
    <3> QED BY <3>1, MarkersDiffer DEF OwnedWell
  <2>4. CASE j # k \/ EventOf(d, k) # i
    <3>1. \A x \in Digests : own'[x][j] = own[x][j]
      BY <1>1, <1>9, <2>4
    <3> QED BY <1>2, <2>1, <3>1 DEF OwnedWell
  <2> QED BY <2>2, <2>3, <2>4
<1>14. ASSUME NEW j \in Ids
       PROVE  (\A b \in Channels : MineWell(d, j, b)') /\ MailWell(d, j)' /\ NotedWell(d, j)'
  <2>1. (\A b \in Channels : MineWell(d, j, b)) /\ MailWell(d, j) /\ NotedWell(d, j) /\ EMAIL \in Channels
    BY DEF Mined, Channels
  <2>2. j[1] \in Keys
    BY DEF Ids
  <2>3. ASSUME NEW b \in Channels PROVE MineWell(d, j, b)'
    BY <1>0, <1>1, <1>2, <1>10, <2>1, <2>2 DEF MineWell
  <2>4. MailWell(d, j)'
    <3> SUFFICES ASSUME mine[d][j, EMAIL] = SENT, j \notin marked \cup noted'[d]
                 PROVE  sent'[d] /\ cur'[d] = EMAIL /\ pc'[d] = "mark" /\ j \in left'[d]
      BY <1>2 DEF MailWell
    <3>1. noted[d] \subseteq noted'[d]
      BY <1>9
    <3>2. j \in left[d]
      BY <1>0, <2>1, <3>1 DEF MailWell
    <3>3. j # i
      <4> SUFFICES ASSUME j = i PROVE FALSE
        OBVIOUS
      <4>1. EventOf(d, k) = i
        BY <1>0, <1>6, <2>1 DEF MineWell, SENT, ABSENT
      <4> QED BY <1>9, <4>1
    <3>4. Onward(d, "mark", left[d] \ {i})
      BY <1>3, <3>2, <3>3
    <3>5. pc'[d] = "mark" /\ left'[d] = left[d] \ {i} /\ cur'[d] = cur[d] /\ sent'[d] = sent[d]
      <4>1. "mark" \in Recording
        BY DEF Recording
      <4> QED BY <1>0, <1>4, <3>4, <4>1, StatementGoesOn, Zenon
    <3> QED BY <1>4, <1>5, <3>2, <3>3, <3>5
  <2>5. NotedWell(d, j)'
    <3> SUFFICES ASSUME j \in noted'[d] PROVE own'[d][j[1]] = j
      BY DEF NotedWell
    <3>1. CASE j \in noted[d] /\ j # i
      <4>1. own[d][j[1]] = j
        BY <2>1, <3>1 DEF NotedWell
      <4>2. j # Same
        BY MarkersDiffer
      <4>3. EventOf(d, j[1]) = j
        BY <4>1, <4>2 DEF EventOf
      <4> QED BY <1>9, <2>2, <3>1, <4>1, <4>3
    <3>2. CASE j = i
      <4>1. EventOf(d, k) = i \/ own[d][k] = i
        BY <1>6, <1>9, <2>1, <3>2 DEF NotedWell
      <4> QED BY <1>6, <1>7, <1>9, <3>2, <4>1 DEF EventOf
    <3> QED BY <1>9, <3>1, <3>2
  <2> QED BY <2>3, <2>4, <2>5
<1>15. Mined'
  <2> SUFFICES ASSUME NEW e \in Digests, NEW j \in Ids
               PROVE  (\A b \in Channels : MineWell(e, j, b)') /\ MailWell(e, j)' /\ NotedWell(e, j)'
    BY DEF Mined
  <2>1. CASE e = d
    BY <1>14, <2>1
  <2>2. CASE e # d
    <3>1. j[1] \in Keys
      BY DEF Ids
    <3>2. own'[d][j[1]] = None => own[d][j[1]] = None
      BY <1>7, <1>9, <3>1
    <3> QED BY <1>0, <1>2, <2>2, <3>2, OthersMined
  <2> QED BY <2>1, <2>2
<1> QED BY <1>12, <1>13, <1>15

\* A digest that fails or is lost leaves nothing.
LEMMA RollBackStep ==
    ASSUME TypeOK, Placed, Stored, Owned, Mined, NEW d \in Digests, Moves(d), Fail(d) \/ Die(d)
    PROVE  Stored' /\ Owned' /\ Mined'
<1> USE DEF settings, tables, query, progress, written, others
<1>0. /\ pc'[d] \in {"done", "dead"} /\ own'[d] = Untouched /\ mine'[d] = NoRows /\ noted'[d] = {}
      /\ Active(d)
  <2>1. Active(d)
    BY OnlyActiveMoves
  <2> QED BY <2>1 DEF Fail, Die, RollBack, Forget, At, TypeOK
<1>1. \A e \in Digests \ {d} : pc'[e] = pc[e] /\ own'[e] = own[e]
  BY OthersStay
<1>2. UNCHANGED <<events, marked, rows, reports, withdrawn>>
  BY DEF Fail, Die
<1>3. \A k \in Keys : own'[d][k] = Same
  BY <1>0 DEF Untouched
<1>4. \A i \in Ids, c \in Channels : mine'[d][i, c] = ABSENT
  BY <1>0 DEF NoRows
<1>5. Stored'
  BY <1>0, <1>1, <1>2, StoredStays DEF Active
<1>6. Owned'
  <2> SUFFICES ASSUME NEW e \in Digests, NEW j \in Keys
               PROVE  OwnedWell(e, j)'
    BY DEF Owned
  <2>1. OwnedWell(e, j)
    BY DEF Owned
  <2>2. CASE e = d
    BY <1>3, <2>2, MarkersDiffer DEF OwnedWell
  <2>3. CASE e # d
    BY <1>1, <1>2, <1>3, <2>1, <2>3 DEF OwnedWell
  <2> QED BY <2>2, <2>3
<1>7. Mined'
  <2> SUFFICES ASSUME NEW e \in Digests, NEW i \in Ids
               PROVE  (\A c \in Channels : MineWell(e, i, c)') /\ MailWell(e, i)' /\ NotedWell(e, i)'
    BY DEF Mined
  <2>1. i[1] \in Keys /\ EMAIL \in Channels
    BY DEF Ids, Channels
  <2>2. CASE e = d
    BY <1>0, <1>4, <2>1, <2>2 DEF MineWell, MailWell, NotedWell, SENT, ABSENT
  <2>3. CASE e # d
    <3>1. own'[d][i[1]] # None
      BY <1>3, <2>1, MarkersDiffer
    <3> QED BY <1>2, <2>3, <3>1, OthersMined
  <2> QED BY <2>2, <2>3
<1> QED BY <1>5, <1>6, <1>7

\* Everything a digest wrote becomes visible.
LEMMA CommitStep ==
    ASSUME TypeOK, Placed, Stored, Owned, Mined, NEW d \in Digests, Commit(d)
    PROVE  /\ Stored' /\ Owned' /\ Mined'
           /\ \A k \in Keys : events[k] \in marked => events'[k] = events[k]
<1> USE DEF settings, tables, query, progress, written, others
<1>0. PlacedAt(d) /\ Moves(d) /\ pc[d] = "deliver" /\ pc'[d] = "done" /\ Active(d)
  BY DEF Placed, Moves, DigestStep, Commit, At, TypeOK, Active
<1>1. \A e \in Digests \ {d} : /\ pc'[e] = pc[e] /\ own'[e] = own[e] /\ noted'[e] = noted[e]
                               /\ cur'[e] = cur[e] /\ sent'[e] = sent[e] /\ left'[e] = left[e]
  BY <1>0, OthersStay
<1>2. UNCHANGED <<mine, pending, reports, withdrawn>>
  BY DEF Commit
<1>3. (\A k \in Keys : own'[d][k] = Same) /\ noted'[d] = {}
  BY DEF Commit, Forget, Untouched, TypeOK
<1>4. \A k \in Keys : events'[k] = EventOf(d, k)
  BY DEF Commit
<1>5. marked' = marked \cup noted[d]
  BY DEF Commit
<1>6. \A i \in Ids, c \in Channels :
        rows'[i, c] = IF own[d][i[1]] = None THEN ABSENT ELSE StatusOf(d, i, c)
  BY DEF Commit, WithoutEvents
<1>7. \A i \in Ids : i[1] \in Keys
  BY DEF Ids
<1>8. ASSUME NEW k \in Keys, events[k] # None, own[d][k] # None
      PROVE  EventOf(d, k) = events[k]
  BY <1>8, MarkersDiffer DEF EventOf, Owned, OwnedWell, TypeOK
<1>9. ASSUME NEW k \in Keys, events[k] \in marked
      PROVE  events'[k] = events[k]
  <2>1. events[k] # None
    BY <1>9, MarkersDiffer DEF TypeOK
  <2>2. own[d][k] # None
    BY <1>9 DEF Owned, OwnedWell
  <2> QED BY <1>4, <1>8, <2>1, <2>2
<1>10. \A i \in Ids : mine[d][i, EMAIL] = SENT => i \in marked'
  BY <1>0, <1>5 DEF Mined, MailWell
<1>11. Stored'
  <2>1. ASSUME NEW k \in Keys, events'[k] # None
        PROVE  events'[k][1] = k /\ Used(events[k])'
    <3>1. EventOf(d, k) # None /\ events'[k] = EventOf(d, k)
      BY <1>4, <2>1
    <3>2. EventOf(d, k)[1] = k
      BY <3>1, EventFirst
    <3>3. CASE events[k] = EventOf(d, k)
      <4>1. events'[k] = events[k] /\ Used(events[k])
        BY <3>1, <3>3 DEF Stored
      <4>2. PICK i : i = events[k]
        OBVIOUS
      <4>3. Used(i)
        BY <4>1, <4>2
      <4>4. Used(i)'
        BY <1>0, <1>1, <1>2, <4>3 DEF Used
      <4> QED BY <3>1, <3>2, <4>1, <4>2, <4>4 DEF Used
    <3>4. CASE events[k] # EventOf(d, k)
      <4>1. events'[k] = <<k, d>>
        BY <3>1, <3>4, MarkersDiffer DEF EventOf, Owned, OwnedWell, TypeOK
      <4> QED BY <1>0, <3>1, <3>2, <4>1 DEF Used
    <3> QED BY <3>1, <3>2, <3>3, <3>4
  <2>2. ASSUME NEW i \in Ids, NEW c \in Channels, rows'[i, c] # ABSENT
        PROVE  events'[i[1]] = i
    <3>1. own[d][i[1]] # None /\ StatusOf(d, i, c) # ABSENT
      BY <1>6, <2>2
    <3>2. CASE mine[d][i, c] # ABSENT
      BY <1>0, <1>4, <1>7, <3>2 DEF Mined, MineWell
    <3>3. CASE mine[d][i, c] = ABSENT
      <4>1. events[i[1]] = i /\ i # None
        BY <3>1, <3>3, MarkersDiffer DEF StatusOf, Stored
      <4> QED BY <1>4, <1>7, <1>8, <3>1, <4>1
    <3> QED BY <3>2, <3>3
  <2>3. ASSUME NEW i \in Ids, rows'[i, EMAIL] = SENT
        PROVE  i \in marked'
    <3>1. EMAIL \in Channels /\ SENT # ABSENT
      BY DEF Channels, SENT, ABSENT
    <3>2. mine[d][i, EMAIL] = SENT \/ rows[i, EMAIL] = SENT
      BY <1>6, <2>3, <3>1 DEF StatusOf
    <3> QED BY <1>5, <1>10, <3>2 DEF Stored
  <2>4. withdrawn' # None => withdrawn'[1] \in TaskKeys /\ events'[withdrawn'[1]] = withdrawn'
    <3> SUFFICES ASSUME withdrawn # None
                 PROVE  withdrawn[1] \in TaskKeys /\ events'[withdrawn[1]] = withdrawn
      BY <1>2
    <3>1. withdrawn[1] \in TaskKeys /\ events[withdrawn[1]] = withdrawn
      BY DEF Stored
    <3>2. withdrawn[1] \in Keys /\ own[d][withdrawn[1]] # None
      BY <3>1, KindsDiffer DEF Owned, OwnedWell, Keys
    <3> QED BY <1>4, <1>8, <3>1, <3>2
  <2> QED BY <2>1, <2>2, <2>3, <2>4 DEF Stored
<1>12. Owned'
  <2> SUFFICES ASSUME NEW e \in Digests, NEW k \in Keys
               PROVE  OwnedWell(e, k)'
    BY DEF Owned
  <2>1. OwnedWell(e, k) /\ OwnedWell(d, k)
    BY DEF Owned
  <2>2. CASE e = d
    BY <1>3, <2>2, MarkersDiffer DEF OwnedWell
  <2>3. CASE e # d /\ own[e][k] = Same
    <3>1. own'[e][k] = Same
      BY <1>1, <2>3
    <3> QED BY <3>1, MarkersDiffer DEF OwnedWell
  <2>4. CASE e # d /\ own[e][k] # Same
    <3>1. own[d][k] = Same /\ own'[e][k] = own[e][k]
      BY <1>1, <2>1, <2>4 DEF OwnedWell
    <3>2. events'[k] = events[k]
      BY <1>4, <3>1 DEF EventOf
    <3>3. own[e][k] = None => events[k] \notin marked'
      <4> SUFFICES ASSUME own[e][k] = None, events[k] \in noted[d] PROVE FALSE
        BY <1>5, <2>1 DEF OwnedWell
      <4>1. events[k] \in Ids /\ events[k] # None /\ events[k] # Same
        BY MarkersDiffer DEF TypeOK
      <4>2. events[k][1] = k
        BY <4>1 DEF Stored
      <4>3. own[d][k] = events[k]
        BY <4>1, <4>2 DEF Mined, NotedWell
      <4> QED BY <3>1, <4>1, <4>3
    <3>4. \A x \in Digests \ {e} : own'[x][k] = Same
      BY <1>1, <1>3, <2>1, <2>4 DEF OwnedWell
    <3> QED BY <2>1, <3>1, <3>2, <3>3, <3>4 DEF OwnedWell
  <2> QED BY <2>2, <2>3, <2>4
<1>13. Mined'
  <2> SUFFICES ASSUME NEW e \in Digests, NEW i \in Ids
               PROVE  (\A b \in Channels : MineWell(e, i, b)') /\ MailWell(e, i)' /\ NotedWell(e, i)'
    BY DEF Mined
  <2>1. /\ (\A b \in Channels : MineWell(e, i, b)) /\ MailWell(e, i) /\ NotedWell(e, i)
        /\ i[1] \in Keys /\ EMAIL \in Channels
    BY DEF Mined, Ids, Channels
  <2>2. CASE e = d
    <3>1. \A b \in Channels : MineWell(d, i, b)'
      BY <1>0, <1>2, <2>1, <2>2 DEF MineWell, Active
    <3>2. MailWell(d, i)' /\ NotedWell(d, i)'
      BY <1>2, <1>3, <1>10 DEF MailWell, NotedWell
    <3> QED BY <2>2, <3>1, <3>2
  <2>3. CASE e # d
    <3>1. own'[d][i[1]] # None
      BY <1>3, <2>1, MarkersDiffer
    <3>2. ASSUME NEW b \in Channels PROVE MineWell(e, i, b)'
      <4>1. MineWell(e, i, b)
        BY <2>1
      <4>2. ASSUME mine[e][i, b] # ABSENT, Active(e)
            PROVE  EventOf(e, i[1])' = i
        <5>1. EventOf(e, i[1]) = i /\ own[d][i[1]] # None /\ i # None
          BY <2>3, <4>1, <4>2, MarkersDiffer DEF MineWell
        <5>2. CASE own[e][i[1]] = Same
          <6>1. events[i[1]] = i
            BY <5>1, <5>2 DEF EventOf
          <6>2. events'[i[1]] = i
            BY <1>4, <1>8, <2>1, <5>1, <6>1
          <6> QED BY <1>1, <2>3, <5>2, <6>2 DEF EventOf
        <5>3. CASE own[e][i[1]] # Same
          BY <1>1, <2>3, <5>1, <5>3 DEF EventOf
        <5> QED BY <5>2, <5>3
      <4> QED BY <1>1, <1>2, <2>3, <3>1, <4>1, <4>2 DEF MineWell, Active
    <3>3. MailWell(e, i)' /\ NotedWell(e, i)'
      BY <1>1, <1>2, <1>5, <2>1, <2>3 DEF MailWell, NotedWell
    <3> QED BY <3>2, <3>3
  <2> QED BY <2>2, <2>3
<1> QED BY <1>9, <1>11, <1>12, <1>13

\* A step that touches no row of the digests' concern.
LEMMA MinedStays ==
    ASSUME Mined, UNCHANGED <<events, marked, pc, cur, left, sent, pending, own, mine, noted>>
    PROVE  Mined'
<1> SUFFICES ASSUME NEW d \in Digests, NEW i \in Ids
             PROVE  (\A c \in Channels : MineWell(d, i, c)') /\ MailWell(d, i)' /\ NotedWell(d, i)'
  BY DEF Mined
<1>1. (\A c \in Channels : MineWell(d, i, c)) /\ MailWell(d, i) /\ NotedWell(d, i)
  BY DEF Mined
<1>2. ASSUME NEW c \in Channels PROVE MineWell(d, i, c)'
  BY <1>1 DEF MineWell, EventOf, Active
<1>3. MailWell(d, i)' /\ NotedWell(d, i)'
  BY <1>1 DEF MailWell, NotedWell
<1> QED BY <1>2, <1>3

\* What the other tasks do to the events.
LEMMA OthersStep ==
    ASSUME TypeOK, Placed, Stored, Owned, Mined, Tasks
    PROVE  /\ Stored' /\ Owned' /\ Mined'
           /\ \A k \in Keys : events[k] \in marked => events'[k] = events[k]
<1> USE DEF settings, tables, query, progress, written, others
<1>0. UNCHANGED <<marked, pc, cur, left, sent, pending, own, mine, noted>>
  BY DEF Tasks, CreateEvent, ClusterRecovers, Withdraw, WithdrawVictim
<1>1. \A i \in Ids : i[1] \in Keys
  BY DEF Ids
<1>2. CASE CreateEvent
  <2>1. PICK k \in TaskKeys : events[k] = None /\ events' = [events EXCEPT ![k] = <<k, reports + 1>>]
    BY <1>2 DEF CreateEvent
  <2>2. UNCHANGED <<rows, withdrawn>> /\ withdrawn = None /\ reports' = reports + 1 /\ reports <
                    MaxReports
        /\ reports \in Nat
    BY <1>2, ReportBound DEF CreateEvent, TypeOK
  <2>3. k \in Keys /\ k \notin BackupKeys
    BY KindsDiffer DEF Keys
  <2>4. events'[k] = <<k, reports + 1>> /\ \A j \in Keys \ {k} : events'[j] = events[j]
    BY <2>1, <2>3 DEF TypeOK
  <2>5. \A e \in Digests : own[e][k] = Same
    <3>1. \A e \in Digests : own[e][k] \in Ids \cup {None, Same}
      BY <2>3 DEF TypeOK
    <3>2. None \notin Ids
      BY MarkersDiffer
    <3> QED BY <2>1, <2>3, <3>1, <3>2 DEF Owned, OwnedWell
  <2>6. \A i \in Ids : Used(i) => Used(i)'
    BY <1>0, <2>2 DEF Used, Ids
  <2>7. Stored'
    <3>1. ASSUME NEW j \in Keys, events'[j] # None
          PROVE  events'[j][1] = j /\ Used(events[j])'
      <4>1. CASE j = k
        <5>1. reports + 1 \in 0..MaxReports
          BY <2>2, ReportBound
        <5>2. reports + 1 \notin Digests
          BY <5>1, IdsDiffer
        <5> QED BY <2>2, <2>4, <4>1, <5>2 DEF Used
      <4>2. CASE j # k
        <5>1. events'[j] = events[j] /\ events[j][1] = j /\ Used(events[j]) /\ events[j] \in Ids
          BY <2>4, <3>1, <4>2, ZenonT(40) DEF Stored, TypeOK
        <5>2. PICK i \in Ids : i = events[j]
          BY <5>1
        <5>3. Used(i)'
          BY <2>6, <5>1, <5>2
        <5> QED BY <5>1, <5>2, <5>3 DEF Used
      <4> QED BY <4>1, <4>2
    <3>2. ASSUME NEW i \in Ids, NEW c \in Channels, rows'[i, c] # ABSENT
          PROVE  events'[i[1]] = i
      <4>1. events[i[1]] = i /\ i # None
        BY <2>2, <3>2, MarkersDiffer DEF Stored
      <4> QED BY <1>1, <2>1, <2>4, <4>1
    <3> QED BY <1>0, <2>2, <3>1, <3>2 DEF Stored
  <2>8. Owned'
    <3> SUFFICES ASSUME NEW e \in Digests, NEW j \in Keys PROVE OwnedWell(e, j)'
      BY DEF Owned
    <3>1. CASE j = k
      <4>1. \A x \in Digests : own'[x][j] = Same
        BY <1>0, <2>5, <3>1
      <4> QED BY <4>1, MarkersDiffer DEF OwnedWell
    <3>2. CASE j # k
      BY <1>0, <2>4, <3>2 DEF Owned, OwnedWell
    <3> QED BY <3>1, <3>2
  <2>9. Mined'
    <3> SUFFICES ASSUME NEW e \in Digests, NEW i \in Ids
                 PROVE  (\A b \in Channels : MineWell(e, i, b)') /\ MailWell(e, i)' /\ NotedWell(e, i)'
      BY DEF Mined
    <3>1. (\A b \in Channels : MineWell(e, i, b)) /\ MailWell(e, i) /\ NotedWell(e, i)
      BY DEF Mined
    <3>2. ASSUME NEW b \in Channels PROVE MineWell(e, i, b)'
      <4>1. MineWell(e, i, b) /\ i # None
        BY <3>1, MarkersDiffer
      <4>2. EventOf(e, i[1]) = i => EventOf(e, i[1])' = i
        BY <1>0, <1>1, <2>1, <2>4, <2>5, <4>1 DEF EventOf
      <4> QED BY <1>0, <4>1, <4>2 DEF MineWell, Active
    <3>3. MailWell(e, i)' /\ NotedWell(e, i)'
      BY <1>0, <3>1 DEF MailWell, NotedWell
    <3> QED BY <3>2, <3>3
  <2>10. \A j \in Keys : events[j] \in marked => events'[j] = events[j]
    BY <2>1, <2>4, MarkersDiffer DEF TypeOK
  <2> QED BY <2>7, <2>8, <2>9, <2>10
<1>3. CASE ClusterRecovers
  <2>1. UNCHANGED <<events, rows, reports>>
    BY <1>3 DEF ClusterRecovers
  <2>2. PICK k \in ClusterKeys : events[k] # None /\ withdrawn' = events[k]
    BY <1>3 DEF ClusterRecovers
  <2>3. k \in TaskKeys /\ k \in Keys
    BY KindsDiffer DEF Keys
  <2>4. Stored'
    <3>1. withdrawn'[1] = k
      BY <2>2, <2>3 DEF Stored
    <3>2. \A j \in Keys : Used(events[j]) <=> Used(events[j])'
      BY <1>0, <2>1 DEF Used
    <3> QED BY <1>0, <2>1, <2>2, <2>3, <3>1, <3>2 DEF Stored
  <2>5. Owned'
    BY <1>0, <2>1 DEF Owned, OwnedWell
  <2>6. Mined'
    BY <1>0, <2>1, MinedStays
  <2> QED BY <2>1, <2>4, <2>5, <2>6
<1>4. CASE Withdraw
  <2>1. PICK w : w = withdrawn
    OBVIOUS
  <2>2. w # None /\ w \in Ids /\ w[1] \in TaskKeys /\ w[1] \in Keys /\ events[w[1]] = w
    BY <1>4, <2>1 DEF Withdraw, Stored, TypeOK, Keys
  <2>3. reports' = reports /\ withdrawn' = None
    BY <1>4 DEF Withdraw
  <2>4. \A e \in Digests : own[e][w[1]] = Same
    <3>1. \A e \in Digests : Active(e) => own[e][w[1]] = Same
      BY <1>4, <2>1 DEF Withdraw
    <3>2. \A e \in Digests : ~Active(e) => own[e][w[1]] = Same
      BY <2>2 DEF Placed, PlacedAt, Untouched
    <3> QED BY <3>1, <3>2
  <2>5. \A e \in Digests, c \in Channels : Active(e) => mine[e][w, c] = ABSENT
    BY <1>4, <2>1 DEF Withdraw
  <2>6. CASE w \notin marked
    <3>1. events' = [events EXCEPT ![w[1]] = None] /\ rows' = WithoutEvents({w}, rows)
      BY <1>4, <2>1, <2>6 DEF Withdraw, Unmarked
    <3>2. events'[w[1]] = None /\ \A j \in Keys \ {w[1]} : events'[j] = events[j]
      BY <2>2, <3>1 DEF TypeOK
    <3>3. \A i \in Ids, c \in Channels : rows'[i, c] = IF i = w THEN ABSENT ELSE rows[i, c]
      BY <3>1 DEF WithoutEvents
    <3>4. Stored'
      <4>1. ASSUME NEW j \in Keys, events'[j] # None
            PROVE  events'[j][1] = j /\ Used(events[j])'
        <5>1. events'[j] = events[j] /\ events[j][1] = j /\ Used(events[j])
          BY <3>2, <4>1 DEF Stored
        <5> QED BY <1>0, <2>3, <5>1 DEF Used
      <4>2. ASSUME NEW i \in Ids, NEW c \in Channels, rows'[i, c] # ABSENT
            PROVE  events'[i[1]] = i
        <5>1. rows[i, c] # ABSENT /\ i # w
          BY <3>3, <4>2
        <5>2. events[i[1]] = i
          BY <5>1 DEF Stored
        <5> QED BY <1>1, <2>2, <3>2, <5>1, <5>2
      <4>3. ASSUME NEW i \in Ids, rows'[i, EMAIL] = SENT
            PROVE  i \in marked'
        <5>1. EMAIL \in Channels /\ SENT # ABSENT
          BY DEF Channels, SENT, ABSENT
        <5> QED BY <1>0, <3>3, <4>3, <5>1 DEF Stored
      <4> QED BY <2>3, <4>1, <4>2, <4>3 DEF Stored
    <3>5. Owned'
      <4> SUFFICES ASSUME NEW e \in Digests, NEW j \in Keys PROVE OwnedWell(e, j)'
        BY DEF Owned
      <4>1. CASE j = w[1]
        <5>1. \A x \in Digests : own'[x][j] = Same
          BY <1>0, <2>4, <4>1
        <5> QED BY <5>1, MarkersDiffer DEF OwnedWell
      <4>2. CASE j # w[1]
        BY <1>0, <3>2, <4>2 DEF Owned, OwnedWell
      <4> QED BY <4>1, <4>2
    <3>6. Mined'
      <4> SUFFICES ASSUME NEW e \in Digests, NEW i \in Ids
                   PROVE  (\A b \in Channels : MineWell(e, i, b)') /\ MailWell(e, i)' /\ NotedWell(e, i)'
        BY DEF Mined
      <4>1. (\A b \in Channels : MineWell(e, i, b)) /\ MailWell(e, i) /\ NotedWell(e, i)
        BY DEF Mined
      <4>2. ASSUME NEW b \in Channels PROVE MineWell(e, i, b)'
        <5>1. MineWell(e, i, b)
          BY <4>1
        <5>2. ASSUME mine[e][i, b] # ABSENT, Active(e) PROVE EventOf(e, i[1])' = i
          <6>1. EventOf(e, i[1]) = i /\ i # w
            BY <2>5, <5>1, <5>2 DEF MineWell
          <6>2. i[1] # w[1]
            BY <2>2, <2>4, <6>1 DEF EventOf
          <6> QED BY <1>0, <1>1, <3>2, <6>1, <6>2 DEF EventOf
        <5> QED BY <1>0, <5>1, <5>2 DEF MineWell, Active
      <4>3. MailWell(e, i)' /\ NotedWell(e, i)'
        BY <1>0, <4>1 DEF MailWell, NotedWell
      <4> QED BY <4>2, <4>3
    <3>7. \A j \in Keys : events[j] \in marked => events'[j] = events[j]
      BY <2>2, <2>6, <3>2
    <3> QED BY <3>4, <3>5, <3>6, <3>7
  <2>7. CASE w \in marked
    <3>1. UNCHANGED <<events, rows>>
      BY <1>4, <2>1, <2>7 DEF Withdraw, Unmarked
    <3>2. \A j \in Keys : Used(events[j]) <=> Used(events[j])'
      BY <1>0, <2>3, <3>1 DEF Used
    <3>3. Stored'
      BY <1>0, <2>3, <3>1, <3>2 DEF Stored
    <3>4. Owned'
      BY <1>0, <3>1 DEF Owned, OwnedWell
    <3>5. Mined'
      BY <1>0, <3>1, MinedStays
    <3> QED BY <3>1, <3>3, <3>4, <3>5
  <2> QED BY <2>6, <2>7
<1>5. CASE WithdrawVictim
  <2>1. UNCHANGED <<events, rows, reports>> /\ withdrawn' = None
    BY <1>5 DEF WithdrawVictim
  <2>2. Stored'
    <3>1. \A k \in Keys : Used(events[k]) <=> Used(events[k])'
      BY <1>0, <2>1 DEF Used
    <3> QED BY <1>0, <2>1, <3>1 DEF Stored
  <2>3. Owned'
    BY <1>0, <2>1 DEF Owned, OwnedWell
  <2>4. Mined'
    BY <1>0, <2>1, MinedStays
  <2> QED BY <2>1, <2>2, <2>3, <2>4
<1> QED BY <1>2, <1>3, <1>4, <1>5 DEF Tasks

\* Initially nothing is locked, listed or written.
LEMMA InvInit == Init => Inv
<1> SUFFICES ASSUME Init PROVE Inv
  OBVIOUS
<1> USE DEF Init
<1>1. TypeOK
  <2>1. rows \in [Ids \X Channels -> DeliveryStatus \cup {ABSENT}]
    BY DEF DeliveryStatus
  <2>2. inbox \in [Channels -> SUBSET (Digests \X Ids)] /\ marked \in SUBSET Ids
    OBVIOUS
  <2>3. prior \in [Digests -> [Ids \X Channels -> DeliveryStatus \cup {ABSENT}]]
        /\ mine \in [Digests -> [Ids \X Channels -> DeliveryStatus \cup {ABSENT}]]
        /\ own \in [Digests -> [Keys -> Ids \cup {None, Same}]]
    BY BlankTyped
  <2>4. pending \in [Digests -> [Channels -> SUBSET Ids]]
    OBVIOUS
  <2>5. events \in [Keys -> Ids \cup {None}]
    <3>1. PICK old \in SUBSET Reported : events = [k \in Keys |-> IF k \in old THEN <<k, 0>> ELSE None]
      OBVIOUS
    <3>2. 0 \in 0..MaxReports
      BY ReportBound
    <3>3. \A k \in Keys : <<k, 0>> \in Ids
      BY <3>2 DEF Ids
    <3> QED BY <3>1, <3>3
  <2>6. reports \in 0..MaxReports /\ withdrawn \in Ids \cup {None}
    BY ReportBound
  <2>7. unusual \in 0..MaxUnusual
    <3>1. PICK tried \in SUBSET enabled :
            unusual = Cardinality(SwitchedOff) + Cardinality(tried) /\ unusual <= MaxUnusual
      OBVIOUS
    <3>2. IsFiniteSet({"channel", "recipients", "backup"}) /\ IsFiniteSet(Channels)
      <4>1. /\ IsFiniteSet({"channel"}) /\ IsFiniteSet({"recipients"}) /\ IsFiniteSet({"backup"})
            /\ IsFiniteSet({EMAIL}) /\ IsFiniteSet({FEISHU})
        BY FS_Singleton
      <4>2. IsFiniteSet(({"channel"} \cup {"recipients"}) \cup {"backup"}) /\ IsFiniteSet({EMAIL} \cup {FEISHU})
        BY <4>1, FS_Union, Zenon
      <4>3. /\ {"channel", "recipients", "backup"} = ({"channel"} \cup {"recipients"}) \cup {"backup"}
            /\ Channels = {EMAIL} \cup {FEISHU}
        BY DEF Channels
      <4> QED BY <4>2, <4>3
    <3>3. SwitchedOff \subseteq {"channel", "recipients", "backup"} /\ tried \subseteq Channels
      BY DEF SwitchedOff
    <3>4. Cardinality(SwitchedOff) \in Nat /\ Cardinality(tried) \in Nat
      BY <3>2, <3>3, FS_Subset, FS_CardinalityType
    <3> QED BY <3>1, <3>4, UnusualBound
  <2> QED BY <2>7, <2>1, <2>2, <2>3, <2>4, <2>5, <2>6 DEF TypeOK, Locations, DeliveryStatus
<1>2. Placed
  BY DEF Placed, PlacedAt, Early, Delivering, Recording, Active
<1>3. Stored
  <2>1. \A k \in Keys : events[k] # None => events[k] = <<k, 0>>
    OBVIOUS
  <2>2. 0 \notin Digests
    <3>1. 0 \in 0..MaxReports
      BY ReportBound
    <3> QED BY <3>1, IdsDiffer, Zenon
  <2>3. \A k \in Keys : events[k] # None => events[k][1] = k /\ Used(events[k])
    BY <2>1, <2>2 DEF Used
  <2>4. \A i \in Ids, c \in Channels :
          /\ rows[i, c] # ABSENT => events[i[1]] = i
          /\ rows[i, c] # SENT
    BY DEF SENT, FAILED, ABSENT
  <2> QED BY <2>3, <2>4 DEF Stored, Channels
<1>4. Owned
  BY MarkersDiffer DEF Owned, OwnedWell, Untouched
<1>5. Mined
  BY DEF Mined, MineWell, MailWell, NotedWell, NoRows, SENT, ABSENT, EMAIL, Channels
<1> QED BY <1>1, <1>2, <1>3, <1>4, <1>5 DEF Inv

\* Every step keeps the invariant and every marked event.
LEMMA InvKept ==
    ASSUME Inv, [Next]_vars
    PROVE  Inv' /\ \A k \in Keys : events[k] \in marked => events'[k] = events[k]
<1>0. TypeOK /\ Placed /\ Stored /\ Owned /\ Mined
  BY DEF Inv
<1>1. ASSUME NEW d \in Digests, Moves(d)
      PROVE  Inv' /\ \A k \in Keys : events[k] \in marked => events'[k] = events[k]
  <2>1. TypeOK'
    BY <1>0, <1>1, DigestTyped
  <2>2. Placed'
    <3> SUFFICES ASSUME NEW e \in Digests PROVE PlacedAt(e)'
      BY DEF Placed
    <3>1. CASE e = d
      BY <1>0, <1>1, <3>1, PlacedKept
    <3>2. CASE e # d
      <4>1. PlacedAt(e)
        BY <1>0 DEF Placed
      <4>2. enabled' = enabled
        BY <1>1, SharedStay
      <4> QED BY <1>0, <1>1, <3>2, <4>1, <4>2, OthersStay DEF PlacedAt, Active, NoRows, Untouched
    <3> QED BY <3>1, <3>2
  <2>3. CASE Quietly(d)
    <3>1. Stored' /\ Owned' /\ Mined'
      BY <1>0, <2>3, QuietStep
    <3>2. events' = events
      BY <2>3 DEF Quietly, Begin, UpsertRead, PurgeRead, ListPending, Send, RecordRead, tables
    <3> QED BY <2>1, <2>2, <3>1, <3>2 DEF Inv
  <2>4. CASE UpsertWrite(d)
    <3>1. Stored' /\ Owned' /\ Mined'
      BY <1>0, <2>4, UpsertStep
    <3>2. events' = events
      BY <2>4 DEF UpsertWrite, tables
    <3> QED BY <2>1, <2>2, <3>1, <3>2 DEF Inv
  <2>5. CASE PurgeRow(d)
    <3>1. Stored' /\ Owned' /\ Mined'
      BY <1>0, <2>5, PurgeStep
    <3>2. events' = events
      BY <2>5 DEF PurgeRow, tables
    <3> QED BY <2>1, <2>2, <3>1, <3>2 DEF Inv
  <2>6. CASE RecordRow(d) \/ MarkRow(d)
    <3>1. Stored' /\ Owned' /\ Mined'
      BY <1>0, <2>6, RecordStep, MarkStep
    <3>2. events' = events
      BY <2>6 DEF RecordRow, MarkRow, tables
    <3> QED BY <2>1, <2>2, <3>1, <3>2 DEF Inv
  <2>7. CASE Fail(d) \/ Die(d)
    <3>1. Stored' /\ Owned' /\ Mined'
      BY <1>0, <1>1, <2>7, RollBackStep
    <3>2. events' = events
      BY <2>7 DEF Fail, Die, tables
    <3> QED BY <2>1, <2>2, <3>1, <3>2 DEF Inv
  <2>8. CASE Commit(d)
    BY <1>0, <2>1, <2>2, <2>8, CommitStep DEF Inv
  <2> QED BY <1>1, <2>3, <2>4, <2>5, <2>6, <2>7, <2>8, MovesAre DEF Quietly
<1>2. CASE Tasks
  <2>1. TypeOK'
    BY <1>0, <1>2, OthersTyped
  <2>2. UNCHANGED <<enabled, run, pc, cur, left, todo, pending, sent, own, mine, noted>>
    BY <1>2 DEF Tasks, CreateEvent, ClusterRecovers, Withdraw, WithdrawVictim, settings, query, progress, written
  <2>3. Placed'
    BY <1>0, <2>2 DEF Placed, PlacedAt, Active, NoRows, Untouched
  <2> QED BY <1>0, <1>2, <2>1, <2>3, OthersStep DEF Inv
<1>3. CASE UNCHANGED vars
  <2> USE DEF vars, settings, tables, query, progress, written, others
  <2>1. TypeOK'
    BY <1>0, <1>3 DEF TypeOK
  <2>2. Placed'
    BY <1>0, <1>3 DEF Placed, PlacedAt, Active, NoRows, Untouched
  <2>3. Stored'
    BY <1>0, <1>3 DEF Stored, Used
  <2>4. Owned'
    BY <1>0, <1>3 DEF Owned, OwnedWell
  <2>5. Mined'
    BY <1>0, <1>3, MinedStays
  <2> QED BY <1>3, <2>1, <2>2, <2>3, <2>4, <2>5 DEF Inv
<1> QED BY <1>1, <1>2, <1>3 DEF Next, Terminating, Moves, Tasks

\* Every row and every local of a digest is of its kind in every reachable state.
THEOREM DigestsTyped == Spec => []TypeOK
<1>1. Inv /\ [Next]_vars => Inv'
  BY InvKept
<1>2. Inv => TypeOK
  BY DEF Inv
<1> QED BY <1>1, <1>2, InvInit, PTL DEF Spec

\* An event sent by e-mail is never deleted or replaced, whatever digests and withdrawals
\* overlap: the two DELETE statements look at digest_sent_at again under the lock of the row.
THEOREM EmailedStay == Spec => EmailedIsKept
<1>1. ASSUME Inv, [Next]_vars
      PROVE  [\A k \in Keys : events[k] \in marked => events'[k] = events[k]]_vars
  BY <1>1, InvKept
<1>2. Inv /\ [Next]_vars => Inv'
  BY InvKept
<1> QED BY <1>1, <1>2, InvInit, PTL DEF Spec, EmailedIsKept

-----------------------------------------------------------------------------
\* What has been sent stays sent.
LEMMA InboxGrows ==
    ASSUME TypeOK, NEW d \in Digests, Moves(d), NEW c \in Channels
    PROVE  inbox[c] \subseteq inbox'[c]
<1>1. CASE \E ok \in BOOLEAN : Send(d, ok)
  <2>1. PICK ok \in BOOLEAN : Send(d, ok)
    BY <1>1
  <2>2. PICK b \in Channels : inbox' = inbox \/ inbox' = [inbox EXCEPT ![b] = inbox[b] \cup ({d} \X Text(d))]
    BY <2>1 DEF Send
  <2> QED BY <2>2 DEF TypeOK
<1>2. CASE ~\E ok \in BOOLEAN : Send(d, ok)
  <2>1. inbox' = inbox
    BY <1>2, MovesAre DEF Fail, Die, Begin, UpsertRead, UpsertWrite, PurgeRead, PurgeRow, ListPending,
                          RecordRead, RecordRow, MarkRow, Commit
  <2> QED BY <2>1
<1> QED BY <1>1, <1>2

\* What a step of d does to the deliveries of d itself.
LEMMA OwnDeliveries ==
    ASSUME Inv, Inv', Delivered, NEW d \in Digests, Moves(d)
    PROVE  DeliveredAt(d)'
<1> USE DEF settings, tables, query, progress, written, others
<1>0. /\ TypeOK /\ TypeOK' /\ PlacedAt(d) /\ PlacedAt(d)' /\ DeliveredAt(d) /\ Active(d)
      /\ \A c \in Channels : inbox[c] \subseteq inbox'[c]
  BY OnlyActiveMoves, InboxGrows DEF Inv, Placed, Delivered
<1>1. \A i \in Ids, c \in Channels : Reached(i, c) => Reached(i, c)'
  BY <1>0 DEF Reached
<1>2. run[d] = RUNNING /\ EMAIL \in Channels /\ noted[d] \in SUBSET Ids
  BY <1>0 DEF PlacedAt, Active, Channels, TypeOK
<1>3. ASSUME pc'[d] \notin Delivering \cup {"done"}, mine'[d] = mine[d] \/ mine'[d] = NoRows,
             noted'[d] \subseteq noted[d]
      PROVE  DeliveredAt(d)'
  <2>1. run'[d] = RUNNING
    BY <1>0, <1>3 DEF PlacedAt
  <2>2. \A i \in Ids, c \in Channels : mine'[d][i, c] = SENT => mine[d][i, c] = SENT
    BY <1>3 DEF NoRows, SENT, ABSENT
  <2>3. \A i \in noted'[d] : Reached(i, EMAIL)'
    BY <1>0, <1>1, <1>2, <1>3 DEF DeliveredAt
  <2> QED BY <1>0, <1>1, <1>3, <2>1, <2>2, <2>3 DEF DeliveredAt, Delivering, Recording, RUNNING, COMPLETED
<1>4. ASSUME pc'[d] = "deliver", UNCHANGED <<run, mine, noted, recipients>>,
             \A c \in Channels : c \in todo'[d] \/ (c = EMAIL /\ ~recipients) \/ pending'[d][c] = {}
      PROVE  DeliveredAt(d)'
  <2>1. \A i \in noted'[d] : Reached(i, EMAIL)'
    BY <1>0, <1>1, <1>2, <1>4 DEF DeliveredAt
  <2> QED BY <1>0, <1>1, <1>2, <1>4, <2>1 DEF DeliveredAt, Went, Delivering, Recording, RUNNING, COMPLETED
<1>5. CASE Begin(d)
  <2>1. UNCHANGED <<run, mine, noted, recipients, enabled, pending>> /\ pc[d] = "begin"
    BY <1>5 DEF Begin
  <2>2. CASE enabled # {}
    <3>1. pc'[d] \in {"upsert", "list"}
      BY <1>0, <1>5, <2>2 DEF Begin, At, TypeOK
    <3> QED BY <1>3, <2>1, <3>1 DEF Delivering, Recording
  <2>3. CASE enabled = {}
    <3>1. pc'[d] = "deliver" /\ \A c \in Channels : pending'[d][c] = {}
      BY <1>0, <1>5, <2>1, <2>3 DEF Begin, At, TypeOK, PlacedAt
    <3> QED BY <1>4, <2>1, <3>1
  <2> QED BY <2>2, <2>3
<1>6. CASE UpsertRead(d) \/ UpsertWrite(d) \/ PurgeRead(d) \/ PurgeRow(d) \/ Die(d)
  <2>1. pc'[d] \notin Delivering \cup {"done"}
    BY <1>0, <1>6 DEF UpsertRead, UpsertWrite, PurgeRead, PurgeRow, Purging, Die, At, TypeOK, Delivering
  <2>2. mine'[d] = mine[d] \/ mine'[d] = NoRows
    BY <1>0, <1>6 DEF UpsertRead, UpsertWrite, PurgeRead, PurgeRow, Die, RollBack, TypeOK
  <2>3. noted'[d] \subseteq noted[d]
    BY <1>0, <1>6 DEF UpsertRead, UpsertWrite, PurgeRead, PurgeRow, Die, RollBack, Forget, TypeOK
  <2> QED BY <1>3, <2>1, <2>2, <2>3
<1>7. CASE Fail(d)
  <2>1. mine'[d] = NoRows /\ pc'[d] = "done" /\ run'[d] = FAILED /\ noted'[d] = {}
    BY <1>0, <1>7 DEF Fail, RollBack, Forget, At, TypeOK
  <2>2. \A i \in Ids, c \in Channels : mine'[d][i, c] # SENT
    BY <2>1 DEF NoRows, SENT, ABSENT
  <2> QED BY <2>1, <2>2 DEF DeliveredAt, Delivering, Recording, FAILED, COMPLETED
<1>8. CASE ListPending(d)
  <2>1. UNCHANGED <<run, mine, noted, recipients, enabled>> /\ pc[d] = "list"
    BY <1>8 DEF ListPending
  <2>2. CASE pc' = pc
    BY <1>3, <2>1, <2>2 DEF Delivering, Recording
  <2>3. CASE pc' # pc
    <3>1. pc'[d] = "deliver" /\ todo'[d] = Addressed(pending'[d])
      BY <1>0, <1>8, <2>3 DEF ListPending, At, TypeOK
    <3>2. \A c \in Channels \ enabled : pending'[d][c] = {}
      BY <1>0, <2>1 DEF PlacedAt
    <3>3. ASSUME NEW c \in Channels
          PROVE  c \in todo'[d] \/ (c = EMAIL /\ ~recipients) \/ pending'[d][c] = {}
      BY <3>1, <3>2 DEF Addressed
    <3> QED BY <1>4, <2>1, <3>1, <3>3
  <2> QED BY <2>2, <2>3
<1>9. CASE \E ok \in BOOLEAN : Send(d, ok)
  <2>1. PICK ok \in BOOLEAN : Send(d, ok)
    BY <1>9
  <2>2. PICK c \in Channels : /\ cur' = [cur EXCEPT ![d] = c]
                              /\ inbox' = IF ok THEN [inbox EXCEPT ![c] = @ \cup ({d} \X Text(d))] ELSE inbox
    BY <2>1 DEF Send
  <2>3. /\ UNCHANGED <<mine, pending, run, bad, todo, recipients, noted>> /\ pc[d] = "deliver"
        /\ pc'[d] = "record" /\ sent'[d] = ok /\ cur'[d] = c
    BY <1>0, <2>1, <2>2 DEF Send, At, TypeOK
  <2>4. ok => Went(d, c)'
    <3> SUFFICES ASSUME ok, NEW i \in pending[d][c] PROVE <<d, i>> \in inbox'[c]
      BY <2>3 DEF Went
    <3>1. i \in Text(d)
      BY DEF Text
    <3>2. inbox'[c] = inbox[c] \cup ({d} \X Text(d))
      BY <1>0, <2>2 DEF TypeOK
    <3> QED BY <3>1, <3>2
  <2>5. \A b \in Channels : Went(d, b) => Went(d, b)'
    BY <1>0, <2>3 DEF Went
  <2>6. \A i \in noted'[d] : Reached(i, EMAIL)'
    BY <1>0, <1>1, <1>2, <2>3 DEF DeliveredAt
  <2> QED BY <1>0, <1>1, <1>2, <2>3, <2>4, <2>5, <2>6 DEF DeliveredAt, Delivering, Recording, RUNNING, COMPLETED
<1>10. CASE RecordRead(d)
  <2>1. /\ UNCHANGED <<mine, pending, run, bad, todo, recipients, inbox, cur, sent, noted>>
        /\ pc[d] = "record" /\ pc'[d] = "record_write"
    BY <1>0, <1>10 DEF RecordRead, At, TypeOK
  <2>2. \A i \in noted'[d] : Reached(i, EMAIL)'
    BY <1>0, <1>1, <1>2, <2>1 DEF DeliveredAt
  <2> QED BY <1>0, <1>1, <1>2, <2>1, <2>2 DEF DeliveredAt, Went, Delivering, Recording, RUNNING, COMPLETED
<1>11. CASE RecordRow(d) \/ MarkRow(d)
  <2>0. PICK c \in Channels : c = cur[d]
    BY <1>0, <1>11, CurIsChannel DEF Inv, RecordRow, MarkRow, Recording
  <2>1. /\ UNCHANGED <<pending, run, recipients, inbox>> /\ pc[d] \in Recording
        /\ left[d] \subseteq pending[d][c] /\ pending[d][c] \subseteq Ids
    BY <1>0, <1>11, <2>0 DEF RecordRow, MarkRow, Recording, PlacedAt, TypeOK
  <2>2. \A b \in Channels : Went(d, b) <=> Went(d, b)'
    BY <2>1 DEF Went
  <2>3. sent[d] => Went(d, c)
    BY <1>0, <2>0, <2>1 DEF DeliveredAt
  <2>4. PICK i \in left[d] :
          \/ Settle(d)
          \/ \E l \in Recording, rest \in SUBSET Ids : Onward(d, l, rest)
    <3>1. \A j : left[d] \ {j} \in SUBSET Ids /\ pending[d][EMAIL] \in SUBSET Ids
      BY <1>0, <1>2 DEF TypeOK
    <3> QED BY <1>11, <3>1 DEF RecordRow, MarkRow, Recording
  <2>5. /\ pc'[d] \in Recording => cur'[d] = c /\ sent'[d] = sent[d]
        /\ pc'[d] \in Delivering
        /\ \A b \in Channels : b \in todo'[d] \cup bad'[d] \/ (b = EMAIL /\ ~recipients) \/ Went(d, b)'
    <3>1. \A b \in Channels : b \in todo[d] \cup bad[d] \/ (b = EMAIL /\ ~recipients) \/ Went(d, b)
      BY <1>0, <2>1 DEF DeliveredAt, Delivering, Recording
    <3>2. CASE Settle(d)
      <4>1. /\ pc'[d] = "deliver" /\ todo'[d] = todo[d] \ {c}
            /\ bad'[d] = IF sent[d] THEN bad[d] ELSE bad[d] \cup {c}
        BY <1>0, <2>0, <3>2 DEF Settle, At, TypeOK
      <4> QED BY <2>2, <2>3, <3>1, <4>1 DEF Delivering, Recording
    <3>3. CASE \E l \in Recording, rest \in SUBSET Ids : Onward(d, l, rest)
      <4>1. pc'[d] \in Recording /\ UNCHANGED <<cur, todo, sent, bad>>
        BY <1>0, <3>3 DEF Onward, At, TypeOK
      <4> HIDE DEF Channels
      <4> QED BY <2>0, <2>2, <2>3, <3>1, <4>1 DEF Delivering, Recording
    <3> QED BY <2>4, <3>2, <3>3
  <2>6. ASSUME NEW j \in Ids, NEW b \in Channels, mine'[d][j, b] = SENT
        PROVE  Reached(j, b)
    <3>1. CASE mine[d][j, b] = SENT
      BY <1>0, <3>1 DEF DeliveredAt
    <3>2. CASE mine[d][j, b] # SENT
      <4>1. RecordRow(d)
        BY <1>11, <2>6, <3>2 DEF MarkRow
      <4>2. PICK k \in left[d] : mine' = [mine EXCEPT ![d][<<k, c>>] = Recorded(d, k)]
        BY <2>0, <4>1 DEF RecordRow
      <4>3. mine'[d] = [mine[d] EXCEPT ![<<k, c>>] = Recorded(d, k)]
            /\ mine[d] \in [Ids \X Channels -> DeliveryStatus \cup {ABSENT}]
        BY <1>0, <4>2 DEF TypeOK
      <4>4. <<j, b>> \in Ids \X Channels /\ mine'[d][<<j, b>>] = SENT /\ mine[d][<<j, b>>] # SENT
        BY <2>6, <3>2
      <4>5. <<j, b>> = <<k, c>> /\ Recorded(d, k) = SENT
        BY <4>3, <4>4
      <4>6. CASE sent[d]
        BY <2>1, <2>3, <4>5, <4>6 DEF Went, Reached
      <4>7. CASE ~sent[d]
        <5>1. rows[k, c] = SENT
          BY <2>0, <4>5, <4>7 DEF Recorded, Outcome, SENT, FAILED
        <5> QED BY <4>5, <5>1 DEF Delivered, CountedIsDelivered, Reached
      <4> QED BY <4>6, <4>7
    <3> QED BY <3>1, <3>2
  <2>7. ASSUME NEW j \in noted'[d]
        PROVE  Reached(j, EMAIL)
    <3>1. CASE j \in noted[d]
      BY <1>0, <3>1 DEF DeliveredAt
    <3>2. CASE j \notin noted[d]
      <4>1. MarkRow(d) /\ j \in left[d]
        <5>1. MarkRow(d)
          BY <1>11, <2>7, <3>2 DEF RecordRow
        <5>2. PICK k \in left[d] : noted' = noted \/ noted' = [noted EXCEPT ![d] = noted[d] \cup {k}]
          BY <5>1 DEF MarkRow
        <5>3. noted'[d] \subseteq noted[d] \cup {k}
          BY <1>0, <5>2 DEF TypeOK
        <5> QED BY <2>7, <3>2, <5>1, <5>3
      <4>2. cur[d] = EMAIL /\ sent[d]
        BY <1>0, <4>1 DEF MarkRow, PlacedAt
      <4> QED BY <2>0, <2>1, <2>3, <4>1, <4>2 DEF Went, Reached
    <3> QED BY <3>1, <3>2
  <2>8. noted'[d] \subseteq Ids
    BY <1>0 DEF TypeOK
  <2>9. pc'[d] \in Recording /\ sent'[d] => Went(d, cur[d])'
    <3>1. pc'[d] \in Recording /\ sent'[d] => Went(d, c)' /\ cur'[d] = c
      BY <2>2, <2>3, <2>5
    <3> QED BY <3>1 DEF Went
  <2>10. pc'[d] # "record"
    BY <2>4, <1>0 DEF Settle, Onward, At, TypeOK, Recording
  <2> QED BY <1>1, <1>2, <2>1, <2>5, <2>6, <2>7, <2>8, <2>9, <2>10 DEF DeliveredAt, Delivering, Recording, RUNNING, COMPLETED
<1>12. CASE Commit(d)
  <2>1. /\ UNCHANGED <<pending, mine, recipients, inbox>> /\ pc[d] = "deliver" /\ pc'[d] = "done"
        /\ todo[d] = {} /\ (run'[d] = COMPLETED => bad[d] = {}) /\ noted'[d] = {}
    BY <1>0, <1>12 DEF Commit, Forget, At, TypeOK, FAILED, COMPLETED
  <2>2. \A c \in Channels : Went(d, c) => Went(d, c)'
    BY <2>1 DEF Went
  <2> QED BY <1>0, <1>1, <2>1, <2>2 DEF DeliveredAt, Delivering, Recording
<1> QED BY <1>5, <1>6, <1>7, <1>8, <1>9, <1>10, <1>11, <1>12, MovesAre

\* Every step keeps what has been delivered.
LEMMA DeliveredKept ==
    ASSUME Inv, Inv', Delivered, [Next]_vars
    PROVE  Delivered'
<1> USE DEF settings, tables, query, progress, written, others
<1>0. TypeOK /\ Placed /\ Stored /\ CountedIsDelivered /\ \A d \in Digests : DeliveredAt(d)
  BY DEF Inv, Delivered
<1>1. ASSUME NEW d \in Digests, Moves(d)
      PROVE  Delivered'
  <2>1. DeliveredAt(d)'
    BY <1>1, OwnDeliveries
  <2>2. \A c \in Channels : inbox[c] \subseteq inbox'[c]
    BY <1>0, <1>1, InboxGrows
  <2>3. ASSUME NEW e \in Digests \ {d} PROVE DeliveredAt(e)'
    <3>1. /\ mine'[e] = mine[e] /\ pc'[e] = pc[e] /\ sent'[e] = sent[e] /\ cur'[e] = cur[e]
          /\ pending'[e] = pending[e] /\ todo'[e] = todo[e] /\ bad'[e] = bad[e] /\ run'[e] = run[e]
          /\ noted'[e] = noted[e]
      BY <1>0, <1>1, OthersStay
    <3>2. recipients' = recipients
      BY <1>1, SharedStay
    <3>3. \A c \in Channels : Went(e, c) => Went(e, c)'
      BY <2>2, <3>1 DEF Went
    <3>4. \A i \in Ids, c \in Channels : Reached(i, c) => Reached(i, c)'
      BY <2>2 DEF Reached
    <3>5. DeliveredAt(e) /\ PlacedAt(e)
      BY <1>0 DEF Inv, Placed
    <3>6. pc[e] \in {"record"} \cup Recording => cur[e] \in Channels
      BY <1>0, CurIsChannel DEF Inv
    <3>7. noted[e] \subseteq Ids /\ EMAIL \in Channels
      BY <1>0 DEF TypeOK, Channels
    <3> QED BY <3>1, <3>2, <3>3, <3>4, <3>5, <3>6, <3>7 DEF DeliveredAt, Delivering, Recording
  <2>4. CountedIsDelivered'
    <3> SUFFICES ASSUME NEW i \in Ids, NEW c \in Channels,
                        rows'[i, c] = SENT \/ (c = EMAIL /\ i \in marked')
                 PROVE  Reached(i, c)'
      BY DEF CountedIsDelivered, Reached
    <3>1. Reached(i, c)
      <4>1. CASE Commit(d)
        <5>1. rows'[i, c] = SENT => rows[i, c] = SENT \/ mine[d][i, c] = SENT
          BY <4>1 DEF Commit, WithoutEvents, StatusOf, SENT, ABSENT
        <5>2. i \in marked' => i \in marked \/ i \in noted[d]
          BY <4>1 DEF Commit
        <5>3. DeliveredAt(d)
          BY <1>0
        <5>4. CASE mine[d][i, c] = SENT
          BY <5>3, <5>4 DEF DeliveredAt
        <5>5. CASE c = EMAIL /\ i \in noted[d]
          BY <5>3, <5>5 DEF DeliveredAt
        <5>6. CASE mine[d][i, c] # SENT /\ ~(c = EMAIL /\ i \in noted[d])
          BY <1>0, <5>1, <5>2, <5>6 DEF CountedIsDelivered, Reached
        <5> QED BY <5>4, <5>5, <5>6
      <4>2. CASE ~Commit(d)
        BY <1>0, <1>1, <4>2, SharedStay DEF CountedIsDelivered, Reached
      <4> QED BY <4>1, <4>2
    <3> QED BY <2>2, <3>1 DEF Reached
  <2> QED BY <2>1, <2>3, <2>4 DEF Delivered
<1>2. CASE Tasks \/ UNCHANGED vars
  <2>1. UNCHANGED <<marked, recipients, pc, run, inbox, cur, todo, pending, sent, bad, mine, noted>>
    BY <1>2 DEF Tasks, CreateEvent, ClusterRecovers, Withdraw, WithdrawVictim, vars
  <2>2. \A i \in Ids, c \in Channels : rows'[i, c] = SENT => rows[i, c] = SENT
    BY <1>2 DEF Tasks, CreateEvent, ClusterRecovers, Withdraw, WithdrawVictim, WithoutEvents, SENT, ABSENT, vars
  <2>3. CountedIsDelivered'
    BY <1>0, <2>1, <2>2 DEF CountedIsDelivered
  <2>4. \A d \in Digests : DeliveredAt(d)'
    BY <1>0, <2>1 DEF DeliveredAt, Went, Reached
  <2> QED BY <2>3, <2>4 DEF Delivered
<1> QED BY <1>1, <1>2 DEF Next, Terminating, Moves, Tasks

\* Initially nothing counts as delivered.
LEMMA DeliveredInit == Init => Delivered
<1> SUFFICES ASSUME Init PROVE Delivered
  OBVIOUS
<1>1. CountedIsDelivered
  BY DEF Init, CountedIsDelivered, SENT, FAILED, ABSENT
<1>2. \A d \in Digests : DeliveredAt(d)
  BY DEF Init, DeliveredAt, NoRows, Delivering, RUNNING, COMPLETED, SENT, ABSENT
<1> QED BY <1>1, <1>2 DEF Delivered

\* What the rows count as delivered has been sent, and a digest whose run is completed has
\* sent everything it listed: record_digest_delivery writes the outcome of the sending.
THEOREM HonestDeliveries == Spec => []DeliveriesAreHonest
<1>1. Inv /\ Delivered /\ [Next]_vars => Inv' /\ Delivered'
  BY InvKept, DeliveredKept
<1>2. Delivered => DeliveriesAreHonest
  <2> SUFFICES ASSUME Delivered PROVE CompletedDigestSentAll
    BY DEF Delivered, DeliveriesAreHonest
  <2> SUFFICES ASSUME NEW d \in Digests, NEW c \in Channels,
                      run[d] = COMPLETED, c = EMAIL => recipients
               PROVE  {d} \X pending[d][c] \subseteq inbox[c]
    BY DEF CompletedDigestSentAll
  <2>1. \A i \in pending[d][c] : <<d, i>> \in inbox[c]
    BY DEF Delivered, DeliveredAt, Went
  <2> QED BY <2>1
<1> QED BY <1>1, <1>2, InvInit, DeliveredInit, PTL DEF Spec

-----------------------------------------------------------------------------
\* The digests that had ended when d began have ended.
LEMMA EndedKept ==
    ASSUME Inv, Ended, [Next]_vars
    PROVE  Ended'
<1>0. TypeOK /\ Placed /\ \A d \in Digests : \A e \in before[d] : e \in Digests /\ ~Active(e)
  BY DEF Inv, TypeOK, Ended
<1>1. ASSUME NEW d \in Digests, Moves(d)
      PROVE  Ended'
  <2>1. \A e \in Digests : ~Active(e) => ~Active(e)'
    <3>1. \A e \in Digests \ {d} : pc'[e] = pc[e]
      BY <1>0, <1>1, OthersStay
    <3> QED BY <1>1, <3>1, OnlyActiveMoves DEF Active
  <2>2. \A e \in Digests \ {d} : before'[e] = before[e]
    BY <1>0, <1>1, OthersStay
  <2>3. before'[d] = before[d] \/ before'[d] = {e \in Digests : ~Active(e)}
    BY <1>0, <1>1, MovesAre DEF Fail, Die, Begin, UpsertRead, UpsertWrite, PurgeRead, PurgeRow, ListPending,
       Send, RecordRead, RecordRow, MarkRow, Commit, TypeOK
  <2> QED BY <1>0, <2>1, <2>2, <2>3 DEF Ended
<1>2. CASE Tasks \/ UNCHANGED vars
  BY <1>2 DEF Tasks, CreateEvent, ClusterRecovers, Withdraw, WithdrawVictim, vars, Ended, Active
<1> QED BY <1>1, <1>2 DEF Next, Terminating, Moves, Tasks

\* What a step adds to the list of a digest is pending as the digest sees it.
LEMMA ListedBy ==
    ASSUME TypeOK, Placed, NEW d \in Digests, Moves(d), NEW c \in Channels, NEW i \in Ids,
           i \in pending'[d][c]
    PROVE  /\ i \in pending[d][c] \/ (pc[d] = "list" /\ i \in Pending(d, c))
           /\ before'[d] = before[d]
<1> USE DEF settings, tables, query, progress, written, others
<1>1. CASE Begin(d)
  BY <1>1 DEF Begin, Placed, PlacedAt, Early
<1>2. CASE ListPending(d)
  BY <1>2 DEF ListPending, TypeOK
<1>3. CASE Fail(d) \/ Die(d)
  BY <1>3 DEF Fail, Die, RollBack, TypeOK
<1>4. CASE ~(Begin(d) \/ ListPending(d) \/ Fail(d) \/ Die(d))
  BY <1>4, MovesAre DEF UpsertRead, UpsertWrite, PurgeRead, PurgeRow, Send, RecordRead, RecordRow, MarkRow,
                        Commit
<1> QED BY <1>1, <1>2, <1>3, <1>4

\* No step lists for e-mail what an earlier digest has sent by e-mail.
LEMMA MailedKept ==
    ASSUME Inv, Inv', Ended, Mailed, [Next]_vars
    PROVE  Mailed'
<1>0. TypeOK /\ Placed /\ Mined /\ \A d \in Digests : \A e \in before[d] : e \in Digests /\ ~Active(e)
  BY DEF Inv, TypeOK, Ended
<1>1. ASSUME NEW x \in Digests, Moves(x)
      PROVE  Mailed'
  <2> SUFFICES ASSUME NEW d \in Digests, NEW e \in before'[d], NEW i \in Ids,
                      mine'[e][i, EMAIL] = SENT, i \in pending'[d][EMAIL]
               PROVE  FALSE
    BY DEF Mailed
  <2>0. EMAIL \in Channels
    BY DEF Channels
  <2>1. before'[d] = before[d] /\ (i \in pending[d][EMAIL] \/ (pc[d] = "list" /\ i \in Pending(d, EMAIL)))
    <3>1. CASE d = x
      BY <1>0, <1>1, <2>0, <3>1, ListedBy
    <3>2. CASE d # x
      BY <1>0, <1>1, <3>2, OthersStay
    <3> QED BY <3>1, <3>2
  <2>2. e \in Digests /\ ~Active(e) /\ e # x
    BY <1>0, <1>1, <2>1, OnlyActiveMoves
  <2>3. mine[e][i, EMAIL] = SENT
    BY <1>0, <1>1, <2>2, OthersStay
  <2>4. i \in marked
    <3>1. MailWell(e, i) /\ noted[e] = {} /\ pc[e] \notin Recording
      BY <1>0, <2>2 DEF Mined, Placed, PlacedAt, Active, Recording
    <3> QED BY <2>3, <3>1 DEF MailWell, Recording
  <2> QED BY <2>1, <2>3, <2>4 DEF Mailed, Pending
<1>2. CASE Tasks \/ UNCHANGED vars
  BY <1>2 DEF Tasks, CreateEvent, ClusterRecovers, Withdraw, WithdrawVictim, vars, Mailed, progress, written
<1> QED BY <1>1, <1>2 DEF Next, Terminating, Moves, Tasks

\* An event whose key has been taken from it is not seen by a running digest.
LEMMA GoneUnseen ==
    ASSUME Inv, NEW d \in Digests, Active(d), NEW i \in Ids, Gone(i)
    PROVE  EventOf(d, i[1]) # i
<1>1. i[1] \in Keys /\ i # None /\ i # Same
  BY MarkersDiffer DEF Ids
<1>2. events[i[1]] # i /\ (i[2] = d => pc[d] = "done")
  BY DEF Gone, Used
<1> QED BY <1>1, <1>2 DEF EventOf, Inv, Owned, OwnedWell, Active

\* The number of the next event another task reports.
LEMMA NextReport ==
    ASSUME NEW n \in 0..MaxReports, n < MaxReports
    PROVE  n \in Nat /\ n + 1 \in 0..MaxReports /\ ~(n + 1 <= n)
BY ReportBound

\* A committed event stays committed when another one is reported.
LEMMA StillUsed ==
    ASSUME NEW i \in Ids, Used(i), pc' = pc, reports \in Nat, reports' = reports + 1
    PROVE  Used(i)'
<1>1. i[2] \in Digests \/ i[2] \in 0..MaxReports
  BY DEF Ids
<1> QED BY <1>1, ReportBound DEF Used

\* Every step keeps what has been reported on Feishu.
LEMMA ReportedKept ==
    ASSUME Inv, Inv', Ended, ReportsStay, [Next]_vars
    PROVE  ReportsStay'
<1> USE DEF settings, tables, query, progress, written, others
<1>0. /\ TypeOK /\ Placed /\ Stored /\ Owned /\ Mined
      /\ \A d \in Digests : \A e \in before[d] : e \in Digests /\ ~Active(e)
      /\ FEISHU \in Channels /\ SENT # ABSENT /\ FAILED # ABSENT /\ SENT # FAILED
  BY DEF Inv, TypeOK, Ended, Channels, SENT, FAILED, ABSENT
<1>1. ASSUME NEW x \in Digests, Moves(x)
      PROVE  ReportsStay'
  <2> SUFFICES ASSUME NEW e \in Digests, NEW i \in Ids, pc'[e] = "done", mine'[e][i, FEISHU] = SENT
               PROVE  \/ Over(e, i)'
                      \/ /\ rows'[i, FEISHU] = SENT \/ Gone(i)'
                         /\ \A d \in Digests : e \in before'[d] => i \notin pending'[d][FEISHU]
    BY DEF ReportsStay, ReportedWell
  <2>0. /\ Active(x) /\ i[1] \in Keys /\ i # None /\ i # Same
        /\ \A y \in Digests \ {x} : /\ pc'[y] = pc[y] /\ mine'[y] = mine[y] /\ pending'[y] = pending[y]
                                    /\ before'[y] = before[y]
    BY <1>0, <1>1, OnlyActiveMoves, OthersStay, MarkersDiffer DEF Ids
  <2>1. reports' = reports /\ (Used(i) => Used(i)')
    <3>1. reports' = reports
      BY <1>1, SharedStay
    <3> QED BY <2>0, <3>1 DEF Used, Active
  <2>2. Over(e, i) => Over(e, i)'
    <3> SUFFICES ASSUME NEW f \in Digests, pc[f] = "done", e \notin before[f], mine[f][i, FEISHU] = FAILED
                 PROVE  Over(e, i)'
      BY DEF Over
    <3>1. f # x
      BY <2>0 DEF Active
    <3> QED BY <2>0, <3>1 DEF Over
  <2>3. CASE e = x
    <3>1. Commit(x)
      <4>1. ~Fail(x)
        <5> SUFFICES ASSUME Fail(x) PROVE FALSE
          OBVIOUS
        <5>1. mine'[x] = NoRows
          BY <1>0 DEF Fail, RollBack, TypeOK
        <5>2. mine'[x][i, FEISHU] = ABSENT
          BY <1>0, <5>1 DEF NoRows
        <5> QED BY <1>0, <2>3, <5>2
      <4>2. ~Die(x)
        BY <1>0, <2>3 DEF Die, At, TypeOK
      <4> QED BY <1>0, <1>1, <2>0, <2>3, <4>1, <4>2, MovesAre
              DEF Begin, UpsertRead, UpsertWrite, PurgeRead, PurgeRow, Purging, ListPending, Send,
                  RecordRead, RecordRow, MarkRow, Onward, Settle, At, TypeOK, Active
    <3>2. mine[x][i, FEISHU] = SENT /\ before' = before
      BY <2>3, <3>1 DEF Commit
    <3>3. EventOf(x, i[1]) = i
      BY <1>0, <2>0, <3>2 DEF Mined, MineWell
    <3>4. own[x][i[1]] # None
      BY <2>0, <3>3, MarkersDiffer DEF EventOf
    <3>5. rows'[i, FEISHU] = SENT
      BY <1>0, <3>1, <3>2, <3>4 DEF Commit, WithoutEvents, StatusOf
    <3>6. \A d \in Digests : e \notin before'[d]
      BY <1>0, <2>0, <2>3, <3>2
    <3> QED BY <3>5, <3>6
  <2>4. CASE e # x
    <3>1. pc[e] = "done" /\ mine[e][i, FEISHU] = SENT
      BY <2>0, <2>4
    <3>2. SUFFICES ASSUME ~Over(e, i)
                   PROVE  \/ Over(e, i)'
                          \/ /\ rows'[i, FEISHU] = SENT \/ Gone(i)'
                             /\ \A d \in Digests : e \in before'[d] => i \notin pending'[d][FEISHU]
      BY <2>2
    <3>3. /\ rows[i, FEISHU] = SENT \/ Gone(i)
          /\ \A d \in Digests : e \in before[d] => i \notin pending[d][FEISHU]
      BY <3>1, <3>2 DEF ReportsStay, ReportedWell
    <3>4. ASSUME NEW d \in Digests, e \in before'[d] PROVE i \notin pending'[d][FEISHU]
      <4>1. CASE d # x
        BY <2>0, <3>3, <3>4, <4>1
      <4>2. CASE d = x
        <5> SUFFICES ASSUME i \in pending'[x][FEISHU] PROVE FALSE
          BY <4>2
        <5>1. /\ i \in pending[x][FEISHU] \/ (pc[x] = "list" /\ i \in Pending(x, FEISHU))
              /\ before'[x] = before[x]
          BY <1>0, <1>1, ListedBy
        <5>2. pc[x] = "list" /\ i \in Pending(x, FEISHU)
          BY <3>3, <3>4, <4>2, <5>1
        <5>3. mine[x][i, FEISHU] = ABSENT
          <6>1. mine[x] = NoRows
            BY <1>0, <5>2 DEF Placed, PlacedAt
          <6> QED BY <1>0, <6>1 DEF NoRows
        <5>4. rows[i, FEISHU] # SENT /\ \E k \in Keys : i = EventOf(x, k)
          BY <5>2, <5>3 DEF Pending, StatusOf
        <5>5. EventOf(x, i[1]) = i
          BY <1>0, <2>0, <5>4, EventFirst, ZenonT(40)
        <5> QED BY <2>0, <3>3, <5>4, <5>5, GoneUnseen
      <4> QED BY <4>1, <4>2
    <3>5. CASE ~Commit(x)
      <4>1. UNCHANGED <<events, rows>>
        BY <1>1, <3>5, SharedStay
      <4>2. Gone(i) => Gone(i)'
        BY <2>1, <4>1 DEF Gone
      <4> QED BY <3>3, <3>4, <4>1, <4>2
    <3>6. CASE Commit(x)
      <4>0. /\ events'[i[1]] = EventOf(x, i[1])
            /\ rows'[i, FEISHU] = IF own[x][i[1]] = None THEN ABSENT ELSE StatusOf(x, i, FEISHU)
            /\ pc'[x] = "done" /\ mine' = mine /\ before' = before
        BY <1>0, <2>0, <3>6 DEF Commit, WithoutEvents, At, TypeOK
      <4>1. Used(i)
        BY <1>0, <2>0, <3>3 DEF Stored, Gone
      <4>2. CASE own[x][i[1]] = None
        BY <2>0, <2>1, <3>4, <4>0, <4>1, <4>2, MarkersDiffer DEF Gone, EventOf
      <4>3. CASE own[x][i[1]] # None /\ Gone(i)
        BY <2>0, <2>1, <3>4, <4>0, <4>1, <4>3, GoneUnseen DEF Gone
      <4>4. CASE own[x][i[1]] # None /\ rows[i, FEISHU] = SENT
        <5>1. mine[x][i, FEISHU] \in {SENT, FAILED, ABSENT}
          <6>1. mine[x] \in [Ids \X Channels -> DeliveryStatus \cup {ABSENT}]
            BY <1>0 DEF TypeOK
          <6>2. <<i, FEISHU>> \in Ids \X Channels
            BY <1>0
          <6> QED BY <6>1, <6>2 DEF DeliveryStatus
        <5>2. CASE mine[x][i, FEISHU] # FAILED
          BY <1>0, <3>4, <4>0, <4>4, <5>1, <5>2 DEF StatusOf
        <5>3. CASE mine[x][i, FEISHU] = FAILED
          <6>1. i \in pending[x][FEISHU]
            BY <1>0, <5>3 DEF Mined, MineWell
          <6>2. e \notin before[x]
            BY <3>3, <6>1
          <6> QED BY <4>0, <5>3, <6>2 DEF Over
        <5> QED BY <5>2, <5>3
      <4> QED BY <3>3, <4>2, <4>3, <4>4
    <3> QED BY <3>5, <3>6
  <2> QED BY <2>3, <2>4
<1>2. CASE Tasks \/ UNCHANGED vars
  <2> SUFFICES ASSUME NEW e \in Digests, NEW i \in Ids, pc'[e] = "done", mine'[e][i, FEISHU] = SENT
               PROVE  \/ Over(e, i)'
                      \/ /\ rows'[i, FEISHU] = SENT \/ Gone(i)'
                         /\ \A d \in Digests : e \in before'[d] => i \notin pending'[d][FEISHU]
    BY DEF ReportsStay, ReportedWell
  <2>1. UNCHANGED <<pc, mine, pending, before>>
    BY <1>2 DEF Tasks, CreateEvent, ClusterRecovers, Withdraw, WithdrawVictim, vars
  <2>2. /\ Over(e, i) => Over(e, i)'
        /\ \/ Over(e, i)
           \/ /\ rows[i, FEISHU] = SENT \/ Gone(i)
              /\ \A d \in Digests : e \in before[d] => i \notin pending[d][FEISHU]
    BY <2>1 DEF ReportsStay, ReportedWell, Over
  <2>3. i[1] \in Keys /\ i # None
    BY MarkersDiffer DEF Ids
  <2>4. rows[i, FEISHU] = SENT \/ Gone(i) => rows'[i, FEISHU] = SENT \/ Gone(i)'
    <3>1. CASE CreateEvent
      <4>1. PICK k \in TaskKeys : events[k] = None /\ events' = [events EXCEPT ![k] = <<k, reports + 1>>]
        BY <3>1 DEF CreateEvent
      <4>2. rows' = rows /\ reports' = reports + 1 /\ reports \in Nat /\ k \in Keys
            /\ reports + 1 \in 0..MaxReports
        <5>1. rows' = rows /\ reports' = reports + 1 /\ reports < MaxReports /\ k \in Keys
          BY <3>1 DEF CreateEvent, Keys
        <5>2. reports \in 0..MaxReports
          BY <1>0 DEF TypeOK
        <5> QED BY <5>1, <5>2, NextReport
      <4>3. reports + 1 \notin Digests
        BY <4>2, IdsDiffer
      <4>4. ASSUME Gone(i) PROVE Gone(i)'
        <5>1. Used(i) /\ events[i[1]] # i
          BY <4>4 DEF Gone
        <5>2. Used(i)'
          BY <2>1, <4>2, <5>1, StillUsed
        <5>3. i # <<k, reports + 1>>
          <6> SUFFICES ASSUME i = <<k, reports + 1>> PROVE FALSE
            OBVIOUS
          <6>1. i[2] = reports + 1
            OBVIOUS
          <6>2. reports + 1 <= reports
            BY <4>3, <5>1, <6>1 DEF Used
          <6>3. reports \in 0..MaxReports /\ reports < MaxReports
            BY <1>0, <3>1 DEF TypeOK, Locations, CreateEvent
          <6> QED BY <6>2, <6>3, NextReport
        <5>4. events'[i[1]] # i
          BY <1>0, <2>3, <4>1, <4>2, <5>1, <5>3 DEF TypeOK
        <5> QED BY <5>2, <5>4 DEF Gone
      <4> QED BY <4>2, <4>4
    <3>2. CASE ClusterRecovers \/ WithdrawVictim \/ UNCHANGED vars
      BY <3>2 DEF ClusterRecovers, WithdrawVictim, Gone, Used, vars
    <3>3. CASE Withdraw
      <4>1. reports' = reports
        BY <3>3 DEF Withdraw
      <4>2. Used(i) => Used(i)'
        BY <2>1, <4>1 DEF Used
      <4>3. withdrawn[1] \in Keys
        BY <1>0, <3>3 DEF Stored, Withdraw, Keys
      <4>4. events'[i[1]] = events[i[1]] \/ events'[i[1]] = None
        BY <1>0, <2>3, <3>3, <4>3 DEF Withdraw, TypeOK
      <4>5. Gone(i) => Gone(i)'
        BY <2>3, <4>2, <4>4 DEF Gone
      <4>6. CASE i = withdrawn /\ Unmarked(withdrawn)
        <5>1. events'[i[1]] = None
          BY <1>0, <2>3, <3>3, <4>6 DEF Withdraw, TypeOK
        <5>2. Used(i)
          BY <1>0, <2>3, <4>6 DEF Stored
        <5> QED BY <2>3, <4>2, <5>1, <5>2 DEF Gone
      <4>7. CASE ~(i = withdrawn /\ Unmarked(withdrawn))
        <5>1. rows'[i, FEISHU] = rows[i, FEISHU]
          BY <1>0, <3>3, <4>7 DEF Withdraw, WithoutEvents
        <5> QED BY <4>5, <5>1
      <4> QED BY <4>6, <4>7
    <3> QED BY <1>2, <3>1, <3>2, <3>3 DEF Tasks
  <2> QED BY <2>1, <2>2, <2>4
<1> QED BY <1>1, <1>2 DEF Next, Terminating, Moves, Tasks

\* Initially no digest has ended.
LEMMA ReportsInit == Init => Ended /\ Mailed /\ ReportsStay
  BY DEF Init, Ended, Mailed, ReportsStay, ReportedWell

\* A digest that began after another one had ended repeats nothing that one committed as
\* sent by e-mail, and on Feishu only what a third, concurrent digest recorded as failed.
THEOREM NothingReportedTwice == Spec => []ReportedOnce
<1>1. Inv /\ Ended /\ Mailed /\ ReportsStay /\ [Next]_vars => Inv' /\ Ended' /\ Mailed' /\ ReportsStay'
  BY InvKept, EndedKept, MailedKept, ReportedKept
<1>2. Inv /\ Mailed /\ ReportsStay => ReportedOnce
  <2> SUFFICES ASSUME Inv, Mailed, ReportsStay, NEW d \in Digests, NEW e \in before[d], NEW i \in Ids,
                      NEW c \in Channels, run[d] # RUNNING, run[e] # RUNNING,
                      mine[d][i, c] = SENT, mine[e][i, c] = SENT
               PROVE  c # EMAIL /\ Overruled(e, i, c)
    BY DEF ReportedOnce
  <2>1. e \in Digests /\ pc[e] = "done"
    BY DEF Inv, TypeOK, Placed, PlacedAt
  <2>2. i \in pending[d][c]
    BY DEF Inv, Mined, MineWell, SENT, ABSENT
  <2>3. c = FEISHU
    BY <2>2 DEF Mailed, Channels
  <2>4. Over(e, i)
    BY <2>1, <2>2, <2>3 DEF ReportsStay, ReportedWell
  <2> QED BY <2>3, <2>4 DEF Over, Overruled, Inv, Placed, PlacedAt, EMAIL, FEISHU
<1> QED BY <1>1, <1>2, InvInit, ReportsInit, PTL DEF Spec
=============================================================================
