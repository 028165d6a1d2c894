--------------------------- MODULE AccountProofs ----------------------------
(***************************************************************************)
(* Proofs about accounts.  The inventory: the change log explains what is  *)
(* stored, a synchronisation that runs alone converges, and an account is  *)
(* deactivated only when it was listed away.  The permission facts: the    *)
(* logged differences replay what is stored.  The classification service:  *)
(* its cache and its results tell what is so.                              *)
(***************************************************************************)
EXTENDS AccountInventory, AccountPermissions, ClassificationEngine, FiniteSetTheorems, WellFoundedInduction, TLAPS

\* What a synchronisation keeps in its session.
IsSession(r) ==
    r = [pc |-> r.pc, owner |-> r.owner, listed |-> r.listed, truth |-> r.truth, read |-> r.read,
         view |-> r.view, writes |-> r.writes, diffs |-> r.diffs, unlogged |-> r.unlogged, alone |-> r.alone]

\* Every table has a row per key, every synchronisation a session about the
\* accounts of one owner.
Tables ==
    /\ account = [k \in Key |-> account[k]]
    /\ snapshot = [k \in Key |-> snapshot[k]]
    /\ logged = [k \in Key |-> logged[k]]
    /\ remote = [o \in Owners |-> remote[o]]
    /\ \A o \in Owners : DOMAIN remote[o] \subseteq Users
Sessions ==
    /\ sync = [s \in Syncs |-> sync[s]]
    /\ \A s \in Syncs : /\ IsSession(sync[s]) /\ sync[s].owner \in Owners
                        /\ DOMAIN sync[s].listed \subseteq Users

\* Where the rows of the accounts that were seen have been written: they stay
\* locked to the end of the transaction.
AfterInventory == {"enrich", "permissions", "commit", "commit_failed"}
Locked(s) == sync[s].pc \in AfterInventory => \A k \in Seen(s) : lock[k] = s

\* What a synchronisation is about to log is the difference between the
\* snapshot it is about to store and the one that is still there.
Differences(s) ==
    /\ DOMAIN sync[s].diffs # {} => sync[s].pc \in {"commit", "commit_failed"}
    /\ DOMAIN sync[s].diffs \subseteq Seen(s)
    /\ \A k \in DOMAIN sync[s].diffs :
           /\ sync[s].diffs[k].grant = sync[s].diffs[k].new \ snapshot[k]
           /\ sync[s].diffs[k].revoke = snapshot[k] \ sync[s].diffs[k].new

\* A listing is what the server had, and what is written follows from it.
FromListing(s) ==
    /\ sync[s].listed = sync[s].truth
    /\ DOMAIN sync[s].writes # {} => sync[s].pc \in AfterInventory
    /\ sync[s].pc \in AfterInventory =>
           sync[s].writes = [k \in Written(s) |-> IF k \in Seen(s) THEN "active" ELSE "inactive"]

\* While a synchronisation is alone, what it has read is still true.
Undisturbed(s) ==
    Running(s) /\ sync[s].alone =>
        /\ \A t \in Syncs \ {s} : ~Running(t)
        /\ sync[s].pc # "fetch" => sync[s].truth = remote[sync[s].owner]
        /\ sync[s].pc \notin {"fetch", "load"} => sync[s].view = account

Session(s) == Locked(s) /\ Differences(s) /\ FromListing(s) /\ Undisturbed(s)

InventoryInv == Tables /\ Sessions /\ LogExplainsSnapshot /\ \A s \in Syncs : Session(s)

\* A session that has not begun, or is over.
LEMMA Ended ==
    ASSUME NEW pc, NEW r, r = [Idle EXCEPT !.pc = pc]
    PROVE  /\ IsSession(r) /\ r.pc = pc /\ r.owner = Instance /\ r.listed = EmptyList /\ r.truth = EmptyList
           /\ DOMAIN r.diffs = {} /\ DOMAIN r.writes = {}
  BY DEF IsSession, Idle
LEMMA Began ==
    ASSUME NEW o, NEW alone, NEW r, r = [Idle EXCEPT !.pc = "fetch", !.owner = o, !.alone = alone]
    PROVE  /\ IsSession(r) /\ r.pc = "fetch" /\ r.owner = o /\ r.alone = alone /\ r.listed = EmptyList /\ r.truth = EmptyList
           /\ DOMAIN r.diffs = {} /\ DOMAIN r.writes = {}
  BY DEF IsSession, Idle

\* The accounts a listing names are accounts of its owner.
LEMMA SeenAreKeys ==
    ASSUME Sessions, NEW s \in Syncs
    PROVE  Seen(s) \subseteq Key /\ Missing(s) \subseteq Key /\ Written(s) \subseteq Key
  BY DEF Sessions, Seen, Missing, Written, Key

\* A step in which one running synchronisation changes its session only.
LEMMA OwnStep ==
    ASSUME InventoryInv, NEW s \in Syncs, NEW r, sync' = [sync EXCEPT ![s] = r],
           UNCHANGED <<remote, account, snapshot, logged, gap, lock>>,
           IsSession(r), r.owner \in Owners, DOMAIN r.listed \subseteq Users, Running(s), Session(s)'
    PROVE  InventoryInv'
<1>1. Tables' /\ LogExplainsSnapshot'
  BY DEF InventoryInv, Tables, LogExplainsSnapshot
<1>2. sync'[s] = r /\ \A t \in Syncs \ {s} : sync'[t] = sync[t]
  BY DEF InventoryInv, Sessions
<1>3. Sessions'
  BY <1>2 DEF InventoryInv, Sessions
<1>4. ASSUME NEW t \in Syncs \ {s} PROVE Session(t)'
  <2>1. sync'[t] = sync[t] /\ Session(t)
    BY <1>2 DEF InventoryInv
  <2>2. Seen(t)' = Seen(t) /\ Missing(t)' = Missing(t) /\ Running(t)' = Running(t)
    BY <2>1 DEF Seen, Missing, SyncScopes, Running
  <2>3. Written(t)' = Written(t)
    BY <2>1, <2>2 DEF Written
  <2>4. Locked(t)' /\ Differences(t)'
    BY <2>1, <2>2 DEF Session, Locked, Differences
  <2>5. FromListing(t)'
    BY <2>1, <2>2, <2>3 DEF Session, FromListing
  <2>6. Undisturbed(t)'
    BY <2>1, <2>2 DEF Session, Undisturbed
  <2> QED BY <2>4, <2>5, <2>6 DEF Session
<1> QED BY <1>1, <1>3, <1>4 DEF InventoryInv

-----------------------------------------------------------------------------
\* The listing.
LEMMA FetchKeeps ==
    ASSUME InventoryInv, NEW s \in Syncs, Fetch(s)
    PROVE  InventoryInv'
<1> DEFINE now == remote[sync[s].owner]
<1>1. PICK q : q = sync[s] /\ IsSession(q)
  BY DEF InventoryInv, Sessions
<1>2. PICK r : r = [q EXCEPT !.listed = now, !.read = now, !.truth = now, !.pc = "load"]
  OBVIOUS
<1>3. /\ q.pc = "fetch" /\ sync' = [sync EXCEPT ![s] = r]
      /\ UNCHANGED <<remote, account, snapshot, logged, gap, lock>>
  BY <1>1, <1>2 DEF Fetch, FetchedLists, Stored, InventoryInv, Sessions
<1>4. /\ IsSession(r) /\ r.listed = now /\ r.truth = now /\ r.pc = "load" /\ r.owner = q.owner /\ r.alone = q.alone
      /\ r.diffs = q.diffs /\ r.writes = q.writes
  BY <1>1, <1>2 DEF IsSession
<1>5. sync'[s] = r /\ \A t \in Syncs \ {s} : sync'[t] = sync[t]
  BY <1>3 DEF InventoryInv, Sessions
<1>6. DOMAIN q.diffs = {} /\ DOMAIN q.writes = {}
  BY <1>1, <1>3 DEF InventoryInv, Session, Differences, FromListing, AfterInventory
<1>7. Locked(s)' /\ Differences(s)' /\ FromListing(s)'
  BY <1>4, <1>5, <1>6 DEF Locked, Differences, FromListing, AfterInventory
<1>8. Undisturbed(s)'
  BY <1>1, <1>3, <1>4, <1>5 DEF Undisturbed, Running, InventoryInv, Session
<1>9. r.owner \in Owners /\ DOMAIN r.listed \subseteq Users /\ Running(s)
  BY <1>1, <1>3, <1>4 DEF InventoryInv, Sessions, Tables, Running
<1> QED BY <1>3, <1>4, <1>7, <1>8, <1>9, OwnStep DEF Session

\* A synchronisation is given up, or its permission stage is.
LEMMA FailureKeeps ==
    ASSUME InventoryInv, NEW s \in Syncs, FetchFails(s) \/ InventoryConflict(s) \/ EnrichFails(s)
    PROVE  InventoryInv'
<1>1. PICK q : q = sync[s] /\ IsSession(q)
  BY DEF InventoryInv, Sessions
<1>2. PICK pc : /\ sync' = [sync EXCEPT ![s].pc = pc] /\ UNCHANGED <<remote, account, snapshot, logged, gap, lock>>
                /\ \/ pc = "failed" /\ q.pc \in {"fetch", "inventory"}
                   \/ pc = "commit_failed" /\ q.pc = "enrich"
  BY <1>1 DEF FetchFails, InventoryConflict, EnrichFails, Go, Stored
<1>3. PICK r : r = [q EXCEPT !.pc = pc]
  OBVIOUS
<1>4. sync' = [sync EXCEPT ![s] = r]
  BY <1>1, <1>2, <1>3
<1>5. /\ IsSession(r) /\ r.pc = pc /\ r.owner = q.owner /\ r.alone = q.alone /\ r.listed = q.listed /\ r.truth = q.truth
      /\ r.diffs = q.diffs /\ r.writes = q.writes /\ r.view = q.view
  BY <1>1, <1>3 DEF IsSession
<1>6. sync'[s] = r /\ \A t \in Syncs \ {s} : sync'[t] = sync[t]
  BY <1>4 DEF InventoryInv, Sessions
<1>7. DOMAIN q.diffs = {} /\ (q.pc # "enrich" => DOMAIN q.writes = {})
  BY <1>1, <1>2 DEF InventoryInv, Session, Differences, FromListing, AfterInventory
<1>8. Seen(s)' = Seen(s) /\ Missing(s)' = Missing(s) /\ Written(s)' = Written(s)
  BY <1>1, <1>5, <1>6 DEF Seen, Missing, SyncScopes, Written
<1>9. Locked(s)' /\ Differences(s)' /\ FromListing(s)'
  BY <1>1, <1>2, <1>5, <1>6, <1>7, <1>8 DEF Locked, Differences, FromListing, AfterInventory, InventoryInv, Session
<1>10. Undisturbed(s)'
  BY <1>1, <1>2, <1>5, <1>6 DEF Undisturbed, Running, InventoryInv, Session
<1>11. r.owner \in Owners /\ DOMAIN r.listed \subseteq Users /\ Running(s)
  BY <1>1, <1>2, <1>5 DEF InventoryInv, Sessions, Running
<1> QED BY <1>2, <1>4, <1>5, <1>9, <1>10, <1>11, OwnStep DEF Session

\* The accounts known locally.
LEMMA LoadKeeps ==
    ASSUME InventoryInv, NEW s \in Syncs, LoadInventory(s)
    PROVE  InventoryInv'
<1>1. PICK q : q = sync[s] /\ IsSession(q)
  BY DEF InventoryInv, Sessions
<1>2. PICK r : r = [q EXCEPT !.view = account, !.pc = "inventory"]
  OBVIOUS
<1>3. /\ q.pc = "load" /\ sync' = [sync EXCEPT ![s] = r]
      /\ UNCHANGED <<remote, account, snapshot, logged, gap, lock>>
  BY <1>1, <1>2 DEF LoadInventory, Stored
<1>4. /\ IsSession(r) /\ r.pc = "inventory" /\ r.view = account /\ r.owner = q.owner /\ r.alone = q.alone
      /\ r.listed = q.listed /\ r.truth = q.truth /\ r.diffs = q.diffs /\ r.writes = q.writes
  BY <1>1, <1>2 DEF IsSession
<1>5. sync'[s] = r /\ \A t \in Syncs \ {s} : sync'[t] = sync[t]
  BY <1>3 DEF InventoryInv, Sessions
<1>6. DOMAIN q.diffs = {} /\ DOMAIN q.writes = {}
  BY <1>1, <1>3 DEF InventoryInv, Session, Differences, FromListing, AfterInventory
<1>7. Locked(s)' /\ Differences(s)' /\ FromListing(s)'
  BY <1>1, <1>4, <1>5, <1>6 DEF Locked, Differences, FromListing, AfterInventory, InventoryInv, Session
<1>8. Undisturbed(s)'
  <2>1. \A t \in Syncs \ {s} : Running(t)' <=> Running(t)
    BY <1>5 DEF Running
  <2>2. Running(s) /\ (q.alone => (\A t \in Syncs \ {s} : ~Running(t)) /\ q.truth = remote[q.owner])
    BY <1>1, <1>3 DEF Running, InventoryInv, Session, Undisturbed
  <2> QED BY <1>3, <1>4, <1>5, <2>1, <2>2 DEF Undisturbed
<1>9. r.owner \in Owners /\ DOMAIN r.listed \subseteq Users /\ Running(s)
  BY <1>1, <1>3, <1>4 DEF InventoryInv, Sessions, Running
<1> QED BY <1>3, <1>4, <1>7, <1>8, <1>9, OwnStep DEF Session

\* The privileges of the active accounts.
LEMMA EnrichKeeps ==
    ASSUME InventoryInv, NEW s \in Syncs, Enrich(s)
    PROVE  InventoryInv'
<1>1. PICK q : q = sync[s] /\ IsSession(q)
  BY DEF InventoryInv, Sessions
<1>2. PICK privs, r : r = [q EXCEPT !.read = privs, !.pc = "permissions"] /\ sync' = [sync EXCEPT ![s] = r]
  <2>1. PICK privs : sync' = [sync EXCEPT ![s] = [sync[s] EXCEPT !.read = privs, !.pc = "permissions"]]
    BY DEF Enrich, InventoryInv, Sessions
  <2> QED BY <1>1, <2>1
<1>3. q.pc = "enrich" /\ UNCHANGED <<remote, account, snapshot, logged, gap, lock>>
  BY <1>1 DEF Enrich, Stored
<1>4. /\ IsSession(r) /\ r.pc = "permissions" /\ r.view = q.view /\ r.owner = q.owner /\ r.alone = q.alone
      /\ r.listed = q.listed /\ r.truth = q.truth /\ r.diffs = q.diffs /\ r.writes = q.writes
  BY <1>1, <1>2 DEF IsSession
<1>5. sync'[s] = r /\ \A t \in Syncs \ {s} : sync'[t] = sync[t]
  BY <1>2 DEF InventoryInv, Sessions
<1>6. Seen(s)' = Seen(s) /\ Missing(s)' = Missing(s) /\ Written(s)' = Written(s)
  BY <1>1, <1>4, <1>5 DEF Seen, Missing, SyncScopes, Written
<1>7. Locked(s)' /\ Differences(s)' /\ FromListing(s)'
  BY <1>1, <1>3, <1>4, <1>5, <1>6 DEF Locked, Differences, FromListing, AfterInventory, InventoryInv, Session
<1>8. Undisturbed(s)'
  BY <1>1, <1>3, <1>4, <1>5 DEF Undisturbed, Running, InventoryInv, Session
<1>9. r.owner \in Owners /\ DOMAIN r.listed \subseteq Users /\ Running(s)
  BY <1>1, <1>3, <1>4 DEF InventoryInv, Sessions, Running
<1> QED BY <1>2, <1>3, <1>4, <1>7, <1>8, <1>9, OwnStep DEF Session

\* The comparison with the stored snapshots.
LEMMA PermissionsKeep ==
    ASSUME InventoryInv, NEW s \in Syncs, SyncPermissions(s)
    PROVE  InventoryInv'
<1> DEFINE diffs == [k \in Changed(s) |-> Diff(s, k)]
<1>1. PICK q : q = sync[s] /\ IsSession(q)
  BY DEF InventoryInv, Sessions
<1>2. PICK gone : sync' = [sync EXCEPT ![s] = [sync[s] EXCEPT !.diffs = diffs, !.unlogged = gone,
                               !.pc = IF gone = {} THEN "commit" ELSE "commit_failed"]]
  BY DEF SyncPermissions, InventoryInv, Sessions
<1>3. PICK pc : pc = IF gone = {} THEN "commit" ELSE "commit_failed"
  OBVIOUS
<1>4. PICK r : r = [q EXCEPT !.diffs = diffs, !.unlogged = gone, !.pc = pc]
  OBVIOUS
<1>5. sync' = [sync EXCEPT ![s] = r] /\ pc \in {"commit", "commit_failed"}
  BY <1>1, <1>2, <1>3, <1>4
<1>6. q.pc = "permissions" /\ UNCHANGED <<remote, account, snapshot, logged, gap, lock>>
  BY <1>1 DEF SyncPermissions, Stored
<1>7. /\ IsSession(r) /\ r.pc = pc /\ r.diffs = diffs /\ r.view = q.view /\ r.owner = q.owner /\ r.alone = q.alone
      /\ r.listed = q.listed /\ r.truth = q.truth /\ r.writes = q.writes
  BY <1>1, <1>4 DEF IsSession
<1>8. sync'[s] = r /\ \A t \in Syncs \ {s} : sync'[t] = sync[t]
  BY <1>5 DEF InventoryInv, Sessions
<1>9. Seen(s)' = Seen(s) /\ Missing(s)' = Missing(s) /\ Written(s)' = Written(s)
  BY <1>1, <1>7, <1>8 DEF Seen, Missing, SyncScopes, Written
<1>10. /\ DOMAIN diffs \subseteq Seen(s)
      /\ \A k \in DOMAIN diffs : /\ diffs[k].grant = diffs[k].new \ snapshot[k]
                                 /\ diffs[k].revoke = snapshot[k] \ diffs[k].new
  BY DEF Changed, Diff
<1> HIDE DEF diffs
<1>11. Locked(s)' /\ Differences(s)' /\ FromListing(s)'
  BY <1>1, <1>5, <1>6, <1>7, <1>8, <1>9, <1>10 DEF Locked, Differences, FromListing, AfterInventory, InventoryInv, Session
<1>12. Undisturbed(s)'
  BY <1>1, <1>5, <1>6, <1>7, <1>8, ZenonT(40) DEF Undisturbed, Running, InventoryInv, Session
<1>13. r.owner \in Owners /\ DOMAIN r.listed \subseteq Users /\ Running(s)
  BY <1>1, <1>6, <1>7 DEF InventoryInv, Sessions, Running
<1> QED BY <1>5, <1>6, <1>7, <1>11, <1>12, <1>13, OwnStep DEF Session

\* The inventory stage.
LEMMA InventoryKeeps ==
    ASSUME InventoryInv, NEW s \in Syncs, SyncInventory(s)
    PROVE  InventoryInv'
<1> DEFINE rows == [k \in Written(s) |-> IF k \in Seen(s) THEN "active" ELSE "inactive"]
<1>1. PICK q : q = sync[s] /\ IsSession(q)
  BY DEF InventoryInv, Sessions
<1>2. PICK pc : /\ pc \in {"commit", "enrich", "permissions"}
                /\ sync' = [sync EXCEPT ![s] = [sync[s] EXCEPT !.writes = rows, !.pc = pc]]
  BY DEF SyncInventory
<1>3. PICK r : r = [q EXCEPT !.writes = rows, !.pc = pc]
  OBVIOUS
<1>4. sync' = [sync EXCEPT ![s] = r]
  BY <1>1, <1>2, <1>3
<1>5. /\ q.pc = "inventory" /\ UNCHANGED <<remote, account, snapshot, logged, gap>>
      /\ \A k \in Touched(s) : lock[k] \in {Nobody, s}
      /\ lock' = [k \in Key |-> IF k \in Touched(s) THEN s ELSE lock[k]]
  BY <1>1 DEF SyncInventory, Stored, CanWrite
<1>6. /\ IsSession(r) /\ r.pc = pc /\ r.writes = rows /\ r.view = q.view /\ r.owner = q.owner /\ r.alone = q.alone
      /\ r.listed = q.listed /\ r.truth = q.truth /\ r.diffs = q.diffs
  BY <1>1, <1>3 DEF IsSession
<1>7. sync'[s] = r /\ \A t \in Syncs \ {s} : sync'[t] = sync[t]
  BY <1>4 DEF InventoryInv, Sessions
<1>8. Seen(s)' = Seen(s) /\ Missing(s)' = Missing(s) /\ Written(s)' = Written(s)
  BY <1>1, <1>6, <1>7 DEF Seen, Missing, SyncScopes, Written
<1>9. DOMAIN q.diffs = {}
  BY <1>1, <1>5 DEF InventoryInv, Session, Differences
<1>10. rows' = rows
  BY <1>8
<1> HIDE DEF rows
<1>11. Tables' /\ LogExplainsSnapshot' /\ Sessions'
  BY <1>1, <1>5, <1>6, <1>7, <1>4 DEF InventoryInv, Tables, LogExplainsSnapshot, Sessions
<1>12. Session(s)'
  <2>1. Locked(s)' /\ Differences(s)'
    BY <1>1, <1>5, <1>6, <1>7, <1>8, <1>9, SeenAreKeys DEF Locked, Differences, InventoryInv, Touched
  <2>2. FromListing(s)'
    BY <1>1, <1>2, <1>6, <1>7, <1>8, <1>10 DEF FromListing, AfterInventory, InventoryInv, Session, rows
  <2>3. Undisturbed(s)'
    BY <1>1, <1>2, <1>5, <1>6, <1>7 DEF Undisturbed, Running, InventoryInv, Session
  <2> QED BY <2>1, <2>2, <2>3 DEF Session
<1>13. ASSUME NEW t \in Syncs \ {s} PROVE Session(t)'
  <2>1. sync'[t] = sync[t] /\ Session(t) /\ t # Nobody /\ Seen(t) \subseteq Key
    BY <1>7, SeenAreKeys, DbTypesAssumption DEF InventoryInv
  <2>2. Seen(t)' = Seen(t) /\ Missing(t)' = Missing(t) /\ Running(t)' = Running(t)
    BY <2>1 DEF Seen, Missing, SyncScopes, Running
  <2>3. Written(t)' = Written(t)
    BY <2>1, <2>2 DEF Written
  <2>4. Locked(t)'
    BY <1>5, <2>1, <2>2 DEF Session, Locked
  <2>5. Differences(t)' /\ FromListing(t)'
    BY <1>5, <2>1, <2>2, <2>3 DEF Session, Differences, FromListing
  <2>6. Running(s) /\ Running(s)' /\ \A u \in Syncs \ {s} : Running(u)' <=> Running(u)
    BY <1>1, <1>2, <1>5, <1>6, <1>7 DEF Running
  <2>7. Undisturbed(t)'
    BY <1>5, <2>1, <2>2, <2>6 DEF Session, Undisturbed
  <2> QED BY <2>4, <2>5, <2>7 DEF Session
<1> QED BY <1>11, <1>12, <1>13 DEF InventoryInv

-----------------------------------------------------------------------------
\* The end of a transaction: the session is over and its locks are released.
LEMMA EndStep ==
    ASSUME InventoryInv, NEW s \in Syncs, Running(s), NEW pc \in {"done", "failed"},
           sync' = [sync EXCEPT ![s] = [Idle EXCEPT !.pc = pc]], Release(s), remote' = remote,
           Tables', LogExplainsSnapshot',
           \A t \in Syncs \ {s} : \A k \in DOMAIN sync[t].diffs : snapshot'[k] = snapshot[k]
    PROVE  InventoryInv'
<1>1. PICK r : r = [Idle EXCEPT !.pc = pc]
  OBVIOUS
<1>2. sync' = [sync EXCEPT ![s] = r]
  BY <1>1
<1>3. /\ IsSession(r) /\ r.pc = pc /\ r.owner = Instance /\ r.listed = EmptyList /\ r.truth = EmptyList
      /\ DOMAIN r.diffs = {} /\ DOMAIN r.writes = {} /\ DOMAIN EmptyList = {}
  BY <1>1 DEF IsSession, Idle, EmptyList
<1>4. sync'[s] = r /\ \A t \in Syncs \ {s} : sync'[t] = sync[t]
  BY <1>2 DEF InventoryInv, Sessions
<1>5. Sessions'
  BY <1>2, <1>3, <1>4 DEF InventoryInv, Sessions, Owners
<1>6. Session(s)'
  BY <1>3, <1>4 DEF Session, Locked, Differences, FromListing, Undisturbed, Running, AfterInventory
<1>7. ASSUME NEW t \in Syncs \ {s} PROVE Session(t)'
  <2>1. sync'[t] = sync[t] /\ Session(t) /\ Seen(t) \subseteq Key
    BY <1>4, SeenAreKeys DEF InventoryInv
  <2>2. Seen(t)' = Seen(t) /\ Missing(t)' = Missing(t) /\ (Running(t)' <=> Running(t))
    BY <2>1 DEF Seen, Missing, SyncScopes, Running
  <2>3. Written(t)' = Written(t)
    BY <2>1, <2>2 DEF Written
  <2>4. Locked(t)'
    BY <2>1, <2>2 DEF Session, Locked, Release
  <2>5. Differences(t)' /\ FromListing(t)'
    BY <2>1, <2>2, <2>3 DEF Session, Differences, FromListing
  <2>6. Undisturbed(t)'
    BY <2>1, <2>2 DEF Session, Undisturbed
  <2> QED BY <2>4, <2>5, <2>6 DEF Session
<1> QED BY <1>5, <1>6, <1>7 DEF InventoryInv

\* What a synchronisation holds in hand at its commit is under its locks.
LEMMA HeldApart ==
    ASSUME InventoryInv, NEW s \in Syncs, NEW t \in Syncs \ {s}
    PROVE  DOMAIN sync[s].diffs \cap DOMAIN sync[t].diffs = {}
  BY DEF InventoryInv, Session, Locked, Differences, AfterInventory

\* The commit.
LEMMA CommitKeeps ==
    ASSUME InventoryInv, NEW s \in Syncs, Commit(s)
    PROVE  InventoryInv'
<1> DEFINE d == sync[s].diffs
<1>1. PICK pc \in {"done", "failed"} : sync' = [sync EXCEPT ![s] = [Idle EXCEPT !.pc = pc]]
  BY DEF Commit
<1>2. /\ sync[s].pc \in {"commit", "commit_failed"} /\ Release(s) /\ remote' = remote
      /\ account' = Update(account, sync[s].writes)
      /\ snapshot' = Update(snapshot, [k \in DOMAIN d |-> d[k].new])
      /\ logged' = Update(logged, [k \in DOMAIN d \ sync[s].unlogged |-> (logged[k] \union d[k].grant) \ d[k].revoke])
      /\ gap' = gap \union sync[s].unlogged
  BY DEF Commit
<1>3. /\ DOMAIN d \subseteq Key
      /\ \A k \in DOMAIN d : d[k].grant = d[k].new \ snapshot[k] /\ d[k].revoke = snapshot[k] \ d[k].new
  BY SeenAreKeys DEF InventoryInv, Session, Differences
<1>4. Tables'
  BY <1>2 DEF InventoryInv, Tables, Update
<1>5. \A k \in Key : snapshot'[k] = IF k \in DOMAIN d THEN d[k].new ELSE snapshot[k]
  BY <1>2 DEF Update
<1>6. \A k \in Key \ gap' : logged'[k] = IF k \in DOMAIN d THEN (logged[k] \union d[k].grant) \ d[k].revoke ELSE logged[k]
  BY <1>2 DEF Update
<1>7. LogExplainsSnapshot'
  <2>1. ASSUME NEW k \in Key \ gap' PROVE logged'[k] = snapshot'[k]
    <3>1. logged[k] = snapshot[k]
      BY <1>2 DEF InventoryInv, LogExplainsSnapshot
    <3> QED BY <1>3, <1>5, <1>6, <3>1
  <2> QED BY <2>1 DEF LogExplainsSnapshot
<1>8. \A t \in Syncs \ {s} : \A k \in DOMAIN sync[t].diffs : snapshot'[k] = snapshot[k]
  BY <1>5, HeldApart, SeenAreKeys DEF InventoryInv, Session, Differences
<1> QED BY <1>1, <1>2, <1>4, <1>7, <1>8, EndStep DEF Running

\* The end of the process.
LEMMA DeathKeeps ==
    ASSUME InventoryInv, NEW s \in Syncs, Die(s)
    PROVE  InventoryInv'
<1>1. Tables' /\ LogExplainsSnapshot'
  BY DEF Die, Stored, InventoryInv, Tables, LogExplainsSnapshot
<1> QED BY <1>1, EndStep DEF Die, Stored

-----------------------------------------------------------------------------
\* A step that at most ends the solitude of a synchronisation.
LEMMA StillValid ==
    ASSUME InventoryInv, NEW t \in Syncs, NEW r, sync'[t] = r, UNCHANGED <<account, snapshot, lock>>,
           r.pc = sync[t].pc, r.owner = sync[t].owner, r.listed = sync[t].listed, r.truth = sync[t].truth,
           r.view = sync[t].view, r.diffs = sync[t].diffs, r.writes = sync[t].writes, Undisturbed(t)'
    PROVE  Session(t)'
<1>1. Session(t) /\ Seen(t)' = Seen(t) /\ Missing(t)' = Missing(t) /\ Written(t)' = Written(t)
  BY DEF InventoryInv, Seen, Missing, SyncScopes, Written
<1> QED BY <1>1 DEF Session, Locked, Differences, FromListing

\* A change on the server.
LEMMA ChangeKeeps ==
    ASSUME InventoryInv, NEW o \in Owners, Change(o)
    PROVE  InventoryInv'
<1>1. /\ UNCHANGED <<account, snapshot, logged, gap, lock>>
      /\ sync' = [s \in Syncs |-> IF sync[s].owner = o THEN [sync[s] EXCEPT !.alone = FALSE] ELSE sync[s]]
  BY DEF Change, Stored
<1>2. PICK list : remote' = [remote EXCEPT ![o] = list] /\ DOMAIN list \subseteq Users
  <2>1. PICK list \in RemoteList : remote' = [remote EXCEPT ![o] = list]
    BY DEF Change
  <2>2. DOMAIN list \subseteq Users
    BY DEF RemoteList
  <2> QED BY <2>1, <2>2
<1>3. Tables' /\ LogExplainsSnapshot'
  BY <1>1, <1>2 DEF InventoryInv, Tables, LogExplainsSnapshot
<1>4. ASSUME NEW t \in Syncs
      PROVE  /\ IsSession(sync'[t]) /\ sync'[t].pc = sync[t].pc /\ sync'[t].owner = sync[t].owner
             /\ sync'[t].listed = sync[t].listed /\ sync'[t].truth = sync[t].truth /\ sync'[t].view = sync[t].view
             /\ sync'[t].diffs = sync[t].diffs /\ sync'[t].writes = sync[t].writes
             /\ sync'[t].alone => sync[t].alone /\ sync[t].owner # o
  <2>1. PICK q : q = sync[t] /\ IsSession(q)
    BY DEF InventoryInv, Sessions
  <2>2. sync'[t] = IF q.owner = o THEN [q EXCEPT !.alone = FALSE] ELSE q
    BY <1>1, <2>1
  <2> QED BY <2>1, <2>2 DEF IsSession
<1>5. Sessions'
  BY <1>1, <1>4 DEF InventoryInv, Sessions
<1>6. ASSUME NEW t \in Syncs PROVE Session(t)'
  <2>1. \A u \in Syncs : Running(u)' <=> Running(u)
    BY <1>4 DEF Running
  <2>2. sync[t].owner # o => remote'[sync[t].owner] = remote[sync[t].owner]
    BY <1>2 DEF InventoryInv, Tables, Sessions
  <2>3. Undisturbed(t)'
    BY <1>1, <1>4, <2>1, <2>2 DEF InventoryInv, Session, Undisturbed
  <2> QED BY <1>1, <1>4, <2>3, StillValid
<1> QED BY <1>3, <1>5, <1>6 DEF InventoryInv

\* A synchronisation begins: it is alone if no other one is under way, and
\* those are not any more.
LEMMA BeginKeeps ==
    ASSUME InventoryInv, NEW s \in Syncs, NEW o \in Owners, Begin(s, o)
    PROVE  InventoryInv'
<1>1. PICK r : r = [Idle EXCEPT !.pc = "fetch", !.owner = o, !.alone = \A u \in Syncs : ~Running(u)]
  OBVIOUS
<1>2. /\ UNCHANGED <<remote, account, snapshot, logged, gap, lock>> /\ sync[s].pc = "idle" /\ sync'[s] = r
      /\ sync' = [t \in Syncs |-> sync'[t]]
      /\ \A t \in Syncs \ {s} : sync'[t] = [sync[t] EXCEPT !.alone = sync[t].alone /\ ~Running(t)]
  BY <1>1 DEF Begin, Stored
<1>3. /\ IsSession(r) /\ r.pc = "fetch" /\ r.owner = o /\ r.listed = EmptyList /\ r.truth = EmptyList
      /\ DOMAIN r.diffs = {} /\ DOMAIN r.writes = {} /\ DOMAIN EmptyList = {}
      /\ r.alone => \A u \in Syncs : ~Running(u)
  BY <1>1 DEF IsSession, Idle, EmptyList
<1>4. ASSUME NEW t \in Syncs \ {s}
      PROVE  /\ IsSession(sync'[t]) /\ sync'[t].pc = sync[t].pc /\ sync'[t].owner = sync[t].owner
             /\ sync'[t].listed = sync[t].listed /\ sync'[t].truth = sync[t].truth /\ sync'[t].view = sync[t].view
             /\ sync'[t].diffs = sync[t].diffs /\ sync'[t].writes = sync[t].writes
             /\ sync'[t].alone => ~Running(t)
  <2>1. PICK q : q = sync[t] /\ IsSession(q)
    BY DEF InventoryInv, Sessions
  <2>2. PICK alone : sync'[t] = [q EXCEPT !.alone = alone] /\ (alone => ~Running(t))
    BY <1>2, <2>1
  <2> QED BY <2>1, <2>2 DEF IsSession
<1>5. Tables' /\ LogExplainsSnapshot' /\ Sessions'
  BY <1>2, <1>3, <1>4 DEF InventoryInv, Tables, LogExplainsSnapshot, Sessions
<1>6. \A t \in Syncs \ {s} : Running(t)' <=> Running(t)
  BY <1>4 DEF Running
<1>7. Session(s)'
  BY <1>2, <1>3, <1>6 DEF Session, Locked, Differences, FromListing, Undisturbed, AfterInventory
<1>8. ASSUME NEW t \in Syncs \ {s} PROVE Session(t)'
  <2>1. Undisturbed(t)'
    BY <1>4, <1>6 DEF Undisturbed
  <2> QED BY <1>2, <1>4, <2>1, StillValid
<1> QED BY <1>5, <1>7, <1>8 DEF InventoryInv

-----------------------------------------------------------------------------
\* At first nobody synchronises, and the log explains what an earlier pass left.
LEMMA InventoryInvInit == Init => InventoryInv
<1> SUFFICES ASSUME Init PROVE InventoryInv
  OBVIOUS
<1>1. \A s \in Syncs : sync[s] = Idle
  BY DEF Init
<1>2. /\ IsSession(Idle) /\ Idle.pc = "idle" /\ Idle.owner \in Owners /\ Idle.listed = EmptyList /\ Idle.truth = EmptyList
      /\ DOMAIN Idle.diffs = {} /\ DOMAIN Idle.writes = {} /\ DOMAIN EmptyList = {}
  BY DEF Idle, IsSession, EmptyList, Owners
<1>3. Sessions /\ \A s \in Syncs : Session(s)
  BY <1>1, <1>2 DEF Init, Sessions, Session, Locked, Differences, FromListing, Undisturbed, Running, AfterInventory
<1>4. remote = [o \in Owners |-> remote[o]] /\ \A o \in Owners : DOMAIN remote[o] \subseteq Users
  <2>1. remote \in [Owners -> { [u \in names |-> {"grants"}] : names \in SUBSET Users }]
    BY DEF Init
  <2> QED BY <2>1
<1>5. Tables /\ LogExplainsSnapshot
  BY <1>4 DEF Init, Tables, LogExplainsSnapshot
<1> QED BY <1>3, <1>5 DEF InventoryInv

\* Every step of every synchronisation, and every change on the server.
LEMMA InventoryInvKept == InventoryInv /\ [Next]_vars => InventoryInv'
<1> SUFFICES ASSUME InventoryInv, [Next]_vars PROVE InventoryInv'
  OBVIOUS
<1>1. ASSUME NEW s \in Syncs, Step(s) PROVE InventoryInv'
  BY <1>1, BeginKeeps, FetchKeeps, FailureKeeps, LoadKeeps, InventoryKeeps, EnrichKeeps, PermissionsKeep, CommitKeeps DEF Step
<1>2. ASSUME UNCHANGED vars PROVE InventoryInv'
  <2>1. UNCHANGED <<remote, account, snapshot, logged, gap, lock, sync>>
    BY <1>2 DEF vars
  <2>2. \A s \in Syncs : Seen(s)' = Seen(s) /\ Missing(s)' = Missing(s) /\ Written(s)' = Written(s) /\ (Running(s)' <=> Running(s))
    BY <2>1 DEF Seen, Missing, SyncScopes, Written, Running
  <2>3. Tables' /\ Sessions' /\ LogExplainsSnapshot'
    BY <2>1 DEF InventoryInv, Tables, Sessions, LogExplainsSnapshot
  <2>4. ASSUME NEW s \in Syncs PROVE Locked(s)' /\ Differences(s)'
    BY <2>1, <2>2 DEF InventoryInv, Session, Locked, Differences
  <2>5. ASSUME NEW s \in Syncs PROVE FromListing(s)' /\ Undisturbed(s)'
    BY <2>1, <2>2 DEF InventoryInv, Session, FromListing, Undisturbed
  <2> QED BY <2>3, <2>4, <2>5 DEF InventoryInv, Session
<1> QED BY <1>1, <1>2, ChangeKeeps, DeathKeeps DEF Next

\* However many synchronisations overlap, fail or die, the committed change
\* log adds up to the committed snapshots (permission_manager.py).
THEOREM LogAlwaysExplains == Spec => []LogExplainsSnapshot
<1>1. InventoryInv => LogExplainsSnapshot
  BY DEF InventoryInv
<1> QED BY <1>1, InventoryInvInit, InventoryInvKept, PTL DEF Spec

\* A transaction ends by its own commit, or with the process.
LEMMA EndsItself ==
    ASSUME InventoryInv, [Next]_vars, NEW s \in Syncs,
           sync[s].pc \in {"commit", "commit_failed"}, sync'[s].pc # sync[s].pc
    PROVE  Commit(s) \/ Die(s)
<1>1. ASSUME NEW o \in Owners, Change(o) PROVE FALSE
  <2>1. PICK q : q = sync[s] /\ IsSession(q)
    BY DEF InventoryInv, Sessions
  <2>2. sync'[s] = [q EXCEPT !.alone = FALSE] \/ sync'[s] = q
    BY <1>1, <2>1 DEF Change
  <2> QED BY <2>1, <2>2 DEF IsSession
<1>2. ASSUME NEW t \in Syncs \ {s}, NEW o \in Owners, Begin(t, o) PROVE FALSE
  <2>1. PICK q : q = sync[s] /\ IsSession(q)
    BY DEF InventoryInv, Sessions
  <2>2. PICK alone : sync'[s] = [q EXCEPT !.alone = alone]
    BY <1>2, <2>1 DEF Begin
  <2> QED BY <2>1, <2>2 DEF IsSession
<1>3. ASSUME NEW t \in Syncs \ {s}, \/ Fetch(t) \/ FetchFails(t) \/ LoadInventory(t) \/ SyncInventory(t)
                                     \/ InventoryConflict(t) \/ Enrich(t) \/ EnrichFails(t) \/ SyncPermissions(t)
                                     \/ Commit(t) \/ Die(t)
      PROVE  FALSE
  <2>1. sync'[s] = sync[s]
    BY <1>3 DEF InventoryInv, Sessions, Fetch, FetchFails, LoadInventory, SyncInventory, InventoryConflict, Enrich,
                EnrichFails, SyncPermissions, Commit, Die, Go
  <2> QED BY <2>1
<1>4. ASSUME Step(s) PROVE Commit(s)
  BY <1>4 DEF Step, Begin, Fetch, FetchFails, LoadInventory, SyncInventory, InventoryConflict, Enrich, EnrichFails,
              SyncPermissions
<1>5. ASSUME UNCHANGED vars PROVE FALSE
  BY <1>5 DEF vars
<1> QED BY <1>1, <1>2, <1>3, <1>4, <1>5 DEF Next, Step

\* A synchronisation that nothing overlapped and that succeeded leaves active
\* exactly the accounts its owner has (inventory_manager.py).
THEOREM SoloSyncsConverge == Spec => SoloSyncConverges
<1>1. ASSUME InventoryInv, [Next]_vars
      PROVE  \A s \in Syncs :
                (/\ sync[s].pc = "commit" /\ sync'[s].pc = "done"
                 /\ sync[s].alone
                 /\ sync[s].owner = Instance \/ DOMAIN remote[sync[s].owner] # {})
                => \A u \in Users :
                      account'[<<sync[s].owner, u>>] = "active" <=> u \in DOMAIN remote[sync[s].owner]
  <2> SUFFICES ASSUME NEW s \in Syncs, sync[s].pc = "commit", sync'[s].pc = "done", sync[s].alone,
                      sync[s].owner = Instance \/ DOMAIN remote[sync[s].owner] # {},
                      NEW u \in Users
               PROVE  account'[<<sync[s].owner, u>>] = "active" <=> u \in DOMAIN remote[sync[s].owner]
    OBVIOUS
  <2> DEFINE o == sync[s].owner
             k == <<o, u>>
  <2>1. ~Die(s)
    <3>1. Idle.pc = "idle" /\ [Idle EXCEPT !.pc = "failed"].pc = "failed"
      BY DEF Idle
    <3> QED BY <1>1, <3>1 DEF Die, InventoryInv, Sessions
  <2>2. Commit(s)
    BY <1>1, <2>1, EndsItself
  <2>3. /\ o \in Owners /\ k \in Key /\ sync[s].listed = remote[o] /\ sync[s].view = account
        /\ sync[s].writes = [l \in Written(s) |-> IF l \in Seen(s) THEN "active" ELSE "inactive"]
    BY <1>1 DEF InventoryInv, Sessions, Session, FromListing, Undisturbed, Running, AfterInventory, Key
  <2>4. account'[k] = IF k \in Written(s) THEN IF k \in Seen(s) THEN "active" ELSE "inactive" ELSE account[k]
    BY <2>2, <2>3 DEF Commit, Update
  <2>5. k \in Seen(s) <=> u \in DOMAIN remote[o]
    BY <2>3 DEF Seen
  <2>6. k \notin Seen(s) => (k \in Missing(s) <=> account[k] = "active")
    <3>1. CASE Seen(s) # {}
      BY <2>3, <3>1 DEF Missing, SyncScopes
    <3>2. CASE Seen(s) = {}
      <4>1. \A v \in DOMAIN remote[o] : <<o, v>> \in Seen(s)
        BY <2>3 DEF Seen
      <4>2. o = Instance
        BY <3>2, <4>1
      <4> QED BY <2>3, <3>2, <4>2 DEF Missing, SyncScopes
    <3> QED BY <3>1, <3>2
  <2> QED BY <2>3, <2>4, <2>5, <2>6 DEF Written
<1> QED BY <1>1, InventoryInvInit, InventoryInvKept, PTL DEF Spec, SoloSyncConverges

\* An account is deactivated by a synchronisation of its owner only if the
\* server listed that owner's accounts without it.
THEOREM OnlyAbsentDeactivated == Spec => DeactivatedWasAbsent
<1>1. ASSUME InventoryInv, [Next]_vars
      PROVE  \A s \in Syncs, k \in Key :
                (/\ sync[s].pc \in {"commit", "commit_failed"} /\ sync'[s].pc # sync[s].pc
                 /\ account[k] = "active" /\ account'[k] = "inactive"
                 /\ k[1] = sync[s].owner)
                => k[2] \notin DOMAIN sync[s].truth
  <2> SUFFICES ASSUME NEW s \in Syncs, NEW k \in Key, sync[s].pc \in {"commit", "commit_failed"}, sync'[s].pc # sync[s].pc,
                      account[k] = "active", account'[k] = "inactive", k[1] = sync[s].owner,
                      k[2] \in DOMAIN sync[s].truth
               PROVE  FALSE
    OBVIOUS
  <2>1. Commit(s)
    BY <1>1, EndsItself DEF Die, Stored
  <2>2. /\ sync[s].listed = sync[s].truth
        /\ sync[s].writes = [l \in Written(s) |-> IF l \in Seen(s) THEN "active" ELSE "inactive"]
    BY <1>1 DEF InventoryInv, Session, FromListing, AfterInventory
  <2>3. k \in Seen(s)
    <3>1. k = <<k[1], k[2]>>
      BY DEF Key
    <3> QED BY <2>2, <3>1 DEF Seen
  <2> QED BY <2>1, <2>2, <2>3 DEF Commit, Update
<1> QED BY <1>1, InventoryInvInit, InventoryInvKept, PTL DEF Spec, DeactivatedWasAbsent

----------------------------------------------------------------------------
(* The facts of an account and the log of their differences.               *)

\* What the next difference is taken of.
Base == IF stored = NoRow THEN Nothing ELSE stored

\* Until the date passes, or where there is none, the flags do not depend on it.
Timeless == nights = 0 \/ dbType # "postgresql"

\* The entries of the log add up to the row, and the facts have the flags of the row, although the row and
\* the facts may be of different synchronisations.
Adds ==
    /\ replayed.items = Items(Base)
    /\ replayed.special = Base.special
    /\ replayed.superuser = superuser(dbType, Base)
    /\ Timeless => replayed.locked = locked(dbType, Base, nights)
FlagsKept ==
    stored # NoRow =>
        /\ ("SUPERUSER" \in facts.capabilities) = superuser(dbType, stored)
        /\ Timeless => ("LOCKED" \in facts.capabilities) = locked(dbType, stored, nights)
PermissionInv == dbType \in DOMAIN Servers /\ nights \in {0, 1} /\ Adds /\ FlagsKept

\* The flags are truth values, and an account without a row has none of them.
LEMMA Flags ==
    ASSUME NEW db \in DOMAIN Servers, NEW s, NEW n
    PROVE  /\ superuser(db, s) \in BOOLEAN /\ locked(db, s, n) \in BOOLEAN
           /\ ~superuser(db, Nothing) /\ ~locked(db, Nothing, n) /\ Items(Nothing) = {}
<1>1. db \in {"mysql", "postgresql", "sqlserver", "oracle"}
  BY ServersAssumption
<1>2. superuser(db, s) \in BOOLEAN /\ locked(db, s, n) \in BOOLEAN
  <2>1. CASE db = "mysql"
    BY <2>1 DEF superuser, locked
  <2>2. CASE db = "postgresql"
    BY <2>2 DEF superuser, locked, Attribute, Has
  <2>3. CASE db = "sqlserver"
    BY <2>3 DEF superuser, locked
  <2>4. CASE db = "oracle"
    BY <2>4 DEF superuser, locked
  <2> QED BY <1>1, <2>1, <2>2, <2>3, <2>4
<1>3. ~superuser(db, Nothing) /\ ~locked(db, Nothing, n) /\ Items(Nothing) = {}
  BY <1>1 DEF superuser, locked, Attribute, Has, Nothing, extract_roles, Items
<1> QED BY <1>2, <1>3

\* The date only matters to PostgreSQL.
LEMMA DateMatters ==
    ASSUME NEW db \in DOMAIN Servers, NEW s, NEW n, NEW m, db # "postgresql"
    PROVE  locked(db, s, n) = locked(db, s, m)
<1>1. db \in {"mysql", "sqlserver", "oracle"}
  BY ServersAssumption
<1> QED BY <1>1 DEF locked

\* The facts that are built have the flags of the snapshot.
LEMMA FactsHaveFlags ==
    ASSUME NEW db \in DOMAIN Servers, NEW acct \in Servers[db], NEW n
    PROVE  LET s == snapshot_of(acct)
               f == build_permission_facts(db, s, n)
           IN  /\ ("SUPERUSER" \in f.capabilities) = superuser(db, s)
               /\ ("LOCKED" \in f.capabilities) = locked(db, s, n)
<1> DEFINE s == snapshot_of(acct)
<1>1. \A x \in Enabled(s) : x \notin {"SUPERUSER", "LOCKED"}
  <2> SUFFICES ASSUME NEW h \in s.grants, h.category = "postgresql_role_attributes"
               PROVE  h.object \notin {"SUPERUSER", "LOCKED"}
    BY DEF Enabled
  <2>1. PICK g \in acct.grants : h \in parsed(g)
    BY DEF snapshot_of
  <2>2. PICK n1 : h = Grant(g.category, IF g.category = "mysql_database_privileges" THEN Upper[g.object] ELSE g.object,
                            g.level, n1)
    BY <2>1 DEF parsed
  <2>3. h.category = g.category
    BY <2>2 DEF Grant
  <2>4. h.object = g.object
    BY <2>2, <2>3 DEF Grant
  <2>5. g.category = "postgresql_role_attributes" => g.object \notin {"SUPERUSER", "GRANT_ADMIN", "LOCKED"}
    BY ServersAssumption
  <2> QED BY <2>3, <2>4, <2>5
<1>2. superuser(db, s) \in BOOLEAN /\ locked(db, s, n) \in BOOLEAN
  BY Flags
<1> HIDE DEF s
<1>3. ("SUPERUSER" \in build_permission_facts(db, s, n).capabilities) = superuser(db, s)
  BY <1>1, <1>2 DEF build_permission_facts
<1>4. ("LOCKED" \in build_permission_facts(db, s, n).capabilities) = locked(db, s, n)
  BY <1>1, <1>2 DEF build_permission_facts
<1> QED BY <1>3, <1>4 DEF s

\* A difference turns what the log adds up to into what is stored next.
LEMMA ReplayAdds ==
    ASSUME NEW db \in DOMAIN Servers, NEW old, NEW new, NEW n, NEW r,
           r.items = Items(old), r.special = old.special, r.superuser = superuser(db, old)
    PROVE  LET next == Replay(r, calculate_diff(db, old, new, n))
           IN  /\ next.items = Items(new) /\ next.special = new.special /\ next.superuser = superuser(db, new)
               /\ r.locked = locked(db, old, n) => next.locked = locked(db, new, n)
<1> DEFINE d == calculate_diff(db, old, new, n)
<1>1. d.GRANT = Items(new) \ Items(old) /\ d.REVOKE = Items(old) \ Items(new)
  BY DEF calculate_diff, Entries
<1>2. d.set = new.special \ old.special /\ d.reset = old.special \ new.special
  BY DEF calculate_diff, Entries
<1>3. d.is_superuser = <<superuser(db, old), superuser(db, new)>> /\ d.is_locked = <<locked(db, old, n), locked(db, new, n)>>
  BY DEF calculate_diff, Entries
<1>4. /\ d.is_superuser[1] = superuser(db, old) /\ d.is_superuser[2] = superuser(db, new)
      /\ d.is_locked[1] = locked(db, old, n) /\ d.is_locked[2] = locked(db, new, n)
  BY <1>3
<1> HIDE DEF d
<1>5. Replay(r, d).items = Items(new) /\ Replay(r, d).special = new.special
  BY <1>1, <1>2 DEF Replay
<1>6. Replay(r, d).superuser = superuser(db, new)
  BY <1>4 DEF Replay
<1>7. r.locked = locked(db, old, n) => Replay(r, d).locked = locked(db, new, n)
  BY <1>4 DEF Replay
<1> QED BY <1>5, <1>6, <1>7 DEF d

LEMMA PermissionInvInit == PermissionInit => PermissionInv
<1> SUFFICES ASSUME PermissionInit PROVE PermissionInv
  OBVIOUS
<1>1. Base = Nothing /\ dbType \in DOMAIN Servers
  BY DEF PermissionInit, Base
<1>2. Adds
  BY <1>1, Flags DEF PermissionInit, Adds, Nothing
<1> QED BY <1>1, <1>2 DEF PermissionInit, PermissionInv, FlagsKept

\* A synchronisation that finds a change, or an account without a row.
LEMMA ChangeLogged ==
    ASSUME PermissionInv, NEW acct \in Servers[dbType], UNCHANGED <<dbType, nights>>,
           stored' = snapshot_of(acct),
           replayed' = Replay(replayed, calculate_diff(dbType, Base, snapshot_of(acct), nights)),
           facts' = build_permission_facts(dbType, snapshot_of(acct), nights)
    PROVE  PermissionInv'
<1>1. Base' = snapshot_of(acct) /\ stored' # NoRow
  BY ServersAssumption DEF PermissionInv, Base
<1>2. Adds'
  BY <1>1, ReplayAdds DEF PermissionInv, Adds, Timeless
<1>3. FlagsKept'
  BY FactsHaveFlags DEF PermissionInv, FlagsKept
<1> QED BY <1>2, <1>3 DEF PermissionInv

\* A synchronisation that finds none: only the facts are calculated again.
LEMMA NothingLogged ==
    ASSUME PermissionInv, NEW acct \in Servers[dbType], stored # NoRow,
           determine_change_type(calculate_diff(dbType, stored, snapshot_of(acct), nights)) = "none",
           UNCHANGED <<dbType, nights, stored, replayed>>,
           facts' = build_permission_facts(dbType, snapshot_of(acct), nights)
    PROVE  PermissionInv'
<1> DEFINE d == calculate_diff(dbType, stored, snapshot_of(acct), nights)
<1>1. d.is_superuser[1] = d.is_superuser[2] /\ d.is_locked[1] = d.is_locked[2]
  BY DEF determine_change_type
<1>2. /\ d.is_superuser = <<superuser(dbType, stored), superuser(dbType, snapshot_of(acct))>>
      /\ d.is_locked = <<locked(dbType, stored, nights), locked(dbType, snapshot_of(acct), nights)>>
  BY DEF calculate_diff, Entries
<1> HIDE DEF d
<1>3. /\ superuser(dbType, stored) = superuser(dbType, snapshot_of(acct))
      /\ locked(dbType, stored, nights) = locked(dbType, snapshot_of(acct), nights)
  BY <1>1, <1>2
<1>4. Adds'
  BY DEF PermissionInv, Adds, Base, Timeless
<1>5. FlagsKept'
  BY <1>3, FactsHaveFlags DEF PermissionInv, FlagsKept, Timeless
<1> QED BY <1>4, <1>5 DEF PermissionInv

LEMMA PermissionInvKept == PermissionInv /\ [PermissionNext]_permissionVars => PermissionInv'
<1> SUFFICES ASSUME PermissionInv, [PermissionNext]_permissionVars PROVE PermissionInv'
  OBVIOUS
<1>1. ASSUME Expires PROVE PermissionInv'
  <2>1. UNCHANGED <<dbType, stored, facts, replayed>> /\ nights' \in {0, 1} /\ nights' # 0
    BY <1>1 DEF Expires
  <2>2. CASE dbType = "postgresql"
    BY <2>1, <2>2 DEF PermissionInv, Adds, FlagsKept, Base, Timeless
  <2>3. CASE dbType # "postgresql"
    <3>1. Base' = Base /\ locked(dbType, Base, nights') = locked(dbType, Base, nights)
      BY <2>1, <2>3, DateMatters DEF PermissionInv, Base
    <3>2. Adds'
      BY <2>1, <2>3, <3>1 DEF PermissionInv, Adds, Timeless
    <3>3. FlagsKept'
      BY <2>1, <2>3, <3>1 DEF PermissionInv, FlagsKept, Timeless, Base
    <3> QED BY <2>1, <3>2, <3>3 DEF PermissionInv
  <2> QED BY <2>2, <2>3
<1>2. ASSUME SyncPermission PROVE PermissionInv'
  <2> DEFINE diff(acct) == calculate_diff(dbType, Base, snapshot_of(acct), nights)
             change(acct) == IF stored = NoRow THEN "add" ELSE determine_change_type(diff(acct))
  <2>1. PICK acct \in Servers[dbType] :
           /\ stored' = IF change(acct) = "none" THEN stored ELSE snapshot_of(acct)
           /\ replayed' = IF change(acct) = "none" THEN replayed ELSE Replay(replayed, diff(acct))
           /\ facts' = build_permission_facts(dbType, snapshot_of(acct), nights)
    BY <1>2 DEF SyncPermission, Base, facts_after, log_change
  <2>2. UNCHANGED <<dbType, nights>>
    BY <1>2 DEF SyncPermission
  <2>3. CASE change(acct) = "none"
    <3>1. stored # NoRow /\ diff(acct) = calculate_diff(dbType, stored, snapshot_of(acct), nights)
      BY <2>3 DEF Base
    <3> QED BY <2>1, <2>2, <2>3, <3>1, NothingLogged
  <2>4. CASE change(acct) # "none"
    BY <2>1, <2>2, <2>4, ChangeLogged
  <2> QED BY <2>3, <2>4
<1>3. ASSUME UNCHANGED permissionVars PROVE PermissionInv'
  BY <1>3 DEF permissionVars, PermissionInv, Adds, FlagsKept, Base, Timeless
<1> QED BY <1>1, <1>2, <1>3 DEF PermissionNext

\* Whatever states an account goes through, and whether a synchronisation finds a change or only
\* calculates the facts again: the entries of the change log add up to the stored permissions.
THEOREM LogAlwaysReplays == PermissionSpec => []LogReplays
<1>1. PermissionInv => LogReplays
  BY DEF PermissionInv, Adds, FlagsKept, LogReplays, Base, Timeless
<1> QED BY <1>1, PermissionInvInit, PermissionInvKept, PTL DEF PermissionSpec

----------------------------------------------------------------------------
(* The classification service and its cache of rules.                      *)

\* The locals of a classification.
EngineTyped ==
    /\ engine = [at |-> engine.at, loaded |-> engine.loaded, scope |-> engine.scope, todo |-> engine.todo,
                 work |-> engine.work, added |-> engine.added, matches |-> engine.matches, errors |-> engine.errors]
    /\ engine.loaded \subseteq RuleIds /\ engine.scope \subseteq Subjects /\ engine.todo \subseteq engine.loaded
    /\ engine.at = "asked" => engine.todo = {}
    /\ engine.added \in Nat /\ engine.matches \in Nat /\ engine.errors \in Nat
    /\ cached # NoRules => cached \subseteq RuleIds

\* What is loaded while nothing was outdated is what is stored, and no change of it is under way.
CacheInv ==
    ~outdated =>
        /\ cached # NoRules => editing = <<>> /\ cached = Active(ruleState)
        /\ engine.at = "fetched" => editing = <<>> /\ engine.loaded = Active(ruleState)

\* The rules that have had their turn, and the last of them that assigns a to c.
Past == engine.loaded \ engine.todo
Assigned(a, c) ==
    LET by == Assigning(Past, a, c) IN {<<a, c, r>> : r \in {r \in by : \A s \in by : s <= r}}

\* The turns are taken in order, and as long as the result tells of nothing lost the rows are those of
\* the rules that have had theirs.
TurnsInv ==
    engine.at \in {"classify", "done"} =>
        /\ engine.added <= engine.matches
        /\ engine.at = "done" => engine.todo = {}
        /\ \A r \in Past, s \in engine.todo :
              (\E a \in fetch_accounts(engine.scope) : SubjectType[a] = RuleType[r]) => Precedes(r, s) /\ r # s
RowsInv ==
    engine.at \in {"classify", "done"} =>
        /\ engine.errors = 0 /\ engine.added = engine.matches =>
              \A a \in fetch_accounts(engine.scope), c \in Classes : RowsOf(engine.work, a, c) = Assigned(a, c)
        /\ engine.scope # Subjects =>
              \A a \in Subjects \ fetch_accounts(engine.scope), c \in Classes :
                 RowsOf(engine.work, a, c) = RowsOf(assigned, a, c)

EngineInv == EngineTyped /\ CacheInv /\ TurnsInv /\ RowsInv

\* A new classification.
LEMMA Begins ==
    ASSUME NEW rules \in SUBSET RuleIds, NEW scope \in SUBSET Subjects,
           engine' = _perform_auto_classify(rules, scope), UNCHANGED assigned
    PROVE  /\ engine'.loaded \subseteq RuleIds /\ engine'.scope \subseteq Subjects /\ engine'.todo \subseteq engine'.loaded
           /\ engine'.at \in {"refused", "classify"}
           /\ engine' = [at |-> engine'.at, loaded |-> engine'.loaded, scope |-> engine'.scope, todo |-> engine'.todo,
                         work |-> engine'.work, added |-> 0, matches |-> 0, errors |-> 0]
           /\ TurnsInv' /\ RowsInv'
<1> DEFINE inScope == fetch_accounts(scope)
           kept == IF scope = Subjects THEN {} ELSE {row \in assigned : row[1] \notin inScope}
<1>1. CASE rules = {} \/ inScope = {}
  BY <1>1 DEF _perform_auto_classify, Unloaded, TurnsInv, RowsInv
<1>2. CASE ~(rules = {} \/ inScope = {})
  <2>1. engine' = [at |-> "classify", loaded |-> rules, scope |-> scope, todo |-> Applicable(rules, inScope),
                   work |-> kept, added |-> 0, matches |-> 0, errors |-> 0]
    BY <1>2 DEF _perform_auto_classify, Unloaded
  <2>2. Applicable(rules, inScope) \subseteq rules
    BY DEF Applicable
  <2>3. TurnsInv'
    BY <2>1 DEF TurnsInv, Past, Applicable
  <2>4. ASSUME NEW a \in inScope, NEW c \in Classes PROVE RowsOf(kept, a, c) = {} /\ Assigned(a, c)' = {}
    <3>1. Assigning(Past, a, c)' = {}
      BY <2>1, <2>4 DEF Assigning, Past, Applicable
    <3> QED BY <2>4, <3>1 DEF RowsOf, Assigned
  <2>5. ASSUME NEW a \in Subjects \ inScope, NEW c \in Classes, scope # Subjects
        PROVE  RowsOf(kept, a, c) = RowsOf(assigned, a, c)
    BY <2>5 DEF RowsOf
  <2> HIDE DEF kept, inScope
  <2>6. engine'.work = kept /\ engine'.scope = scope /\ fetch_accounts(engine'.scope) = inScope
    BY <2>1 DEF inScope
  <2>7. RowsInv'
    <3>1. \A a \in inScope, c \in Classes : RowsOf(kept, a, c) = Assigned(a, c)'
      BY <2>4
    <3>2. scope # Subjects =>
             \A a \in Subjects \ inScope, c \in Classes : RowsOf(kept, a, c) = RowsOf(assigned, a, c)
      BY <2>5
    <3> QED BY <2>6, <3>1, <3>2 DEF RowsInv
  <2> QED BY <2>1, <2>2, <2>3, <2>7
<1> QED BY <1>1, <1>2

\* The rows of a rule that was stored are those of the rules up to it.
LEMMA Upserts ==
    ASSUME EngineInv, engine.at = "classify", NEW r \in engine.todo, \A s \in engine.todo : Precedes(r, s),
           NEW a \in fetch_accounts(engine.scope), NEW c \in Classes,
           RowsOf(engine.work, a, c) = Assigned(a, c), engine'.loaded = engine.loaded, engine'.todo = engine.todo \ {r}
    PROVE  /\ RowsOf(upsert_assignments(engine.work, r, Matched(r)), a, c) = Assigned(a, c)'
           /\ Matched(r) = {} => Assigned(a, c)' = Assigned(a, c)
<1> DEFINE work == upsert_assignments(engine.work, r, Matched(r))
<1>1. a \in Subjects /\ r \in RuleIds /\ r \in engine.loaded
  BY DEF EngineInv, EngineTyped, fetch_accounts
<1>2. Past' = Past \cup {r}
  BY <1>1 DEF Past
<1>3. CASE a \in Matched(r) /\ c = RuleClass[r]
  <2>1. RowsOf(work, a, c) = {<<a, c, r>>}
    BY <1>3 DEF upsert_assignments, RowsOf
  <2>2. Assigning(Past, a, c)' = Assigning(Past, a, c) \cup {r}
    BY <1>2, <1>3 DEF Assigning, Matched
  <2>3. \A s \in Assigning(Past, a, c) : s < r
    <3> SUFFICES ASSUME NEW s \in Assigning(Past, a, c) PROVE s < r
      OBVIOUS
    <3>1. s \in Past /\ RuleType[s] = SubjectType[a] /\ RuleType[r] = SubjectType[a]
      BY <1>3 DEF Assigning, Matched
    <3>2. Precedes(s, r) /\ s # r
      BY <3>1 DEF EngineInv, TurnsInv
    <3>3. s \in RuleIds /\ RuleType[s] \in Nat
      BY <3>1, EngineAssumption DEF Past, EngineInv, EngineTyped
    <3> QED BY <1>1, <3>1, <3>2, <3>3 DEF Precedes, RuleIds
  <2>4. Assigning(Past, a, c) \subseteq RuleIds
    BY DEF Assigning, Past, EngineInv, EngineTyped
  <2>5. {q \in Assigning(Past, a, c) \cup {r} : \A s \in Assigning(Past, a, c) \cup {r} : s <= q} = {r}
    BY <1>1, <2>3, <2>4 DEF RuleIds
  <2>6. Assigned(a, c)' = {<<a, c, r>>}
    BY <2>2, <2>5 DEF Assigned
  <2> QED BY <1>3, <2>1, <2>6
<1>4. CASE ~(a \in Matched(r) /\ c = RuleClass[r])
  <2>1. RowsOf(work, a, c) = RowsOf(engine.work, a, c)
    BY <1>4 DEF upsert_assignments, RowsOf
  <2>2. Assigning(Past, a, c)' = Assigning(Past, a, c)
    BY <1>2, <1>4 DEF Assigning, Matched
  <2>3. Assigned(a, c)' = Assigned(a, c)
    BY <2>2 DEF Assigned
  <2> QED BY <2>1, <2>3
<1> QED BY <1>3, <1>4

\* Rows of accounts that are out of scope are left alone.
LEMMA OutOfScope ==
    ASSUME NEW r, NEW a, a \notin fetch_accounts(engine.scope), NEW c
    PROVE  RowsOf(upsert_assignments(engine.work, r, Matched(r)), a, c) = RowsOf(engine.work, a, c)
<1>1. a \notin Matched(r)
  BY DEF Matched
<1> QED BY <1>1 DEF upsert_assignments, RowsOf

\* How many accounts a rule matches.
LEMMA MatchedCount ==
    ASSUME NEW r \in RuleIds
    PROVE  Cardinality(Matched(r)) \in Nat /\ (Matched(r) # {} => Cardinality(Matched(r)) > 0)
<1>1. Matched(r) \subseteq Subjects
  BY EngineAssumption DEF Matched
<1>2. IsFiniteSet(Matched(r))
  BY <1>1, EngineAssumption, FS_Subset
<1> QED BY <1>2, FS_CardinalityType, FS_EmptySet

\* The turn of one rule, whichever way it ends.
LEMMA Turn ==
    ASSUME EngineInv, engine.at = "classify", NEW r \in engine.todo, \A s \in engine.todo : Precedes(r, s),
           RuleEnds(r), UNCHANGED <<cached, assigned>>
    PROVE  EngineTyped' /\ TurnsInv' /\ RowsInv' /\ engine'.at # "fetched"
<1> DEFINE n == Cardinality(Matched(r))
<1>1. r \in RuleIds /\ n \in Nat /\ (Matched(r) # {} => n > 0)
  BY MatchedCount DEF EngineInv, EngineTyped
<1> HIDE DEF n
<1>2. PICK e : e = engine
  OBVIOUS
<1>3. CASE engine' = [Unloaded EXCEPT !.at = "raised"]
  BY <1>3 DEF Unloaded, EngineTyped, TurnsInv, RowsInv, EngineInv
<1>4. ASSUME NEW work, NEW added \in Nat, NEW matches \in Nat, NEW errors \in Nat,
             engine' = [at |-> "classify", loaded |-> engine.loaded, scope |-> engine.scope, todo |-> engine.todo \ {r},
                        work |-> work, added |-> added, matches |-> matches, errors |-> errors],
             added <= matches,
             work \in {engine.work, upsert_assignments(engine.work, r, Matched(r))},
             errors = 0 /\ added = matches =>
                /\ engine.errors = 0 /\ engine.added = engine.matches
                /\ work = upsert_assignments(engine.work, r, Matched(r)) \/ Matched(r) = {}
      PROVE  EngineTyped' /\ TurnsInv' /\ RowsInv' /\ engine'.at # "fetched"
  <2>1. /\ engine'.at = "classify" /\ engine'.loaded = engine.loaded /\ engine'.scope = engine.scope
        /\ engine'.todo = engine.todo \ {r} /\ engine'.work = work
        /\ engine'.added = added /\ engine'.matches = matches /\ engine'.errors = errors
    BY <1>4
  <2>2. EngineTyped'
    BY <1>4, <2>1 DEF EngineTyped, EngineInv
  <2>3. TurnsInv'
    BY <1>4, <2>1 DEF TurnsInv, EngineInv, Past
  <2>4. ASSUME errors = 0, added = matches, NEW a \in fetch_accounts(engine.scope), NEW c \in Classes
        PROVE  RowsOf(work, a, c) = Assigned(a, c)'
    <3>1. RowsOf(engine.work, a, c) = Assigned(a, c)
      BY <1>4, <2>4 DEF EngineInv, RowsInv
    <3>2. /\ RowsOf(upsert_assignments(engine.work, r, Matched(r)), a, c) = Assigned(a, c)'
          /\ Matched(r) = {} => Assigned(a, c)' = Assigned(a, c)
      BY <2>1, <3>1, Upserts
    <3>3. CASE work = engine.work /\ Matched(r) = {}
      BY <3>1, <3>2, <3>3
    <3> QED BY <1>4, <2>4, <3>2, <3>3
  <2>5. ASSUME engine.scope # Subjects, NEW a \in Subjects \ fetch_accounts(engine.scope), NEW c \in Classes
        PROVE  RowsOf(work, a, c) = RowsOf(assigned, a, c)
    <3>1. RowsOf(engine.work, a, c) = RowsOf(assigned, a, c)
      BY <2>5 DEF EngineInv, RowsInv
    <3>2. RowsOf(work, a, c) = RowsOf(engine.work, a, c)
      BY <1>4, OutOfScope
    <3> QED BY <3>1, <3>2
  <2>6. RowsInv'
    BY <2>1, <2>4, <2>5 DEF RowsInv
  <2> QED BY <2>1, <2>2, <2>3, <2>6
<1>5. /\ e = [at |-> "classify", loaded |-> e.loaded, scope |-> e.scope, todo |-> e.todo,
              work |-> e.work, added |-> e.added, matches |-> e.matches, errors |-> e.errors]
      /\ e.added \in Nat /\ e.matches \in Nat /\ e.errors \in Nat /\ e.added <= e.matches
  BY <1>2 DEF EngineInv, EngineTyped, TurnsInv
<1>6. CASE engine' = [engine EXCEPT !.todo = @ \ {r}] /\ Matched(r) = {}
  BY <1>2, <1>4, <1>5, <1>6
<1>7. CASE /\ engine' = [[[engine EXCEPT !.todo = @ \ {r}] EXCEPT !.matches = @ + n]
                           EXCEPT !.added = @ + n, !.work = upsert_assignments(@, r, Matched(r))]
  <2>1. engine' = [at |-> "classify", loaded |-> e.loaded, scope |-> e.scope, todo |-> e.todo \ {r},
                   work |-> upsert_assignments(e.work, r, Matched(r)), added |-> e.added + n, matches |-> e.matches + n,
                   errors |-> e.errors]
    BY <1>2, <1>5, <1>7
  <2> QED BY <1>1, <1>2, <1>4, <1>5, <2>1
<1>8. CASE engine' = [[engine EXCEPT !.todo = @ \ {r}] EXCEPT !.matches = @ + n] /\ Matched(r) # {}
  <2>1. engine' = [at |-> "classify", loaded |-> e.loaded, scope |-> e.scope, todo |-> e.todo \ {r},
                   work |-> e.work, added |-> e.added, matches |-> e.matches + n, errors |-> e.errors]
    BY <1>2, <1>5, <1>8
  <2>2. e.added <= e.matches + n /\ e.added # e.matches + n /\ e.matches + n \in Nat
    BY <1>1, <1>5, <1>8
  <2> QED BY <1>2, <1>4, <1>5, <2>1, <2>2
<1>9. CASE engine' = [[engine EXCEPT !.todo = @ \ {r}] EXCEPT !.errors = @ + 1]
  <2>1. engine' = [at |-> "classify", loaded |-> e.loaded, scope |-> e.scope, todo |-> e.todo \ {r},
                   work |-> e.work, added |-> e.added, matches |-> e.matches, errors |-> e.errors + 1]
    BY <1>2, <1>5, <1>9
  <2> QED BY <1>1, <1>2, <1>4, <1>5, <2>1
<1> QED BY <1>3, <1>6, <1>7, <1>8, <1>9 DEF RuleEnds, n

\* A step that leaves the classification alone.
LEMMA SameRows == ASSUME RowsInv, UNCHANGED <<engine, assigned>> PROVE RowsInv'
<1>1. \A a, c : Assigned(a, c)' = Assigned(a, c)
  BY DEF Assigned, Assigning, Past
<1> QED BY <1>1 DEF RowsInv

\* Changes of rules and of the cache.
LEMMA RulesChange ==
    ASSUME EngineInv,
           create_rule \/ update_rule \/ delete_rule \/ CommitRules \/ clear_classification_cache \/ Expire
    PROVE  EngineInv'
<1>1. UNCHANGED <<engine, assigned>> /\ cached' \in {cached, NoRules}
  BY DEF create_rule, update_rule, delete_rule, CommitRules, clear_classification_cache, Expire, Edit, invalidate_all
<1>2. EngineTyped' /\ TurnsInv' /\ RowsInv'
  BY <1>1, SameRows DEF EngineInv, EngineTyped, TurnsInv, Past
<1>3. ASSUME NEW state, Edit(state) PROVE CacheInv'
  BY <1>3 DEF Edit, invalidate_all, CacheInv, RulesInFlight
<1>4. ASSUME create_rule \/ update_rule PROVE CacheInv'
  BY <1>3, <1>4 DEF create_rule, update_rule
<1>5. ASSUME delete_rule PROVE CacheInv'
  BY <1>5 DEF delete_rule, CacheInv
<1>6. ASSUME CommitRules PROVE CacheInv'
  <2>1. engine' = engine /\ cached' = cached /\ editing' = <<>> /\ outdated' = (outdated \/ RulesInFlight)
    BY <1>6 DEF CommitRules
  <2>2. CASE ~outdated /\ ~RulesInFlight
    <3>1. cached = NoRules
      BY <1>6, <2>2 DEF CommitRules, CacheInv, EngineInv
    <3> QED BY <2>1, <2>2, <3>1 DEF CacheInv, RulesInFlight
  <2> QED BY <2>1, <2>2 DEF CacheInv
<1>7. ASSUME clear_classification_cache \/ Expire PROVE CacheInv'
  BY <1>7 DEF clear_classification_cache, Expire, invalidate_all, CacheInv, EngineInv, RulesInFlight
<1> QED BY <1>2, <1>4, <1>5, <1>6, <1>7 DEF EngineInv

LEMMA EngineInvInit == EngineInit => EngineInv
  BY DEF EngineInit, EngineInv, EngineTyped, CacheInv, TurnsInv, RowsInv, Unloaded

LEMMA EngineInvKept == EngineInv /\ [EngineNext]_engineVars => EngineInv'
<1> SUFFICES ASSUME EngineInv, [EngineNext]_engineVars PROVE EngineInv'
  OBVIOUS
<1>1. ASSUME get_rules PROVE EngineInv'
  <2>1. PICK scope \in OwnerScopes \cup {Subjects} :
           \/ cached \notin {NoRules, {}} /\ engine' = _perform_auto_classify(cached, scope)
           \/ engine' = [Unloaded EXCEPT !.at = "asked", !.scope = scope]
    BY <1>1 DEF get_rules
  <2>2. UNCHANGED <<ruleState, editing, cached, assigned, outdated>> /\ scope \subseteq Subjects
    BY <1>1, EngineAssumption DEF get_rules
  <2>3. CASE cached \notin {NoRules, {}} /\ engine' = _perform_auto_classify(cached, scope)
    <3>1. /\ engine'.loaded \subseteq RuleIds /\ engine'.scope \subseteq Subjects
          /\ engine'.todo \subseteq engine'.loaded /\ engine'.at \in {"refused", "classify"}
          /\ engine' = [at |-> engine'.at, loaded |-> engine'.loaded, scope |-> engine'.scope, todo |-> engine'.todo,
                        work |-> engine'.work, added |-> 0, matches |-> 0, errors |-> 0]
          /\ TurnsInv' /\ RowsInv'
      BY <2>2, <2>3, Begins DEF EngineInv, EngineTyped
    <3>2. EngineTyped'
      BY <2>2, <3>1 DEF EngineInv, EngineTyped
    <3>3. CacheInv'
      BY <2>2, <3>1 DEF EngineInv, CacheInv
    <3> QED BY <3>1, <3>2, <3>3 DEF EngineInv
  <2>4. CASE engine' = [Unloaded EXCEPT !.at = "asked", !.scope = scope]
    BY <2>2, <2>4 DEF Unloaded, EngineInv, EngineTyped, CacheInv, TurnsInv, RowsInv
  <2> QED BY <2>1, <2>3, <2>4
<1>2. ASSUME fetch_active_rules PROVE EngineInv'
  <2>1. PICK e : e = engine
    OBVIOUS
  <2>2. engine' = [e EXCEPT !.at = "fetched", !.loaded = Active(ruleState)] \/ engine' = [Unloaded EXCEPT !.at = "refused"]
    BY <1>2, <2>1 DEF fetch_active_rules
  <2>3. UNCHANGED <<ruleState, editing, cached, assigned>> /\ outdated' = (outdated \/ editing # <<>>)
    BY <1>2 DEF fetch_active_rules
  <2>4. Active(ruleState) \subseteq RuleIds
    BY DEF Active
  <2>5. CASE engine' = [e EXCEPT !.at = "fetched", !.loaded = Active(ruleState)]
    <3>1. /\ engine'.at = "fetched" /\ engine'.loaded = Active(ruleState) /\ engine'.scope = e.scope
          /\ engine'.todo = e.todo /\ engine'.added = e.added /\ engine'.matches = e.matches
          /\ engine'.errors = e.errors /\ engine'.work = e.work
      BY <2>1, <2>5 DEF EngineInv, EngineTyped
    <3>2. engine.todo = {}
      BY <1>2 DEF fetch_active_rules, EngineInv, EngineTyped
    <3>3. EngineTyped'
      BY <2>1, <2>3, <2>4, <2>5, <3>1, <3>2 DEF EngineInv, EngineTyped
    <3>4. CacheInv'
      BY <2>3, <3>1 DEF EngineInv, CacheInv
    <3>5. TurnsInv' /\ RowsInv'
      BY <3>1 DEF TurnsInv, RowsInv
    <3> QED BY <3>3, <3>4, <3>5 DEF EngineInv
  <2>6. CASE engine' = [Unloaded EXCEPT !.at = "refused"]
    BY <2>3, <2>6 DEF Unloaded, EngineInv, EngineTyped, CacheInv, TurnsInv, RowsInv
  <2> QED BY <2>2, <2>5, <2>6
<1>3. ASSUME set_rules PROVE EngineInv'
  <2>1. /\ engine.at = "fetched" /\ cached' \in {engine.loaded, cached}
        /\ engine' = _perform_auto_classify(engine.loaded, engine.scope)
        /\ UNCHANGED <<ruleState, editing, assigned, outdated>>
    BY <1>3 DEF set_rules
  <2>2. /\ engine'.loaded \subseteq RuleIds /\ engine'.scope \subseteq Subjects
        /\ engine'.todo \subseteq engine'.loaded /\ engine'.at \in {"refused", "classify"}
        /\ engine' = [at |-> engine'.at, loaded |-> engine'.loaded, scope |-> engine'.scope, todo |-> engine'.todo,
                      work |-> engine'.work, added |-> 0, matches |-> 0, errors |-> 0]
        /\ TurnsInv' /\ RowsInv'
    BY <2>1, Begins DEF EngineInv, EngineTyped
  <2>3. EngineTyped'
    BY <2>1, <2>2 DEF EngineInv, EngineTyped
  <2>4. CacheInv'
    BY <2>1, <2>2 DEF EngineInv, CacheInv
  <2> QED BY <2>2, <2>3, <2>4 DEF EngineInv
<1>4. ASSUME _classify_single_db_type PROVE EngineInv'
  BY <1>4, Turn DEF _classify_single_db_type, EngineInv, CacheInv
<1>5. ASSUME auto_classify_accounts PROVE EngineInv'
  <2>1. PICK e : e = engine
    OBVIOUS
  <2>2. engine' = [e EXCEPT !.at = "done"] /\ engine.at = "classify" /\ engine.todo = {}
        /\ UNCHANGED <<ruleState, editing, cached, assigned, outdated>>
    BY <1>5, <2>1 DEF auto_classify_accounts
  <2>3. /\ engine'.at = "done" /\ engine'.loaded = engine.loaded /\ engine'.scope = engine.scope /\ engine'.todo = engine.todo
        /\ engine'.work = engine.work /\ engine'.added = engine.added /\ engine'.matches = engine.matches
        /\ engine'.errors = engine.errors
    BY <2>1, <2>2 DEF EngineInv, EngineTyped
  <2>4. EngineTyped'
    BY <2>1, <2>2, <2>3 DEF EngineInv, EngineTyped
  <2>5. CacheInv'
    BY <2>2, <2>3 DEF EngineInv, CacheInv
  <2>6. TurnsInv'
    BY <2>2, <2>3 DEF EngineInv, TurnsInv, Past
  <2>7. RowsInv'
    <3>1. Past' = Past
      BY <2>3 DEF Past
    <3>2. \A a, c : Assigned(a, c)' = Assigned(a, c)
      BY <3>1 DEF Assigned, Assigning
    <3>3. fetch_accounts(engine'.scope) = fetch_accounts(engine.scope)
      BY <2>3
    <3> QED BY <2>2, <2>3, <3>2, <3>3 DEF EngineInv, RowsInv
  <2> QED BY <2>4, <2>5, <2>6, <2>7 DEF EngineInv
<1>6. ASSUME CallerEnds PROVE EngineInv'
  BY <1>6 DEF CallerEnds, Unloaded, EngineInv, EngineTyped, CacheInv, TurnsInv, RowsInv
<1>7. ASSUME UNCHANGED engineVars PROVE EngineInv'
  <2>1. UNCHANGED <<engine, cached, assigned, ruleState, editing, outdated>>
    BY <1>7 DEF engineVars
  <2>2. EngineTyped' /\ TurnsInv' /\ RowsInv'
    BY <2>1, SameRows DEF EngineInv, EngineTyped, TurnsInv, Past
  <2>3. CacheInv'
    BY <2>1 DEF EngineInv, CacheInv
  <2> QED BY <2>2, <2>3 DEF EngineInv
<1> QED BY <1>1, <1>2, <1>3, <1>4, <1>5, <1>6, <1>7, RulesChange DEF EngineNext

\* However requests that change rules, failures of the cache and classifications overlap: the cached rules
\* are the active ones unless something is known to have outdated them, and a classification that tells of
\* no error and added what it matched has assigned what the last matching rule says, and nothing else.
THEOREM EngineAlwaysTells == EngineSpec => []EngineTells
<1>1. EngineInv => CacheIsCurrent
  BY DEF EngineInv, CacheInv, CacheIsCurrent
<1>2. EngineInv => ResultTells
  <2> SUFFICES ASSUME EngineInv, engine.at = "done", engine.errors = 0, engine.added = engine.matches PROVE ResultTells
    BY DEF ResultTells
  <2>1. Past = engine.loaded
    BY DEF EngineInv, TurnsInv, Past
  <2> QED BY <2>1 DEF EngineInv, RowsInv, ResultTells, Assigned
<1> QED BY <1>1, <1>2, EngineInvInit, EngineInvKept, PTL DEF EngineSpec, EngineTells

-----------------------------------------------------------------------------
(* How the permissions of SQL Server logins are read.                       *)

\* Before the SIDs have been read, and while the databases are.
Early == {"logins", "server roles", "server permissions", "databases", "sids"}
Looping == {"batch", "principals", "roles", "permissions"}
\* The SIDs have been read.
Mapped == at \in Looping \/ (at = "done" /\ listed # {})

\* User i of database d is the login's, by what was read of the logins.
Own(c, d, i, l, how) == \E u \in UsersOf(c, d) : u.id = i /\ Owns(l, u, how)
Hold(c, d, i, l, g, how) == \E u \in UsersOf(c, d) : u.id = i /\ Owns(l, u, how) /\ g \in u.grants /\ g.state = "G"

\* The databases of which grants of a kind have been read.
AreRead(kind) == (listed \ left) \ (IF kind = "role" /\ at = "permissions" THEN {} ELSE batch)

WhereItIs ==
    /\ past \subseteq Catalogues /\ catalogue \in past
    /\ listed \subseteq Bases /\ left \subseteq listed /\ batch \subseteq listed
    /\ at \in Early \cup Looping \cup {"done", "failed"}
    /\ route \in {"sid", "name"}
    /\ taken \subseteq accounts \X Bases \X AllGrants
    /\ ~Mapped => (at # "failed" => taken = {} /\ route = "sid" /\ batch = {})
    /\ at \in Looping \cup {"sids"} => listed # {}
    /\ at \in Early \ {"sids"} => left = {} /\ listed = {}
    /\ at = "sids" => left = listed
    /\ at \in {"batch", "done"} => batch = {}
    /\ at = "done" => left = {}

ListedIsAll ==
    at \in Looping \cup {"sids", "done"} /\ accounts # {} =>
        \A d \in Bases : (\A c \in past : UsersOf(c, d) # {}) => d \in listed

SidsHold == Mapped => \A l \in accounts : Steady(l) => \A c \in past : c.server[l].sid = sids[l]

LookupHolds ==
    at \in {"roles", "permissions"} =>
        /\ \A x \in principals : x \in batch \X Ids \X accounts /\ \E c \in past : Own(c, x[1], x[2], x[3], route)
        /\ \A d \in batch, i \in Ids, l \in accounts :
              (\A c \in past : Own(c, d, i, l, route)) => <<d, i, l>> \in principals

TakenWasHeld ==
    Mapped =>
        \A x \in taken : Steady(x[1]) => \E c \in past, i \in Ids : Hold(c, x[2], i, x[1], x[3], route)

HeldIsTaken ==
    Mapped =>
        \A l \in accounts, i \in Ids, g \in AllGrants : \A d \in AreRead(g.kind) :
            (\A c \in past : Hold(c, d, i, l, g, route)) => <<l, d, g>> \in taken

NothingBySid ==
    Mapped /\ route = "name" =>
        \A l \in accounts, d \in Bases, i \in Ids, g \in AllGrants : ~ \A c \in past : Hold(c, d, i, l, g, "sid")

ServerHolds ==
    /\ at \notin {"logins", "server roles", "failed"} => \A l \in accounts :
          /\ \A r \in roles[l] : \E c \in past : r \in c.server[l].roles
          /\ \A c \in past : \A r \in c.server[l].roles :
                (\A e \in past : r \in e.server[l].roles) => r \in roles[l]
    /\ at \notin {"logins", "server roles", "server permissions", "failed"} => \A l \in accounts :
          /\ \A n \in permissions[l] : \E c \in past : \E p \in c.server[l].permissions : p.name = n
          /\ \A c \in past : \A p \in c.server[l].permissions :
                (\A e \in past : p \in e.server[l].permissions) => p.name \in permissions[l]

ReadingHolds ==
    /\ WhereItIs /\ ListedIsAll /\ SidsHold /\ LookupHolds
    /\ TakenWasHeld /\ HeldIsTaken /\ NothingBySid /\ ServerHolds

-----------------------------------------------------------------------------
LEMMA UsersKnown ==
    ASSUME NEW c \in Catalogues, NEW d \in Bases, NEW u \in UsersOf(c, d)
    PROVE  /\ u.id \in Ids
           /\ \A g \in u.grants : g \in AllGrants /\ g.kind \in {"role", "permission"}
<1>1. c.bases[d] \in BaseStates
  BY DEF Catalogues
<1>2. u \in AllUsers
  BY <1>1 DEF UsersOf, AllUsers
<1>3. u.id \in Ids
  BY <1>2 DEF Ids
<1>4. \A g \in u.grants : g \in AllGrants
  BY <1>2 DEF AllGrants
<1> QED
  BY <1>1, <1>3, <1>4, BasesAssumption DEF UsersOf

LEMMA InitHolds == LoginsInit => ReadingHolds
<1> SUFFICES ASSUME LoginsInit PROVE ReadingHolds
  OBVIOUS
<1> USE DEF LoginsInit, Early, Looping, Mapped
<1>1. WhereItIs
  BY DEF WhereItIs
<1>2. ListedIsAll /\ SidsHold /\ LookupHolds
  BY DEF ListedIsAll, SidsHold, LookupHolds
<1>3. TakenWasHeld /\ HeldIsTaken /\ NothingBySid /\ ServerHolds
  BY DEF TakenWasHeld, HeldIsTaken, NothingBySid, ServerHolds
<1> QED
  BY <1>1, <1>2, <1>3 DEF ReadingHolds

LEMMA AlterHolds == ASSUME ReadingHolds, Alter PROVE ReadingHolds'
<1> USE DEF Early, Looping, Mapped, ReadingHolds
<1>1. PICK c0 \in Catalogues : catalogue' = c0 /\ past' = past \cup {c0}
  BY DEF Alter
<1>2. /\ at' = at /\ accounts' = accounts /\ roles' = roles /\ permissions' = permissions /\ listed' = listed /\ sids' = sids
      /\ route' = route /\ left' = left /\ batch' = batch /\ principals' = principals /\ taken' = taken
  BY DEF Alter, fetched
<1>3. Mapped' = Mapped
  BY <1>2
<1>4. \A l \in accounts : Steady(l)' => Steady(l)
  BY <1>1 DEF Steady
<1>5. \A l \in accounts : \A u, how : Owns(l, u, how)' = Owns(l, u, how)
  BY <1>2 DEF Owns, BySid, ByName
<1>6. \A c, d, i, how : \A l \in accounts : Own(c, d, i, l, how)' = Own(c, d, i, l, how)
  BY <1>5 DEF Own
<1>7. \A c, d, i, g, how : \A l \in accounts : Hold(c, d, i, l, g, how)' = Hold(c, d, i, l, g, how)
  BY <1>5 DEF Hold
<1>8. WhereItIs'
  BY <1>1, <1>2, <1>3 DEF WhereItIs
<1>9. ListedIsAll'
  BY <1>1, <1>2 DEF ListedIsAll
<1>10. SidsHold'
  <2> SUFFICES ASSUME Mapped', NEW l \in accounts, Steady(l)', NEW c \in past'
               PROVE  c.server[l].sid = sids[l]
    BY <1>2 DEF SidsHold
  <2>1. catalogue \in past /\ catalogue \in past'
    BY <1>1 DEF WhereItIs
  <2>2. catalogue.server[l].sid = sids[l]
    BY <1>3, <1>4, <2>1 DEF SidsHold
  <2>3. c.server[l].sid = catalogue.server[l].sid
    BY <2>1 DEF Steady
  <2> QED
    BY <2>2, <2>3
<1>11. LookupHolds'
  BY <1>1, <1>2, <1>6 DEF LookupHolds
<1>12. TakenWasHeld'
  <2> SUFFICES ASSUME Mapped', NEW x \in taken, Steady(x[1])'
               PROVE  \E c \in past', i \in Ids : Hold(c, x[2], i, x[1], x[3], route)
    <3>1. \A x \in taken : x[1] \in accounts
      BY DEF WhereItIs
    <3> QED
      BY <1>2, <1>7, <3>1 DEF TakenWasHeld
  <2>1. x[1] \in accounts
    BY DEF WhereItIs
  <2> QED
    BY <1>1, <1>3, <1>4, <2>1 DEF TakenWasHeld
<1>13. HeldIsTaken'
  <2>1. \A k : AreRead(k)' = AreRead(k)
    BY <1>2 DEF AreRead
  <2> QED
    BY <1>1, <1>2, <1>3, <1>7, <2>1 DEF HeldIsTaken
<1>14. NothingBySid'
  BY <1>1, <1>2, <1>3, <1>7 DEF NothingBySid
<1>15. ServerHolds'
  <2>1. ASSUME at \notin {"logins", "server roles", "failed"}, NEW l \in accounts
        PROVE  /\ \A r \in roles[l] : \E c \in past' : r \in c.server[l].roles
               /\ \A c \in past' : \A r \in c.server[l].roles :
                     (\A e \in past' : r \in e.server[l].roles) => r \in roles[l]
    <3>1. \A r \in roles[l] : \E c \in past : r \in c.server[l].roles
      BY <2>1 DEF ServerHolds
    <3>2. \A r : (\A e \in past : r \in e.server[l].roles) => r \in roles[l]
      BY <2>1 DEF ServerHolds, WhereItIs
    <3> QED
      BY <1>1, <3>1, <3>2
  <2>2. ASSUME at \notin {"logins", "server roles", "server permissions", "failed"}, NEW l \in accounts
        PROVE  /\ \A n \in permissions[l] : \E c \in past' : \E p \in c.server[l].permissions : p.name = n
               /\ \A c \in past' : \A p \in c.server[l].permissions :
                     (\A e \in past' : p \in e.server[l].permissions) => p.name \in permissions[l]
    <3>1. \A n \in permissions[l] : \E c \in past : \E p \in c.server[l].permissions : p.name = n
      BY <2>2 DEF ServerHolds
    <3>2. \A p : (\A e \in past : p \in e.server[l].permissions) => p.name \in permissions[l]
      BY <2>2 DEF ServerHolds, WhereItIs
    <3> QED
      BY <1>1, <3>1, <3>2
  <2> QED
    BY <1>2, <2>1, <2>2 DEF ServerHolds
<1> QED
  BY <1>8, <1>9, <1>10, <1>11, <1>12, <1>13, <1>14, <1>15

\* The statements about the server, and a failing one.
LEMMA ServerReadHolds ==
    ASSUME ReadingHolds, FetchLogins \/ ReadServerRoles \/ ReadServerPermissions \/ StatementFails
    PROVE  ReadingHolds'
<1> USE DEF Early, Looping, Mapped, ReadingHolds, fetched
<1>1. /\ UNCHANGED <<catalogue, past, listed, sids, route, left, batch, principals, taken>>
      /\ at' \in {"server roles", "server permissions", "databases", "done", "failed"}
      /\ at' # "failed" => at \in Early \ {"sids"} /\ (at' = "done" => accounts' = {})
  BY DEF FetchLogins, ReadServerRoles, ReadServerPermissions, StatementFails, Statement
<1>5. at' = "failed" => accounts' = accounts
  BY DEF FetchLogins, ReadServerRoles, ReadServerPermissions, StatementFails, Statement
<1>6. at' # "failed" => taken = {} /\ left = {} /\ listed = {} /\ batch = {} /\ route = "sid"
  BY <1>1 DEF WhereItIs
<1>2. WhereItIs'
  BY <1>1, <1>5, <1>6 DEF WhereItIs
<1>3. ListedIsAll' /\ SidsHold' /\ LookupHolds' /\ TakenWasHeld' /\ HeldIsTaken' /\ NothingBySid'
  BY <1>1, <1>6 DEF ListedIsAll, SidsHold, LookupHolds, TakenWasHeld, HeldIsTaken, NothingBySid
<1>4. ServerHolds'
  <2>0. CASE FetchLogins
    BY <2>0 DEF FetchLogins, Statement, ServerHolds
  <2>1. CASE ReadServerRoles
    <3>1. /\ at' = "server permissions" /\ past' = past
          /\ accounts' = accounts /\ \A l \in accounts : roles'[l] = catalogue.server[l].roles
      BY <2>1 DEF ReadServerRoles, Statement
    <3>2. catalogue \in past
      BY DEF WhereItIs
    <3> QED
      BY <3>1, <3>2 DEF ServerHolds
  <2>2. CASE ReadServerPermissions
    <3>1. /\ at = "server permissions" /\ at' = "databases" /\ past' = past /\ roles' = roles
          /\ accounts' = accounts /\ \A l \in accounts : permissions'[l] = {p.name : p \in catalogue.server[l].permissions}
      BY <2>2 DEF ReadServerPermissions, Statement
    <3>2. catalogue \in past
      BY DEF WhereItIs
    <3>3. \A l \in accounts :
            /\ \A r \in roles'[l] : \E c \in past' : r \in c.server[l].roles
            /\ \A c \in past' : \A r \in c.server[l].roles :
                  (\A e \in past' : r \in e.server[l].roles) => r \in roles'[l]
      BY <3>1 DEF ServerHolds
    <3>4. \A l \in accounts :
            /\ \A n \in permissions'[l] : \E c \in past' : \E p \in c.server[l].permissions : p.name = n
            /\ \A c \in past' : \A p \in c.server[l].permissions :
                  (\A e \in past' : p \in e.server[l].permissions) => p.name \in permissions'[l]
      <4> SUFFICES ASSUME NEW l \in accounts
                   PROVE  /\ \A n \in permissions'[l] : \E p \in catalogue.server[l].permissions : p.name = n
                          /\ \A p \in catalogue.server[l].permissions : p.name \in permissions'[l]
        BY <3>1, <3>2
      <4>1. permissions'[l] = {p.name : p \in catalogue.server[l].permissions}
        BY <3>1
      <4> HIDE DEF WhereItIs
      <4> QED
        BY <4>1
    <3> QED
      BY <3>1, <3>3, <3>4 DEF ServerHolds
  <2>3. CASE StatementFails
    BY <2>3 DEF StatementFails, ServerHolds
  <2> QED
    BY <2>0, <2>1, <2>2, <2>3
<1> QED
  BY <1>2, <1>3, <1>4

LEMMA ListHolds == ASSUME ReadingHolds, ListDatabases PROVE ReadingHolds'
<1> USE DEF Early, Looping, Mapped, ReadingHolds
<1>1. /\ UNCHANGED <<catalogue, past, accounts, roles, permissions, sids, route, batch, principals, taken>>
      /\ at = "databases" /\ at' = IF listed' = {} THEN "done" ELSE "sids"
      /\ listed' = {d \in Bases : catalogue.bases[d].online} /\ left' = listed'
  BY DEF ListDatabases, Statement
<1>2. taken = {} /\ route = "sid" /\ batch = {} /\ catalogue \in past /\ past \subseteq Catalogues
  BY <1>1 DEF WhereItIs
<1>3. WhereItIs'
  BY <1>1, <1>2 DEF WhereItIs
<1>4. ListedIsAll'
  <2> SUFFICES ASSUME NEW d \in Bases, UsersOf(catalogue, d) # {}
               PROVE  catalogue.bases[d].online
    BY <1>1, <1>2 DEF ListedIsAll
  <2>1. catalogue.bases[d] \in BaseStates
    BY <1>2 DEF Catalogues
  <2> QED
    BY <2>1, BasesAssumption DEF UsersOf
<1>5. SidsHold' /\ LookupHolds' /\ TakenWasHeld' /\ HeldIsTaken' /\ NothingBySid'
  BY <1>1, <1>2 DEF SidsHold, LookupHolds, TakenWasHeld, HeldIsTaken, NothingBySid
<1>6. ServerHolds'
  BY <1>1 DEF ServerHolds
<1> QED
  BY <1>3, <1>4, <1>5, <1>6

LEMMA MapHolds == ASSUME ReadingHolds, MapSids PROVE ReadingHolds'
<1> USE DEF Early, Looping, Mapped, ReadingHolds
<1>1. /\ UNCHANGED <<catalogue, past, accounts, roles, permissions, listed, left, batch, principals, taken>>
      /\ at = "sids" /\ at' = "batch"
      /\ sids' = [l \in accounts |-> catalogue.server[l].sid]
      /\ route' = IF HasSids(sids') THEN "sid" ELSE "name"
  BY DEF MapSids, Statement
<1>2. taken = {} /\ batch = {} /\ left = listed /\ catalogue \in past
  BY <1>1 DEF WhereItIs
<1>3. WhereItIs'
  BY <1>1, <1>2 DEF WhereItIs
<1>4. ListedIsAll' /\ LookupHolds' /\ TakenWasHeld'
  BY <1>1, <1>2 DEF ListedIsAll, LookupHolds, TakenWasHeld
<1>5. SidsHold'
  <2> SUFFICES ASSUME NEW l \in accounts, Steady(l)', NEW c \in past'
               PROVE  c.server[l].sid = sids'[l]
    BY <1>1 DEF SidsHold
  <2> QED
    BY <1>1, <1>2 DEF Steady
<1>6. HeldIsTaken'
  BY <1>1, <1>2 DEF HeldIsTaken, AreRead
<1>7. NothingBySid'
  <2> SUFFICES ASSUME route' = "name", NEW l \in accounts, NEW d \in Bases, NEW i \in Ids, NEW g \in AllGrants,
                      \A c \in past' : Hold(c, d, i, l, g, "sid")'
               PROVE  FALSE
    BY <1>1 DEF NothingBySid
  <2>1. sids'[l] = Unread
    BY <1>1 DEF HasSids
  <2>2. Hold(catalogue, d, i, l, g, "sid")'
    BY <1>1, <1>2
  <2> QED
    BY <2>1, <2>2 DEF Hold, Owns, BySid
<1>8. ServerHolds'
  BY <1>1 DEF ServerHolds
<1> QED
  BY <1>3, <1>4, <1>5, <1>6, <1>7, <1>8

\* What stays true while the databases are read, whichever statement.
LEMMA LoopKeeps ==
    ASSUME ReadingHolds, at \in Looping, at' \in Looping \cup {"done"},
           UNCHANGED <<catalogue, past, fetched>>
    PROVE  ListedIsAll' /\ SidsHold' /\ ServerHolds' /\ Mapped' /\ listed # {}
<1> USE DEF Early, Looping, Mapped, ReadingHolds, fetched
<1>1. ListedIsAll' /\ listed # {}
  BY DEF ListedIsAll, WhereItIs
<1>2. SidsHold'
  BY DEF SidsHold, Steady
<1>3. ServerHolds'
  BY DEF ServerHolds
<1> QED
  BY <1>1, <1>2, <1>3

LEMMA TakeHolds == ASSUME ReadingHolds, TakeBatch PROVE ReadingHolds'
<1> USE DEF Early, Looping, Mapped, ReadingHolds
<1>1. /\ UNCHANGED <<catalogue, past, fetched, route, principals, taken>>
      /\ at = "batch" /\ at' = "principals"
  BY DEF TakeBatch, Statement
<1>2. PICK B \in SUBSET left : batch' = B /\ left' = left \ B
  BY DEF TakeBatch
<1>3. batch = {} /\ left \subseteq listed /\ listed # {}
  BY <1>1 DEF WhereItIs
<1>4. WhereItIs'
  BY <1>1, <1>2, <1>3 DEF WhereItIs, fetched
<1>5. ListedIsAll' /\ SidsHold' /\ ServerHolds'
  BY <1>1, LoopKeeps
<1>6. LookupHolds' /\ TakenWasHeld' /\ NothingBySid'
  BY <1>1 DEF LookupHolds, TakenWasHeld, NothingBySid, fetched, Steady, Hold, Owns, BySid, ByName
<1>7. HeldIsTaken'
  <2>1. \A k : AreRead(k)' = AreRead(k)
    BY <1>1, <1>2, <1>3 DEF AreRead, fetched
  <2> QED
    BY <1>1, <2>1 DEF HeldIsTaken, fetched, Hold, Owns, BySid, ByName
<1> QED
  BY <1>4, <1>5, <1>6, <1>7

LEMMA PrincipalsHold == ASSUME ReadingHolds, ReadPrincipals PROVE ReadingHolds'
<1> USE DEF Early, Looping, Mapped, ReadingHolds
<1>1. /\ UNCHANGED <<catalogue, past, fetched, route, left, batch, taken>>
      /\ at = "principals" /\ at' = "roles"
      /\ principals' = {x \in batch \X Ids \X accounts :
                          \E u \in UsersOf(catalogue, x[1]) : u.id = x[2] /\ Owns(x[3], u, route)}
  BY DEF ReadPrincipals, Statement
<1>2. catalogue \in past
  BY DEF WhereItIs
<1>3. WhereItIs'
  BY <1>1 DEF WhereItIs, fetched
<1>4. ListedIsAll' /\ SidsHold' /\ ServerHolds'
  BY <1>1, LoopKeeps
<1>5. \A l \in accounts : \A u, how : Owns(l, u, how)' = Owns(l, u, how)
  BY <1>1 DEF Owns, BySid, ByName, fetched
<1>6. \A c, d, i, how : \A l \in accounts : Own(c, d, i, l, how)' = Own(c, d, i, l, how)
  BY <1>5 DEF Own
<1>7. LookupHolds'
  <2>1. ASSUME NEW x \in principals'
        PROVE  x \in batch \X Ids \X accounts /\ Own(catalogue, x[1], x[2], x[3], route)
    BY <1>1 DEF Own
  <2>2. ASSUME NEW d \in batch, NEW i \in Ids, NEW l \in accounts, Own(catalogue, d, i, l, route)
        PROVE  <<d, i, l>> \in principals'
    BY <1>1, <2>2 DEF Own
  <2>3. \A x \in principals' :
           x \in batch \X Ids \X accounts /\ x[3] \in accounts /\ \E c \in past : Own(c, x[1], x[2], x[3], route)
    BY <1>2, <2>1
  <2>4. \A d \in batch, i \in Ids, l \in accounts :
           (\A c \in past : Own(c, d, i, l, route)) => <<d, i, l>> \in principals'
    BY <1>2, <2>2
  <2>5. past' = past /\ batch' = batch /\ route' = route /\ accounts' = accounts
    BY <1>1 DEF fetched
  <2> QED
    BY <1>6, <2>3, <2>4, <2>5 DEF LookupHolds
<1>8. TakenWasHeld' /\ NothingBySid'
  BY <1>1 DEF TakenWasHeld, NothingBySid, fetched, Steady, Hold, Owns, BySid, ByName
<1>9. HeldIsTaken'
  <2>1. \A k : AreRead(k)' = AreRead(k)
    BY <1>1 DEF AreRead, fetched
  <2> QED
    BY <1>1, <2>1 DEF HeldIsTaken, fetched, Hold, Owns, BySid, ByName
<1> QED
  BY <1>3, <1>4, <1>7, <1>8, <1>9

\* Reading the grants of one kind adds those that were held, and all of them.
LEMMA AppliedHolds ==
    ASSUME ReadingHolds, at \in {"roles", "permissions"}, NEW kind \in {"role", "permission"}
    PROVE  /\ Applied(kind) \subseteq accounts \X Bases \X AllGrants
           /\ \A x \in Applied(kind) : Steady(x[1]) => \E c \in past, i \in Ids : Hold(c, x[2], i, x[1], x[3], route)
           /\ \A l \in accounts, i \in Ids, g \in AllGrants : \A d \in batch :
                 g.kind = kind /\ (\A c \in past : Hold(c, d, i, l, g, route)) => <<l, d, g>> \in Applied(kind)
<1> USE DEF ReadingHolds
<1>1. catalogue \in past /\ past \subseteq Catalogues /\ batch \subseteq Bases
  BY DEF WhereItIs
<1>2. ASSUME NEW x \in Applied(kind), Steady(x[1])
      PROVE  \E c \in past, i \in Ids : Hold(c, x[2], i, x[1], x[3], route)
  <2>1. PICK u \in UsersOf(catalogue, x[2]) : <<x[2], u.id, x[1]>> \in principals /\ x[3] \in Listed(u, kind)
    BY DEF Applied
  <2>2. x[1] \in accounts /\ x[2] \in batch
    BY DEF Applied
  <2>3. u.id \in Ids
    BY <1>1, <2>2, UsersKnown
  <2>4. PICK c \in past : Own(c, x[2], u.id, x[1], route)
    <3> DEFINE y == <<x[2], u.id, x[1]>>
    <3>1. y \in principals /\ y[1] = x[2] /\ y[2] = u.id /\ y[3] = x[1]
      BY <2>1
    <3> HIDE DEF y
    <3> QED
      BY <3>1 DEF LookupHolds
  <2>5. PICK v \in UsersOf(c, x[2]) : v.id = u.id /\ Owns(x[1], v, route)
    BY <2>4 DEF Own
  <2>6. u.sid = v.sid /\ u.name = v.name
    BY <1>1, <1>2, <2>2, <2>5 DEF Steady
  <2>7. Owns(x[1], u, route)
    BY <2>5, <2>6 DEF Owns, BySid, ByName
  <2>8. Hold(catalogue, x[2], u.id, x[1], x[3], route)
    BY <2>1, <2>7 DEF Hold, Listed
  <2> QED
    BY <1>1, <2>3, <2>8
<1>3. ASSUME NEW l \in accounts, NEW i \in Ids, NEW g \in AllGrants, NEW d \in batch,
             g.kind = kind, \A c \in past : Hold(c, d, i, l, g, route)
      PROVE  <<l, d, g>> \in Applied(kind)
  <2>1. PICK u \in UsersOf(catalogue, d) : u.id = i /\ Owns(l, u, route) /\ g \in u.grants /\ g.state = "G"
    BY <1>1, <1>3 DEF Hold
  <2>2. \A c \in past : Own(c, d, i, l, route)
    BY <1>3 DEF Own, Hold
  <2>3. <<d, i, l>> \in principals
    BY <2>2 DEF LookupHolds
  <2>4. g \in Listed(u, kind)
    BY <1>3, <2>1 DEF Listed
  <2>5. Targeted(u)
    BY <2>1 DEF Owns, BySid, ByName, Targeted
  <2> QED
    BY <2>1, <2>3, <2>4, <2>5 DEF Applied
<1>4. Applied(kind) \subseteq accounts \X Bases \X AllGrants
  BY <1>1 DEF Applied
<1> QED
  BY <1>2, <1>3, <1>4

LEMMA GrantsHold == ASSUME ReadingHolds, ReadRoles \/ ReadPermissions PROVE ReadingHolds'
<1> USE DEF Early, Looping, Mapped, ReadingHolds
<1>1. /\ UNCHANGED <<catalogue, past, fetched, route, left, principals>>
      /\ at \in {"roles", "permissions"} /\ at' = IF at = "roles" THEN "permissions" ELSE "batch"
      /\ batch' = IF at = "roles" THEN batch ELSE {}
      /\ taken' = taken \cup Applied(IF at = "roles" THEN "role" ELSE "permission")
  BY DEF ReadRoles, ReadPermissions, Statement
<1> DEFINE kind == IF at = "roles" THEN "role" ELSE "permission"
<1>2. kind \in {"role", "permission"} /\ taken' = taken \cup Applied(kind)
  BY <1>1
<1>0. (kind = "role" <=> at = "roles") /\ (kind = "permission" <=> at = "permissions")
  BY <1>1
<1> HIDE DEF kind
<1>3. /\ Applied(kind) \subseteq accounts \X Bases \X AllGrants
      /\ \A x \in Applied(kind) : Steady(x[1]) => \E c \in past, i \in Ids : Hold(c, x[2], i, x[1], x[3], route)
      /\ \A l \in accounts, i \in Ids, g \in AllGrants : \A d \in batch :
            g.kind = kind /\ (\A c \in past : Hold(c, d, i, l, g, route)) => <<l, d, g>> \in Applied(kind)
  BY <1>1, <1>2, AppliedHolds
<1>4. WhereItIs'
  BY <1>1, <1>2, <1>3 DEF WhereItIs, fetched
<1>5. ListedIsAll' /\ SidsHold' /\ ServerHolds'
  BY <1>1, LoopKeeps
<1>6. LookupHolds'
  BY <1>1 DEF LookupHolds, Own, Owns, BySid, ByName, fetched
<1>7. \A c, d, i, g, how : \A l \in accounts : Hold(c, d, i, l, g, how)' = Hold(c, d, i, l, g, how)
  BY <1>1 DEF Hold, Owns, BySid, ByName, fetched
<1>8. TakenWasHeld'
  <2>1. \A x \in taken' : x[1] \in accounts
    BY <1>1, <1>4 DEF WhereItIs, fetched
  <2>2. \A x \in taken' : Steady(x[1]) => \E c \in past, i \in Ids : Hold(c, x[2], i, x[1], x[3], route)
    BY <1>1, <1>2, <1>3 DEF TakenWasHeld
  <2> QED
    BY <1>1, <1>7, <2>1, <2>2 DEF TakenWasHeld, Steady
<1>9. HeldIsTaken'
  <2> SUFFICES ASSUME NEW l \in accounts, NEW i \in Ids, NEW g \in AllGrants, NEW d \in AreRead(g.kind)',
                      \A c \in past : Hold(c, d, i, l, g, route)
               PROVE  <<l, d, g>> \in taken'
    BY <1>1, <1>7 DEF HeldIsTaken, fetched
  <2>1. g.kind \in {"role", "permission"}
    <3>1. PICK u \in UsersOf(catalogue, d) : g \in u.grants
      BY DEF Hold, WhereItIs
    <3>2. catalogue \in Catalogues /\ d \in Bases
      BY <1>1 DEF AreRead, WhereItIs, fetched
    <3> QED
      BY <3>1, <3>2, UsersKnown
  <2>2. d \in AreRead(g.kind) \/ (d \in batch /\ g.kind = kind)
    BY <1>1, <1>0, <2>1 DEF AreRead, fetched
  <2>3. CASE d \in AreRead(g.kind)
    BY <1>1, <1>2, <2>3 DEF HeldIsTaken
  <2>4. CASE d \in batch /\ g.kind = kind
    BY <1>2, <1>3, <2>4
  <2> QED
    BY <2>2, <2>3, <2>4
<1>10. NothingBySid'
  BY <1>1, <1>7 DEF NothingBySid, fetched
<1> QED
  BY <1>4, <1>5, <1>6, <1>8, <1>9, <1>10

LEMMA FallbackHolds == ASSUME ReadingHolds, Fallback PROVE ReadingHolds'
<1> USE DEF Early, Looping, Mapped, ReadingHolds
<1>1. /\ UNCHANGED <<catalogue, past, fetched, batch, principals, taken>>
      /\ left = {} /\ left' = listed /\ route = "sid" /\ route' = "name" /\ taken = {}
      /\ at = "batch" /\ at' = "batch"
  BY DEF Fallback, Statement
<1>2. batch = {} /\ listed # {}
  BY <1>1 DEF WhereItIs
<1>3. WhereItIs'
  BY <1>1, <1>2 DEF WhereItIs, fetched
<1>4. ListedIsAll' /\ SidsHold' /\ ServerHolds'
  BY <1>1, LoopKeeps
<1>5. LookupHolds' /\ TakenWasHeld'
  BY <1>1 DEF LookupHolds, TakenWasHeld
<1>6. HeldIsTaken'
  BY <1>1, <1>2 DEF HeldIsTaken, AreRead, fetched
<1>7. NothingBySid'
  <2> SUFFICES ASSUME NEW l \in accounts, NEW d \in Bases, NEW i \in Ids, NEW g \in AllGrants,
                      \A c \in past : Hold(c, d, i, l, g, "sid")
               PROVE  FALSE
    BY <1>1 DEF NothingBySid, Hold, Owns, BySid, fetched
  <2>1. \A c \in past : UsersOf(c, d) # {}
    BY DEF Hold
  <2>2. d \in listed
    BY <1>1, <2>1 DEF ListedIsAll
  <2>3. d \in AreRead(g.kind)
    BY <1>1, <1>2, <2>2 DEF AreRead
  <2> QED
    BY <1>1, <2>3 DEF HeldIsTaken
<1> QED
  BY <1>3, <1>4, <1>5, <1>6, <1>7

LEMMA FinishHolds == ASSUME ReadingHolds, Finish PROVE ReadingHolds'
<1> USE DEF Early, Looping, Mapped, ReadingHolds
<1>1. /\ UNCHANGED <<catalogue, past, fetched, route, left, batch, principals, taken>>
      /\ left = {} /\ at = "batch" /\ at' = "done"
  BY DEF Finish, Statement
<1>2. batch = {} /\ listed # {}
  BY <1>1 DEF WhereItIs
<1>3. WhereItIs'
  BY <1>1, <1>2 DEF WhereItIs, fetched
<1>4. ListedIsAll' /\ SidsHold' /\ ServerHolds'
  BY <1>1, LoopKeeps
<1>5. LookupHolds' /\ TakenWasHeld' /\ NothingBySid'
  BY <1>1 DEF LookupHolds, TakenWasHeld, NothingBySid, fetched, Steady, Hold, Owns, BySid, ByName
<1>6. HeldIsTaken'
  <2>1. \A k : AreRead(k)' = AreRead(k)
    BY <1>1, <1>2 DEF AreRead, fetched
  <2> QED
    BY <1>1, <2>1 DEF HeldIsTaken, fetched, Hold, Owns, BySid, ByName
<1> QED
  BY <1>3, <1>4, <1>5, <1>6

LEMMA StutterHolds == ASSUME ReadingHolds, UNCHANGED loginVars PROVE ReadingHolds'
<1> USE DEF loginVars, fetched, Early, Looping, Mapped
<1>1. WhereItIs'
  BY DEF ReadingHolds, WhereItIs
<1>2. ListedIsAll' /\ SidsHold'
  BY DEF ReadingHolds, ListedIsAll, SidsHold, Steady
<1>6. ServerHolds'
  BY DEF ReadingHolds, ServerHolds
<1>3. LookupHolds'
  BY DEF ReadingHolds, LookupHolds, Own, Owns, BySid, ByName
<1>4. TakenWasHeld' /\ NothingBySid'
  BY DEF ReadingHolds, TakenWasHeld, NothingBySid, Steady, Hold, Owns, BySid, ByName
<1>5. HeldIsTaken'
  BY DEF ReadingHolds, HeldIsTaken, AreRead, Hold, Owns, BySid, ByName
<1> QED
  BY <1>1, <1>2, <1>6, <1>3, <1>4, <1>5 DEF ReadingHolds

\* At the end the invariant says what the answer tells.
LEMMA HoldsIsHeld ==
    ASSUME ReadingHolds, Mapped, NEW l \in accounts, Steady(l), NEW c \in past,
           NEW d, NEW i, NEW g, NEW how
    PROVE  HoldsAs(c, l, d, i, g, how) <=> Hold(c, d, i, l, g, how)
<1>1. c.server[l].sid = sids[l]
  BY DEF ReadingHolds, SidsHold
<1>2. \A u : BySid(l, u, [k \in accounts |-> c.server[k].sid]) <=> BySid(l, u, sids)
  BY <1>1 DEF BySid
<1> QED
  BY <1>2 DEF HoldsAs, Hold, Owns

LEMMA ReadingTells == ReadingHolds => LoginsTell
<1> SUFFICES ASSUME ReadingHolds, at = "done"
             PROVE  LoginsTell
  BY DEF LoginsTell, DatabasesTell, ServerTells
<1>1. ServerTells
  BY DEF ReadingHolds, ServerHolds, ServerTells
<1>2. DatabasesTell
  <2> SUFFICES ASSUME NEW l \in accounts, NEW d \in Bases, NEW g \in AllGrants, Steady(l)
               PROVE  /\ <<d, g>> \in DatabaseGrants(l) => Ever(l, d, g, route)
                      /\ Placed(g) /\ Always(l, d, g, route) => <<d, g>> \in DatabaseGrants(l)
                      /\ route = "name" => ~Always(l, d, g, "sid")
    BY DEF DatabasesTell
  <2>0. catalogue \in past /\ catalogue \in Catalogues /\ left = {} /\ batch = {}
    BY DEF ReadingHolds, WhereItIs
  <2>1. ASSUME NEW how, Always(l, d, g, how)
        PROVE  d \in listed
    <3>1. \A c \in past : UsersOf(c, d) # {}
      BY <2>1 DEF Always, HoldsAs
    <3> QED
      BY <3>1 DEF ReadingHolds, ListedIsAll
  <2>2. CASE listed = {}
    <3>1. taken = {} /\ route = "sid"
      BY <2>2 DEF ReadingHolds, WhereItIs, Mapped, Looping
    <3> QED
      BY <2>1, <2>2, <3>1 DEF DatabaseGrants
  <2>3. CASE listed # {}
    <3>1. Mapped
      BY <2>3 DEF Mapped
    <3>2. \A c \in past : \A i, how : HoldsAs(c, l, d, i, g, how) <=> Hold(c, d, i, l, g, how)
      BY <3>1, HoldsIsHeld
    <3>3. ASSUME <<d, g>> \in DatabaseGrants(l)
          PROVE  Ever(l, d, g, route)
      <4>1. PICK x \in taken : x[1] = l /\ x[2] = d /\ x[3] = g
        BY <3>3 DEF DatabaseGrants
      <4>2. PICK c \in past, i \in Ids : Hold(c, d, i, l, g, route)
        BY <3>1, <4>1 DEF ReadingHolds, TakenWasHeld
      <4> QED
        BY <3>2, <4>2 DEF Ever
    <3>4. ASSUME Placed(g), Always(l, d, g, route)
          PROVE  <<d, g>> \in DatabaseGrants(l)
      <4>1. PICK i \in Ids : \A c \in past : Hold(c, d, i, l, g, route)
        BY <3>2, <3>4 DEF Always
      <4>2. d \in AreRead(g.kind)
        BY <2>0, <2>1, <3>4 DEF AreRead
      <4>3. <<l, d, g>> \in taken
        BY <3>1, <4>1, <4>2 DEF ReadingHolds, HeldIsTaken
      <4> DEFINE x == <<l, d, g>>
      <4>4. x \in taken /\ x[1] = l /\ x[2] = d /\ x[3] = g
        BY <4>3
      <4> HIDE DEF x
      <4> QED
        BY <3>4, <4>4 DEF DatabaseGrants
    <3>5. ASSUME route = "name", Always(l, d, g, "sid")
          PROVE  FALSE
      <4>1. PICK i \in Ids : \A c \in past : Hold(c, d, i, l, g, "sid")
        BY <3>2, <3>5 DEF Always
      <4> QED
        BY <3>1, <3>5, <4>1 DEF ReadingHolds, NothingBySid
    <3> QED
      BY <3>3, <3>4, <3>5
  <2> QED
    BY <2>2, <2>3
<1> QED
  BY <1>1, <1>2 DEF LoginsTell

(* What a login holds throughout is read and nothing else is ever told,     *)
(* however many databases, batches and changes there are.                   *)
THEOREM LoginsAreTold == LoginsSpec => []LoginsTell
<1>1. LoginsInit => ReadingHolds
  BY InitHolds
<1>2. ReadingHolds /\ [LoginsNext]_loginVars => ReadingHolds'
  <2> SUFFICES ASSUME ReadingHolds, [LoginsNext]_loginVars PROVE ReadingHolds'
    OBVIOUS
  <2> QED
    BY AlterHolds, ServerReadHolds, ListHolds, MapHolds, TakeHolds, PrincipalsHold, GrantsHold,
       FallbackHolds, FinishHolds, StutterHolds DEF LoginsNext
<1>3. ReadingHolds => LoginsTell
  BY ReadingTells
<1> QED
  BY <1>1, <1>2, <1>3, PTL DEF LoginsSpec

----------------------------------------------------------------------------
(* Expressions: what is defined along their arguments.                     *)

\* A set of natural numbers that is not empty has a least element.
Less == {p \in Nat \X Nat : p[1] < p[2]}

LEMMA Least ==
    ASSUME NEW T \in SUBSET Nat, T # {}
    PROVE  \E x \in T : \A y \in T : x <= y
<1>1. OpToRel(<, Nat) = Less
  BY DEF OpToRel, Less
<1>2. IsWellFoundedOn(Less, Nat)
  BY <1>1, NatLessThanWellFounded
<1>3. PICK x \in T : \A y \in T : ~ (<<y, x>> \in Less)
  BY <1>2, WFMin
<1>4. \A y \in T : <<y, x>> \in Nat \X Nat
  OBVIOUS
<1>5. \A y \in T : ~(y < x)
  BY <1>3, <1>4 DEF Less
<1> QED BY <1>5

\* The expressions an expression is made of.
ArgsOf(e) == IF IsOp(e) THEN Args(e) ELSE {}

LEMMA Shallower ==
    ASSUME NEW e \in Exprs, NEW a \in ArgsOf(e)
    PROVE  a \in Exprs /\ Depth[a] \in Nat /\ Depth[e] \in Nat /\ Depth[a] < Depth[e]
<1>1. IsOp(e) /\ a \in Args(e)
  BY DEF ArgsOf
<1>2. e.args \in Seq(Exprs) /\ Depth[a] < Depth[e]
  BY <1>1, ExprsAssumption
<1>3. a \in Exprs
  BY <1>1, <1>2 DEF Args
<1> QED BY <1>2, <1>3, ExprsAssumption

\* What holds of an expression whenever it holds of its arguments holds of all.
LEMMA ByArguments ==
    ASSUME NEW T, \A e \in Exprs : (\A a \in ArgsOf(e) : a \in T) => e \in T
    PROVE  \A e \in Exprs : e \in T
<1> SUFFICES ASSUME NEW e0 \in Exprs, e0 \notin T PROVE FALSE
  OBVIOUS
<1> DEFINE D == {n \in Nat : \E e \in Exprs : e \notin T /\ Depth[e] = n}
<1>1. Depth[e0] \in D
  BY ExprsAssumption
<1>2. PICK n \in D : \A m \in D : n <= m
  <2>1. D \in SUBSET Nat /\ D # {}
    BY <1>1
  <2> HIDE DEF D
  <2> QED BY <2>1, Least
<1>3. PICK e \in Exprs : e \notin T /\ Depth[e] = n
  BY <1>2
<1>4. PICK a \in ArgsOf(e) : a \notin T
  BY <1>3
<1>5. a \in Exprs /\ Depth[a] \in Nat /\ Depth[a] < n
  BY <1>3, <1>4, Shallower
<1>6. Depth[a] \in D
  BY <1>4, <1>5
<1> QED BY <1>2, <1>5, <1>6

\* A step that looks at the values of the arguments only defines a function.
IsStep(H, V) ==
    /\ H \in [Exprs -> [[Exprs -> V] -> V]]
    /\ \A e \in Exprs : \A f, g \in [Exprs -> V] : (\A a \in ArgsOf(e) : f[a] = g[a]) => H[e][f] = H[e][g]
IsFixed(f, H, V) == f \in [Exprs -> V] /\ \A e \in Exprs : f[e] = H[e][f]

LEMMA DefinedByArguments ==
    ASSUME NEW V, NEW H, V # {}, IsStep(H, V)
    PROVE  \E f : IsFixed(f, H, V)
<1>0. /\ H \in [Exprs -> [[Exprs -> V] -> V]]
      /\ \A e \in Exprs : \A f, g \in [Exprs -> V] : (\A a \in ArgsOf(e) : f[a] = g[a]) => H[e][f] = H[e][g]
  BY DEF IsStep
<1> DEFINE Good(f, n) == f \in [Exprs -> V] /\ \A e \in Exprs : Depth[e] < n => f[e] = H[e][f]
           T == {n \in Nat : ~ \E f : Good(f, n)}
<1>1. ASSUME NEW f, NEW g, NEW n \in Nat, NEW m \in Nat, Good(f, n), Good(g, m)
      PROVE  \A e \in Exprs : Depth[e] < n /\ Depth[e] < m => f[e] = g[e]
  <2> DEFINE S == {e \in Exprs : Depth[e] < n /\ Depth[e] < m => f[e] = g[e]}
  <2>1. ASSUME NEW e \in Exprs, \A a \in ArgsOf(e) : a \in S, Depth[e] < n, Depth[e] < m
        PROVE  f[e] = g[e]
    <3>1. \A a \in ArgsOf(e) : f[a] = g[a]
      <4> SUFFICES ASSUME NEW a \in ArgsOf(e) PROVE f[a] = g[a]
        OBVIOUS
      <4>1. Depth[a] \in Nat /\ Depth[e] \in Nat /\ Depth[a] < Depth[e]
        BY Shallower
      <4>2. Depth[a] < n /\ Depth[a] < m
        BY <2>1, <4>1
      <4> QED BY <2>1, <4>2
    <3>2. H[e][f] = H[e][g]
      BY <1>0, <1>1, <3>1
    <3> QED BY <1>1, <2>1, <3>2
  <2>2. \A e \in Exprs : (\A a \in ArgsOf(e) : a \in S) => e \in S
    BY <2>1
  <2> HIDE DEF S
  <2>3. \A e \in Exprs : e \in S
    BY <2>2, ByArguments
  <2> QED BY <2>3 DEF S
<1>2. T = {}
  <2> SUFFICES ASSUME T # {} PROVE FALSE
    OBVIOUS
  <2>1. PICK n \in T : \A m \in T : n <= m
    <3>1. T \in SUBSET Nat
      OBVIOUS
    <3> HIDE DEF T
    <3> QED BY <3>1, Least
  <2>2. n # 0
    <3>1. PICK v \in V : TRUE
      OBVIOUS
    <3>2. Good([e \in Exprs |-> v], 0)
      BY ExprsAssumption, <3>1
    <3> HIDE DEF Good
    <3> QED BY <2>1, <3>2
  <2>3. n - 1 \in Nat /\ n - 1 \notin T
    <3>1. n \in Nat
      BY <2>1
    <3>2. n - 1 \in Nat /\ ~(n <= n - 1)
      BY <2>2, <3>1
    <3> HIDE DEF T
    <3> QED BY <2>1, <3>2
  <2>4. PICK f : Good(f, n - 1)
    BY <2>3
  <2> DEFINE g == [e \in Exprs |-> H[e][f]]
  <2>5. g \in [Exprs -> V]
    BY <1>0, <2>4
  <2>6. ASSUME NEW e \in Exprs, Depth[e] < n PROVE g[e] = H[e][g]
    <3>1. \A a \in ArgsOf(e) : g[a] = f[a]
      <4> SUFFICES ASSUME NEW a \in ArgsOf(e) PROVE g[a] = f[a]
        OBVIOUS
      <4>1. a \in Exprs /\ Depth[a] \in Nat /\ Depth[e] \in Nat /\ Depth[a] < Depth[e]
        BY Shallower
      <4>2. Depth[a] < n - 1
        BY <2>1, <2>6, <4>1
      <4> QED BY <2>4, <4>1, <4>2
    <3>2. f \in [Exprs -> V]
      BY <2>4
    <3> HIDE DEF g
    <3>3. H[e][g] = H[e][f]
      BY <1>0, <2>5, <3>1, <3>2
    <3> QED BY <3>3 DEF g
  <2>7. Good(g, n)
    BY <2>5, <2>6
  <2> HIDE DEF Good, g
  <2> QED BY <2>1, <2>7
<1>3. \A n \in Nat : \E f : Good(f, n)
  BY <1>2
<1> DEFINE F(n) == CHOOSE f : Good(f, n)
<1>4. \A n \in Nat : Good(F(n), n)
  <2> HIDE DEF Good
  <2> QED BY <1>3
<1> DEFINE h == [e \in Exprs |-> F(Depth[e] + 1)[e]]
<1>5. \A e \in Exprs : Depth[e] \in Nat /\ Good(F(Depth[e] + 1), Depth[e] + 1)
  <2> HIDE DEF Good, F
  <2> QED BY <1>4, ExprsAssumption
<1> HIDE DEF F
<1>6. h \in [Exprs -> V]
  BY <1>5
<1>7. ASSUME NEW e \in Exprs PROVE h[e] = H[e][h]
  <2> DEFINE d == Depth[e] + 1
  <2>1. F(d) \in [Exprs -> V] /\ F(d)[e] = H[e][F(d)] /\ Good(F(d), d) /\ d \in Nat
    <3>1. Depth[e] \in Nat /\ Good(F(d), d)
      <4> HIDE DEF Good
      <4> QED BY <1>5
    <3>2. d \in Nat /\ Depth[e] < d
      BY <3>1
    <3> HIDE DEF d
    <3> QED BY <3>1, <3>2
  <2>2. ASSUME NEW a \in ArgsOf(e) PROVE h[a] = F(d)[a]
    <3>1. a \in Exprs /\ Depth[a] \in Nat /\ Depth[a] < Depth[e] /\ Depth[e] \in Nat
      BY Shallower
    <3>2. Good(F(Depth[a] + 1), Depth[a] + 1)
      BY <1>5, <3>1
    <3>3. Depth[a] + 1 \in Nat /\ Depth[a] < Depth[a] + 1 /\ Depth[a] < d
      BY <3>1
    <3> HIDE DEF Good, d
    <3>4. F(Depth[a] + 1)[a] = F(d)[a]
      BY <1>1, <2>1, <3>1, <3>2, <3>3
    <3> QED BY <3>1, <3>4
  <2> HIDE DEF h, d
  <2>3. H[e][h] = H[e][F(d)]
    BY <1>0, <1>6, <2>1, <2>2
  <2>4. h[e] = F(d)[e]
    BY DEF h, d
  <2> QED BY <2>1, <2>3, <2>4
<1> HIDE DEF h
<1> QED BY <1>6, <1>7 DEF IsFixed

----------------------------------------------------------------------------
(* The recursive functions of AccountPermissions, unfolded once.           *)

LEMMA ValidationUnfolds ==
    \A e \in Exprs : validation[e] =
        IF IsOp(e) THEN /\ e.op \in {"AND", "OR", "NOT"}
                        /\ e.op = "NOT" => Len(e.args) = 1
                        /\ \A a \in Args(e) : validation[a]
        ELSE valid_fn(e)
<1> DEFINE body(e, f) == IF IsOp(e) THEN /\ e.op \in {"AND", "OR", "NOT"}
                                         /\ e.op = "NOT" => Len(e.args) = 1
                                         /\ \A a \in Args(e) : f[a]
                         ELSE valid_fn(e)
           Fs == [Exprs -> BOOLEAN]
           H == [e \in Exprs |-> [f \in Fs |-> body(e, f)]]
<1>1. ASSUME NEW e \in Exprs, NEW f \in Fs PROVE body(e, f) \in BOOLEAN /\ H[e][f] = body(e, f)
  BY DEF valid_fn
<1>2. ASSUME NEW e \in Exprs, NEW f \in Fs, NEW g \in Fs, \A a \in ArgsOf(e) : f[a] = g[a]
      PROVE  H[e][f] = H[e][g]
  <2>1. body(e, f) = body(e, g)
    BY <1>2 DEF ArgsOf
  <2> QED BY <1>1, <2>1
<1>3. H \in [Exprs -> [Fs -> BOOLEAN]]
  BY DEF valid_fn
<1> HIDE DEF H
<1>4. PICK f \in Fs : \A e \in Exprs : f[e] = H[e][f]
  <2>1. BOOLEAN # {}
    OBVIOUS
  <2>2. IsStep(H, BOOLEAN)
    BY <1>2, <1>3 DEF IsStep
  <2>3. \E f : IsFixed(f, H, BOOLEAN)
    BY <2>1, <2>2, DefinedByArguments
  <2> QED BY <2>3 DEF IsFixed
<1>5. f = [e \in Exprs |-> body(e, f)]
  BY <1>1, <1>4
<1>6. validation = [e \in Exprs |-> body(e, validation)]
  BY <1>5 DEF validation
<1> QED BY <1>6

LEMMA MeansUnfolds ==
    /\ means \in [Exprs -> BOOLEAN]
    /\ \A e \in Exprs : means[e] =
        IF ~IsOp(e) THEN fn_means(e)
        ELSE CASE e.op = "NOT" /\ Len(e.args) = 1 -> ~means[e.args[1]]
               [] e.op = "AND" -> \A a \in Args(e) : means[a]
               [] e.op = "OR" -> \E a \in Args(e) : means[a]
               [] OTHER -> FALSE
<1> DEFINE body(e, f) == IF ~IsOp(e) THEN fn_means(e)
                         ELSE CASE e.op = "NOT" /\ Len(e.args) = 1 -> ~f[e.args[1]]
                                [] e.op = "AND" -> \A a \in Args(e) : f[a]
                                [] e.op = "OR" -> \E a \in Args(e) : f[a]
                                [] OTHER -> FALSE
           Fs == [Exprs -> BOOLEAN]
           H == [e \in Exprs |-> [f \in Fs |-> body(e, f)]]
<1>1. ASSUME NEW e \in Exprs PROVE fn_means(e) \in BOOLEAN
  <2>1. superuser_means \in BOOLEAN /\ grant_admin_means \in BOOLEAN /\ locked_means \in BOOLEAN
    BY DEF superuser_means, grant_admin_means, locked_means
  <2>2. HasAttribute(e.name, "yes") \in BOOLEAN /\ Holds(RoleCategories, e.name) \in BOOLEAN
    BY DEF HasAttribute, Holds
  <2>3. \A categories : GrantedIn(e, categories) \in BOOLEAN
    BY DEF GrantedIn
  <2>4. CASE e.fn = "has_capability"
    <3>1. capability_means(e.name) \in BOOLEAN
      BY <2>1, <2>2 DEF capability_means
    <3> QED BY <2>4, <3>1 DEF fn_means
  <2>5. CASE e.fn = "has_privilege"
    BY <2>3, <2>5 DEF fn_means
  <2>6. CASE e.fn = "db_type_in"
    BY <2>6 DEF fn_means
  <2>8. CASE e.fn = "is_superuser"
    BY <2>1, <2>8 DEF fn_means
  <2>9. CASE e.fn = "has_role"
    BY <2>2, <2>9 DEF fn_means
  <2>7. CASE e.fn \notin {"db_type_in", "is_superuser", "has_role", "has_capability", "has_privilege"}
    BY <2>7 DEF fn_means
  <2> QED BY <2>4, <2>5, <2>6, <2>7, <2>8, <2>9
<1>2. ASSUME NEW e \in Exprs, NEW f \in Fs PROVE body(e, f) \in BOOLEAN /\ H[e][f] = body(e, f)
  BY <1>1
<1>3. ASSUME NEW e \in Exprs, NEW f \in Fs, NEW g \in Fs, \A a \in ArgsOf(e) : f[a] = g[a]
      PROVE  H[e][f] = H[e][g]
  <2>1. IsOp(e) /\ e.op = "NOT" /\ Len(e.args) = 1 => e.args[1] \in Args(e)
    BY ExprsAssumption DEF Args
  <2>2. body(e, f) = body(e, g)
    BY <1>3, <2>1 DEF ArgsOf
  <2> QED BY <1>2, <2>2
<1>4. H \in [Exprs -> [Fs -> BOOLEAN]]
  BY <1>1
<1> HIDE DEF H
<1>5. PICK f \in Fs : \A e \in Exprs : f[e] = H[e][f]
  <2>1. BOOLEAN # {}
    OBVIOUS
  <2>2. IsStep(H, BOOLEAN)
    BY <1>3, <1>4 DEF IsStep
  <2>3. \E f : IsFixed(f, H, BOOLEAN)
    BY <2>1, <2>2, DefinedByArguments
  <2> QED BY <2>3 DEF IsFixed
<1>6. f = [e \in Exprs |-> body(e, f)]
  BY <1>2, <1>5
<1>7. means = [e \in Exprs |-> body(e, means)]
  BY <1>6 DEF means
<1>8. \A e \in Exprs : means[e] = body(e, means)
  BY <1>7
<1>9. \A e \in Exprs : body(e, means) \in BOOLEAN
  BY <1>1
<1> QED BY <1>7, <1>8, <1>9

LEMMA PlainUnfolds ==
    \A e \in Exprs : plain[e] = IF IsOp(e) THEN \A a \in Args(e) : plain[a] ELSE ~EmptyTypes(e)
<1> DEFINE body(e, f) == IF IsOp(e) THEN \A a \in Args(e) : f[a] ELSE ~EmptyTypes(e)
           Fs == [Exprs -> BOOLEAN]
           H == [e \in Exprs |-> [f \in Fs |-> body(e, f)]]
<1>1. ASSUME NEW e \in Exprs, NEW f \in Fs PROVE body(e, f) \in BOOLEAN /\ H[e][f] = body(e, f)
  OBVIOUS
<1>2. ASSUME NEW e \in Exprs, NEW f \in Fs, NEW g \in Fs, \A a \in ArgsOf(e) : f[a] = g[a]
      PROVE  H[e][f] = H[e][g]
  <2>1. body(e, f) = body(e, g)
    BY <1>2 DEF ArgsOf
  <2> QED BY <1>1, <2>1
<1>3. H \in [Exprs -> [Fs -> BOOLEAN]]
  OBVIOUS
<1> HIDE DEF H
<1>4. PICK f \in Fs : \A e \in Exprs : f[e] = H[e][f]
  <2>1. BOOLEAN # {}
    OBVIOUS
  <2>2. IsStep(H, BOOLEAN)
    BY <1>2, <1>3 DEF IsStep
  <2>3. \E f : IsFixed(f, H, BOOLEAN)
    BY <2>1, <2>2, DefinedByArguments
  <2> QED BY <2>3 DEF IsFixed
<1>5. f = [e \in Exprs |-> body(e, f)]
  BY <1>1, <1>4
<1>6. plain = [e \in Exprs |-> body(e, plain)]
  BY <1>5 DEF plain
<1> QED BY <1>6

LEMMA FaithfulUnfolds ==
    \A e \in Exprs : faithful[e] = IF IsOp(e) THEN \A a \in Args(e) : faithful[a] ELSE ~lost(e)
<1> DEFINE body(e, f) == IF IsOp(e) THEN \A a \in Args(e) : f[a] ELSE ~lost(e)
           Fs == [Exprs -> BOOLEAN]
           H == [e \in Exprs |-> [f \in Fs |-> body(e, f)]]
<1>1. ASSUME NEW e \in Exprs, NEW f \in Fs PROVE body(e, f) \in BOOLEAN /\ H[e][f] = body(e, f)
  OBVIOUS
<1>2. ASSUME NEW e \in Exprs, NEW f \in Fs, NEW g \in Fs, \A a \in ArgsOf(e) : f[a] = g[a]
      PROVE  H[e][f] = H[e][g]
  <2>1. body(e, f) = body(e, g)
    BY <1>2 DEF ArgsOf
  <2> QED BY <1>1, <2>1
<1>3. H \in [Exprs -> [Fs -> BOOLEAN]]
  OBVIOUS
<1> HIDE DEF H
<1>4. PICK f \in Fs : \A e \in Exprs : f[e] = H[e][f]
  <2>1. BOOLEAN # {}
    OBVIOUS
  <2>2. IsStep(H, BOOLEAN)
    BY <1>2, <1>3 DEF IsStep
  <2>3. \E f : IsFixed(f, H, BOOLEAN)
    BY <2>1, <2>2, DefinedByArguments
  <2> QED BY <2>3 DEF IsFixed
<1>5. f = [e \in Exprs |-> body(e, f)]
  BY <1>1, <1>4
<1>6. faithful = [e \in Exprs |-> body(e, faithful)]
  BY <1>5 DEF faithful
<1> QED BY <1>6

\* What an operator makes of the outcomes of its arguments.
OpOutcome(e, f) ==
    LET results == [a \in Args(e) |-> f[a]]
        errors(decides) == \E i \in Visited(e.args, results, decides) : results[e.args[i]].error
    IN CASE e.op = "NOT" /\ Len(e.args) = 1 -> Outcome(~results[e.args[1]].matched, results[e.args[1]].error)
         [] e.op = "AND" -> Outcome(\A a \in Args(e) : results[a].matched, errors(FALSE))
         [] e.op = "OR" -> Outcome(\E a \in Args(e) : results[a].matched, errors(TRUE))
         [] OTHER -> Outcome(FALSE, TRUE)
Outcomes == [matched : BOOLEAN, error : BOOLEAN]

LEMMA EvaluateUnfolds ==
    ASSUME NEW F
    PROVE  /\ evaluate(F) \in [Exprs -> Outcomes]
           /\ \A e \in Exprs : evaluate(F)[e] =
                  IF ~IsOp(e) THEN Outcome(~error_fn(e) /\ eval_fn(F, e), error_fn(e)) ELSE OpOutcome(e, evaluate(F))
<1> DEFINE body(e, f) == IF ~IsOp(e) THEN Outcome(~error_fn(e) /\ eval_fn(F, e), error_fn(e)) ELSE OpOutcome(e, f)
           Fs == [Exprs -> Outcomes]
           H == [e \in Exprs |-> [f \in Fs |-> body(e, f)]]
<1>1. ASSUME NEW e \in Exprs, IsOp(e), NEW f \in Fs PROVE OpOutcome(e, f) \in Outcomes
  <2> DEFINE results == [a \in Args(e) |-> f[a]]
             errors(decides) == \E i \in Visited(e.args, results, decides) : results[e.args[i]].error
  <2>1. CASE e.op = "NOT" /\ Len(e.args) = 1
    <3>1. e.args[1] \in Args(e) /\ e.args[1] \in Exprs
      BY <1>1, <2>1, ExprsAssumption DEF Args
    <3>2. results[e.args[1]] \in Outcomes
      BY <1>1, <3>1
    <3>3. OpOutcome(e, f) = Outcome(~results[e.args[1]].matched, results[e.args[1]].error)
      BY <2>1 DEF OpOutcome
    <3> HIDE DEF results
    <3> QED BY <3>2, <3>3 DEF Outcome, Outcomes
  <2>2. CASE ~(e.op = "NOT" /\ Len(e.args) = 1) /\ e.op = "AND"
    <3>1. OpOutcome(e, f) = Outcome(\A a \in Args(e) : results[a].matched, errors(FALSE))
      BY <2>2 DEF OpOutcome
    <3> HIDE DEF results
    <3> QED BY <3>1 DEF Outcome, Outcomes
  <2>3. CASE ~(e.op = "NOT" /\ Len(e.args) = 1) /\ e.op = "OR"
    <3>1. OpOutcome(e, f) = Outcome(\E a \in Args(e) : results[a].matched, errors(TRUE))
      BY <2>3 DEF OpOutcome
    <3> HIDE DEF results
    <3> QED BY <3>1 DEF Outcome, Outcomes
  <2>4. CASE ~(e.op = "NOT" /\ Len(e.args) = 1) /\ e.op # "AND" /\ e.op # "OR"
    BY <2>4 DEF OpOutcome, Outcome, Outcomes
  <2> QED BY <2>1, <2>2, <2>3, <2>4
<1>2. ASSUME NEW e \in Exprs, NEW f \in Fs PROVE body(e, f) \in Outcomes
  <2>1. CASE IsOp(e)
    BY <1>1, <2>1
  <2>2. CASE ~IsOp(e)
    BY <2>2 DEF Outcome, Outcomes, error_fn
  <2> QED BY <2>1, <2>2
<1>3. ASSUME NEW e \in Exprs, NEW f, NEW g, \A a \in ArgsOf(e) : f[a] = g[a]
      PROVE  body(e, f) = body(e, g)
  <2>1. CASE IsOp(e)
    <3>1. [a \in Args(e) |-> f[a]] = [a \in Args(e) |-> g[a]]
      BY <1>3, <2>1 DEF ArgsOf
    <3>2. OpOutcome(e, f) = OpOutcome(e, g)
      BY <3>1 DEF OpOutcome
    <3> QED BY <2>1, <3>2
  <2>2. CASE ~IsOp(e)
    BY <2>2
  <2> QED BY <2>1, <2>2
<1> HIDE DEF body
<1>4. H \in [Exprs -> [Fs -> Outcomes]]
  BY <1>2
<1>5. ASSUME NEW e \in Exprs, NEW f \in Fs PROVE H[e][f] = body(e, f)
  OBVIOUS
<1> HIDE DEF H
<1>6. PICK f \in Fs : \A e \in Exprs : f[e] = H[e][f]
  <2>1. Outcomes # {}
    <3>1. [matched |-> TRUE, error |-> TRUE] \in Outcomes
      BY DEF Outcomes
    <3> QED BY <3>1
  <2>2. \A e \in Exprs : \A f, g \in Fs : (\A a \in ArgsOf(e) : f[a] = g[a]) => H[e][f] = H[e][g]
    BY <1>3, <1>5
  <2>3. IsStep(H, Outcomes)
    BY <1>4, <2>2 DEF IsStep
  <2>4. \E f : IsFixed(f, H, Outcomes)
    BY <2>1, <2>3, DefinedByArguments
  <2> QED BY <2>4 DEF IsFixed
<1>7. f = [e \in Exprs |-> body(e, f)]
  BY <1>5, <1>6
<1>8. evaluate(F) = [e \in Exprs |-> body(e, evaluate(F))]
  <2>1. evaluate(F) = CHOOSE g : g = [e \in Exprs |-> body(e, g)]
    BY DEF evaluate, body, OpOutcome
  <2> QED BY <1>7, <2>1
<1>9. \A e \in Exprs : evaluate(F)[e] = body(e, evaluate(F))
  BY <1>8
<1>10. \A e \in Exprs : evaluate(F)[e] = f[e]
  <2> DEFINE T == {e \in Exprs : evaluate(F)[e] = f[e]}
  <2>1. ASSUME NEW e \in Exprs, \A a \in ArgsOf(e) : a \in T PROVE e \in T
    <3>1. body(e, evaluate(F)) = body(e, f)
      BY <1>3, <2>1
    <3>2. f[e] = body(e, f)
      BY <1>5, <1>6
    <3> QED BY <1>9, <3>1, <3>2
  <2> HIDE DEF T
  <2>2. \A e \in Exprs : e \in T
    BY <2>1, ByArguments
  <2> QED BY <2>2 DEF T
<1>11. evaluate(F) \in Fs
  BY <1>6, <1>8, <1>10
<1> QED BY <1>9, <1>11 DEF body

----------------------------------------------------------------------------
(* What is in the snapshot of an account, by what its server has granted.  *)

ReadKnown == dbType \in DOMAIN Servers /\ read \in Servers[dbType]
Snapshot == snapshot_of(read)

Object(g) == IF g.category = "mysql_database_privileges" THEN Upper[g.object] ELSE g.object

LEMMA Parsed ==
    /\ \A g, h : h \in parsed(g) <=> \E x : Covers(g, x) /\ h = Grant(g.category, Object(g), g.level, x)
    /\ Snapshot.grants = UNION {parsed(g) : g \in read.grants}
    /\ Snapshot.special = read.special
<1>1. \A g : parsed(g) = {Grant(g.category, Object(g), g.level, x) :
                          x \in IF IsAll(g) THEN Expanded[g.category] ELSE {g.name}}
  BY DEF parsed, Object
<1>2. \A g, x : Covers(g, x) <=> x \in IF IsAll(g) THEN Expanded[g.category] ELSE {g.name}
  BY DEF Covers
<1>3. Snapshot.grants = UNION {parsed(g) : g \in read.grants} /\ Snapshot.special = read.special
  BY DEF Snapshot, snapshot_of
<1> QED BY <1>1, <1>2, <1>3

\* What a stored grant was read from, and what a grant is stored as.
LEMMA ReadFrom ==
    ASSUME NEW h \in Snapshot.grants
    PROVE  \E g \in read.grants :
              /\ h.category = g.category /\ h.level = g.level /\ Covers(g, h.name)
              /\ g.category # "mysql_database_privileges" => h.object = g.object
<1>1. PICK g \in read.grants : h \in parsed(g)
  BY Parsed
<1>2. PICK x : Covers(g, x) /\ h = Grant(g.category, Object(g), g.level, x)
  BY <1>1, Parsed
<1> QED BY <1>2 DEF Grant, Object

LEMMA StoredAs ==
    ASSUME NEW g \in read.grants, NEW x, Covers(g, x)
    PROVE  Grant(g.category, Object(g), g.level, x) \in Snapshot.grants
BY Parsed

LEMMA IsStored ==
    ASSUME NEW g \in read.grants, NEW x, Covers(g, x)
    PROVE  \E h \in Snapshot.grants :
              h.category = g.category /\ h.level = g.level /\ h.name = x /\ h.object = Object(g)
<1> DEFINE h == Grant(g.category, Object(g), g.level, x)
<1>1. h \in Snapshot.grants
  BY StoredAs
<1>2. h.category = g.category /\ h.level = g.level /\ h.name = x /\ h.object = Object(g)
  BY DEF Grant
<1> QED BY <1>1, <1>2

\* The table of categories, line by line.
LEMMA Kinds ==
    /\ DOMAIN KindOf = {"mysql_global_privileges", "mysql_database_privileges", "mysql_granted_roles",
                        "postgresql_role_attributes", "postgresql_predefined_roles", "postgresql_database_privileges",
                        "sqlserver_server_roles", "sqlserver_database_roles", "sqlserver_server_permissions", "sqlserver_database_permissions",
                        "oracle_roles", "oracle_system_privileges"}
    /\ KindOf["mysql_global_privileges"] = "mysql" /\ KindOf["mysql_database_privileges"] = "mysql"
    /\ KindOf["mysql_granted_roles"] = "mysql"
    /\ KindOf["postgresql_role_attributes"] = "postgresql" /\ KindOf["postgresql_predefined_roles"] = "postgresql"
    /\ KindOf["postgresql_database_privileges"] = "postgresql"
    /\ KindOf["sqlserver_server_roles"] = "sqlserver" /\ KindOf["sqlserver_database_roles"] = "sqlserver"
    /\ KindOf["sqlserver_server_permissions"] = "sqlserver" /\ KindOf["sqlserver_database_permissions"] = "sqlserver"
    /\ KindOf["oracle_roles"] = "oracle" /\ KindOf["oracle_system_privileges"] = "oracle"
BY DEF KindOf

\* Every adapter fills its own categories.
LEMMA OwnCategories ==
    ASSUME ReadKnown, NEW g \in read.grants
    PROVE  /\ g.category \in {"mysql_global_privileges", "mysql_database_privileges", "mysql_granted_roles"} => dbType = "mysql"
           /\ g.category \in {"postgresql_role_attributes", "postgresql_predefined_roles", "postgresql_database_privileges"}
                => dbType = "postgresql"
           /\ g.category \in {"sqlserver_server_roles", "sqlserver_database_roles", "sqlserver_server_permissions",
                              "sqlserver_database_permissions"} => dbType = "sqlserver"
           /\ g.category \in {"oracle_roles", "oracle_system_privileges"} => dbType = "oracle"
           /\ g.category \in PlainLists => g.object = ""
           /\ g.level # "" => g.category = "sqlserver_database_permissions"
           /\ g.category = "postgresql_role_attributes" => g.object \notin {"SUPERUSER", "GRANT_ADMIN", "LOCKED"}
           /\ IsAll(g) => g.category \in {"mysql_global_privileges", "mysql_database_privileges"}
<1>1. /\ g.category \in DOMAIN KindOf => KindOf[g.category] = dbType
      /\ g.category \in PlainLists => g.object = ""
      /\ g.level # "" => g.category = "sqlserver_database_permissions"
      /\ g.category = "postgresql_role_attributes" => g.object \notin {"SUPERUSER", "GRANT_ADMIN", "LOCKED"}
  BY ServersAssumption DEF ReadKnown
<1>2. IsAll(g) => g.category \in {"mysql_global_privileges", "mysql_database_privileges"}
  BY ServersAssumption DEF IsAll
<1>3. g.category \in {"mysql_global_privileges", "mysql_database_privileges", "mysql_granted_roles"} => dbType = "mysql"
  BY <1>1, Kinds
<1>4. g.category \in {"postgresql_role_attributes", "postgresql_predefined_roles", "postgresql_database_privileges"}
        => dbType = "postgresql"
  BY <1>1, Kinds
<1>5. g.category \in {"sqlserver_server_roles", "sqlserver_database_roles", "sqlserver_server_permissions",
                     "sqlserver_database_permissions"} => dbType = "sqlserver"
  BY <1>1, Kinds
<1>6. g.category \in {"oracle_roles", "oracle_system_privileges"} => dbType = "oracle"
  BY <1>1, Kinds
<1> QED BY <1>1, <1>2, <1>3, <1>4, <1>5, <1>6

\* A name in a category, and one of an object in it.
LEMMA NamedIn ==
    ASSUME NEW C, NEW x
    PROVE  (\E h \in Snapshot.grants : h.category \in C /\ h.name = x) <=> Holds(C, x)
<1>1. ASSUME NEW h \in Snapshot.grants, h.category \in C, h.name = x PROVE Holds(C, x)
  BY <1>1, ReadFrom DEF Holds
<1>2. ASSUME NEW g \in read.grants, g.category \in C, Covers(g, x)
      PROVE  \E h \in Snapshot.grants : h.category \in C /\ h.name = x
  BY <1>2, IsStored
<1> QED BY <1>1, <1>2 DEF Holds

LEMMA HasIn ==
    ASSUME ReadKnown, NEW c, NEW o, NEW x, c \notin {"mysql_database_privileges", "sqlserver_database_permissions"}
    PROVE  Has(Snapshot, c, o, x) <=> \E g \in read.grants : g.category = c /\ g.object = o /\ Covers(g, x)
<1>1. ASSUME Has(Snapshot, c, o, x)
      PROVE  \E g \in read.grants : g.category = c /\ g.object = o /\ Covers(g, x)
  <2> DEFINE h == Grant(c, o, "", x)
  <2>1. h \in Snapshot.grants /\ h.category = c /\ h.object = o /\ h.name = x
    BY <1>1 DEF Has, Grant
  <2> HIDE DEF h
  <2> QED BY <2>1, ReadFrom
<1>2. ASSUME NEW g \in read.grants, g.category = c, g.object = o, Covers(g, x)
      PROVE  Has(Snapshot, c, o, x)
  <2>1. Grant(g.category, Object(g), g.level, x) \in Snapshot.grants /\ Object(g) = g.object
    BY <1>2, StoredAs DEF Object
  <2>2. g.level = ""
    BY <1>2, OwnCategories
  <2> QED BY <1>2, <2>1, <2>2 DEF Has
<1> QED BY <1>1, <1>2

LEMMA AttributeIn ==
    ASSUME ReadKnown, NEW attribute, NEW value
    PROVE  /\ Attribute(Snapshot, attribute, value) <=> HasAttribute(attribute, value)
           /\ attribute \in Enabled(Snapshot) <=> HasAttribute(attribute, "yes")
<1>1. \A g \in read.grants : \A x : g.category = "postgresql_role_attributes" => (Covers(g, x) <=> g.name = x)
  BY OwnCategories DEF Covers
<1>2. Attribute(Snapshot, attribute, value) <=> HasAttribute(attribute, value)
  <2>1. "postgresql_role_attributes" \notin {"mysql_database_privileges", "sqlserver_database_permissions"}
    OBVIOUS
  <2>2. Has(Snapshot, "postgresql_role_attributes", attribute, value) <=>
          \E g \in read.grants : g.category = "postgresql_role_attributes" /\ g.object = attribute /\ Covers(g, value)
    BY <2>1, HasIn
  <2> QED BY <1>1, <2>2 DEF Attribute, HasAttribute
<1>3. attribute \in Enabled(Snapshot) => HasAttribute(attribute, "yes")
  <2> SUFFICES ASSUME NEW h \in Snapshot.grants, h.category = "postgresql_role_attributes", h.name = "yes",
                      attribute = h.object
               PROVE  HasAttribute(attribute, "yes")
    BY DEF Enabled
  <2>1. PICK g \in read.grants : /\ h.category = g.category /\ Covers(g, h.name)
                                 /\ g.category # "mysql_database_privileges" => h.object = g.object
    BY ReadFrom
  <2> QED BY <1>1, <2>1 DEF HasAttribute
<1>4. HasAttribute(attribute, "yes") => attribute \in Enabled(Snapshot)
  <2> SUFFICES ASSUME NEW g \in read.grants, g.category = "postgresql_role_attributes", g.object = attribute, g.name = "yes"
               PROVE  attribute \in Enabled(Snapshot)
    BY DEF HasAttribute
  <2>1. PICK h \in Snapshot.grants : h.category = g.category /\ h.name = "yes" /\ h.object = g.object
    BY <1>1, IsStored DEF Object
  <2> QED BY <2>1 DEF Enabled
<1> QED BY <1>2, <1>3, <1>4

LEMMA RolesIn ==
    ASSUME NEW x
    PROVE  x \in extract_roles(Snapshot) <=> Holds(RoleCategories, x)
BY NamedIn DEF extract_roles

----------------------------------------------------------------------------
(* What the facts that are built of it say.                                *)

\* A name in a category of one kind of server is not held on another.
LEMMA NotHeld ==
    ASSUME ReadKnown, NEW x
    PROVE  /\ dbType # "mysql" => ~Holds({"mysql_global_privileges"}, x)
           /\ dbType # "sqlserver" => /\ ~Holds({"sqlserver_server_roles"}, x)
                                     /\ ~Holds({"sqlserver_server_permissions"}, x)
           /\ dbType # "oracle" => ~Holds({"oracle_roles"}, x) /\ ~Holds({"oracle_system_privileges"}, x)
           /\ \A value : dbType # "postgresql" => ~HasAttribute(x, value)
BY OwnCategories DEF Holds, HasAttribute

\* The roles of one kind of server.
LEMMA RolesOfKind ==
    ASSUME ReadKnown, NEW x
    PROVE  /\ dbType = "sqlserver" /\ Holds(RoleCategories, x) =>
                Holds({"sqlserver_server_roles"}, x) \/ Holds({"sqlserver_database_roles"}, x)
           /\ Holds({"sqlserver_server_roles"}, x) => Holds(RoleCategories, x)
           /\ dbType = "oracle" => (Holds(RoleCategories, x) <=> Holds({"oracle_roles"}, x))
BY OwnCategories DEF Holds, RoleCategories

\* A plain list: names without an object.
LEMMA PlainIn ==
    ASSUME ReadKnown, NEW c \in PlainLists, NEW x
    PROVE  Has(Snapshot, c, "", x) <=> Holds({c}, x)
<1>1. c \notin {"mysql_database_privileges", "sqlserver_database_permissions"}
  BY DEF PlainLists
<1>2. \A g \in read.grants : g.category = c => g.object = ""
  BY OwnCategories
<1> QED BY <1>1, <1>2, HasIn DEF Holds

LEMMA Capable ==
    ASSUME ReadKnown
    PROVE  /\ ~Holds({"sqlserver_database_roles"}, "sysadmin") => (superuser(dbType, Snapshot) <=> superuser_means)
           /\ ~Holds({"sqlserver_database_roles"}, "securityadmin") => (grant_admin(dbType, Snapshot) <=> grant_admin_means)
           /\ \A n : ~(dbType = "postgresql" /\ "valid_until" \in read.special) =>
                (locked(dbType, Snapshot, n) <=> locked_means)
<1>1. dbType \in {"mysql", "postgresql", "sqlserver", "oracle"} /\ ("super_priv" \in read.special => dbType = "mysql")
  BY ServersAssumption DEF ReadKnown
<1>2. Snapshot.special = read.special
  BY Parsed
<1>3. CASE dbType = "mysql"
  <2>1. superuser(dbType, Snapshot) <=> superuser_means
    BY <1>2, <1>3, NotHeld DEF superuser, superuser_means
  <2>2. Has(Snapshot, "mysql_global_privileges", "", "GRANT OPTION") <=> Holds({"mysql_global_privileges"}, "GRANT OPTION")
    BY PlainIn DEF PlainLists
  <2>3. grant_admin(dbType, Snapshot) <=> grant_admin_means
    BY <1>3, <2>2, NotHeld DEF grant_admin, grant_admin_means
  <2>4. \A n : locked(dbType, Snapshot, n) <=> locked_means
    BY <1>2, <1>3, NotHeld DEF locked, locked_means
  <2> QED BY <2>1, <2>3, <2>4
<1>4. CASE dbType = "postgresql"
  <2>1. superuser(dbType, Snapshot) <=> superuser_means
    BY <1>1, <1>4, NotHeld, AttributeIn DEF superuser, superuser_means
  <2>2. grant_admin(dbType, Snapshot) <=> grant_admin_means
    BY <1>4, NotHeld, AttributeIn DEF grant_admin, grant_admin_means
  <2>3. \A n : "valid_until" \notin read.special => (locked(dbType, Snapshot, n) <=> locked_means)
    BY <1>2, <1>4, AttributeIn DEF locked, locked_means
  <2> QED BY <1>4, <2>1, <2>2, <2>3
<1>5. CASE dbType = "sqlserver"
  <2>1. ~Holds({"sqlserver_database_roles"}, "sysadmin") => (superuser(dbType, Snapshot) <=> superuser_means)
    BY <1>1, <1>5, NotHeld, RolesIn, RolesOfKind DEF superuser, superuser_means
  <2>2. Has(Snapshot, "sqlserver_server_permissions", "", "CONTROL SERVER") <=> Holds({"sqlserver_server_permissions"}, "CONTROL SERVER")
    BY PlainIn DEF PlainLists
  <2>3. ~Holds({"sqlserver_database_roles"}, "securityadmin") => (grant_admin(dbType, Snapshot) <=> grant_admin_means)
    BY <1>5, <2>2, NotHeld, RolesIn, RolesOfKind DEF grant_admin, grant_admin_means
  <2>4. \A n : locked(dbType, Snapshot, n) <=> locked_means
    BY <1>2, <1>5, NotHeld DEF locked, locked_means
  <2> QED BY <2>1, <2>3, <2>4
<1>6. CASE dbType = "oracle"
  <2>1. superuser(dbType, Snapshot) <=> superuser_means
    BY <1>1, <1>6, NotHeld, RolesIn, RolesOfKind DEF superuser, superuser_means
  <2>2. Has(Snapshot, "oracle_system_privileges", "", "GRANT ANY PRIVILEGE") <=> Holds({"oracle_system_privileges"}, "GRANT ANY PRIVILEGE")
    BY PlainIn DEF PlainLists
  <2>3. grant_admin(dbType, Snapshot) <=> grant_admin_means
    BY <1>6, <2>2, NotHeld, RolesIn, RolesOfKind DEF grant_admin, grant_admin_means
  <2>4. \A n : locked(dbType, Snapshot, n) <=> locked_means
    BY <1>2, <1>6, NotHeld DEF locked, locked_means
  <2> QED BY <2>1, <2>3, <2>4
<1> QED BY <1>1, <1>3, <1>4, <1>5, <1>6

\* The privileges of the facts, by bucket.
Tells(h, bucket, database, x) ==
    /\ h.category \in DOMAIN Bucket /\ Bucket[h.category] = bucket
    /\ database = "" \/ h.object = database
    /\ x = IF h.level = "" THEN h.name ELSE h.level

LEMMA PrivilegesIn ==
    ASSUME NEW n, NEW bucket, NEW database, NEW x
    PROVE  x \in Privileges(build_permission_facts(dbType, Snapshot, n), bucket, database) <=>
             \E h \in Snapshot.grants : Tells(h, bucket, database, x)
<1> DEFINE entry(h) == [bucket |-> Bucket[h.category], object |-> h.object, name |-> IF h.level = "" THEN h.name ELSE h.level]
<1>1. build_permission_facts(dbType, Snapshot, n).privileges = extract_privileges(Snapshot)
  BY DEF build_permission_facts
<1>2. extract_privileges(Snapshot) = {entry(h) : h \in {k \in Snapshot.grants : k.category \in DOMAIN Bucket}}
  BY DEF extract_privileges
<1>3. ASSUME x \in Privileges(build_permission_facts(dbType, Snapshot, n), bucket, database)
      PROVE  \E h \in Snapshot.grants : Tells(h, bucket, database, x)
  <2>1. PICK p \in extract_privileges(Snapshot) : p.bucket = bucket /\ (database = "" \/ p.object = database) /\ x = p.name
    BY <1>1, <1>3 DEF Privileges
  <2>2. PICK h \in Snapshot.grants : h.category \in DOMAIN Bucket /\ p = entry(h)
    BY <1>2, <2>1
  <2> QED BY <2>1, <2>2 DEF Tells
<1>4. ASSUME NEW h \in Snapshot.grants, Tells(h, bucket, database, x)
      PROVE  x \in Privileges(build_permission_facts(dbType, Snapshot, n), bucket, database)
  <2>1. entry(h) \in extract_privileges(Snapshot)
    BY <1>2, <1>4 DEF Tells
  <2>2. entry(h).bucket = bucket /\ entry(h).name = x /\ (database = "" \/ entry(h).object = database)
    BY <1>4 DEF Tells
  <2> HIDE DEF entry
  <2> QED BY <1>1, <2>1, <2>2 DEF Privileges
<1> QED BY <1>3, <1>4

LEMMA Buckets ==
    /\ DOMAIN Bucket = {"mysql_global_privileges", "mysql_database_privileges", "postgresql_database_privileges",
                        "sqlserver_server_permissions", "sqlserver_database_permissions", "oracle_system_privileges"}
    /\ Bucket["mysql_global_privileges"] = "global" /\ Bucket["mysql_database_privileges"] = "database"
    /\ Bucket["postgresql_database_privileges"] = "database"
    /\ Bucket["sqlserver_server_permissions"] = "server" /\ Bucket["oracle_system_privileges"] = "system"
    /\ Bucket["sqlserver_database_permissions"] = "database_permissions"
BY DEF Bucket

LEMMA PlainPrivileges ==
    ASSUME ReadKnown, NEW n, NEW e, e.scope # "database", NEW c \in PlainLists
    PROVE  e.name \in Privileges(build_permission_facts(dbType, Snapshot, n), Bucket[c], "") <=> GrantedIn(e, {c})
<1>1. \A d \in DOMAIN Bucket : Bucket[d] = Bucket[c] <=> d = c
  BY Buckets DEF PlainLists
<1>2. c \in DOMAIN Bucket /\ c # "sqlserver_database_permissions"
  BY Buckets DEF PlainLists
<1>3. ASSUME e.name \in Privileges(build_permission_facts(dbType, Snapshot, n), Bucket[c], "")
      PROVE  GrantedIn(e, {c})
  <2>1. PICK h \in Snapshot.grants : h.category = c /\ e.name = IF h.level = "" THEN h.name ELSE h.level
    <3>1. PICK h \in Snapshot.grants : Tells(h, Bucket[c], "", e.name)
      BY <1>3, PrivilegesIn
    <3> QED BY <1>1, <3>1 DEF Tells
  <2>2. PICK g \in read.grants : g.category = c /\ h.level = g.level /\ Covers(g, h.name)
    BY <2>1, ReadFrom
  <2>3. g.level = ""
    BY <1>2, <2>2, OwnCategories
  <2> QED BY <2>1, <2>2, <2>3 DEF GrantedIn
<1>4. ASSUME GrantedIn(e, {c})
      PROVE  e.name \in Privileges(build_permission_facts(dbType, Snapshot, n), Bucket[c], "")
  <2>1. PICK g \in read.grants : g.category = c /\ Covers(g, e.name)
    BY <1>4 DEF GrantedIn
  <2>2. g.level = ""
    BY <1>2, <2>1, OwnCategories
  <2>3. PICK h \in Snapshot.grants : h.category = g.category /\ h.level = g.level /\ h.name = e.name
    BY <2>1, IsStored
  <2>4. Tells(h, Bucket[c], "", e.name)
    BY <1>2, <2>1, <2>2, <2>3 DEF Tells
  <2> QED BY <2>4, PrivilegesIn
<1> QED BY <1>3, <1>4

LEMMA DatabasePrivileges ==
    ASSUME ReadKnown, NEW n, NEW e, e.scope = "database",
           dbType # "sqlserver", dbType = "mysql" => e.database = ""
    PROVE  LET f == build_permission_facts(dbType, Snapshot, n)
           IN  e.name \in Privileges(f, "database", e.database) \cup Privileges(f, "database_permissions", e.database) <=>
                 GrantedIn(e, {"mysql_database_privileges", "postgresql_database_privileges", "sqlserver_database_permissions"})
<1> DEFINE f == build_permission_facts(dbType, Snapshot, n)
           C == {"mysql_database_privileges", "postgresql_database_privileges", "sqlserver_database_permissions"}
<1>1. \A d \in DOMAIN Bucket : Bucket[d] \in {"database", "database_permissions"} <=> d \in C
  BY Buckets
<1>2. ASSUME NEW bucket \in {"database", "database_permissions"}, e.name \in Privileges(f, bucket, e.database)
      PROVE  GrantedIn(e, C)
  <2>1. PICK h \in Snapshot.grants : /\ h.category \in C
                                     /\ e.database = "" \/ h.object = e.database
                                     /\ e.name = IF h.level = "" THEN h.name ELSE h.level
    <3>1. PICK h \in Snapshot.grants : Tells(h, bucket, e.database, e.name)
      BY <1>2, PrivilegesIn
    <3> QED BY <1>1, <3>1 DEF Tells
  <2>2. PICK g \in read.grants : /\ h.category = g.category /\ h.level = g.level /\ Covers(g, h.name)
                                 /\ g.category # "mysql_database_privileges" => h.object = g.object
    BY <2>1, ReadFrom
  <2>3. g.level = ""
    BY <2>2, OwnCategories
  <2>4. e.database \in {"", g.object}
    BY <2>1, <2>2, OwnCategories
  <2>5. g.category \in C /\ h.name = e.name
    <3>1. h.level = ""
      BY <2>2, <2>3
    <3>2. h.name = e.name
      BY <2>1, <3>1
    <3>3. h.category \in C
      BY <2>1
    <3>4. h.category = g.category
      BY <2>2
    <3> HIDE DEF C
    <3> QED BY <3>2, <3>3, <3>4
  <2>6. Covers(g, e.name)
    BY <2>2, <2>5
  <2> QED BY <2>3, <2>4, <2>5, <2>6 DEF GrantedIn
<1>3. ASSUME GrantedIn(e, C)
      PROVE  e.name \in Privileges(f, "database", e.database)
  <2>1. PICK g \in read.grants : g.category \in C /\ Covers(g, e.name) /\ e.database \in {"", g.object}
    BY <1>3 DEF GrantedIn
  <2>2. g.level = "" /\ g.category # "sqlserver_database_permissions"
    BY <2>1, OwnCategories
  <2>3. PICK h \in Snapshot.grants :
           h.category = g.category /\ h.level = g.level /\ h.name = e.name /\ h.object = Object(g)
    <3>1. Covers(g, e.name)
      BY <2>1
    <3> DEFINE k == Grant(g.category, Object(g), g.level, e.name)
    <3>2. k \in Snapshot.grants
      BY <3>1, StoredAs
    <3>3. k.category = g.category /\ k.level = g.level /\ k.name = e.name /\ k.object = Object(g)
      BY DEF Grant
    <3> HIDE DEF k
    <3> QED BY <3>2, <3>3
  <2>5. e.database = "" \/ h.object = e.database
    BY <2>1, <2>3, OwnCategories DEF Object
  <2>6. h.category \in DOMAIN Bucket /\ Bucket[h.category] = "database"
    BY <2>1, <2>2, <2>3, Buckets
  <2>7. e.name = IF h.level = "" THEN h.name ELSE h.level
    BY <2>2, <2>3
  <2>8. Tells(h, "database", e.database, e.name)
    BY <2>5, <2>6, <2>7 DEF Tells
  <2> QED BY <2>8, PrivilegesIn
<1> QED BY <1>2, <1>3

\* The capabilities of the facts, one by one.
LEMMA FlagsOf ==
    ASSUME NEW P, NEW Q, NEW R, NEW E, NEW x
    PROVE  x \in (IF P THEN {"SUPERUSER"} ELSE {}) \cup (IF Q THEN {"GRANT_ADMIN"} ELSE {})
                 \cup (IF R THEN {"LOCKED"} ELSE {}) \cup E
             <=> (x = "SUPERUSER" /\ P) \/ (x = "GRANT_ADMIN" /\ Q) \/ (x = "LOCKED" /\ R) \/ x \in E
<1>1. x \in (IF P THEN {"SUPERUSER"} ELSE {}) <=> x = "SUPERUSER" /\ P
  OBVIOUS
<1>2. x \in (IF Q THEN {"GRANT_ADMIN"} ELSE {}) <=> x = "GRANT_ADMIN" /\ Q
  OBVIOUS
<1>3. x \in (IF R THEN {"LOCKED"} ELSE {}) <=> x = "LOCKED" /\ R
  OBVIOUS
<1> DEFINE S == IF P THEN {"SUPERUSER"} ELSE {}
           G == IF Q THEN {"GRANT_ADMIN"} ELSE {}
           L == IF R THEN {"LOCKED"} ELSE {}
<1>4. x \in S \cup G \cup L \cup E <=> x \in S \/ x \in G \/ x \in L \/ x \in E
  OBVIOUS
<1> QED BY <1>1, <1>2, <1>3, <1>4, Zenon

LEMMA CapabilitiesIn ==
    ASSUME ReadKnown, NEW n, NEW x,
           "SUPERUSER" = x => ~Holds({"sqlserver_database_roles"}, "sysadmin"),
           "GRANT_ADMIN" = x => ~Holds({"sqlserver_database_roles"}, "securityadmin"),
           "LOCKED" = x => ~(dbType = "postgresql" /\ "valid_until" \in read.special)
    PROVE  x \in build_permission_facts(dbType, Snapshot, n).capabilities <=> capability_means(x)
<1>1. x \in build_permission_facts(dbType, Snapshot, n).capabilities <=>
        \/ x = "SUPERUSER" /\ superuser(dbType, Snapshot)
        \/ x = "GRANT_ADMIN" /\ grant_admin(dbType, Snapshot)
        \/ x = "LOCKED" /\ locked(dbType, Snapshot, n)
        \/ x \in Enabled(Snapshot)
  BY FlagsOf DEF build_permission_facts
<1>2. x \in Enabled(Snapshot) <=> HasAttribute(x, "yes")
  BY AttributeIn
<1>3. x = "SUPERUSER" => (superuser(dbType, Snapshot) <=> superuser_means)
  BY Capable
<1>4. x = "GRANT_ADMIN" => (grant_admin(dbType, Snapshot) <=> grant_admin_means)
  BY Capable
<1>5. x = "LOCKED" => (locked(dbType, Snapshot, n) <=> locked_means)
  BY Capable
<1> QED BY <1>1, <1>2, <1>3, <1>4, <1>5, Zenon DEF capability_means

\* A call that is valid says of the facts what it means of the account.
LEMMA CallsMean ==
    ASSUME ReadKnown, NEW n, NEW e, valid_fn(e), ~EmptyTypes(e), ~lost(e)
    PROVE  ~error_fn(e) /\ (eval_fn(build_permission_facts(dbType, Snapshot, n), e) <=> fn_means(e))
<1> DEFINE f == build_permission_facts(dbType, Snapshot, n)
<1> SUFFICES ~error_fn(e) /\ (eval_fn(f, e) <=> fn_means(e))
  OBVIOUS
<1>1. ~error_fn(e)
  BY DEF error_fn, EmptyTypes
<1>2. f.db_type = dbType /\ f.roles = extract_roles(Snapshot)
  BY DEF build_permission_facts
<1>3. ASSUME NEW x, x \in AsksFor(e)
      PROVE  x \in f.capabilities <=> capability_means(x)
  <2>1. /\ "SUPERUSER" = x => ~Holds({"sqlserver_database_roles"}, "sysadmin")
        /\ "GRANT_ADMIN" = x => ~Holds({"sqlserver_database_roles"}, "securityadmin")
        /\ "LOCKED" = x => ~(dbType = "postgresql" /\ "valid_until" \in read.special)
    BY <1>3 DEF lost
  <2> QED BY <2>1, CapabilitiesIn
<1>4. CASE e.fn = "db_type_in"
  <2>1. eval_fn(f, e) <=> f.db_type \in e.types
    BY <1>4 DEF eval_fn
  <2>2. fn_means(e) <=> dbType \in e.types
    BY <1>4 DEF fn_means
  <2> HIDE DEF f
  <2> QED BY <1>1, <1>2, <2>1, <2>2
<1>5. CASE e.fn = "is_superuser"
  <2>1. "SUPERUSER" \in AsksFor(e)
    BY <1>5 DEF AsksFor
  <2>2. ~HasAttribute("SUPERUSER", "yes")
    BY OwnCategories DEF HasAttribute
  <2>4. eval_fn(f, e) <=> "SUPERUSER" \in f.capabilities
    BY <1>5 DEF eval_fn
  <2>5. fn_means(e) <=> superuser_means
    BY <1>5 DEF fn_means
  <2> HIDE DEF f
  <2>3. "SUPERUSER" \in f.capabilities <=> superuser_means
    BY <1>3, <2>1, <2>2 DEF capability_means
  <2> QED BY <1>1, <2>3, <2>4, <2>5
<1>6. CASE e.fn = "has_capability"
  <2>1. e.name \in AsksFor(e)
    BY <1>6 DEF AsksFor
  <2>3. eval_fn(f, e) <=> e.name \in f.capabilities
    BY <1>6 DEF eval_fn
  <2>4. fn_means(e) <=> capability_means(e.name)
    BY <1>6 DEF fn_means
  <2> HIDE DEF f
  <2>5. e.name \in f.capabilities <=> capability_means(e.name)
    BY <1>3, <2>1
  <2> QED BY <1>1, <2>3, <2>4, <2>5
<1>7. CASE e.fn = "has_role"
  <2>1. eval_fn(f, e) <=> e.name \in f.roles
    BY <1>7 DEF eval_fn
  <2>2. fn_means(e) <=> Holds(RoleCategories, e.name)
    BY <1>7 DEF fn_means
  <2> HIDE DEF f
  <2> QED BY <1>1, <1>2, <2>1, <2>2, RolesIn
<1>8. CASE e.fn = "has_privilege"
  <2>1. eval_fn(f, e) <=> has_privilege(f, e)
    BY <1>8 DEF eval_fn
  <2>2. fn_means(e) <=>
           \/ e.scope = "global" /\ GrantedIn(e, {"mysql_global_privileges"})
           \/ e.scope = "server" /\ GrantedIn(e, {"sqlserver_server_permissions", "oracle_system_privileges"})
           \/ e.scope = "database" /\ GrantedIn(e, {"mysql_database_privileges",
                                    "postgresql_database_privileges", "sqlserver_database_permissions"})
    BY <1>8 DEF fn_means
  <2>3. CASE e.scope = "global"
    <3>1. e.name \in Privileges(f, "global", "") <=> GrantedIn(e, {"mysql_global_privileges"})
      BY <2>3, PlainPrivileges, Buckets DEF PlainLists
    <3> HIDE DEF f
    <3> QED BY <1>1, <2>1, <2>2, <2>3, <3>1 DEF has_privilege
  <2>4. CASE e.scope = "server"
    <3>1. e.name \in Privileges(f, "server", "") <=> GrantedIn(e, {"sqlserver_server_permissions"})
      BY <2>4, PlainPrivileges, Buckets DEF PlainLists
    <3>2. e.name \in Privileges(f, "system", "") <=> GrantedIn(e, {"oracle_system_privileges"})
      BY <2>4, PlainPrivileges, Buckets DEF PlainLists
    <3>3. GrantedIn(e, {"sqlserver_server_permissions", "oracle_system_privileges"}) <=>
            GrantedIn(e, {"sqlserver_server_permissions"}) \/ GrantedIn(e, {"oracle_system_privileges"})
      BY DEF GrantedIn
    <3> HIDE DEF f
    <3> QED BY <1>1, <2>1, <2>2, <2>4, <3>1, <3>2, <3>3 DEF has_privilege
  <2>5. CASE e.scope = "database"
    <3>1. dbType # "sqlserver" /\ (dbType = "mysql" => e.database = "")
      BY <1>8, <2>5 DEF lost
    <3>2. e.name \in Privileges(f, "database", e.database) \cup Privileges(f, "database_permissions", e.database) <=>
            GrantedIn(e, {"mysql_database_privileges", "postgresql_database_privileges", "sqlserver_database_permissions"})
      BY <2>5, <3>1, DatabasePrivileges
    <3> HIDE DEF f
    <3> QED BY <1>1, <2>1, <2>2, <2>5, <3>2 DEF has_privilege
  <2>6. CASE e.scope \notin {"global", "server", "database"}
    <3> HIDE DEF f
    <3> QED BY <1>1, <2>1, <2>2, <2>6 DEF has_privilege
  <2> QED BY <2>3, <2>4, <2>5, <2>6
<1>9. e.fn \in {"db_type_in", "is_superuser", "has_capability", "has_role", "has_privilege"}
  BY DEF valid_fn
<1> QED BY <1>4, <1>5, <1>6, <1>7, <1>8, <1>9

\* One that the API would have rejected says no, with an error.
LEMMA BadCallsSayNo ==
    ASSUME NEW F, NEW e \in Exprs, ~IsOp(e), ~validation[e]
    PROVE  evaluate(F)[e] = Outcome(FALSE, TRUE)
<1>1. ~valid_fn(e)
  BY ValidationUnfolds
<1>2. error_fn(e) = TRUE
  BY <1>1 DEF error_fn
<1>3. evaluate(F)[e] = Outcome(~error_fn(e) /\ eval_fn(F, e), error_fn(e))
  BY EvaluateUnfolds
<1>4. (~error_fn(e) /\ eval_fn(F, e)) = FALSE
  BY <1>2
<1> QED BY <1>2, <1>3, <1>4

----------------------------------------------------------------------------
(* The operators: of arguments that say what they mean, without an error,  *)
(* AND, OR and NOT say what they mean.  Which arguments all() and any()    *)
(* look at no longer matters.                                              *)

Asks(e) == validation[e] /\ plain[e] /\ faithful[e]
Says(F, e) == evaluate(F)[e] = Outcome(means[e], FALSE)

LEMMA OperatorsMean ==
    ASSUME NEW F, NEW e \in Exprs, IsOp(e), Asks(e), \A a \in Args(e) : Says(F, a)
    PROVE  Says(F, e)
<1> DEFINE results == [a \in Args(e) |-> evaluate(F)[a]]
           errors(decides) == \E i \in Visited(e.args, results, decides) : results[e.args[i]].error
<1>1. e.op \in {"AND", "OR", "NOT"} /\ (e.op = "NOT" => Len(e.args) = 1)
  BY ValidationUnfolds DEF Asks
<1>2. e.args \in Seq(Exprs) /\ Args(e) \subseteq Exprs
  BY ExprsAssumption DEF Args
<1>3. ASSUME NEW a \in Args(e) PROVE results[a].matched = means[a] /\ results[a].error = FALSE /\ means[a] \in BOOLEAN
  <2>1. results[a] = Outcome(means[a], FALSE)
    BY DEF Says
  <2>2. means[a] \in BOOLEAN
    BY <1>2, MeansUnfolds
  <2> HIDE DEF results
  <2> QED BY <2>1, <2>2 DEF Outcome
<1>4. evaluate(F)[e] = OpOutcome(e, evaluate(F))
  BY EvaluateUnfolds
<1>5. \A decides \in BOOLEAN : errors(decides) = FALSE
  <2>1. \A decides : Visited(e.args, results, decides) \subseteq DOMAIN e.args
    BY DEF Visited
  <2>2. \A i \in DOMAIN e.args : e.args[i] \in Args(e)
    BY DEF Args
  <2> HIDE DEF results
  <2> QED BY <1>3, <2>1, <2>2
<1>6. means[e] = CASE e.op = "NOT" /\ Len(e.args) = 1 -> ~means[e.args[1]]
                   [] e.op = "AND" -> \A a \in Args(e) : means[a]
                   [] e.op = "OR" -> \E a \in Args(e) : means[a]
                   [] OTHER -> FALSE
  BY MeansUnfolds
<1>7. CASE e.op = "NOT"
  <2>1. e.args[1] \in Args(e)
    BY <1>1, <1>2, <1>7 DEF Args
  <2>2. OpOutcome(e, evaluate(F)) = Outcome(~results[e.args[1]].matched, results[e.args[1]].error)
    BY <1>1, <1>7 DEF OpOutcome
  <2>3. means[e] = ~means[e.args[1]]
    BY <1>1, <1>6, <1>7
  <2> HIDE DEF results
  <2>4. OpOutcome(e, evaluate(F)) = Outcome(~means[e.args[1]], FALSE)
    BY <1>3, <2>1, <2>2
  <2> QED BY <1>4, <2>3, <2>4 DEF Says
<1>8. CASE e.op = "AND"
  <2>1. OpOutcome(e, evaluate(F)) = Outcome(\A a \in Args(e) : results[a].matched, errors(FALSE))
    BY <1>8 DEF OpOutcome
  <2>2. means[e] = \A a \in Args(e) : means[a]
    BY <1>6, <1>8
  <2> HIDE DEF results, errors
  <2>3. (\A a \in Args(e) : results[a].matched) = (\A a \in Args(e) : means[a])
    BY <1>3
  <2>4. errors(FALSE) = FALSE
    BY <1>5
  <2> QED BY <1>4, <2>1, <2>2, <2>3, <2>4 DEF Says
<1>9. CASE e.op = "OR"
  <2>1. OpOutcome(e, evaluate(F)) = Outcome(\E a \in Args(e) : results[a].matched, errors(TRUE))
    BY <1>9 DEF OpOutcome
  <2>2. means[e] = \E a \in Args(e) : means[a]
    BY <1>6, <1>9
  <2> HIDE DEF results, errors
  <2>3. (\E a \in Args(e) : results[a].matched) = (\E a \in Args(e) : means[a])
    BY <1>3
  <2>4. errors(TRUE) = FALSE
    BY <1>5
  <2> QED BY <1>4, <2>1, <2>2, <2>3, <2>4 DEF Says
<1> QED BY <1>1, <1>7, <1>8, <1>9

\* By induction along the arguments, every expression does.
LEMMA ExpressionsMean ==
    ASSUME ReadKnown, NEW n
    PROVE  \A e \in Exprs : Asks(e) => Says(build_permission_facts(dbType, Snapshot, n), e)
<1> DEFINE F == build_permission_facts(dbType, Snapshot, n)
           T == {e \in Exprs : Asks(e) => Says(F, e)}
<1>1. ASSUME NEW e \in Exprs, \A a \in ArgsOf(e) : a \in T PROVE e \in T
  <2> SUFFICES ASSUME Asks(e) PROVE Says(F, e)
    OBVIOUS
  <2>1. CASE IsOp(e)
    <3>1. \A a \in Args(e) : a \in T
      BY <1>1, <2>1 DEF ArgsOf
    <3>2. \A a \in Args(e) : Asks(a)
      BY <2>1, ValidationUnfolds, PlainUnfolds, FaithfulUnfolds DEF Asks
    <3> QED BY <2>1, <3>1, <3>2, OperatorsMean
  <2>2. CASE ~IsOp(e)
    <3>1. valid_fn(e) /\ ~EmptyTypes(e) /\ ~lost(e)
      BY <2>2, ValidationUnfolds, PlainUnfolds, FaithfulUnfolds DEF Asks
    <3>2. ~error_fn(e) /\ (eval_fn(F, e) <=> fn_means(e))
      BY <3>1, CallsMean
    <3>3. evaluate(F)[e] = Outcome(~error_fn(e) /\ eval_fn(F, e), error_fn(e))
      BY <2>2, EvaluateUnfolds
    <3>4. means[e] = fn_means(e) /\ means[e] \in BOOLEAN
      BY <2>2, MeansUnfolds
    <3>5. error_fn(e) = FALSE
      BY <3>2 DEF error_fn
    <3>6. (~error_fn(e) /\ eval_fn(F, e)) = means[e]
      BY <3>2, <3>4
    <3> QED BY <3>3, <3>5, <3>6 DEF Says
  <2> QED BY <2>1, <2>2
<1> HIDE DEF T
<1>2. \A e \in Exprs : e \in T
  BY <1>1, ByArguments
<1> QED BY <1>2 DEF T

----------------------------------------------------------------------------
(* The facts are always those of the state the account was last read in.   *)

RuleInv ==
    /\ dbType \in DOMAIN Servers
    /\ facts # NoRow => /\ read \in Servers[dbType]
                        /\ \E n : facts = build_permission_facts(dbType, snapshot_of(read), n)

LEMMA RuleInvInit == PermissionInit => RuleInv
BY DEF PermissionInit, RuleInv

LEMMA RuleInvKept == RuleInv /\ [PermissionNext]_permissionVars => RuleInv'
<1> SUFFICES ASSUME RuleInv, [PermissionNext]_permissionVars PROVE RuleInv'
  OBVIOUS
<1>1. CASE Expires
  BY <1>1 DEF Expires, RuleInv
<1>2. CASE SyncPermission
  <2>1. PICK acct \in Servers[dbType] :
           read' = acct /\ facts' = build_permission_facts(dbType, snapshot_of(acct), nights)
    BY <1>2 DEF SyncPermission, facts_after
  <2>2. dbType' = dbType
    BY <1>2 DEF SyncPermission
  <2> QED BY <2>1, <2>2 DEF RuleInv
<1>3. CASE UNCHANGED permissionVars
  BY <1>3 DEF permissionVars, RuleInv
<1> QED BY <1>1, <1>2, <1>3 DEF PermissionNext

LEMMA RuleInvMeans == RuleInv => RulesMeanGrants
<1> SUFFICES ASSUME RuleInv, facts # NoRow, NEW e \in Exprs
             PROVE  /\ Asks(e) => Says(facts, e)
                    /\ ~IsOp(e) /\ ~validation[e] => evaluate(facts)[e] = Outcome(FALSE, TRUE)
  BY DEF RulesMeanGrants, Asks, Says
<1>1. ReadKnown
  BY DEF RuleInv, ReadKnown
<1>2. PICK n : facts = build_permission_facts(dbType, Snapshot, n)
  BY DEF RuleInv, Snapshot
<1> QED BY <1>1, <1>2, ExpressionsMean, BadCallsSayNo

THEOREM RulesAlwaysMeanGrants == PermissionSpec => []RulesMeanGrants
BY RuleInvInit, RuleInvKept, RuleInvMeans, PTL DEF PermissionSpec

\* PermissionsTell: however the logins of a SQL Server are read while its
\* administrators change it, and whatever the synchronisations of an account
\* wrote before, what is read is what is held, and a rule says of it what its
\* expression means on the server.
THEOREM PermissionsAreTold == PermissionSpec /\ LoginsSpec => []PermissionsTell
BY LoginsAreTold, RulesAlwaysMeanGrants, PTL DEF PermissionsTell
=============================================================================
