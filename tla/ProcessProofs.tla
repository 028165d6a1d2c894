--------------------------- MODULE ProcessProofs ---------------------------
(***************************************************************************)
(* Proofs about what runs beside the requests: no reload of the scheduler  *)
(* loses a job silently, and the log queue stores every entry at most once *)
(* and in its place.                                                       *)
(***************************************************************************)
EXTENDS Scheduler, LogQueue, TLAPS

(***************************************************************************)
(* The scheduler                                                           *)
(***************************************************************************)

\* Reload c has yet to add job j.
Owes(c, j) == pc[c] = "remove" \/ (pc[c] \in {"add", "insert"} /\ j \in todo[c])

\* Requests are served by a process that is up, they know the job they are
\* about, and what a reload is about to insert is still on its list.
ServedWhenUp ==
    /\ life # "up" => \A c \in Requests : pc[c] \in {"idle", "done"}
    /\ \A c \in Requests :
          /\ pc[c] \in {"delete", "edit", "insert"} => target[c] \in Jobs
          /\ pc[c] = "insert" => target[c] \in todo[c]

\* A job that is missing without an excuse will be added: by the start of the
\* process or by a reload.
MissingIsOwed ==
    life # "down" =>
        \A j \in Enabled \ excused : store[j] = Absent =>
            (life = "loading" /\ j \in boot) \/ \E c \in Requests : Owes(c, j)

SchedulerInv == TypeOK /\ ServedWhenUp /\ MissingIsOwed

\* What becomes of a job is a job, and no job is absent.
LEMMA JobFacts ==
    /\ DefaultJob \in Job
    /\ \A over \in BOOLEAN : [trigger |-> "edited", paused |-> over] \in Job
    /\ \A job \in Job, paused \in BOOLEAN : [trigger |-> job.trigger, paused |-> paused] \in Job
    /\ Absent \notin Job
  BY AbsentIsNoJob DEF DefaultJob, Job

\* The store is empty or has jobs, and the scheduler is down.
LEMMA SchedulerInit == Init => SchedulerInv
  BY EnabledAreBuiltin, RestartsBounded, JobFacts DEF Init, SchedulerInv, TypeOK, ServedWhenUp, MissingIsOwed

\* Types and what requests know, action by action.
LEMMA SchedulerTypeStep == SchedulerInv /\ [Next]_vars => TypeOK' /\ ServedWhenUp'
<1> SUFFICES ASSUME TypeOK, ServedWhenUp, [Next]_vars PROVE TypeOK' /\ ServedWhenUp'
  BY DEF SchedulerInv
<1> USE EnabledAreBuiltin, RestartsBounded, JobFacts DEF TypeOK, ServedWhenUp, process, work, requests
<1>1. CASE init_scheduler
  BY <1>1 DEF init_scheduler
<1>2. ASSUME NEW j \in Jobs, BootTask(j) PROVE TypeOK' /\ ServedWhenUp'
  BY <1>2 DEF BootTask
<1>3. CASE BootDone
  BY <1>3 DEF BootDone
<1>4. CASE Crash
  BY <1>4 DEF Crash
<1>5. ASSUME NEW j \in Jobs, Fire(j) \/ FinishInstance(j) PROVE TypeOK' /\ ServedWhenUp'
  BY <1>5 DEF Fire, RunsOut, FinishInstance
<1>6. ASSUME NEW c \in Requests, NEW j \in Jobs, NEW paused \in BOOLEAN, SetPaused(c, j, paused) PROVE TypeOK' /\ ServedWhenUp'
  BY <1>6 DEF SetPaused, RunsOut, Goto
<1>7. ASSUME NEW c \in Requests, ReloadList(c) PROVE TypeOK' /\ ServedWhenUp'
  BY <1>7 DEF ReloadList, Goto, Present
<1>8. ASSUME NEW c \in Requests, NEW j \in Jobs, Lookup(c, j, "delete") \/ Lookup(c, j, "edit") PROVE TypeOK' /\ ServedWhenUp'
  BY <1>8 DEF Lookup, Goto
<1>9. ASSUME NEW c \in Requests, NEW j \in Jobs, run_job_in_background(c, j) PROVE TypeOK' /\ ServedWhenUp'
  BY <1>9 DEF run_job_in_background, Goto
<1>10. ASSUME NEW c \in Requests, FinishManual(c) PROVE TypeOK' /\ ServedWhenUp'
  BY <1>10 DEF FinishManual
<1>11. ASSUME NEW c \in Requests, DeleteJob(c) PROVE TypeOK' /\ ServedWhenUp'
  BY <1>11 DEF DeleteJob, Goto
<1>12. ASSUME NEW c \in Requests, upsert(c) PROVE TypeOK' /\ ServedWhenUp'
  BY <1>12 DEF upsert, Goto
<1>13. ASSUME NEW c \in Requests, NEW j \in Jobs, ReloadRemove(c, j) PROVE TypeOK' /\ ServedWhenUp'
  BY <1>13 DEF ReloadRemove
<1>14. ASSUME NEW c \in Requests, NEW j \in Jobs, ReloadClear(c, j) PROVE TypeOK' /\ ServedWhenUp'
  BY <1>14 DEF ReloadClear, Goto
<1>15. ASSUME NEW c \in Requests, ReloadRead(c) PROVE TypeOK' /\ ServedWhenUp'
  BY <1>15 DEF ReloadRead, Goto
<1>16. ASSUME NEW c \in Requests, ReloadInsert(c) PROVE TypeOK' /\ ServedWhenUp'
  BY <1>16 DEF ReloadInsert, Goto
<1>17. ASSUME NEW c \in Requests, ReloadDone(c) PROVE TypeOK' /\ ServedWhenUp'
  BY <1>17 DEF ReloadDone, Goto
<1>18. CASE UNCHANGED vars
  BY <1>18 DEF vars
<1> QED
  BY <1>1, <1>2, <1>3, <1>4, <1>5, <1>6, <1>7, <1>8, <1>9, <1>10, <1>11, <1>12, <1>13, <1>14, <1>15, <1>16, <1>17, <1>18
     DEF Next, Loading, Running, Arrive, Continue

\* A step that makes a job missing excuses it or leaves somebody who adds it.
LEMMA SchedulerOwesStep == SchedulerInv /\ [Next]_vars => MissingIsOwed'
<1> SUFFICES ASSUME TypeOK, ServedWhenUp, MissingIsOwed, [Next]_vars PROVE MissingIsOwed'
  BY DEF SchedulerInv
<1> USE EnabledAreBuiltin, JobFacts DEF TypeOK, ServedWhenUp, MissingIsOwed, Owes, process, work, requests
<1>1. CASE init_scheduler
  BY <1>1 DEF init_scheduler
<1>2. ASSUME NEW j \in Jobs, BootTask(j) PROVE MissingIsOwed'
  BY <1>2 DEF BootTask
<1>3. CASE BootDone
  BY <1>3 DEF BootDone
<1>4. CASE Crash
  BY <1>4 DEF Crash
<1>5. ASSUME NEW j \in Jobs, Fire(j) \/ FinishInstance(j) PROVE MissingIsOwed'
  BY <1>5 DEF Fire, RunsOut, FinishInstance
<1>6. ASSUME NEW c \in Requests, NEW j \in Jobs, NEW paused \in BOOLEAN, SetPaused(c, j, paused) PROVE MissingIsOwed'
  BY <1>6 DEF SetPaused, RunsOut, Goto
<1>7. ASSUME NEW c \in Requests, ReloadList(c) PROVE MissingIsOwed'
  BY <1>7 DEF ReloadList, Goto, Present
<1>8. ASSUME NEW c \in Requests, NEW j \in Jobs, Lookup(c, j, "delete") \/ Lookup(c, j, "edit") PROVE MissingIsOwed'
  BY <1>8 DEF Lookup, Goto
<1>9. ASSUME NEW c \in Requests, NEW j \in Jobs, run_job_in_background(c, j) PROVE MissingIsOwed'
  BY <1>9 DEF run_job_in_background, Goto
<1>10. ASSUME NEW c \in Requests, FinishManual(c) PROVE MissingIsOwed'
  BY <1>10 DEF FinishManual
<1>11. ASSUME NEW c \in Requests, DeleteJob(c) PROVE MissingIsOwed'
  BY <1>11 DEF DeleteJob, Goto
<1>12. ASSUME NEW c \in Requests, upsert(c) PROVE MissingIsOwed'
  BY <1>12 DEF upsert, Goto
<1>13. ASSUME NEW c \in Requests, NEW j \in Jobs, ReloadRemove(c, j) PROVE MissingIsOwed'
  BY <1>13 DEF ReloadRemove
<1>14. ASSUME NEW c \in Requests, NEW j \in Jobs, ReloadClear(c, j) PROVE MissingIsOwed'
  BY <1>14 DEF ReloadClear, Goto
<1>15. ASSUME NEW c \in Requests, ReloadRead(c) PROVE MissingIsOwed'
  BY <1>15 DEF ReloadRead, Goto
<1>16. ASSUME NEW c \in Requests, ReloadInsert(c) PROVE MissingIsOwed'
  BY <1>16 DEF ReloadInsert, Goto
<1>17. ASSUME NEW c \in Requests, ReloadDone(c) PROVE MissingIsOwed'
  BY <1>17 DEF ReloadDone, Goto
<1>18. CASE UNCHANGED vars
  BY <1>18 DEF vars
<1> QED
  BY <1>1, <1>2, <1>3, <1>4, <1>5, <1>6, <1>7, <1>8, <1>9, <1>10, <1>11, <1>12, <1>13, <1>14, <1>15, <1>16, <1>17, <1>18
     DEF Next, Loading, Running, Arrive, Continue

\* The invariant holds with any number of jobs and requests.
THEOREM SchedulerInvariant == Spec => []SchedulerInv
<1>1. Init => SchedulerInv
  BY SchedulerInit
<1>2. SchedulerInv /\ [Next]_vars => SchedulerInv'
  BY SchedulerTypeStep, SchedulerOwesStep DEF SchedulerInv
<1> QED BY <1>1, <1>2, PTL DEF Spec

(* However reloads, edits, deletions and restarts overlap, a job of the       *)
(* configuration is missing while the scheduler is at rest only if it was     *)
(* deleted or an error was reported (reload_jobs and init_scheduler).         *)
THEOREM JobsKept == Spec => []NoJobLostSilently
<1>1. SchedulerInv => NoJobLostSilently
  BY EnabledAreBuiltin DEF SchedulerInv, TypeOK, MissingIsOwed, Owes, NoJobLostSilently, Present
<1> QED BY <1>1, SchedulerInvariant, PTL

(* A restart neither removes a job nor undoes what requests made of it        *)
(* before, but for a job that runs out (init_scheduler,                       *)
(* _register_task_from_config without force).                                 *)
THEOREM RestartKeeps == Spec => RestartKeepsJobs
<1>1. SchedulerInv /\ [Next]_vars => (life # "up" => \A j \in Present : store'[j] = store[j] \/ LastRun(j))
  <2> SUFFICES ASSUME SchedulerInv, [Next]_vars, life # "up", NEW j \in Present PROVE store'[j] = store[j] \/ LastRun(j)
    OBVIOUS
  <2> USE DEF SchedulerInv, TypeOK, ServedWhenUp, Present
  <2>1. ASSUME NEW k \in Jobs, BootTask(k) PROVE store'[j] = store[j]
    BY <2>1 DEF BootTask
  <2>2. CASE init_scheduler \/ BootDone \/ Crash \/ UNCHANGED vars
    BY <2>2 DEF init_scheduler, BootDone, Crash, vars
  <2>3. ASSUME NEW k \in Jobs, Fire(k) \/ FinishInstance(k) PROVE store'[j] = store[j] \/ LastRun(j)
    <3>1. CASE store' = store
      BY <3>1
    <3>2. CASE Fire(k) /\ RunsOut(k)
      BY <3>2 DEF Fire, RunsOut, LastRun
    <3> QED BY <2>3, <3>1, <3>2 DEF Fire, FinishInstance
  <2>4. ASSUME NEW c \in Requests, Arrive(c) \/ Continue(c) \/ FinishManual(c) PROVE store'[j] = store[j]
    BY <2>4 DEF Arrive, Continue, SetPaused, Lookup, DeleteJob, run_job_in_background, FinishManual, ReloadList,
       ReloadRemove, ReloadClear, ReloadRead, ReloadInsert, ReloadDone, upsert, Goto
  <2> QED BY <2>1, <2>2, <2>3, <2>4, EnabledAreBuiltin DEF Next, Loading, Running
<1> QED BY <1>1, SchedulerInvariant, PTL DEF Spec, RestartKeepsJobs

(***************************************************************************)
(* The log queue                                                           *)
(***************************************************************************)

\* Every entry of S was accepted before every entry of T.
Before(S, T) == \A m \in S, n \in T : m < n
Rising(s) == \A i, j \in DOMAIN s : i < j => s[i] < s[j]

\* What Append, Head and Tail, and \o do to the entries of a sequence.
LEMMA AppendFacts ==
    ASSUME NEW s \in Seq(Nat), NEW n \in Nat
    PROVE  /\ Append(s, n) \in Seq(Nat)
           /\ ToSet(Append(s, n)) = ToSet(s) \cup {n}
           /\ Rising(s) /\ Before(ToSet(s), {n}) => Rising(Append(s, n))
<1>1. /\ Append(s, n) \in Seq(Nat) /\ DOMAIN Append(s, n) = 1 .. Len(s) + 1 /\ DOMAIN s = 1 .. Len(s)
      /\ \A i \in DOMAIN s : s[i] \in Nat /\ Append(s, n)[i] = s[i]
      /\ Append(s, n)[Len(s) + 1] = n
  OBVIOUS
<1>2. ToSet(Append(s, n)) = ToSet(s) \cup {n}
  BY <1>1 DEF ToSet
<1>3. Rising(s) /\ Before(ToSet(s), {n}) => Rising(Append(s, n))
  BY <1>1 DEF ToSet, Rising, Before
<1> QED BY <1>1, <1>2, <1>3

LEMMA TailFacts ==
    ASSUME NEW s \in Seq(Nat), s # << >>
    PROVE  /\ Head(s) \in Nat /\ Tail(s) \in Seq(Nat) /\ Len(Tail(s)) = Len(s) - 1
           /\ ToSet(s) = {Head(s)} \cup ToSet(Tail(s))
           /\ Rising(s) => Rising(Tail(s)) /\ Before({Head(s)}, ToSet(Tail(s)))
<1>1. /\ Head(s) \in Nat /\ Tail(s) \in Seq(Nat) /\ Len(Tail(s)) = Len(s) - 1
      /\ Head(s) = s[1] /\ \A i \in DOMAIN Tail(s) : i + 1 \in DOMAIN s /\ Tail(s)[i] = s[i + 1]
  OBVIOUS
<1>2. ToSet(s) \subseteq {Head(s)} \cup ToSet(Tail(s))
  <2> SUFFICES ASSUME NEW i \in DOMAIN s, i # 1 PROVE s[i] \in ToSet(Tail(s))
    BY <1>1 DEF ToSet
  <2>1. i - 1 \in DOMAIN Tail(s) /\ Tail(s)[i - 1] = s[i]
    BY <1>1
  <2> QED BY <2>1 DEF ToSet
<1>3. {Head(s)} \cup ToSet(Tail(s)) \subseteq ToSet(s)
  BY <1>1 DEF ToSet
<1>4. Rising(s) => Rising(Tail(s)) /\ Before({Head(s)}, ToSet(Tail(s)))
  BY <1>1, SMTT(30) DEF ToSet, Rising, Before
<1> QED BY <1>1, <1>2, <1>3, <1>4

LEMMA ConcatFacts ==
    ASSUME NEW s \in Seq(Nat), NEW t \in Seq(Nat)
    PROVE  /\ s \o t \in Seq(Nat)
           /\ ToSet(s \o t) = ToSet(s) \cup ToSet(t)
           /\ Rising(s) /\ Rising(t) /\ Before(ToSet(s), ToSet(t)) => Rising(s \o t)
<1>1. /\ s \o t \in Seq(Nat) /\ Len(s) \in Nat /\ Len(t) \in Nat
      /\ DOMAIN s = 1 .. Len(s) /\ DOMAIN t = 1 .. Len(t) /\ DOMAIN (s \o t) = 1 .. Len(s) + Len(t)
      /\ \A i \in 1 .. Len(s) + Len(t) : (s \o t)[i] = IF i <= Len(s) THEN s[i] ELSE t[i - Len(s)]
  OBVIOUS
<1>2. ToSet(s \o t) = ToSet(s) \cup ToSet(t)
  <2>1. \A i \in DOMAIN t : i + Len(s) \in DOMAIN (s \o t) /\ (s \o t)[i + Len(s)] = t[i]
    BY <1>1, SMTT(30)
  <2>2. \A i \in DOMAIN s : i \in DOMAIN (s \o t) /\ (s \o t)[i] = s[i]
    BY <1>1
  <2>3. \A i \in DOMAIN (s \o t) : (s \o t)[i] \in ToSet(s) \cup ToSet(t)
    BY <1>1 DEF ToSet
  <2>4. ToSet(s) \subseteq ToSet(s \o t)
    BY <2>2 DEF ToSet
  <2>5. ToSet(t) \subseteq ToSet(s \o t)
    BY <2>1 DEF ToSet
  <2>6. ToSet(s \o t) \subseteq ToSet(s) \cup ToSet(t)
    BY <2>3 DEF ToSet
  <2> QED BY <2>4, <2>5, <2>6
<1>3. Rising(s) /\ Rising(t) /\ Before(ToSet(s), ToSet(t)) => Rising(s \o t)
  BY <1>1 DEF ToSet, Rising, Before
<1> QED BY <1>1, <1>2, <1>3

\* The places an entry goes through, the last first: stored, batch or buffer, queue.
\* Until close gives up, nothing is shared.
InOrder ==
    /\ stored \in Seq(Nat) /\ batch \in Seq(Nat) /\ buffer \in Seq(Nat) /\ queue \in Seq(Nat) /\ closing \in Seq(Nat)
    /\ Rising(batch) /\ Rising(buffer) /\ Rising(queue) /\ StoredInOrder
    /\ Before(ToSet(stored), ToSet(queue)) /\ Before(ToSet(batch), ToSet(queue)) /\ Before(ToSet(buffer), ToSet(queue))
    /\ Before(ToSet(stored) \ shared, shared) /\ Before(shared, ToSet(queue))

\* What the thread copied is shared, or comes behind the rows; what is in the
\* buffer is shared, or comes behind the rows and nobody closes.
Flushing ==
    /\ ToSet(batch) \subseteq shared \/ (shared = {} /\ Before(ToSet(stored), ToSet(batch)))
    /\ \/ ToSet(buffer) \subseteq shared
       \/ mpc \in {"running", "join"} /\ Before(ToSet(stored), ToSet(buffer))
    /\ ToSet(closing) \subseteq shared

\* Every accepted entry is in one of them, lost with a failed transaction or shared.
Held == ToSet(stored) \cup ToSet(batch) \cup ToSet(buffer) \cup ToSet(queue)
Placed ==
    /\ accepted \in Nat /\ shared \subseteq 1 .. accepted
    /\ Held \cup lost \cup shared = 1 .. accepted
    /\ lost \cap Held \subseteq shared

\* A batch is being written while the buffer is empty or shared, and nothing is
\* shared before close gives up.
Turns ==
    /\ wpc \in {"loop", "get", "check", "flush", "last_flush", "clear", "last_clear", "write", "last_write", "done"}
    /\ mpc \in {"running", "join", "flush", "clear", "write", "exited"}
    /\ wpc \in {"write", "last_write", "done"} => ToSet(buffer) \subseteq shared
    /\ wpc \notin {"clear", "last_clear", "write", "last_write"} => batch = << >>
    /\ wpc \in {"clear", "last_clear"} => ToSet(batch) = ToSet(buffer) \/ ToSet(batch) \cup ToSet(buffer) \subseteq shared
    /\ mpc \in {"running", "join"} => shared = {} /\ closing = << >>

LogInv == InOrder /\ Flushing /\ Placed /\ Turns

\* Nothing has been accepted.
LEMMA LogInitInv == LogInit => LogInv
  BY LogAssumption DEF LogInit, LogInv, InOrder, Flushing, Placed, Held, Turns, Rising, Before, ToSet, StoredInOrder

\* Entries that go to the table.
LEMMA StoreFacts ==
    ASSUME NEW entries \in Seq(Nat), stored \in Seq(Nat), StoredInOrder, Before(ToSet(stored) \ shared, shared),
           \/ ToSet(entries) \subseteq shared
           \/ shared = {} /\ Rising(entries) /\ Before(ToSet(stored), ToSet(entries)),
           stored' = stored \o entries, shared' = shared, shared \subseteq Nat
    PROVE  /\ stored' \in Seq(Nat) /\ StoredInOrder' /\ ToSet(stored') = ToSet(stored) \cup ToSet(entries)
           /\ Before(ToSet(stored') \ shared, shared)
<1>1. stored' \in Seq(Nat) /\ ToSet(stored') = ToSet(stored) \cup ToSet(entries)
  BY ConcatFacts
<1>2. CASE shared = {} /\ Rising(entries) /\ Before(ToSet(stored), ToSet(entries))
  <2>1. Rising(stored)
    BY <1>2 DEF StoredInOrder, Rising
  <2>2. Rising(stored')
    BY <1>2, <2>1, ConcatFacts
  <2> QED BY <1>1, <1>2, <2>2 DEF StoredInOrder, Rising, Before
<1>3. CASE ToSet(entries) \subseteq shared
  <2>1. /\ Len(stored) \in Nat /\ DOMAIN stored = 1 .. Len(stored) /\ DOMAIN entries = 1 .. Len(entries)
        /\ DOMAIN stored' = 1 .. Len(stored) + Len(entries)
        /\ \A i \in DOMAIN stored' : stored'[i] = IF i <= Len(stored) THEN stored[i] ELSE entries[i - Len(stored)]
    OBVIOUS
  <2>2. \A i \in DOMAIN stored' : i <= Len(stored) => i \in DOMAIN stored /\ stored'[i] = stored[i]
    BY <2>1
  <2>3. \A i \in DOMAIN stored' : ~(i <= Len(stored)) => stored'[i] \in shared
    <3> SUFFICES ASSUME NEW i \in DOMAIN stored', ~(i <= Len(stored)) PROVE stored'[i] \in shared
      OBVIOUS
    <3>1. i - Len(stored) \in DOMAIN entries /\ stored'[i] = entries[i - Len(stored)]
      BY <2>1
    <3> QED BY <1>3, <3>1 DEF ToSet
  <2>4. ASSUME NEW i \in DOMAIN stored', NEW j \in DOMAIN stored', i < j
        PROVE  stored'[i] < stored'[j] \/ {stored'[i], stored'[j]} \subseteq shared
    <3>1. i \in Nat /\ j \in Nat /\ Len(stored) \in Nat
      BY <2>1
    <3>2. CASE j <= Len(stored)
      BY <2>2, <2>4, <3>1, <3>2 DEF StoredInOrder
    <3>3. CASE ~(j <= Len(stored)) /\ i <= Len(stored)
      <4>1. stored'[j] \in shared /\ stored'[i] \in ToSet(stored)
        BY <2>2, <2>3, <3>3 DEF ToSet
      <4> QED BY <4>1 DEF Before
    <3>4. CASE ~(i <= Len(stored))
      BY <2>3, <2>4, <3>1, <3>4
    <3> QED BY <3>1, <3>2, <3>3, <3>4
  <2>5. StoredInOrder'
    BY <2>4 DEF StoredInOrder
  <2>6. Before(ToSet(stored') \ shared, shared)
    BY <1>1, <1>3 DEF Before
  <2> QED BY <1>1, <2>5, <2>6
<1> QED BY <1>2, <1>3

\* An entry that is put goes behind all others.
LEMMA PutKeeps ==
    ASSUME LogInv, NEW l \in Loggers, Put(l)
    PROVE  LogInv'
<1> USE DEF LogInv, InOrder, Flushing, Placed, Held, Turns
<1>1. UNCHANGED <<buffer, batch, closing, stored, lost, shared, wpc, mpc>>
  BY DEF Put
<1>2. CASE accepted' = accepted + 1 /\ queue' = Append(queue, accepted + 1)
  <2>1. accepted + 1 \in Nat /\ Before(ToSet(queue), {accepted + 1})
    BY DEF Before
  <2>2. /\ queue' \in Seq(Nat) /\ ToSet(queue') = ToSet(queue) \cup {accepted + 1}
        /\ Rising(queue')
    BY <1>2, <2>1, AppendFacts
  <2>3. InOrder'
    BY <1>1, <2>2 DEF Before, StoredInOrder
  <2>4. Placed'
    <3>1. 1 .. accepted + 1 = (1 .. accepted) \cup {accepted + 1} /\ accepted + 1 \notin 1 .. accepted
      OBVIOUS
    <3> QED BY <1>1, <1>2, <2>2, <3>1
  <2> QED BY <1>1, <2>3, <2>4 DEF Before
<1>3. CASE UNCHANGED <<accepted, queue>>
  BY <1>1, <1>3 DEF Before, StoredInOrder
<1> QED BY <1>2, <1>3 DEF Put

\* The entry that is taken from the queue is behind those taken before.
LEMMA GetKeeps ==
    ASSUME LogInv, Get
    PROVE  LogInv'
<1> USE DEF LogInv, InOrder, Flushing, Placed, Held, Turns
<1>1. /\ UNCHANGED <<stored, batch, closing, lost, accepted, mpc>>
      /\ wpc = "get" /\ wpc' = "check" /\ mpc # "exited"
  BY DEF Get, Alive
<1>2. CASE /\ queue # << >> /\ buffer' = Append(buffer, Head(queue)) /\ queue' = Tail(queue)
           /\ shared' = IF GivenUp THEN shared \cup {Head(queue)} ELSE shared
  <2>1. /\ Head(queue) \in Nat /\ queue' \in Seq(Nat) /\ Rising(queue')
        /\ ToSet(queue) = {Head(queue)} \cup ToSet(queue')
        /\ Before({Head(queue)}, ToSet(queue'))
    BY <1>2, TailFacts
  <2>2. /\ buffer' \in Seq(Nat) /\ ToSet(buffer') = ToSet(buffer) \cup {Head(queue)}
        /\ Rising(buffer')
    BY <1>2, <2>1, AppendFacts DEF Before
  <2>3. shared' = shared \/ shared' = shared \cup {Head(queue)}
    BY <1>2
  <2>4. StoredInOrder'
    BY <1>1, <2>3 DEF StoredInOrder
  <2>5. Before(ToSet(stored) \ shared', shared')
    BY <2>1, <2>3 DEF Before
  <2>6. InOrder'
    <3>1. /\ Before(ToSet(stored), ToSet(queue')) /\ Before(ToSet(batch), ToSet(queue'))
          /\ Before(ToSet(buffer'), ToSet(queue')) /\ Before(shared', ToSet(queue'))
      BY <2>1, <2>2, <2>3 DEF Before
    <3> QED BY <1>1, <2>1, <2>2, <2>4, <2>5, <3>1
  <2>7. batch = << >> /\ ToSet(batch) = {}
    BY <1>1 DEF ToSet
  <2>8. Placed'
    BY <1>1, <2>1, <2>2, <2>3 DEF Before
  <2>9. Flushing' /\ Turns'
    <3>1. CASE GivenUp
      <4>1. mpc \notin {"running", "join"} /\ shared' = shared \cup {Head(queue)}
        BY <1>2, <3>1 DEF GivenUp
      <4> QED BY <1>1, <2>2, <2>7, <4>1
    <3>2. CASE ~GivenUp
      <4>1. mpc \in {"running", "join"} /\ shared' = shared /\ shared = {}
        BY <1>1, <1>2, <3>2 DEF GivenUp
      <4>2. Before(ToSet(stored), ToSet(buffer'))
        BY <2>1, <2>2, <4>1 DEF Before
      <4> QED BY <1>1, <2>2, <2>7, <4>1, <4>2
    <3> QED BY <3>1, <3>2
  <2> QED BY <2>6, <2>8, <2>9
<1>3. CASE UNCHANGED <<buffer, queue, shared>>
  BY <1>1, <1>3 DEF StoredInOrder
<1> QED BY <1>2, <1>3 DEF Get

\* A flush writes what it copied.
LEMMA WriteKeeps ==
    ASSUME LogInv, NEW entries \in Seq(Nat), Written(entries), UNCHANGED <<accepted, queue, buffer, shared>>,
           \/ ToSet(entries) \subseteq shared
           \/ /\ shared = {} /\ Rising(entries) /\ Before(ToSet(stored), ToSet(entries)) /\ entries = batch
              /\ ToSet(buffer) = {},
           batch' \in {batch, << >>}, closing' \in {closing, << >>},
           mpc' = mpc \/ (mpc' = "exited" /\ mpc \notin {"running", "join"}),
           \/ wpc' = wpc /\ batch' = batch /\ ToSet(entries) \subseteq shared
           \/ /\ wpc \in {"write", "last_write"} /\ wpc' \in {"loop", "done"} /\ batch' = << >> /\ entries = batch
    PROVE  LogInv'
<1> USE DEF LogInv, InOrder, Flushing, Placed, Held, Turns
<1>1. Rising(<< >>) /\ ToSet(<< >>) = {} /\ << >> \in Seq(Nat)
  BY DEF Rising, ToSet
<1>2. shared \subseteq Nat
  OBVIOUS
<1>3. Before(ToSet(entries), ToSet(queue))
  BY DEF Before
<1>4. CASE stored' = stored \o entries /\ UNCHANGED lost
  <2>1. /\ stored' \in Seq(Nat) /\ StoredInOrder' /\ ToSet(stored') = ToSet(stored) \cup ToSet(entries)
        /\ Before(ToSet(stored') \ shared, shared)
    BY <1>2, <1>4, StoreFacts
  <2>2. InOrder'
    BY <1>1, <1>3, <2>1 DEF Before
  <2>3. Flushing'
    BY <1>1, <2>1 DEF Before
  <2>4. Placed'
    BY <1>1, <1>4, <2>1
  <2>5. Turns'
    BY <1>1
  <2> QED BY <2>2, <2>3, <2>4, <2>5
<1>5. CASE stored' = stored /\ lost' = lost \cup ToSet(entries)
  <2>1. InOrder'
    BY <1>1, <1>5 DEF Before, StoredInOrder
  <2>2. Flushing' /\ Turns'
    BY <1>1, <1>5 DEF Before
  <2>3. Placed'
    <3>1. CASE ToSet(entries) \subseteq shared
      BY <1>1, <1>5, <3>1
    <3>2. CASE /\ shared = {} /\ entries = batch /\ ToSet(buffer) = {} /\ Before(ToSet(stored), ToSet(entries)) /\ batch' = << >>
      <4>1. ToSet(entries) \cap (ToSet(stored) \cup ToSet(queue)) = {}
        BY <1>3, <3>2 DEF Before
      <4> QED BY <1>1, <1>5, <3>2, <4>1
    <3> QED BY <3>1, <3>2
  <2> QED BY <2>1, <2>2, <2>3
<1> QED BY <1>4, <1>5 DEF Written

\* Close stops to wait: what the buffer holds is shared from now on.
LEMMA JoinKeeps ==
    ASSUME LogInv, Join
    PROVE  LogInv'
<1> USE DEF LogInv, InOrder, Flushing, Placed, Held, Turns
<1>1. /\ UNCHANGED <<accepted, queue, buffer, batch, closing, stored, lost, wpc>> /\ mpc = "join" /\ mpc' = "flush"
      /\ shared' = IF wpc \in {"done", "write", "last_write"} THEN {} ELSE ToSet(buffer) \cup ToSet(batch)
      /\ shared = {}
  BY DEF Join
<1>2. CASE wpc \in {"done", "write", "last_write"}
  BY <1>1, <1>2 DEF StoredInOrder
<1>3. CASE wpc \notin {"done", "write", "last_write"}
  <2>1. StoredInOrder'
    BY <1>1 DEF StoredInOrder
  <2>2. Before(ToSet(stored) \ shared', shared') /\ Before(shared', ToSet(queue))
    BY <1>1, <1>3 DEF Before
  <2>3. ToSet(closing) = {} /\ shared' \subseteq 1 .. accepted
    BY <1>1, <1>3 DEF ToSet
  <2> QED BY <1>1, <1>3, <2>1, <2>2, <2>3
<1> QED BY <1>2, <1>3

\* Action by action: an entry moves to the next place behind those before it.
LEMMA LogStepInv == LogInv /\ [LogNext]_logVars => LogInv'
<1> SUFFICES ASSUME LogInv, [LogNext]_logVars PROVE LogInv'
  OBVIOUS
<1> USE DEF LogInv, InOrder, Flushing, Placed, Held, Turns
<1>1. Rising(<< >>) /\ ToSet(<< >>) = {} /\ << >> \in Seq(Nat)
  BY DEF Rising, ToSet
<1>2. ASSUME NEW l \in Loggers, Log(l) PROVE LogInv'
  BY <1>2 DEF Log, StoredInOrder
<1>3. CASE Tick
  BY <1>3 DEF Tick, StoredInOrder
<1>4. CASE Loop
  BY <1>4 DEF Loop, Alive, StoredInOrder
<1>5. CASE Check
  BY <1>5 DEF Check, Alive, StoredInOrder
<1>6. CASE Flush
  <2>1. /\ UNCHANGED <<accepted, queue, buffer, closing, stored, lost, shared, mpc>> /\ batch' = buffer /\ batch = << >>
        /\ wpc' \in {"loop", "done", "clear", "last_clear"} /\ (wpc' \in {"loop", "done"} => buffer = << >>)
    BY <1>6 DEF Flush
  <2>2. InOrder'
    BY <2>1 DEF StoredInOrder
  <2>3. Flushing' /\ Placed' /\ Turns'
    BY <1>1, <2>1
  <2> QED BY <2>2, <2>3
<1>7. CASE Clear
  <2>1. /\ UNCHANGED <<accepted, queue, batch, closing, stored, lost, shared, mpc>> /\ buffer' = << >>
        /\ wpc \in {"clear", "last_clear"} /\ wpc' \in {"write", "last_write"}
    BY <1>7 DEF Clear
  <2>2. InOrder'
    BY <1>1, <2>1 DEF StoredInOrder, Before
  <2>3. Flushing' /\ Placed' /\ Turns'
    BY <1>1, <2>1
  <2> QED BY <2>2, <2>3
<1>8. CASE Write
  <2>1. /\ wpc \in {"write", "last_write"} /\ wpc' \in {"loop", "done"} /\ batch' = << >> /\ Written(batch)
        /\ UNCHANGED <<accepted, queue, buffer, closing, shared, mpc>>
    BY <1>8 DEF Write
  <2>2. shared = {} => ToSet(buffer) = {}
    BY <2>1
  <2> QED BY <2>1, <2>2, WriteKeeps
<1>9. CASE Close
  BY <1>9 DEF Close, StoredInOrder
<1>10. CASE CloseFlush
  <2>1. /\ UNCHANGED <<accepted, queue, buffer, batch, stored, lost, shared, wpc>> /\ closing' = buffer
        /\ mpc = "flush" /\ mpc' \in {"exited", "clear"}
    BY <1>10 DEF CloseFlush
  <2>2. InOrder'
    BY <2>1 DEF StoredInOrder
  <2>3. Flushing' /\ Placed' /\ Turns'
    BY <2>1
  <2> QED BY <2>2, <2>3
<1>11. CASE CloseClear
  <2>1. /\ UNCHANGED <<accepted, queue, batch, closing, stored, lost, shared, wpc>> /\ buffer' = << >>
        /\ mpc = "clear" /\ mpc' = "write"
    BY <1>11 DEF CloseClear
  <2>2. InOrder'
    BY <1>1, <2>1 DEF StoredInOrder, Before
  <2>3. Flushing' /\ Placed' /\ Turns'
    BY <1>1, <2>1
  <2> QED BY <2>2, <2>3
<1>12. CASE CloseWrite
  <2>1. /\ mpc = "write" /\ mpc' = "exited" /\ closing' = << >> /\ Written(closing)
        /\ UNCHANGED <<accepted, queue, buffer, batch, shared, wpc>>
    BY <1>12 DEF CloseWrite
  <2> QED BY <2>1, WriteKeeps
<1>13. CASE UNCHANGED logVars
  BY <1>13 DEF logVars, StoredInOrder
<1> QED
  BY <1>2, <1>3, <1>4, <1>5, <1>6, <1>7, <1>8, <1>9, <1>10, <1>11, <1>12, <1>13, PutKeeps, GetKeeps, JoinKeeps
     DEF LogNext, WorkerStep, CloseStep

\* The invariant holds for any capacity, batch size and number of threads.
THEOREM LogInvariant == LogSpec => []LogInv
  BY LogInitInv, LogStepInv, PTL DEF LogSpec

(* An entry is in one place, and entries are stored once and in the order     *)
(* they were accepted in, for any capacity, batch size and number of logging  *)
(* threads, but for what the buffer held while close and a thread that was    *)
(* held up both used it (LogQueueWorker with its queue, buffer and shutdown). *)
THEOREM LogStored == LogSpec => []StoredOnceInOrder
<1>1. LogInv => StoredOnceInOrder
  <2> SUFFICES ASSUME LogInv PROVE StoredOnceInOrder
    OBVIOUS
  <2>1. StoredInOrder
    BY DEF LogInv, InOrder
  <2> DEFINE flushing == IF wpc \in {"clear", "last_clear"} THEN {} ELSE ToSet(batch)
             places == <<ToSet(queue), ToSet(buffer), flushing, ToSet(stored), lost>>
  <2>2. ToSet(places) = {ToSet(queue), ToSet(buffer), flushing, ToSet(stored), lost}
    <3>1. /\ DOMAIN places = 1 .. 5
          /\ places[1] = ToSet(queue) /\ places[2] = ToSet(buffer) /\ places[3] = flushing
          /\ places[4] = ToSet(stored) /\ places[5] = lost
      OBVIOUS
    <3> HIDE DEF places, flushing
    <3> QED BY <3>1 DEF ToSet
  <2>3. Entries \ shared \subseteq UNION ToSet(places)
    <3>1. ToSet(batch) \subseteq flushing \cup ToSet(buffer) \cup shared
      BY DEF LogInv, Turns
    <3> HIDE DEF flushing, places
    <3>2. UNION ToSet(places) = ToSet(queue) \cup ToSet(buffer) \cup flushing \cup ToSet(stored) \cup lost
      BY <2>2
    <3> QED BY <3>1, <3>2 DEF LogInv, Placed, Held, Entries
  <2>4. \A i, j \in DOMAIN places : i # j => places[i] \cap places[j] \subseteq shared
    <3>1. flushing \cap ToSet(buffer) \subseteq shared
      <4>1. CASE batch = << >>
        BY <4>1 DEF ToSet
      <4>2. CASE wpc \in {"write", "last_write"}
        BY <4>2 DEF LogInv, Turns
      <4> QED BY <4>1, <4>2 DEF LogInv, Turns
    <3>2. flushing \subseteq ToSet(batch)
      OBVIOUS
    <3>3. /\ ToSet(queue) \cap ToSet(buffer) = {} /\ ToSet(queue) \cap ToSet(batch) = {} /\ ToSet(queue) \cap ToSet(stored) = {}
          /\ ToSet(buffer) \cap ToSet(stored) \subseteq shared /\ ToSet(batch) \cap ToSet(stored) \subseteq shared
      <4>1. (ToSet(queue) \cup ToSet(buffer) \cup ToSet(batch) \cup ToSet(stored)) \subseteq Nat
        BY DEF LogInv, Placed, Held
      <4> QED BY <4>1 DEF LogInv, InOrder, Flushing, Before
    <3>4. lost \cap ToSet(queue) \subseteq shared /\ lost \cap ToSet(buffer) \subseteq shared /\ lost \cap flushing \subseteq shared
          /\ lost \cap ToSet(stored) \subseteq shared
      BY <3>2 DEF LogInv, Placed, Held
    <3>5. DOMAIN places = 1 .. 5
      OBVIOUS
    <3> HIDE DEF flushing
    <3> QED BY <3>1, <3>2, <3>3, <3>4, <3>5
  <2> QED BY <2>1, <2>3, <2>4 DEF StoredOnceInOrder, InOnePlace
<1> QED BY <1>1, LogInvariant, PTL
=============================================================================
