----------------------------- MODULE Scheduler -----------------------------
(***************************************************************************)
(* The scheduler process: the job store, which outlives the process, the   *)
(* instances of jobs that run in it, and the requests that change jobs or  *)
(* start one by hand.                                                      *)
(*                                                                         *)
(* APScheduler is external: every call of it is atomic, a job runs in at   *)
(* most one instance of its own (max_instances), and an id is added only   *)
(* if it is not in the store.  What the application does between two calls *)
(* is not protected by anything.                                           *)
(***************************************************************************)
EXTENDS Naturals, FiniteSets

CONSTANTS
    Jobs,           \* ids of jobs
    Builtin,        \* BUILTIN_TASK_IDS
    Enabled,        \* the tasks of the configuration file that are enabled
    Requests,       \* requests to the API of the scheduler
    NoJob, Absent,  \* no job; the place of a job that is not in the store
    MaxRestarts,    \* bound on the number of times the process is started
    MayFail         \* may the job store or the configuration file fail?

ASSUME EnabledAreBuiltin == Enabled \subseteq Builtin /\ Builtin \subseteq Jobs /\ NoJob \notin Jobs
ASSUME AbsentIsNoJob == Absent \notin [trigger : {"default", "edited"}, paused : BOOLEAN]
ASSUME RestartsBounded == MaxRestarts \in Nat \ {0} /\ MayFail \in BOOLEAN

VARIABLES
    store,      \* the job store
    life,       \* the process: "down", "loading" (init_scheduler), "up"
    starts,     \* how often it has been started
    boot,       \* the tasks of the configuration init_scheduler has still to look at
    instance,   \* the jobs of which APScheduler runs an instance
    manual,     \* the job a request runs in a thread of its own
    pc, target, \* requests: location, job
    todo,       \* reload_jobs: ids to remove, then tasks to add
    excused     \* jobs a request deleted, an error kept out or that ran out since the start

process == <<life, starts, boot>>
work == <<instance, manual>>
requests == <<pc, target, todo>>
vars == <<store, process, work, requests, excused>>

\* A job as the configuration describes it, and as requests leave it.
Job == [trigger : {"default", "edited"}, paused : BOOLEAN]
DefaultJob == [trigger |-> "default", paused |-> FALSE]

Present == {j \in Jobs : store[j] # Absent}

\* A store that was written by an earlier version may hold jobs that are not
\* built in.
Init ==
    /\ store \in [Jobs -> {Absent, DefaultJob}]
    /\ \A j \in Builtin : store[j] = Absent
    /\ life = "down"
    /\ starts = 0
    /\ boot = {}
    /\ instance = {}
    /\ manual = [c \in Requests |-> NoJob]
    /\ pc = [c \in Requests |-> "idle"]
    /\ target = [c \in Requests |-> NoJob]
    /\ todo = [c \in Requests |-> {}]
    /\ excused = {}

-----------------------------------------------------------------------------
\* init_scheduler: the scheduler starts and runs the jobs of the store while
\* the configuration is read; a file that cannot be read is logged.
init_scheduler ==
    /\ life = "down"
    /\ starts < MaxRestarts
    /\ life' = "loading"
    /\ starts' = starts + 1
    /\ \/ boot' = Enabled /\ excused' = {}
       \/ MayFail /\ boot' = {} /\ excused' = Jobs
    /\ UNCHANGED <<store, work, requests>>

\* Mutant of BootTask: the tasks are loaded as reload_jobs loads them.
BootTaskForced(j) ==
    /\ life = "loading"
    /\ j \in boot
    /\ boot' = boot \ {j}
    /\ store' = [store EXCEPT ![j] = DefaultJob]
    /\ UNCHANGED <<life, starts, work, requests, excused>>

\* _register_task_from_config without force: a job of the store is kept as it
\* is, and so is its absence when the store cannot be asked or written.
BootTask(j) ==
    /\ life = "loading"
    /\ j \in boot
    /\ boot' = boot \ {j}
    /\ \/ /\ store' = [store EXCEPT ![j] = IF @ = Absent THEN DefaultJob ELSE @]
          /\ UNCHANGED excused
       \/ /\ MayFail
          /\ excused' = excused \cup {j}
          /\ UNCHANGED store
    /\ UNCHANGED <<life, starts, work, requests>>

\* create_app returns and the process serves requests.
BootDone ==
    /\ life = "loading"
    /\ boot = {}
    /\ life' = "up"
    /\ UNCHANGED <<store, starts, boot, work, requests, excused>>

\* The process ends, with its daemon threads and its requests.  A worker is
\* also replaced after a number of requests.
Crash ==
    /\ life # "down"
    /\ life' = "down"
    /\ boot' = {}
    /\ instance' = {}
    /\ manual' = [c \in Requests |-> NoJob]
    /\ pc' = [c \in Requests |-> IF pc[c] = "idle" THEN "idle" ELSE "done"]
    /\ UNCHANGED <<store, starts, target, todo, excused>>

\* The cron of an edited trigger may name years.  When it has no time left
\* APScheduler removes the job.
RunsOut(j) ==
    /\ store[j] # Absent /\ store[j].trigger = "edited"
    /\ store' = [store EXCEPT ![j] = Absent]
    /\ excused' = excused \cup {j}

\* APScheduler: a job is due, maybe for the last time, and its instance ends.
Fire(j) ==
    /\ life # "down"
    /\ store[j] # Absent
    /\ ~store[j].paused
    /\ instance' = instance \cup {j}
    /\ UNCHANGED <<store, excused>> \/ RunsOut(j)
    /\ UNCHANGED <<process, manual, requests>>

FinishInstance(j) ==
    /\ j \in instance
    /\ instance' = instance \ {j}
    /\ UNCHANGED <<store, process, manual, requests, excused>>

-----------------------------------------------------------------------------
\* Request c moves on.
Goto(c, at, after) ==
    /\ life = "up"
    /\ pc[c] = at
    /\ pc' = [pc EXCEPT ![c] = after]

\* pause_job and resume_job: one call, which fails for a job that is gone.  A
\* job whose years are over is removed when it is resumed.
SetPaused(c, j, paused) ==
    /\ Goto(c, "idle", "done")
    /\ \/ /\ store' = [store EXCEPT ![j] = IF @ = Absent THEN @ ELSE [trigger |-> @.trigger, paused |-> paused]]
          /\ UNCHANGED excused
       \/ ~paused /\ RunsOut(j)
    /\ UNCHANGED <<process, work, target, todo>>

\* DELETE and PUT look the job up first and use it in a second call; only the
\* trigger of a built-in task can be changed, and a cron whose years are over
\* leaves the job paused.
Lookup(c, j, then) ==
    /\ Goto(c, "idle", IF store[j] = Absent THEN "done" ELSE then)
    /\ target' = [target EXCEPT ![c] = j]
    /\ UNCHANGED <<store, process, work, todo, excused>>

DeleteJob(c) ==
    /\ Goto(c, "delete", "done")
    /\ store' = [store EXCEPT ![target[c]] = Absent]
    /\ excused' = excused \cup {target[c]}
    /\ UNCHANGED <<process, work, target, todo>>

upsert(c) ==
    /\ Goto(c, "edit", "done")
    /\ \E over \in BOOLEAN :
           store' = [store EXCEPT ![target[c]] =
                        IF @ = Absent \/ target[c] \notin Builtin THEN @
                        ELSE [trigger |-> "edited", paused |-> over]]
    /\ UNCHANGED <<process, work, target, todo, excused>>

\* run_job_in_background: a thread beside the instances of APScheduler, with
\* the job as it was looked up.
run_job_in_background(c, j) ==
    /\ Goto(c, "idle", "done")
    /\ store[j] # Absent
    /\ manual' = [manual EXCEPT ![c] = j]
    /\ UNCHANGED <<store, process, instance, target, todo, excused>>

FinishManual(c) ==
    /\ manual[c] # NoJob
    /\ manual' = [manual EXCEPT ![c] = NoJob]
    /\ UNCHANGED <<store, process, instance, requests, excused>>

-----------------------------------------------------------------------------
\* reload_jobs: list the jobs, remove them one after the other, load the
\* configuration.
ReloadList(c) ==
    /\ Goto(c, "idle", "remove")
    /\ todo' = [todo EXCEPT ![c] = Present]
    /\ UNCHANGED <<store, process, work, target, excused>>

\* Mutant of ReloadRemove: a job that is gone is waited for.
ReloadRemoveWaits(c, j) ==
    /\ life = "up"
    /\ pc[c] = "remove"
    /\ j \in todo[c] \cap Present
    /\ store' = [store EXCEPT ![j] = Absent]
    /\ todo' = [todo EXCEPT ![c] = @ \ {j}]
    /\ UNCHANGED <<pc, excused, process, work, target>>

\* A job that is gone by now is skipped; another error ends the request with
\* the jobs removed so far.
ReloadRemove(c, j) ==
    /\ life = "up"
    /\ pc[c] = "remove"
    /\ j \in todo[c]
    /\ \/ /\ store' = [store EXCEPT ![j] = Absent]
          /\ todo' = [todo EXCEPT ![c] = @ \ {j}]
          /\ UNCHANGED <<pc, excused>>
       \/ /\ MayFail
          /\ pc' = [pc EXCEPT ![c] = "done"]
          /\ excused' = Jobs
          /\ UNCHANGED <<store, todo>>
    /\ UNCHANGED <<process, work, target>>

\* The configuration is read; a file that cannot be read loads nothing.
ReloadRead(c) ==
    /\ todo[c] = {}
    /\ \/ /\ Goto(c, "remove", "add")
          /\ todo' = [todo EXCEPT ![c] = Enabled]
          /\ UNCHANGED excused
       \/ /\ MayFail
          /\ Goto(c, "remove", "done")
          /\ excused' = Jobs
          /\ UNCHANGED todo
    /\ UNCHANGED <<store, process, work, target>>

\* _remove_existing_job, in case the job is back by now.  An error other than
\* that it is gone ends the request with the tasks it has still to add.
ReloadClear(c, j) ==
    /\ j \in todo[c]
    /\ \/ /\ Goto(c, "add", "insert")
          /\ target' = [target EXCEPT ![c] = j]
          /\ store' = [store EXCEPT ![j] = Absent]
          /\ UNCHANGED excused
       \/ /\ MayFail
          /\ Goto(c, "add", "done")
          /\ excused' = excused \cup todo[c]
          /\ UNCHANGED <<store, target>>
    /\ UNCHANGED <<process, work, todo>>

\* Mutant of ReloadInsert: an id that is back already ends the request.
ReloadInsertStops(c) ==
    /\ Goto(c, "insert", IF store[target[c]] = Absent THEN "add" ELSE "done")
    /\ store' = [store EXCEPT ![target[c]] = DefaultJob]
    /\ todo' = [todo EXCEPT ![c] = @ \ {target[c]}]
    /\ UNCHANGED <<process, work, target, excused>>

\* add_job without replace_existing: an id that is back already is left to
\* whoever added it, and an error leaves the job out.
ReloadInsert(c) ==
    /\ Goto(c, "insert", "add")
    /\ todo' = [todo EXCEPT ![c] = @ \ {target[c]}]
    /\ \/ /\ store' = [store EXCEPT ![target[c]] = IF @ = Absent THEN DefaultJob ELSE @]
          /\ UNCHANGED excused
       \/ /\ MayFail
          /\ excused' = excused \cup {target[c]}
          /\ UNCHANGED store
    /\ UNCHANGED <<process, work, target>>

ReloadDone(c) ==
    /\ Goto(c, "add", "done")
    /\ todo[c] = {}
    /\ UNCHANGED <<store, process, work, target, todo, excused>>

-----------------------------------------------------------------------------
\* What a request that has begun does next.
Continue(c) ==
    \/ DeleteJob(c) \/ upsert(c)
    \/ \E j \in Jobs : ReloadRemove(c, j) \/ ReloadClear(c, j)
    \/ ReloadRead(c) \/ ReloadInsert(c) \/ ReloadDone(c)

Arrive(c) ==
    \/ ReloadList(c)
    \/ \E j \in Jobs :
           \/ \E paused \in BOOLEAN : SetPaused(c, j, paused)
           \/ Lookup(c, j, "delete") \/ Lookup(c, j, "edit")
           \/ run_job_in_background(c, j)

Loading == (\E j \in Jobs : BootTask(j)) \/ BootDone

Running == \E j \in Jobs : Fire(j) \/ FinishInstance(j)

Next ==
    \/ init_scheduler \/ Loading \/ Crash \/ Running
    \/ \E c \in Requests : Arrive(c) \/ Continue(c) \/ FinishManual(c)

Spec == Init /\ [][Next]_vars

\* A process that has started goes on, and serves the requests it has accepted.
FairSpec == Spec /\ WF_vars(Loading) /\ \A c \in Requests : WF_vars(Continue(c))

-----------------------------------------------------------------------------
\* Every job, process and request is of its kind.
TypeOK ==
    /\ store \in [Jobs -> Job \cup {Absent}]
    /\ life \in {"down", "loading", "up"} /\ starts \in 0..MaxRestarts
    /\ boot \in SUBSET Enabled /\ excused \in SUBSET Jobs
    /\ instance \in SUBSET Jobs /\ manual \in [Requests -> Jobs \cup {NoJob}]
    /\ pc \in [Requests -> {"idle", "delete", "edit", "remove", "add", "insert", "done"}]
    /\ target \in [Requests -> Jobs \cup {NoJob}] /\ todo \in [Requests -> SUBSET Jobs]

\* However reloads overlap with each other, with edits and with crashes, once
\* no reload is under way an enabled task is missing from the store only if a
\* request deleted it, an error since the start kept it out, or the years of
\* its edited trigger were over.
NoJobLostSilently ==
    life = "up" /\ (\A c \in Requests : pc[c] \notin {"remove", "add", "insert"}) =>
        Enabled \ excused \subseteq Present

\* A restart (init_scheduler, _register_task_from_config without force)
\* neither removes a job nor undoes what requests made of it before the
\* crash, and it brings back whatever a reload cut off by the crash had
\* removed, unless the store fails or the process ends again.  A job whose
\* edited trigger runs out meanwhile goes with its last run.
LastRun(j) == store[j].trigger = "edited" /\ store'[j] = Absent /\ j \in instance'
RestartKeepsJobs == [][life # "up" => \A j \in Present : store'[j] = store[j] \/ LastRun(j)]_vars
RestartBringsBack == [](life = "loading" => <>(life = "down" \/ Enabled \ excused \subseteq Present))
RestartRepairs == RestartKeepsJobs /\ RestartBringsBack

\* A request that has been accepted is answered or lost with the process.
RequestsEnd == \A c \in Requests : pc[c] # "idle" ~> (pc[c] = "done" \/ life = "down")
=============================================================================
