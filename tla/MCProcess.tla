------------------------------ MODULE MCProcess ------------------------------
(* Small instances of what runs in the process beside its requests: the     *)
(* scheduler and the log queue.  A behaviour is one of the two, and the     *)
(* other one stays in its first state.                                      *)
EXTENDS Scheduler, LogQueue

VARIABLE subject

MCInit ==
    /\ Init /\ LogInit
    /\ subject \in {"scheduler", "log"}
    /\ subject = "log" => store = [j \in Jobs |-> Absent]

MCNext ==
    /\ \/ subject = "scheduler" /\ Next /\ UNCHANGED logVars
       \/ subject = "log" /\ LogNext /\ UNCHANGED vars
    /\ UNCHANGED subject

\* What has not started its life is not scheduled: only the subject is fair.
LogStep(A) == subject = "log" /\ A
MCSpec ==
    /\ MCInit /\ [][MCNext]_<<vars, logVars, subject>>
    /\ WF_vars(Loading) /\ \A c \in Requests : WF_vars(Continue(c))
    /\ WF_logVars(LogStep(WorkerStep)) /\ WF_logVars(LogStep(Tick)) /\ WF_logVars(LogStep(CloseStep))
=============================================================================
