--------------------------- MODULE TaskRunCentre ---------------------------
(***************************************************************************)
(* What the task run centre promises about the status of one run, whatever *)
(* task it belongs to.  The writers are the task and the requests that     *)
(* cancel it.  There is no exclusion between them: a writer gets to write  *)
(* because it read "running" at some earlier time, and whoever writes last *)
(* wins.  Nobody writes twice, nobody writes after having read a final     *)
(* status, and no run is ever "running" again.                             *)
(***************************************************************************)
EXTENDS TaskRunsWriteService

CONSTANTS Writers, Task

VARIABLES
    status,     \* the status of the run
    holding     \* the writers that have read "running" and not decided yet

statusVars == <<status, holding>>

\* The statuses a writer may choose.
Verdicts(w) == IF w = Task THEN {COMPLETED, COMPLETED_WITH_ERRORS, FAILED} ELSE {CANCELLED}

Init == status = RUNNING /\ holding = {}

Read(w) == status = RUNNING /\ holding' = holding \cup {w} /\ UNCHANGED status

Write(w) == w \in holding /\ holding' = holding \ {w} /\ status' \in Verdicts(w)

\* A writer stops without having written.
GiveUp(w) == holding' = holding \ {w} /\ UNCHANGED status

Next == \E w \in Writers : Read(w) \/ Write(w) \/ GiveUp(w)

Spec == Init /\ [][Next]_statusVars
=============================================================================
