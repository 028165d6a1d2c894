----------------------------- MODULE RequestTx -----------------------------
(* One API request that writes records, as safe_route_call and the ORM unit *)
(* of work run it: the handler reads rows and decides, then its changes are *)
(* flushed and committed in one transaction, or rolled back as a whole when *)
(* a constraint refuses them.  At READ COMMITTED nothing that was read is   *)
(* locked, so other requests commit between the two steps.  An UPDATE only  *)
(* names the columns whose value differs from the one that was loaded.      *)
(* A request the handler refuses changes nothing and is not a step.         *)
EXTENDS Naturals, FiniteSets

CONSTANT Requests
VARIABLE req

Unsent(r) == req[r].op = "unsent"

RequestInit == req = [r \in Requests |-> [op |-> "unsent"]]

\* The handler has read `seen` and will write: the request is under way.
Accept(r, op, key, seen, new) ==
    /\ Unsent(r)
    /\ req' = [req EXCEPT ![r] = [op |-> op, key |-> key, seen |-> seen, new |-> new]]

\* The transaction ended, committed or rolled back.
Answer(r) == req' = [req EXCEPT ![r] = [op |-> "ended"]]

\* A row under an UPDATE that was computed from the row `seen`.
Merged(row, seen, new) ==
    [f \in DOMAIN row |-> IF f \in DOMAIN new /\ new[f] # seen[f] THEN new[f] ELSE row[f]]

\* The functions f without the points of S, and with the point x set to v.
Without(f, S) == [x \in DOMAIN f \ S |-> f[x]]
With(f, x, v) == [y \in DOMAIN f \cup {x} |-> IF y = x THEN v ELSE f[y]]

\* r is about to write, and what it read is what `table` still holds.
Current(r, ops, table) == req[r].op \in ops /\ req[r].seen = table
=============================================================================
