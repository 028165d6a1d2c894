--------------------------- MODULE MCAutoClassify ---------------------------
(***************************************************************************)
(* Two rules that share a classification, two accounts of which the second *)
(* rule matches both, and two cancel requests.                             *)
(***************************************************************************)
EXTENDS AutoClassify, TLC

CONSTANTS r1, r2, a1, a2, k1, c1, c2

MCRules == {r1, r2}
MCAccounts == {a1, a2}
MCClasses == {k1}
MCClass == [r \in {r1, r2} |-> k1]
MCMatch == (r1 :> {a1}) @@ (r2 :> {a1, a2})
MCCancellers == {c1, c2}

=============================================================================
