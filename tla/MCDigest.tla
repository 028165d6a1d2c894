------------------------------ MODULE MCDigest ------------------------------
(* Two instances whose backups are checked, and one cluster. *)
EXTENDS AlertDigest, TLC

CONSTANTS b1, b2

MCIds == b1 :> 1 @@ b2 :> 2
=============================================================================
