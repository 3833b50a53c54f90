----------------------------- MODULE MCJsonlLog -----------------------------
(* A small instance of JsonlLog: two logger objects on one path.           *)
EXTENDS JsonlLog, TLC

CONSTANTS s, t, a, b

TwoObjects == s :> a @@ t :> b
=============================================================================
