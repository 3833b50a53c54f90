------------------------------ MODULE MCElysium ------------------------------
(* Small instances of Elysium.                                             *)
EXTENDS Elysium
=============================================================================
