-------------------------- MODULE MCSvalbardVault --------------------------
(* Small instances of SvalbardVault.                                       *)
EXTENDS SvalbardVault

NoFaults   == {}
AllFaults  == {"drop", "tear"}
BothModes  == {"default", "comonadic"}
=============================================================================
