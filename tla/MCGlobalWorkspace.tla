------------------------- MODULE MCGlobalWorkspace -------------------------
(* A small instance of GlobalWorkspace.                                    *)
EXTENDS GlobalWorkspace

NonePlaced   == {}
AlwaysLogged == {TRUE}
=============================================================================
