--------------------------- MODULE MCQuinnSession ---------------------------
(***************************************************************************)
(* Instances of QuinnSession for TLC.                                      *)
(***************************************************************************)
EXTENDS QuinnSession
=============================================================================
