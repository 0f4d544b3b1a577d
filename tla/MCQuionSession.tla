--------------------------- MODULE MCQuionSession ---------------------------
(***************************************************************************)
(* Instances of QuionSession and RawSession for TLC.                       *)
(***************************************************************************)
EXTENDS RawSession
=============================================================================
