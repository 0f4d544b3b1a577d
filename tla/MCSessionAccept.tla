--------------------------- MODULE MCSessionAccept ---------------------------
(***************************************************************************)
(* Instances of SessionAccept for TLC.                                     *)
(***************************************************************************)
EXTENDS SessionAccept
=============================================================================
