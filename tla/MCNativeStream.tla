--------------------------- MODULE MCNativeStream ---------------------------
(***************************************************************************)
(* Instances of NativeStream for TLC.                                      *)
(***************************************************************************)
EXTENDS NativeStream
=============================================================================
