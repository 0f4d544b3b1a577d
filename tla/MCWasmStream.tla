---------------------------- MODULE MCWasmStream ----------------------------
(***************************************************************************)
(* Instances of WasmStream for TLC: a buffer below, at and above the limit *)
(* of a chunk.                                                             *)
(***************************************************************************)
EXTENDS WasmStream, TLC

CONSTANTS short, exact, long

Lengths == short :> 1 @@ exact :> 2 @@ long :> 3
=============================================================================
