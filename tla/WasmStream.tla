----------------------------- MODULE WasmStream -----------------------------
(***************************************************************************)
(* A bidirectional stream in the browser: the two halves that open_bi and  *)
(* accept_bi of webtrans-wasm/src/session.rs return.  They share nothing   *)
(* but the session, whose end fails both at once.                          *)
(***************************************************************************)
EXTENDS WasmSend, WasmRecv

vars == <<sendVars, recvVars>>

\* open_bi, accept_bi.
Init == SendInit /\ RecvInit

\* Session::close, the peer's close or the loss of the connection.
SessionEnds ==
    /\ writable = "open" \/ MayFail
    /\ WritableFails \/ (writable # "open" /\ UNCHANGED sendVars)
    /\ ReadableFails \/ (~MayFail /\ UNCHANGED recvVars)

Next ==
    \/ SendNext /\ UNCHANGED recvVars
    \/ RecvNext /\ UNCHANGED sendVars
    \/ SessionEnds

Spec == Init /\ [][Next]_vars

TypeOK == SendTypeOK /\ RecvTypeOK
=============================================================================
