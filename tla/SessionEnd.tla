----------------------------- MODULE SessionEnd -----------------------------
(***************************************************************************)
(* What an application may rely on when a native session ends, whichever   *)
(* backend it runs on and however the CONNECT stream, the close queue and  *)
(* QUIC interleave (abstract).                                             *)
(*                                                                         *)
(* The applications ask for closes; each end settles on one reason.        *)
(***************************************************************************)
EXTENDS Integers, Sequences

CONSTANTS End,  \* the endpoints
          Code  \* application codes passed to Session::close

VARIABLES asked,  \* asked[e]: the codes e's application passed to close
          reason  \* reason[e]: what e's session reports, or Open

vars == <<asked, reason>>

Open == [kind |-> "open", code |-> 0]

Init ==
    /\ asked = [e \in End |-> <<>>]
    /\ reason = [e \in End |-> Open]

\* Session::close.  Once the background task is over, the call itself closes
\* QUIC.
Close(e, code) ==
    /\ asked' = [asked EXCEPT ![e] = Append(@, code)]
    /\ \/ UNCHANGED reason
       \/ /\ reason[e] = Open
          /\ reason' = [reason EXCEPT ![e] = [kind |-> "local", code |-> 0]]

\* The codes e may name by now: of its own only the first, any of the other
\* side, and those the library itself closes with, 0 and 1.
Named(e) ==
    {0, 1}
      \cup {asked[e][i] : i \in DOMAIN asked[e] \cap {1}}
      \cup UNION {{asked[f][i] : i \in DOMAIN asked[f]} : f \in End \ {e}}

\* e settles, once: on a WebTransport close, on a QUIC close of the other
\* side ("app"), on its own closing of QUIC or on the loss of the connection.
Settle(e) ==
    /\ reason[e] = Open
    /\ \/ \E kind \in {"closed", "app"}, code \in Named(e) :
             reason' = [reason EXCEPT ![e] = [kind |-> kind, code |-> code]]
       \/ \E kind \in {"local", "lost"} :
             reason' = [reason EXCEPT ![e] = [kind |-> kind, code |-> 0]]
    /\ UNCHANGED asked

Next == \E e \in End : Settle(e) \/ \E code \in Code : Close(e, code)

Spec == Init /\ [][Next]_vars
=============================================================================
