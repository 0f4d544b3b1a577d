---------------------------- MODULE QuinnSession ----------------------------
(***************************************************************************)
(* webtrans-quinn/src/session.rs: what the Quinn backend adds to           *)
(* SessionClose.  The session keeps no reason of its own: closed() and     *)
(* close_reason() are those of the QUIC connection.                        *)
(***************************************************************************)
EXTENDS SessionClose

vars == sessionVars

\* Fault: the code of a close capsule takes precedence over the connection's.
close_reason_Capsule(e) ==
    IF outcome[e].type = "close" THEN Reason("closed", outcome[e].code)
                                 ELSE SessionError(conn[e])

\* Session::close_reason and, once it is not Open, what closed() returns.
close_reason(e) == SessionError(conn[e])

Init == SessionInit("select")
-----------------------------------------------------------------------------
\* Fault: code 0, the one of a dropped session, is taken for no close at all.
EndTask_ZeroIsEnd(e) ==
    /\ task[e] = "returned"
    /\ task' = [task EXCEPT ![e] = "done"]
    /\ \/ outcome[e].type = "close" /\ outcome[e].code # 0 /\ close_connection(e, outcome[e].code)
       \/ outcome[e].type = "error" /\ close_connection(e, 1)
       \/ outcome[e].type # "error" /\ outcome[e].code = 0 /\ UNCHANGED <<conn, frame>>
    /\ UNCHANGED <<live, queue, outcome, stream, finished, asked, wrote>>

\* The background task after run_closed has returned: a close or a capsule
\* error closes QUIC, an ended CONNECT stream is only logged.
EndTask(e) ==
    /\ task[e] = "returned"
    /\ task' = [task EXCEPT ![e] = "done"]
    /\ \/ /\ outcome[e].type = "close"
          /\ close_connection(e, outcome[e].code)
       \/ /\ outcome[e].type = "error"
          /\ close_connection(e, 1)
       \/ /\ outcome[e].type = "end"
          /\ UNCHANGED <<conn, frame>>
    /\ UNCHANGED <<live, queue, outcome, stream, finished, asked, wrote>>

\* quinn closes a connection whose last handle is dropped with code 0, which
\* is outside the WebTransport range.  Session handles and the task hold one.
ImplicitClose(e) ==
    /\ live[e] = {}
    /\ task[e] = "done"
    /\ conn[e] = Open
    /\ QuicClose(e, 0)
    /\ UNCHANGED <<live, queue, task, outcome, stream, finished, asked, wrote>>

Next ==
    \E e \in End :
        \/ RunClosed(e)
        \/ Network(e)
        \/ \E c \in Code : Close(e, c)
        \/ \E h \in Handle : CloneHandle(e, h) \/ DropHandle(e, h)
        \/ EndTask(e)
        \/ ImplicitClose(e)

Spec == Init /\ [][Next]_vars

\* As in QuionSession: tasks run, timers fire, QUIC does not keep half a
\* connection for ever; writing, being acknowledged and the application's
\* calls are not assumed to happen.
Fairness ==
    \A e \in End :
        /\ WF_vars(ReadFinal(e))
        /\ WF_vars(ReadFails(e))
        /\ WF_vars(RecvCommand(e))
        /\ WF_vars(RecvNone(e))
        /\ WF_vars(CloseDeadline(e))
        /\ WF_vars(LearnClose(e))
        /\ WF_vars(EndTask(e))
        /\ WF_vars(ImplicitClose(e))

FairSpec == Spec /\ Fairness
-----------------------------------------------------------------------------
TypeOK == SessionTypeOK

\* Once the background task is over the connection is closed, or the CONNECT
\* stream ended without a capsule.
CodeClosesConnection ==
    \A e \in End : task[e] = "done" /\ outcome[e].type # "end" => conn[e] # Open

\* If one side closes, once, and the other neither closes nor drops its
\* handles, the other is told that code or reports its own closing of the
\* connection in answer to the capsule, or to a malformed one before it; it is
\* never told another code.
PeerCodeOrLocal ==
    \A e \in End :
        (wrote[e] /\ Len(asked[e]) = 1 /\ asked[Peer(e)] = <<>> /\ live[Peer(e)] # {}) =>
            \/ close_reason(Peer(e)) = Reason("closed", Head(asked[e]))
            \/ close_reason(Peer(e)).kind \in {"open", "lost"}
            \/ /\ close_reason(Peer(e)).kind = "local"
               /\ outcome[Peer(e)] \in {Item("close", Head(asked[e])), Item("error", 0)}

\* The session ends as SessionEnd promises, with the reason the connection
\* has: all the callers of closed() on clones of one session are told the same
\* error, and a code in it is one that somebody asked for.
Ending == INSTANCE SessionEnd WITH reason <- [e \in End |-> close_reason(e)]
ImplementsEnd == Ending!Spec

\* Asking for a close, or dropping the last handle, closes both ends, even if
\* the peer never reads the capsule or the CONNECT stream has no credit left.
CloseCompletes ==
    \A e \in End :
        (asked[e] # <<>> \/ live[e] = {}) ~>
            (conn[e] # Open /\ conn[Peer(e)] # Open)

\* When the CONNECT stream has ended, the session ends.
EndedStreamEndsSession ==
    \A e \in End : task[e] = "done" ~> conn[e] # Open
-----------------------------------------------------------------------------
(***************************************************************************)
(* The inductive invariant behind the safety properties.                   *)
(***************************************************************************)

\* QUIC is closed here only once run_closed is over, and by a side that has
\* not closed only for a capsule or for a malformed one.
LocalInAnswer ==
    \A e \in End :
        /\ conn[e] = Reason("local", 0) => ~RxOpen(e)
        /\ OneSided(e) /\ conn[Peer(e)] = Reason("local", 0) =>
              outcome[Peer(e)].type \in {"close", "error"}

IInv ==
    /\ SessionTypeOK
    /\ FirstQueued
    /\ Provenance
    /\ PeerTold
    /\ LocalInAnswer
    /\ CodeClosesConnection
    /\ \A e \in End : outcome[e].type = "error" => outcome[e].code = 0
=============================================================================
