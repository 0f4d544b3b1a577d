----------------------------- MODULE RawSession -----------------------------
(***************************************************************************)
(* webtrans-quion/src/session.rs, Session::raw: a session on a bare QUIC   *)
(* connection.  There is no CONNECT stream; close goes straight to QUIC,   *)
(* and a monitor task waits for the connection's end or for the last       *)
(* handle, whose sender of the close queue nothing else uses.              *)
(*                                                                         *)
(* Handles, the connection, the kept reason and the callers of closed()    *)
(* are QuionSession's; a behaviour is of two sessions of one kind.         *)
(***************************************************************************)
EXTENDS QuionSession

\* The codes of a raw session are u32, and the HTTP/3 range lies beyond them.
ASSUME RawRange == U32_MAX < ERROR_FIRST

VARIABLE raw  \* the sessions are raw: session_id is None

eitherVars == <<vars, raw>>

\* Fault: the code is mapped as in a WebTransport session.
RawClose_Mapped(e, code) ==
    /\ live[e] # {}
    /\ Len(asked[e]) < MaxClose
    /\ asked' = [asked EXCEPT ![e] = Append(@, code)]
    /\ QuicClose(e, error_to_http3(code))
    /\ UNCHANGED <<live, queue, task, outcome, stream, finished, wrote, close_error, waitVars>>

\* Session::close: the code is QUIC's own, not mapped to HTTP/3.
RawClose(e, code) ==
    /\ live[e] # {}
    /\ Len(asked[e]) < MaxClose
    /\ asked' = [asked EXCEPT ![e] = Append(@, code)]
    /\ QuicClose(e, code)
    /\ UNCHANGED <<live, queue, task, outcome, stream, finished, wrote, close_error, waitVars>>

\* The select! of the monitor: the connection has ended.
MonitorClosed(e) ==
    /\ task[e] = "monitor"
    /\ conn[e] # Open
    /\ task' = [task EXCEPT ![e] = "closed"]
    /\ UNCHANGED <<live, queue, outcome, stream, finished, conn, frame, asked, wrote,
                   close_error, waitVars>>

\* The select! of the monitor: every handle is gone.  It closes QUIC, which
\* has no effect if that is closed, and waits for the connection's end.
MonitorDropped(e) ==
    /\ task[e] = "monitor"
    /\ live[e] = {}
    /\ task' = [task EXCEPT ![e] = "closed"]
    /\ QuicClose(e, 0)
    /\ UNCHANGED <<live, queue, outcome, stream, finished, asked, wrote, close_error, waitVars>>

\* Then the reason is kept, which is StoreError as none was kept before, and
\* the waiters are notified.
Monitor(e) ==
    \/ MonitorClosed(e)
    \/ MonitorDropped(e)
    \/ StoreError(e)
    \/ NotifyWaiters(e)

RawShared(e) ==
    /\ \/ DeliverConnectionClose(e)
       \/ ConnectionLost(e)
       \/ \E h \in Handle : CloneHandle(e, h)
       \/ \E h \in Handle : wait[e][h] = "idle" /\ DropHandle(e, h)
    /\ UNCHANGED <<close_error, waitVars>>

RawNext ==
    \E e \in End :
        \/ Monitor(e)
        \/ RawShared(e)
        \/ \E c \in Code : RawClose(e, c)
        \/ \E h \in Handle : Waiter(e, h)

\* Two sessions of either kind.
EitherInit ==
    /\ raw \in BOOLEAN
    /\ InitAt(IF raw THEN "monitor" ELSE "select")

EitherNext ==
    /\ UNCHANGED raw
    /\ (raw /\ RawNext) \/ (~raw /\ Next)

EitherSpec == EitherInit /\ [][EitherNext]_eitherVars

\* The monitor runs like any spawned task.
EitherFairSpec ==
    /\ EitherSpec
    /\ Fairness
    /\ \A e \in End : WF_vars(MonitorClosed(e) \/ MonitorDropped(e))
-----------------------------------------------------------------------------
\* What QUIC is closed with by an end of a raw session: the first code that
\* close was given there, or 0 for handles dropped without a call.
RawFirst(e) == IF asked[e] = <<>> THEN 0 ELSE Head(asked[e])

\* What an end of a raw session reports of the other's close is the first code
\* that was passed to close there, as it is, or 0 if its handles were dropped
\* without a call: never a code of the WebTransport range, and never that of a
\* later call or of the monitor that finds the handles gone after one.
RawCodeArrives ==
    \A e \in End :
        raw /\ close_reason(e).kind \in {"app", "closed"} =>
            close_reason(e) = Reason("app", RawFirst(Peer(e)))
-----------------------------------------------------------------------------
(***************************************************************************)
(* The inductive invariant behind it.                                      *)
(***************************************************************************)

\* e has closed QUIC for good: by a call, or with no handle left to call on.
RawClosed(e) == conn[e] # Open /\ (asked[e] # <<>> \/ live[e] = {})

\* A code is on its way to e, or has arrived, only from a peer whose first code
\* can change no more; the kept reason is the connection's.
RawKept ==
    raw => \A e \in End :
        /\ task[e] \in {"monitor", "closed", "stored", "done"}
        /\ outcome[e].type = "none"
        /\ ~wrote[e]
        /\ asked[e] # <<>> => conn[e] # Open
        /\ frame[e] # None => frame[e] = RawFirst(Peer(e)) /\ RawClosed(Peer(e))
        /\ \/ conn[e] \in Unnamed
           \/ conn[e] = Reason("app", RawFirst(Peer(e))) /\ RawClosed(Peer(e))
        /\ close_error[e] # Open => conn[e] # Open /\ close_error[e] = SessionError(conn[e])
=============================================================================
