---------------------------- MODULE QuionSession ----------------------------
(***************************************************************************)
(* webtrans-quion/src/session.rs: what the Quion backend adds to           *)
(* SessionClose.  Polling quion's own closed() future steals the waker of  *)
(* an earlier poll, so the session keeps its close reason in close_error   *)
(* and wakes the callers of Session::closed through a tokio Notify.        *)
(***************************************************************************)
EXTENDS SessionClose

VARIABLES
    close_error,  \* close_error[e]: the session error kept at e, or Open
    wait,         \* wait[e][h]: the call of closed() on handle h, if any
    notified      \* notified[e][h]: its Notified future has been woken

waitVars == <<wait, notified>>
vars == <<sessionVars, close_error, waitVars>>

\* Fault: the connection is asked first.
close_reason_Connection(e) ==
    IF conn[e] # Open THEN SessionError(conn[e]) ELSE close_error[e]

\* Session::close_reason; the lock is held while the connection is asked.
close_reason(e) ==
    IF close_error[e] # Open THEN close_error[e] ELSE SessionError(conn[e])

InitAt(start) ==
    /\ SessionInit(start)
    /\ close_error = [e \in End |-> Open]
    /\ wait = [e \in End |-> [h \in Handle |-> "idle"]]
    /\ notified = [e \in End |-> [h \in Handle |-> FALSE]]

Init == InitAt("select")
-----------------------------------------------------------------------------
(***************************************************************************)
(* The background task after run_closed has returned.                      *)
(***************************************************************************)

\* A close code, ours or the peer's, is kept before QUIC is closed with it.
RecordError(e) ==
    /\ task[e] = "returned"
    /\ task' = [task EXCEPT ![e] = "recorded"]
    /\ close_error' = [close_error EXCEPT ![e] =
          IF outcome[e].type = "close" THEN Reason("closed", outcome[e].code) ELSE @]
    /\ UNCHANGED <<live, queue, outcome, stream, finished, conn, frame, asked, wrote, waitVars>>

\* The code QUIC is closed with: the session's, 1 for a capsule error, 0 for
\* an ended CONNECT stream.
FinalCode(o) == CASE o.type = "close" -> o.code
                  [] o.type = "error" -> 1
                  [] OTHER -> 0

\* Fault: an ended CONNECT stream is only logged.
CloseConnection_CodesOnly(e) ==
    /\ task[e] = "recorded"
    /\ task' = [task EXCEPT ![e] = "closed"]
    /\ \/ outcome[e].type # "end" /\ close_connection(e, FinalCode(outcome[e]))
       \/ outcome[e].type = "end" /\ UNCHANGED <<conn, frame>>
    /\ UNCHANGED <<live, queue, outcome, stream, finished, asked, wrote, close_error, waitVars>>

\* A connection that is already closed is left alone.
CloseConnection(e) ==
    /\ task[e] = "recorded"
    /\ task' = [task EXCEPT ![e] = "closed"]
    /\ close_connection(e, FinalCode(outcome[e]))
    /\ UNCHANGED <<live, queue, outcome, stream, finished, asked, wrote, close_error, waitVars>>

\* Fault: the connection's reason is kept even when there is a code.
StoreError_Overwrites(e) ==
    /\ task[e] = "closed"
    /\ task' = [task EXCEPT ![e] = "stored"]
    /\ close_error' = [close_error EXCEPT ![e] = SessionError(conn[e])]
    /\ UNCHANGED <<live, queue, outcome, stream, finished, conn, frame, asked, wrote, waitVars>>

\* Without a code to keep, the connection's own reason is kept.
StoreError(e) ==
    /\ task[e] = "closed"
    /\ task' = [task EXCEPT ![e] = "stored"]
    /\ close_error' = [close_error EXCEPT ![e] = close_reason(e)]
    /\ UNCHANGED <<live, queue, outcome, stream, finished, conn, frame, asked, wrote, waitVars>>

\* Fault: the task ends without notifying.
NotifyWaiters_Missing(e) ==
    /\ task[e] = "stored"
    /\ task' = [task EXCEPT ![e] = "done"]
    /\ UNCHANGED <<live, queue, outcome, stream, finished, conn, frame, asked, wrote,
                   close_error, waitVars>>

\* notify_waiters wakes the Notified futures that are enabled now, and leaves
\* no permit for later ones.
NotifyWaiters(e) ==
    /\ task[e] = "stored"
    /\ task' = [task EXCEPT ![e] = "done"]
    /\ notified' = [notified EXCEPT ![e] = [h \in Handle |-> wait[e][h] # "idle"]]
    /\ UNCHANGED <<live, queue, outcome, stream, finished, conn, frame, asked, wrote,
                   close_error, wait>>
-----------------------------------------------------------------------------
(***************************************************************************)
(* Session::closed on handle h.  The call borrows the handle.              *)
(***************************************************************************)

\* Enable a fresh Notified future, before looking at the reason.
EnableNotified(e, h) ==
    /\ wait' = [wait EXCEPT ![e][h] = "enabled"]
    /\ notified' = [notified EXCEPT ![e][h] = FALSE]

CallClosed(e, h) ==
    /\ h \in live[e]
    /\ wait[e][h] = "idle"
    /\ EnableNotified(e, h)
    /\ UNCHANGED <<sessionVars, close_error>>

\* Return the reason if there is one, else await the Notified future.
CheckReason(e, h) ==
    /\ wait[e][h] = "enabled"
    /\ \/ /\ close_reason(e) # Open
          /\ wait' = [wait EXCEPT ![e][h] = "idle"]
          /\ notified' = [notified EXCEPT ![e][h] = FALSE]
       \/ /\ close_reason(e) = Open
          /\ wait' = [wait EXCEPT ![e][h] = "waiting"]
          /\ UNCHANGED notified
    /\ UNCHANGED <<sessionVars, close_error>>

\* Woken: once more round the loop.
Wake(e, h) ==
    /\ wait[e][h] = "waiting"
    /\ notified[e][h]
    /\ EnableNotified(e, h)
    /\ UNCHANGED <<sessionVars, close_error>>

\* The caller drops the pending future.
CancelClosed(e, h) ==
    /\ wait[e][h] = "waiting"
    /\ wait' = [wait EXCEPT ![e][h] = "idle"]
    /\ notified' = [notified EXCEPT ![e][h] = FALSE]
    /\ UNCHANGED <<sessionVars, close_error>>
-----------------------------------------------------------------------------
Shared(e) ==
    /\ \/ RunClosed(e)
       \/ Network(e)
       \/ \E c \in Code : Close(e, c)
       \/ \E h \in Handle : CloneHandle(e, h)
       \/ \E h \in Handle : wait[e][h] = "idle" /\ DropHandle(e, h)
    /\ UNCHANGED <<close_error, waitVars>>

TaskEnd(e) ==
    \/ RecordError(e)
    \/ CloseConnection(e)
    \/ StoreError(e)
    \/ NotifyWaiters(e)

Waiter(e, h) ==
    \/ CallClosed(e, h)
    \/ CheckReason(e, h)
    \/ Wake(e, h)
    \/ CancelClosed(e, h)

Next ==
    \E e \in End :
        \/ Shared(e)
        \/ TaskEnd(e)
        \/ \E h \in Handle : Waiter(e, h)

Spec == Init /\ [][Next]_vars

\* A ready branch of select! is taken, a spawned task runs to its end, a timer
\* fires, a woken caller runs, and QUIC does not keep half a connection for
\* ever.  Writing and being acknowledged need the peer's credit, and what the
\* application calls is its own choice, so nothing is assumed of them.
Fairness ==
    \A e \in End :
        /\ WF_vars(ReadFinal(e) /\ UNCHANGED <<close_error, waitVars>>)
        /\ WF_vars(ReadFails(e) /\ UNCHANGED <<close_error, waitVars>>)
        /\ WF_vars(RecvCommand(e) /\ UNCHANGED <<close_error, waitVars>>)
        /\ WF_vars(RecvNone(e) /\ UNCHANGED <<close_error, waitVars>>)
        /\ WF_vars(CloseDeadline(e) /\ UNCHANGED <<close_error, waitVars>>)
        /\ WF_vars(LearnClose(e) /\ UNCHANGED <<close_error, waitVars>>)
        /\ WF_vars(TaskEnd(e))
        /\ \A h \in Handle : WF_vars(CheckReason(e, h)) /\ WF_vars(Wake(e, h))

FairSpec == Spec /\ Fairness
-----------------------------------------------------------------------------
TypeOK ==
    /\ SessionTypeOK
    /\ close_error \in [End -> [kind : {"open", "local", "app", "lost", "closed"},
                                code : Nat]]
    /\ wait \in [End -> [Handle -> {"idle", "enabled", "waiting"}]]
    /\ notified \in [End -> [Handle -> BOOLEAN]]

\* Once the background task is over, the QUIC connection is closed and a
\* reason is kept: however the CONNECT stream ended, the session ended.
EndedSessionIsClosed ==
    \A e \in End : task[e] = "done" => conn[e] # Open /\ close_error[e] # Open

\* notify_waiters happens once.  No call of closed() is left asleep after it:
\* neither one that found no reason just before, nor one that starts later.
NoLostWakeup ==
    \A e \in End, h \in Handle :
        task[e] = "done" /\ wait[e][h] = "waiting" => notified[e][h]

\* The session ends as SessionEnd promises: each end keeps one reason, and a
\* code in it is the first its own application asked for, one the other's
\* asked for, or one the backend itself closes with.  Capsules, frames and the
\* queue carry no code that nobody asked for, and none is kept before it is.
Ending == INSTANCE SessionEnd WITH reason <- close_error
ImplementsEnd == Ending!Spec

\* However often close is called, the code sent in the capsule and kept as the
\* session's own error is the first one.
FirstCloseWins ==
    \A e \in End :
        task[e] = "done" /\ wrote[e] => close_error[e] = Reason("closed", Head(asked[e]))

\* If one side closes, once, and the other neither closes nor drops its
\* handles, both report that code, whichever of the capsule and the
\* CONNECTION_CLOSE gets there first, unless the connection is lost.
OneSidedCloseAgrees ==
    \A e \in End :
        (wrote[e] /\ Len(asked[e]) = 1 /\ asked[Peer(e)] = <<>> /\ live[Peer(e)] # {}) =>
            \A r \in {close_reason(e), close_reason(Peer(e))} :
                r = Reason("closed", Head(asked[e])) \/ r.kind \in {"open", "lost"}

\* What close_reason says may change, from the connection's reason to the code
\* of the session, but only once and only where there are two closes to tell
\* apart: e's application closed or dropped its handles as well, or the peer's
\* closed twice, or the capsule tells more than a lost connection.
ReportChangesOnce ==
    [][\A e \in End :
         close_reason(e) # Open /\ close_reason(e)' # close_reason(e) =>
             /\ close_error[e] = Open
             /\ close_reason(e)' = Reason("closed", outcome[e].code)
             /\ \/ asked[e] # <<>> \/ live[e] = {}
                \/ Len(asked[Peer(e)]) > 1
                \/ close_reason(e).kind = "lost"]_vars

\* Asking for a close, or dropping the last handle, closes both ends, even if
\* the peer never reads the capsule or the CONNECT stream has no credit left.
CloseCompletes ==
    \A e \in End :
        (asked[e] # <<>> \/ live[e] = {}) ~>
            (conn[e] # Open /\ conn[Peer(e)] # Open)

\* Once the connection is closed, no caller of closed() waits for ever.
WaitersReturn ==
    \A e \in End, h \in Handle :
        (wait[e][h] = "waiting" /\ conn[e] # Open) ~> wait[e][h] # "waiting"
-----------------------------------------------------------------------------
(***************************************************************************)
(* The inductive invariant behind the safety properties.                   *)
(***************************************************************************)

\* How far the task's end has come, and what it has established by then.
KeptError ==
    \A e \in End :
        /\ task[e] \in Running \cup {"returned"} => close_error[e] = Open
        /\ task[e] \in {"closed", "stored", "done"} => conn[e] # Open
        /\ task[e] \in {"stored", "done"} => close_error[e] # Open
        /\ task[e] \notin Running \cup {"returned"} /\ outcome[e].type = "close"
              => close_error[e] = Reason("closed", outcome[e].code)

\* A reason is kept before waiters are notified, and a caller only goes to
\* sleep if it found none, so whoever sleeps after the notification had
\* enabled its Notified future before it.
IInv == TypeOK /\ KeptError /\ FirstQueued /\ NoLostWakeup

\* A code comes from a capsule that the other side wrote or from e's own
\* application; only the call of close itself closes QUIC at e before the task
\* has kept the code.
Witnessed ==
    \A e \in End :
        /\ \A i \in DOMAIN stream[e] : stream[e][i].type = "close" => wrote[Peer(e)]
        /\ outcome[e].type = "close" => wrote[Peer(e)] \/ asked[e] # <<>> \/ live[e] = {}
        /\ conn[e] = Reason("local", 0) /\ asked[e] = <<>> =>
              task[e] \notin Running \cup {"returned", "recorded"}

\* A reader of s finds a close capsule before the end of the stream, and no
\* malformed one.
CapsuleFirst(s) ==
    \A i \in DOMAIN s :
        /\ s[i].type \in {"unknown", "close", "fin"}
        /\ s[i].type = "fin" => \E k \in DOMAIN s : k < i /\ s[k].type = "close"

\* The other side p of one that is alone in closing closes QUIC itself only
\* once it has kept the code; without the capsule, it has found QUIC closed.
AnswersCapsule(p) ==
    /\ outcome[p].type # "error"
    /\ task[p] \notin Running => outcome[p].type # "none"
    /\ outcome[p].type = "end" => conn[p] # Open
    /\ conn[p] = Reason("local", 0) =>
          task[p] \notin Running \cup {"returned", "recorded"} /\ outcome[p].type = "close"

\* What holds while e is alone in closing, between two endpoints that send no
\* malformed capsule: neither keeps or hears of another code.
Agrees(e) ==
    /\ wrote[e] => finished[e]
    /\ CapsuleFirst(stream[Peer(e)])
    /\ AnswersCapsule(Peer(e))
    /\ close_error[Peer(e)] \in {Open, Reason("lost", 0)}
                                  \cup {Reason("closed", c) : c \in First(e)}
    /\ frame[e] \in {None} \cup Mapped(First(e))
    /\ task[e] \in Running \cup {"returned"} =>
          \/ conn[e] \in {Open, Reason("lost", 0)}
          \/ \E h \in Mapped(First(e)) : conn[e] = Reason("app", h)

Agreement == \A e \in End : OneSided(e) => Agrees(e)
=============================================================================
