---------------------------- MODULE SessionAccept ----------------------------
(***************************************************************************)
(* SessionAccept (session.rs of both native backends): the state machine   *)
(* behind Session::accept_uni and accept_bi.  The peer's streams start     *)
(* with a header that has to be decoded before a stream can be handed to   *)
(* the application, and decoding goes on in parallel.                      *)
(*                                                                         *)
(* One SessionAccept is shared by all clones of a session under a mutex.   *)
(* A caller polls it; a caller that has to wait leaves its waker at two    *)
(* places, each of which has room for one: in the future that waits for    *)
(* the next stream, and in the set of header decodes.                      *)
(*                                                                         *)
(* A behaviour is about the streams of one direction; the two directions   *)
(* share nothing but the mutex.                                            *)
(* One action is one turn of the loop of poll_accept_uni / poll_accept_bi. *)
(***************************************************************************)
EXTENDS Naturals

CONSTANTS Stream,     \* the peer's streams
          Acceptor,   \* tasks that call accept
          NoOne,      \* no task
          Exclusive   \* does the application keep at most one call pending?

Header == {"webtransport", "other_session", "qpack_encoder",
           "qpack_decoder", "unknown", "reset"}

Dir == {"uni", "bi"}

StreamType == [dir : Dir, header : Header]

ASSUME AcceptConstants ==
    /\ NoOne \notin Acceptor
    /\ Exclusive \in BOOLEAN

VARIABLES
    type,     \* type[s]: the direction of s and what the peer writes in its header
    state,    \* state[s]: where stream s is
    closed,   \* is the QUIC connection closed?
    pc,       \* pc[a]: where task a is in its call of accept
    woken,    \* woken[a]: task a has been woken since its last poll began
    lock,     \* the holder of the mutex
    acceptWaker,  \* the task to wake for a new stream or a closed connection
    decodeWaker   \* the task to wake for a decoded header

vars == <<type, state, closed, pc, woken, lock, acceptWaker, decodeWaker>>

\* queued: in QUIC's accept queue; pending: being decoded; headed: its header
\* is complete, or known to be unreadable.
StreamState == {"unopened", "queued", "pending", "headed",
                "delivered", "kept", "dropped"}
-----------------------------------------------------------------------------
(***************************************************************************)
(* What a header means.                                                    *)
(***************************************************************************)
decode_uni(h) ==
    CASE h = "webtransport" -> "delivered"
      [] h \in {"qpack_encoder", "qpack_decoder"} -> "kept"
      [] OTHER -> "dropped"

decode_bi(h) == IF h = "webtransport" THEN "delivered" ELSE "dropped"

Verdict(t) == IF t.dir = "uni" THEN decode_uni(t.header) ELSE decode_bi(t.header)
-----------------------------------------------------------------------------
Init ==
    /\ \E d \in Dir : type \in [Stream -> [dir : {d}, header : Header]]
    /\ state = [s \in Stream |-> "unopened"]
    /\ closed = FALSE
    /\ pc = [a \in Acceptor |-> "idle"]
    /\ woken = [a \in Acceptor |-> FALSE]
    /\ lock = NoOne
    /\ acceptWaker = NoOne
    /\ decodeWaker = NoOne

\* Waking a task that is registered nowhere, or no longer waits, is lost.
WokenBy(wakers) == [a \in Acceptor |-> woken[a] \/ (a \in wakers /\ pc[a] # "idle")]
-----------------------------------------------------------------------------
(***************************************************************************)
(* QUIC and the peer (external).                                           *)
(***************************************************************************)
PeerOpens(s) ==
    /\ ~closed
    /\ state[s] = "unopened"
    /\ state' = [state EXCEPT ![s] = "queued"]
    /\ woken' = WokenBy({acceptWaker})
    /\ acceptWaker' = NoOne
    /\ UNCHANGED <<type, closed, pc, lock, decodeWaker>>

\* The header of s is complete, or s is reset before it is.
HeaderArrives(s) ==
    /\ ~closed
    /\ state[s] = "pending"
    /\ state' = [state EXCEPT ![s] = "headed"]
    /\ woken' = WokenBy({decodeWaker})
    /\ decodeWaker' = NoOne
    /\ UNCHANGED <<type, closed, pc, lock, acceptWaker>>

\* The connection closes: waiting for streams and for headers both end.
ConnectionCloses ==
    /\ ~closed
    /\ closed' = TRUE
    /\ woken' = WokenBy({acceptWaker, decodeWaker})
    /\ acceptWaker' = NoOne
    /\ decodeWaker' = NoOne
    /\ UNCHANGED <<type, state, pc, lock>>
-----------------------------------------------------------------------------
(***************************************************************************)
(* A call of accept_uni or accept_bi by task a.                            *)
(***************************************************************************)
Accepting(a) == pc[a] # "idle"

CallAccept(a) ==
    /\ ~Accepting(a)
    /\ Exclusive => \A b \in Acceptor : ~Accepting(b)
    /\ pc' = [pc EXCEPT ![a] = "called"]
    /\ UNCHANGED <<type, state, closed, woken, lock, acceptWaker, decodeWaker>>

\* The runtime polls a new or a woken call; the poll takes the mutex.
BeginPoll(a) ==
    /\ pc[a] = "called" \/ (pc[a] = "waiting" /\ woken[a])
    /\ lock = NoOne
    /\ lock' = a
    /\ pc' = [pc EXCEPT ![a] = "loop"]
    /\ woken' = [woken EXCEPT ![a] = FALSE]
    /\ UNCHANGED <<type, state, closed, acceptWaker, decodeWaker>>

\* A queued stream: start decoding its header and continue.
AcceptStream(a, s) ==
    /\ pc[a] = "loop"
    /\ state[s] = "queued"
    /\ state' = [state EXCEPT ![s] = "pending"]
    /\ UNCHANGED <<type, closed, pc, woken, lock, acceptWaker, decodeWaker>>

\* The call is over; the mutex is released and the task's waker forgotten by
\* the runtime, not by SessionAccept.
Finish(a) ==
    /\ pc' = [pc EXCEPT ![a] = "idle"]
    /\ woken' = [woken EXCEPT ![a] = FALSE]
    /\ lock' = NoOne

\* No stream is queued and the connection is closed: return its error.
ReturnError(a) ==
    /\ pc[a] = "loop"
    /\ \A s \in Stream : state[s] # "queued"
    /\ closed
    /\ Finish(a)
    /\ UNCHANGED <<type, state, closed, acceptWaker, decodeWaker>>

\* Fault: the error of the stream future is taken for no stream yet.
AwaitStream_IgnoresError(a) ==
    /\ pc[a] = "loop"
    /\ \A s \in Stream : state[s] # "queued"
    /\ pc' = [pc EXCEPT ![a] = "decode"]
    /\ acceptWaker' = IF closed THEN acceptWaker ELSE a
    /\ UNCHANGED <<type, state, closed, woken, lock, decodeWaker>>

\* No stream is queued: leave the waker and go on to the header decodes.
AwaitStream(a) ==
    /\ pc[a] = "loop"
    /\ \A s \in Stream : state[s] # "queued"
    /\ ~closed
    /\ pc' = [pc EXCEPT ![a] = "decode"]
    /\ acceptWaker' = a
    /\ UNCHANGED <<type, state, closed, woken, lock, decodeWaker>>

\* A kept QPACK stream replaces, and so drops, an earlier one of its type.
KeepQpack(s) ==
    [q \in Stream |->
        CASE q = s -> "kept"
          [] q # s /\ type[q] = type[s] /\ state[q] = "kept" -> "dropped"
          [] OTHER -> state[q]]

\* A decoded header: hand the stream over, or keep or drop it and loop.
TakeDecoded(a, s) ==
    /\ pc[a] = "decode"
    /\ state[s] = "headed"
    /\ decodeWaker' = a
    /\ \/ /\ Verdict(type[s]) = "delivered"
          /\ state' = [state EXCEPT ![s] = "delivered"]
          /\ Finish(a)
       \/ /\ Verdict(type[s]) = "kept"
          /\ state' = KeepQpack(s)
          /\ pc' = [pc EXCEPT ![a] = "loop"]
          /\ UNCHANGED <<woken, lock>>
       \/ /\ Verdict(type[s]) = "dropped"
          /\ state' = [state EXCEPT ![s] = "dropped"]
          /\ pc' = [pc EXCEPT ![a] = "loop"]
          /\ UNCHANGED <<woken, lock>>
    /\ UNCHANGED <<type, closed, acceptWaker>>

\* The connection has closed since AwaitStream: decodes in progress fail and
\* are dropped.
FailDecode(a, s) ==
    /\ pc[a] = "decode"
    /\ closed
    /\ state[s] = "pending"
    /\ state' = [state EXCEPT ![s] = "dropped"]
    /\ decodeWaker' = a
    /\ pc' = [pc EXCEPT ![a] = "loop"]
    /\ UNCHANGED <<type, closed, woken, lock, acceptWaker>>

\* Fault: the set of decodes is not polled, and no waker left in it.
AwaitHeader_NoWaker(a) ==
    /\ pc[a] = "decode"
    /\ \A s \in Stream : state[s] # "headed" /\ (closed => state[s] # "pending")
    /\ pc' = [pc EXCEPT ![a] = "waiting"]
    /\ lock' = NoOne
    /\ UNCHANGED <<type, state, closed, woken, acceptWaker, decodeWaker>>

\* Nothing is decoded: leave the waker, release the mutex and wait.
AwaitHeader(a) ==
    /\ pc[a] = "decode"
    /\ \A s \in Stream : state[s] # "headed" /\ (closed => state[s] # "pending")
    /\ decodeWaker' = a
    /\ pc' = [pc EXCEPT ![a] = "waiting"]
    /\ lock' = NoOne
    /\ UNCHANGED <<type, state, closed, woken, acceptWaker>>

\* Fault: the decodes in progress belong to the call and die with it.
Cancel_DropsDecodes(a) ==
    /\ pc[a] = "waiting"
    /\ pc' = [pc EXCEPT ![a] = "idle"]
    /\ woken' = [woken EXCEPT ![a] = FALSE]
    /\ state' = [s \in Stream |-> IF state[s] = "pending" THEN "dropped" ELSE state[s]]
    /\ UNCHANGED <<type, closed, lock, acceptWaker, decodeWaker>>

\* The caller drops the pending future (a timeout, a select!).
Cancel(a) ==
    /\ pc[a] = "waiting"
    /\ pc' = [pc EXCEPT ![a] = "idle"]
    /\ woken' = [woken EXCEPT ![a] = FALSE]
    /\ UNCHANGED <<type, state, closed, lock, acceptWaker, decodeWaker>>
-----------------------------------------------------------------------------
Poll(a) ==
    \/ BeginPoll(a)
    \/ \E s \in Stream : AcceptStream(a, s) \/ TakeDecoded(a, s) \/ FailDecode(a, s)
    \/ ReturnError(a)
    \/ AwaitStream(a)
    \/ AwaitHeader(a)

Next ==
    \/ \E s \in Stream : PeerOpens(s) \/ HeaderArrives(s)
    \/ ConnectionCloses
    \/ \E a \in Acceptor : CallAccept(a) \/ Poll(a) \/ Cancel(a)

Spec == Init /\ [][Next]_vars

\* The runtime polls every woken task, the mutex is not withheld from a task
\* for ever, and a poll runs to its end.  Nothing is assumed of the peer or of
\* the application.
FairSpec ==
    Spec /\ \A a \in Acceptor : WF_vars(Poll(a)) /\ SF_vars(BeginPoll(a))
-----------------------------------------------------------------------------
TypeOK ==
    /\ type \in [Stream -> StreamType]
    /\ state \in [Stream -> StreamState]
    /\ closed \in BOOLEAN
    /\ pc \in [Acceptor -> {"idle", "called", "loop", "decode", "waiting"}]
    /\ woken \in [Acceptor -> BOOLEAN]
    /\ lock \in Acceptor \cup {NoOne}
    /\ acceptWaker \in Acceptor \cup {NoOne}
    /\ decodeWaker \in Acceptor \cup {NoOne}

\* There is something for a caller of accept to do.
Work == closed \/ \E s \in Stream : state[s] \in {"queued", "headed"}

\* A caller that sleeps has nothing to do: no stream, no header and no close
\* of the connection slips past the waker it left.
NoStrandedAcceptor ==
    \A a \in Acceptor : pc[a] = "waiting" /\ ~woken[a] => ~Work

QpackType == [dir : {"uni"}, header : {"qpack_encoder", "qpack_decoder"}]

\* Exactly the streams of this session reach the application: one that has
\* been accepted is not lost, even if the call that accepted it is cancelled
\* before the header is complete, unless the connection closes.  A QPACK
\* stream lives as long as the connection too: it is closed early only if the
\* peer opened a second one of its type, and that one is held.
ExactlyOwnStreams ==
    \A s \in Stream :
        /\ state[s] = "delivered" => type[s].header = "webtransport"
        /\ state[s] = "dropped" /\ ~closed =>
              /\ type[s].header # "webtransport"
              /\ type[s] \in QpackType =>
                    \E q \in Stream \ {s} : type[q] = type[s] /\ state[q] = "kept"

\* A stream whose header is there reaches a caller that waits, whatever other
\* streams do: one whose header never comes does not hold the others up.
CompleteStreamIsServed ==
    \A a \in Acceptor, s \in Stream :
        (pc[a] = "waiting" /\ state[s] = "headed" /\ Verdict(type[s]) = "delivered")
            ~> (pc[a] = "idle")

\* No call of accept outlives the connection.
CloseEndsAccept ==
    \A a \in Acceptor : (Accepting(a) /\ closed) ~> ~Accepting(a)
-----------------------------------------------------------------------------
(***************************************************************************)
(* The inductive invariant behind NoStrandedAcceptor.                      *)
(***************************************************************************)

\* The mutex is held exactly while a poll is under way, and a stream that was
\* handed over is one of this session.
OnePoller ==
    \A a \in Acceptor : pc[a] \in {"loop", "decode"} <=> lock = a

\* With one call pending at a time, a task that nobody has woken still owns
\* the wakers it left, and nothing has happened since it left them.
WakersInPlace ==
    \A a \in Acceptor :
        /\ \A b \in Acceptor : Accepting(a) /\ Accepting(b) => a = b
        /\ pc[a] \in {"decode", "waiting"} /\ ~woken[a] =>
              acceptWaker = a /\ ~closed /\ \A s \in Stream : state[s] # "queued"
        /\ pc[a] = "waiting" /\ ~woken[a] =>
              decodeWaker = a /\ \A s \in Stream : state[s] # "headed"

IInv == TypeOK /\ OnePoller /\ WakersInPlace
=============================================================================
