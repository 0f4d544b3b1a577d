---------------------------- MODULE SessionClose ----------------------------
(***************************************************************************)
(* How a WebTransport session ends: the part both native backends share    *)
(* (webtrans-quinn and webtrans-quion, src/session.rs).                    *)
(*                                                                         *)
(* Two endpoints share one QUIC connection and its CONNECT stream.  Each   *)
(* runs a background task (run_closed) that reads capsules from the        *)
(* CONNECT stream and serves a one-entry queue of local close requests;    *)
(* the application holds cloned Session handles, whose last drop also      *)
(* closes the session.  QUIC itself is external: a reliable ordered        *)
(* CONNECT stream each way, and a CONNECTION_CLOSE that may overtake it.   *)
(*                                                                         *)
(* A close is told apart by its code; the reason text travels with it.     *)
(* What a backend does once run_closed has returned is left to             *)
(* QuinnSession and QuionSession.                                          *)
(***************************************************************************)
EXTENDS ErrorCode, Sequences

CONSTANTS Client, Server,  \* the two endpoints
          Handle,          \* identities of Session clones
          Code,            \* application codes passed to Session::close
          Foreign,         \* CONNECT stream items only another
                           \*   implementation sends, a subset of ForeignType
          MaxForeign,      \* bound: unread items when a foreign one is sent
          MaxClose,        \* bound: calls of Session::close at one endpoint
          MayLose          \* may the network or an idle timeout kill QUIC?

ForeignType == {"unknown", "short", "oversized", "fin"}

ASSUME SessionConstants ==
    /\ Client # Server
    /\ Handle # {}
    /\ Code \subseteq AppCode
    /\ {0, 1} \subseteq AppCode
    /\ Foreign \subseteq ForeignType
    /\ MaxForeign \in Nat
    /\ MaxClose \in Nat
    /\ MayLose \in BOOLEAN

End == {Client, Server}
Peer(e) == IF e = Client THEN Server ELSE Client

VARIABLES
    live,      \* live[e]: the Session handles e's application holds
    queue,     \* queue[e]: the mpsc channel of capacity 1 behind close_tx
    task,      \* task[e]: where e's background task is
    outcome,   \* outcome[e]: what run_closed returned, or is about to return
    stream,    \* stream[e]: CONNECT stream items sent to e and not yet read
    finished,  \* finished[e]: e's half of the CONNECT stream has ended
    conn,      \* conn[e]: e's view of the QUIC connection
    frame,     \* frame[e]: code of a CONNECTION_CLOSE on its way to e
    asked,     \* history: the codes e's application passed to close
    wrote      \* history: e's task wrote its close capsule

sessionVars == <<live, queue, task, outcome, stream, finished, conn, frame,
                 asked, wrote>>
-----------------------------------------------------------------------------
(***************************************************************************)
(* Values.                                                                 *)
(***************************************************************************)
Item(type, code) == [type |-> type, code |-> code]

\* CONNECT stream items, as read_capsule_frame classifies them.
ItemSet == [type : {"close"} \cup ForeignType, code : AppCode]

\* Results of run_closed: Ok(Some(code)), Ok(None), Err(_); "none" before.
OutcomeSet == [type : {"none", "close", "end", "error"}, code : AppCode]

\* A connection error, or Open when there is none.  The code of "app" is the
\* HTTP/3 code of the peer's CONNECTION_CLOSE.
Reason(kind, code) == [kind |-> kind, code |-> code]
Open == Reason("open", 0)
ConnReason == [kind : {"open", "local", "app", "lost"}, code : Nat]

\* Fault: the peer's code is taken as an offset into the range.
SessionError_Offset(reason) ==
    IF reason.kind = "app" /\ error_from_http3(reason.code) # None
    THEN Reason("closed", reason.code - ERROR_FIRST)
    ELSE reason

\* SessionError::from(ConnectionError): a peer's close inside the reserved
\* range becomes WebTransportError::Closed with the application's code.
SessionError(reason) ==
    IF reason.kind = "app" /\ error_from_http3(reason.code) # None
    THEN Reason("closed", error_from_http3(reason.code))
    ELSE reason

\* Places inside run_closed.  Outside them close_rx has been dropped.
Running == {"select", "writing", "stopping"}
RxOpen(e) == task[e] \in Running
-----------------------------------------------------------------------------
(***************************************************************************)
(* Session::new: one handle, an open connection, a task that is waiting.   *)
(***************************************************************************)
SessionInit(start) ==
    /\ live \in [End -> {{h} : h \in Handle}]
    /\ queue = [e \in End |-> <<>>]
    /\ task = [e \in End |-> start]
    /\ outcome = [e \in End |-> Item("none", 0)]
    /\ stream = [e \in End |-> <<>>]
    /\ finished = [e \in End |-> FALSE]
    /\ conn = [e \in End |-> Open]
    /\ frame = [e \in End |-> None]
    /\ asked = [e \in End |-> <<>>]
    /\ wrote = [e \in End |-> FALSE]
-----------------------------------------------------------------------------
(***************************************************************************)
(* The QUIC connection (external).                                         *)
(***************************************************************************)

\* Connection::close: only the first close of a connection has an effect, and
\* an endpoint that is closed takes no CONNECTION_CLOSE.
QuicClose(e, http3) ==
    IF conn[e] = Open
    THEN /\ conn' = [conn EXCEPT ![e] = Reason("local", 0)]
         /\ frame' = [frame EXCEPT ![e] = None,
                                   ![Peer(e)] = IF conn[Peer(e)] = Open THEN http3 ELSE None]
    ELSE UNCHANGED <<conn, frame>>

\* Fault: the application's code goes on the wire as it is.
close_connection_Raw(e, code) == QuicClose(e, code)

\* Session::close_connection.
close_connection(e, code) == QuicClose(e, error_to_http3(code))

\* The peer's CONNECTION_CLOSE arrives.
DeliverConnectionClose(e) ==
    /\ frame[e] # None
    /\ conn[e] = Open
    /\ conn' = [conn EXCEPT ![e] = Reason("app", frame[e])]
    /\ frame' = [frame EXCEPT ![e] = None]
    /\ UNCHANGED <<live, queue, task, outcome, stream, finished, asked, wrote>>

\* An idle timeout or another transport failure.
ConnectionLost(e) ==
    /\ MayLose
    /\ conn[e] = Open
    /\ conn' = [conn EXCEPT ![e] = Reason("lost", 0)]
    /\ frame' = [frame EXCEPT ![e] = None]
    /\ UNCHANGED <<live, queue, task, outcome, stream, finished, asked, wrote>>

\* Bytes for a receiver that has dropped its RecvStream go nowhere.
Sent(e, items) ==
    [stream EXCEPT ![Peer(e)] = IF RxOpen(Peer(e)) THEN @ \o items ELSE @]

\* Another implementation at the far end: unknown or GREASE capsules, a close
\* capsule too short for its code, one too long to accept, or a bare end of
\* the CONNECT stream.
ForeignItem(e, type) ==
    /\ task[e] = "select"
    /\ ~finished[e]
    /\ conn[e] = Open
    /\ Len(stream[Peer(e)]) < MaxForeign
    /\ stream' = Sent(e, <<Item(type, 0)>>)
    /\ finished' = [finished EXCEPT ![e] = (type = "fin")]
    /\ UNCHANGED <<live, queue, task, outcome, conn, frame, asked, wrote>>
-----------------------------------------------------------------------------
(***************************************************************************)
(* The application's calls.                                                *)
(***************************************************************************)
CloneHandle(e, h) ==
    /\ live[e] # {}
    /\ h \notin live[e]
    /\ live' = [live EXCEPT ![e] = @ \cup {h}]
    /\ UNCHANGED <<queue, task, outcome, stream, finished, conn, frame, asked, wrote>>

DropHandle(e, h) ==
    /\ h \in live[e]
    /\ live' = [live EXCEPT ![e] = @ \ {h}]
    /\ UNCHANGED <<queue, task, outcome, stream, finished, conn, frame, asked, wrote>>

\* Fault: a later request replaces the queued one.
Close_Replaces(e, code) ==
    /\ live[e] # {}
    /\ Len(asked[e]) < MaxClose
    /\ asked' = [asked EXCEPT ![e] = Append(@, code)]
    /\ \/ RxOpen(e) /\ queue' = [queue EXCEPT ![e] = <<code>>] /\ UNCHANGED <<conn, frame>>
       \/ ~RxOpen(e) /\ close_connection(e, code) /\ UNCHANGED queue
    /\ UNCHANGED <<live, task, outcome, stream, finished, wrote>>

\* Fault: the channel has no bound.
Close_Unbounded(e, code) ==
    /\ live[e] # {}
    /\ Len(asked[e]) < MaxClose
    /\ asked' = [asked EXCEPT ![e] = Append(@, code)]
    /\ \/ RxOpen(e) /\ queue' = [queue EXCEPT ![e] = Append(@, code)] /\ UNCHANGED <<conn, frame>>
       \/ ~RxOpen(e) /\ close_connection(e, code) /\ UNCHANGED queue
    /\ UNCHANGED <<live, task, outcome, stream, finished, wrote>>

\* Session::close: try_send into the queue; a full queue drops the request,
\* a dropped receiver means the task is past run_closed and QUIC is closed
\* here.
Close(e, code) ==
    /\ live[e] # {}
    /\ Len(asked[e]) < MaxClose
    /\ asked' = [asked EXCEPT ![e] = Append(@, code)]
    /\ \/ /\ RxOpen(e)
          /\ queue' = [queue EXCEPT ![e] = IF @ = <<>> THEN <<code>> ELSE @]
          /\ UNCHANGED <<conn, frame>>
       \/ /\ ~RxOpen(e)
          /\ close_connection(e, code)
          /\ UNCHANGED queue
    /\ UNCHANGED <<live, task, outcome, stream, finished, wrote>>
-----------------------------------------------------------------------------
(***************************************************************************)
(* The background task: run_closed.                                        *)
(***************************************************************************)

\* run_closed returns o.  It owned the receiver of the queue and both halves
\* of the CONNECT stream: what is queued or unread is lost, and dropping an
\* unfinished send half ends it.
Return(e, o) ==
    /\ task' = [task EXCEPT ![e] = "returned"]
    /\ outcome' = [outcome EXCEPT ![e] = o]
    /\ queue' = [queue EXCEPT ![e] = <<>>]
    /\ finished' = [finished EXCEPT ![e] = TRUE]
    /\ stream' = [Sent(e, IF finished[e] THEN <<>> ELSE <<Item("fin", 0)>>)
                  EXCEPT ![e] = <<>>]
    /\ UNCHANGED <<live, conn, frame, asked, wrote>>

\* The select! takes a close capsule, a malformed capsule or the stream's end.
\* A capsule too short for its code decodes to UnexpectedEnd, which
\* is_graceful_close takes for an end of the stream.
ReadFinal(e) ==
    /\ task[e] = "select"
    /\ stream[e] # <<>>
    /\ LET item == Head(stream[e]) IN
       \/ item.type = "close" /\ Return(e, Item("close", item.code))
       \/ item.type = "oversized" /\ Return(e, Item("error", 0))
       \/ item.type \in {"short", "fin"} /\ Return(e, Item("end", 0))

\* The select! takes an unknown capsule and loops.
ReadUnknown(e) ==
    /\ task[e] = "select"
    /\ stream[e] # <<>>
    /\ Head(stream[e]).type = "unknown"
    /\ stream' = [stream EXCEPT ![e] = Tail(@)]
    /\ UNCHANGED <<live, queue, task, outcome, finished, conn, frame, asked, wrote>>

\* The connection is gone: the read fails, whether or not QUIC still holds
\* unread items (it may hand those out first, by ReadFinal).
ReadFails(e) ==
    /\ task[e] = "select"
    /\ conn[e] # Open
    /\ Return(e, Item("end", 0))

\* The select! takes a close request.
RecvCommand(e) ==
    /\ task[e] = "select"
    /\ queue[e] # <<>>
    /\ task' = [task EXCEPT ![e] = "writing"]
    /\ outcome' = [outcome EXCEPT ![e] = Item("close", Head(queue[e]))]
    /\ queue' = [queue EXCEPT ![e] = <<>>]
    /\ UNCHANGED <<live, stream, finished, conn, frame, asked, wrote>>

\* Every handle, hence every sender, is gone and the queue is empty.
RecvNone(e) ==
    /\ task[e] = "select"
    /\ queue[e] = <<>>
    /\ live[e] = {}
    /\ Return(e, Item("close", 0))

\* write_capsule_frame and finish succeed.
WriteCapsule(e) ==
    /\ task[e] = "writing"
    /\ conn[e] = Open
    /\ ~finished[e]
    /\ task' = [task EXCEPT ![e] = "stopping"]
    /\ stream' = Sent(e, <<Item("close", outcome[e].code), Item("fin", 0)>>)
    /\ finished' = [finished EXCEPT ![e] = TRUE]
    /\ wrote' = [wrote EXCEPT ![e] = TRUE]
    /\ UNCHANGED <<live, queue, outcome, conn, frame, asked>>

\* The write fails: connection lost, stream ended, or STOP_SENDING from a peer
\* whose task is over.
WriteFails(e) ==
    /\ task[e] = "writing"
    /\ conn[e] # Open \/ finished[e] \/ ~RxOpen(Peer(e))
    /\ Return(e, outcome[e])

\* stopped() resolves: the peer's QUIC acknowledged the FIN or refused the
\* stream, or the connection is gone.
StreamStopped(e) ==
    /\ task[e] = "stopping"
    /\ Return(e, outcome[e])

\* Fault: the deadline does not cover the write.
CloseDeadline_AfterWrite(e) ==
    /\ task[e] = "stopping"
    /\ Return(e, outcome[e])

\* The five-second deadline covers the write as well as the wait.
CloseDeadline(e) ==
    /\ task[e] \in {"writing", "stopping"}
    /\ Return(e, outcome[e])
-----------------------------------------------------------------------------
(***************************************************************************)
(* The steps both backends share, by who takes them.                       *)
(***************************************************************************)
RunClosed(e) ==
    \/ ReadFinal(e)
    \/ ReadUnknown(e)
    \/ ReadFails(e)
    \/ RecvCommand(e)
    \/ RecvNone(e)
    \/ WriteCapsule(e)
    \/ WriteFails(e)
    \/ StreamStopped(e)
    \/ CloseDeadline(e)

Network(e) ==
    \/ DeliverConnectionClose(e)
    \/ ConnectionLost(e)
    \/ \E type \in Foreign : ForeignItem(e, type)

\* One of the two ends of a connection that is gone at the other: QUIC closes
\* it too, by the CONNECTION_CLOSE or by the idle timeout.
LearnClose(e) ==
    /\ conn[Peer(e)] # Open
    /\ DeliverConnectionClose(e) \/ ConnectionLost(e)

SessionTypeOK ==
    /\ live \in [End -> SUBSET Handle]
    /\ queue \in [End -> {<<>>} \cup {<<c>> : c \in Code}]
    /\ task \in [End -> Running \cup
                   {"returned", "recorded", "closed", "stored", "done", "monitor"}]
    /\ outcome \in [End -> OutcomeSet]
    /\ stream \in [End -> Seq(ItemSet)]
    /\ finished \in [End -> BOOLEAN]
    /\ conn \in [End -> ConnReason]
    /\ frame \in [End -> Nat \cup {None}]
    /\ asked \in [End -> Seq(Code)]
    /\ wrote \in [End -> BOOLEAN]
-----------------------------------------------------------------------------
(***************************************************************************)
(* Invariants of the steps that both backends share.                       *)
(***************************************************************************)

\* Until the task takes it, the queue holds the first code asked for; from
\* then on that code is the outcome of run_closed.
FirstQueued ==
    \A e \in End :
        /\ task[e] = "select" =>
              queue[e] = IF asked[e] = <<>> THEN <<>> ELSE <<Head(asked[e])>>
        /\ task[e] \in {"writing", "stopping"} \/ wrote[e] =>
              asked[e] # <<>> /\ outcome[e] = Item("close", Head(asked[e]))
        /\ wrote[e] => task[e] \notin {"select", "writing"}

\* The first code e was asked for, if any, and all that QUIC may tell e of:
\* its own first, any of the other side, and the backends' own 0 and 1.
First(e) == {c \in Code : asked[e] # <<>> /\ c = Head(asked[e])}
Known(e) == {0, 1} \cup First(e) \cup {asked[Peer(e)][i] : i \in DOMAIN asked[Peer(e)]}

\* A reason that came with a CONNECTION_CLOSE of one of these codes, and one
\* that came with none.
Mapped(codes) == {error_to_http3(c) : c \in codes}
Unnamed == {Open, Reason("local", 0), Reason("lost", 0)}

\* Where codes come from: a capsule carries the first code its sender was
\* asked for, a CONNECTION_CLOSE in answer to it carries it back, and a call of
\* close on a session whose task is over goes straight to QUIC.  A bare 0 is
\* quinn's, for a connection whose handles are gone.
Provenance ==
    \A e \in End :
        /\ \A i \in DOMAIN stream[e] :
              stream[e][i].type = "close" => stream[e][i].code \in First(Peer(e))
        /\ outcome[e].type = "close" => outcome[e].code \in {0} \cup First(e) \cup First(Peer(e))
        /\ frame[e] \in {None, 0} \cup Mapped(Known(e))
        /\ \/ conn[e] \in Unnamed
           \/ \E h \in {0} \cup Mapped(Known(e)) : conn[e] = Reason("app", h)

\* e closes the session at most once and is in time to send its capsule; the
\* other side neither closes nor drops its handles.
OneSided(e) ==
    /\ Len(asked[e]) <= 1
    /\ asked[Peer(e)] = <<>>
    /\ live[Peer(e)] # {}
    /\ wrote[e] \/ task[e] \in {"select", "writing"}

\* Then that code is the only one the other side ever gets, from the capsule
\* or from the CONNECTION_CLOSE.
PeerTold ==
    \A e \in End : OneSided(e) =>
        /\ outcome[Peer(e)].type = "close" => outcome[Peer(e)].code \in First(e)
        /\ frame[Peer(e)] \in {None} \cup Mapped(First(e))
        /\ \/ conn[Peer(e)] \in Unnamed
           \/ \E h \in Mapped(First(e)) : conn[Peer(e)] = Reason("app", h)
=============================================================================
