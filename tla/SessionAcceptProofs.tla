------------------------- MODULE SessionAcceptProofs -------------------------
(***************************************************************************)
(* With one call of accept pending at a time, no wakeup is lost, for every *)
(* number of streams and of tasks that take turns.  Which streams reach    *)
(* the application does not depend on how it calls accept.                 *)
(***************************************************************************)
EXTENDS SessionAccept, TLAPS

\* Nobody has called accept yet, so nobody holds the mutex or sleeps.
LEMMA AcceptInit == Init => IInv
  BY AcceptConstants
  DEF Init, IInv, TypeOK, OnePoller, WakersInPlace, Accepting, StreamState, StreamType, Dir

\* What QUIC does to the shared state.
LEMMA NetworkStep ==
    ASSUME IInv,
           (\E s \in Stream : PeerOpens(s) \/ HeaderArrives(s)) \/ ConnectionCloses
    PROVE  IInv'
<1>. USE DEF IInv
<1>1. ASSUME NEW s \in Stream, PeerOpens(s) PROVE IInv'
  <2>1. TypeOK'
    BY <1>1 DEF PeerOpens, TypeOK, WokenBy, StreamState
  <2>2. OnePoller'
    BY <1>1 DEF PeerOpens, OnePoller
  <2>3. WakersInPlace'
    BY <1>1 DEF PeerOpens, TypeOK, WakersInPlace, WokenBy, Accepting
  <2>. QED
    BY <2>1, <2>2, <2>3
<1>2. ASSUME NEW s \in Stream, HeaderArrives(s) PROVE IInv'
  <2>1. TypeOK'
    BY <1>2 DEF HeaderArrives, TypeOK, WokenBy, StreamState
  <2>2. OnePoller'
    BY <1>2 DEF HeaderArrives, OnePoller
  <2>3. WakersInPlace'
    BY <1>2 DEF HeaderArrives, TypeOK, WakersInPlace, WokenBy, Accepting
  <2>. QED
    BY <2>1, <2>2, <2>3
<1>3. CASE ConnectionCloses
  <2>1. TypeOK'
    BY <1>3 DEF ConnectionCloses, TypeOK, WokenBy
  <2>2. OnePoller'
    BY <1>3 DEF ConnectionCloses, OnePoller
  <2>3. WakersInPlace'
    BY <1>3 DEF ConnectionCloses, TypeOK, WakersInPlace, WokenBy, Accepting
  <2>. QED
    BY <2>1, <2>2, <2>3
<1>. QED
  BY <1>1, <1>2, <1>3

\* What a task does.  Only calling needs the application's discipline.
LEMMA AcceptorStep ==
    ASSUME IInv, Exclusive, NEW a \in Acceptor,
           CallAccept(a) \/ Poll(a) \/ Cancel(a)
    PROVE  IInv'
<1>. USE AcceptConstants DEF IInv
<1>1. CASE CallAccept(a)
  <2>1. TypeOK' /\ OnePoller'
    BY <1>1 DEF CallAccept, Accepting, TypeOK, OnePoller
  <2>2. WakersInPlace'
    BY <1>1 DEF CallAccept, TypeOK, WakersInPlace, Accepting
  <2>. QED
    BY <2>1, <2>2
<1>2. CASE BeginPoll(a)
  <2>1. TypeOK'
    BY <1>2 DEF BeginPoll, TypeOK
  <2>2. OnePoller'
    BY <1>2 DEF BeginPoll, TypeOK, OnePoller
  <2>3. WakersInPlace'
    BY <1>2 DEF BeginPoll, TypeOK, WakersInPlace, Accepting
  <2>. QED
    BY <2>1, <2>2, <2>3
<1>3. ASSUME NEW s \in Stream, AcceptStream(a, s) PROVE IInv'
  <2>1. TypeOK' /\ OnePoller'
    BY <1>3 DEF AcceptStream, TypeOK, OnePoller, StreamState
  <2>2. WakersInPlace'
    BY <1>3 DEF AcceptStream, TypeOK, WakersInPlace, Accepting
  <2>. QED
    BY <2>1, <2>2
<1>4. ASSUME NEW s \in Stream, TakeDecoded(a, s) PROVE IInv'
  <2>1. /\ pc[a] = "decode"
        /\ decodeWaker' = a
        /\ UNCHANGED <<type, closed, acceptWaker>>
    BY <1>4 DEF TakeDecoded
  <2>2. state' \in [Stream -> StreamState]
    BY <1>4 DEF TakeDecoded, KeepQpack, TypeOK, StreamState
  <2>3. CASE pc' = [pc EXCEPT ![a] = "idle"]
             /\ woken' = [woken EXCEPT ![a] = FALSE] /\ lock' = NoOne
    <3>1. TypeOK'
      BY <2>1, <2>2, <2>3 DEF TypeOK
    <3>2. OnePoller'
      BY <2>1, <2>3 DEF TypeOK, OnePoller
    <3>3. WakersInPlace'
      BY <2>1, <2>3 DEF TypeOK, WakersInPlace, Accepting
    <3>. QED
      BY <3>1, <3>2, <3>3
  <2>4. CASE pc' = [pc EXCEPT ![a] = "loop"] /\ UNCHANGED <<woken, lock>>
    <3>1. TypeOK'
      BY <2>1, <2>2, <2>4 DEF TypeOK
    <3>2. OnePoller'
      BY <2>1, <2>4 DEF TypeOK, OnePoller
    <3>3. WakersInPlace'
      BY <2>1, <2>4 DEF TypeOK, WakersInPlace, Accepting
    <3>. QED
      BY <3>1, <3>2, <3>3
  <2>. QED
    BY <1>4, <2>3, <2>4 DEF TakeDecoded, KeepQpack, Finish
<1>5. ASSUME NEW s \in Stream, FailDecode(a, s) PROVE IInv'
  <2>1. TypeOK' /\ OnePoller'
    BY <1>5 DEF FailDecode, TypeOK, OnePoller, StreamState
  <2>2. WakersInPlace'
    BY <1>5 DEF FailDecode, TypeOK, WakersInPlace, Accepting
  <2>. QED
    BY <2>1, <2>2
<1>6. CASE ReturnError(a)
  <2>1. TypeOK' /\ OnePoller'
    BY <1>6 DEF ReturnError, Finish, TypeOK, OnePoller
  <2>2. WakersInPlace'
    BY <1>6 DEF ReturnError, Finish, TypeOK, WakersInPlace, Accepting
  <2>. QED
    BY <2>1, <2>2
<1>7. CASE AwaitStream(a)
  <2>1. TypeOK' /\ OnePoller'
    BY <1>7 DEF AwaitStream, TypeOK, OnePoller
  <2>2. WakersInPlace'
    BY <1>7 DEF AwaitStream, TypeOK, WakersInPlace, Accepting
  <2>. QED
    BY <2>1, <2>2
<1>8. CASE AwaitHeader(a)
  <2>1. TypeOK' /\ OnePoller'
    BY <1>8 DEF AwaitHeader, TypeOK, OnePoller
  <2>2. WakersInPlace'
    BY <1>8 DEF AwaitHeader, TypeOK, WakersInPlace, Accepting
  <2>. QED
    BY <2>1, <2>2
<1>9. CASE Cancel(a)
  <2>1. TypeOK' /\ OnePoller'
    BY <1>9 DEF Cancel, TypeOK, OnePoller
  <2>2. WakersInPlace'
    BY <1>9 DEF Cancel, TypeOK, WakersInPlace, Accepting
  <2>. QED
    BY <2>1, <2>2
<1>. QED
  BY <1>1, <1>2, <1>3, <1>4, <1>5, <1>6, <1>7, <1>8, <1>9 DEF Poll

\* The inductive invariant, if the application keeps one call of accept pending
\* at a time: one poller holds the mutex, and a sleeper owns the wakers.
THEOREM AcceptInvariant ==
    ASSUME Exclusive
    PROVE  Spec => []IInv
<1>1. Init => IInv
  BY AcceptInit
<1>2. IInv /\ [Next]_vars => IInv'
  <2>. SUFFICES ASSUME IInv, [Next]_vars PROVE IInv'
    OBVIOUS
  <2>1. CASE UNCHANGED vars
    BY <2>1 DEF vars, IInv, TypeOK, OnePoller, WakersInPlace, Accepting
  <2>. QED
    BY <2>1, NetworkStep, AcceptorStep DEF Next
<1>. QED
  BY <1>1, <1>2, PTL DEF Spec

\* If the application keeps one call of accept pending at a time, from any
\* task and with any cancellations, a sleeping caller has nothing to do.
THEOREM AcceptNoStranded ==
    ASSUME Exclusive
    PROVE  Spec => []NoStrandedAcceptor
<1>1. IInv => NoStrandedAcceptor
  BY DEF IInv, WakersInPlace, NoStrandedAcceptor, Work
<1>. QED
  BY <1>1, AcceptInvariant, PTL
-----------------------------------------------------------------------------
(***************************************************************************)
(* What becomes of the streams, however many calls are pending.            *)
(***************************************************************************)

\* What a header means: only a WebTransport one of this session is handed over,
\* and only a QPACK one on a unidirectional stream is kept.
LEMMA Verdicts ==
    ASSUME NEW t \in StreamType
    PROVE  /\ Verdict(t) = "delivered" => t.header = "webtransport"
           /\ Verdict(t) = "dropped" => t.header # "webtransport" /\ t \notin QpackType
           /\ Verdict(t) = "kept" => t.header \in {"qpack_encoder", "qpack_decoder"}
  BY DEF Verdict, decode_uni, decode_bi, StreamType, QpackType

\* The places of the streams and the connection, as far as they matter here.
StreamsOK ==
    /\ type \in [Stream -> StreamType]
    /\ state \in [Stream -> StreamState]
    /\ closed \in BOOLEAN
    /\ ExactlyOwnStreams

\* A stream moves on that is not a QPACK stream already held.
LEMMA Moves ==
    ASSUME StreamsOK, NEW s \in Stream, NEW to \in StreamState,
           state' = [state EXCEPT ![s] = to], UNCHANGED <<type, closed>>,
           state[s] # "kept",
           to = "delivered" => type[s].header = "webtransport",
           to = "dropped" => closed \/ (type[s].header # "webtransport" /\ type[s] \notin QpackType)
    PROVE  StreamsOK'
<1>1. state' \in [Stream -> StreamState]
  BY DEF StreamsOK
<1>2. \A q \in Stream : state'[q] = IF q = s THEN to ELSE state[q]
  BY DEF StreamsOK
<1>3. ExactlyOwnStreams'
  BY <1>2 DEF StreamsOK, ExactlyOwnStreams
<1>. QED
  BY <1>1, <1>3 DEF StreamsOK

\* Every step keeps the streams where they belong.
LEMMA StreamsStep == StreamsOK /\ [Next]_vars => StreamsOK'
<1>. SUFFICES ASSUME StreamsOK, [Next]_vars PROVE StreamsOK'
  OBVIOUS
<1>1. ASSUME UNCHANGED <<type, state>>, closed' \in BOOLEAN, closed => closed'
      PROVE  StreamsOK'
  BY <1>1 DEF StreamsOK, ExactlyOwnStreams
<1>2. ASSUME NEW s \in Stream, PeerOpens(s) \/ HeaderArrives(s) PROVE StreamsOK'
  BY <1>2, Moves DEF PeerOpens, HeaderArrives, StreamState
<1>3. ASSUME NEW a \in Acceptor, NEW s \in Stream, AcceptStream(a, s) \/ FailDecode(a, s)
      PROVE  StreamsOK'
  BY <1>3, Moves DEF AcceptStream, FailDecode, StreamState
<1>4. ASSUME NEW a \in Acceptor, NEW s \in Stream, TakeDecoded(a, s) PROVE StreamsOK'
  <2>1. UNCHANGED <<type, closed>> /\ type[s] \in StreamType /\ state[s] = "headed"
    BY <1>4 DEF TakeDecoded, StreamsOK
  <2>2. ASSUME NEW to \in {"delivered", "dropped"}, Verdict(type[s]) = to,
               state' = [state EXCEPT ![s] = to]
        PROVE  StreamsOK'
    BY <2>1, <2>2, Moves, Verdicts DEF StreamState
  <2>3. CASE Verdict(type[s]) = "kept" /\ state' = KeepQpack(s)
    <3>1. type[s].header # "webtransport"
      BY <2>1, <2>3, Verdicts
    <3>2. state' \in [Stream -> StreamState]
      BY <2>3 DEF KeepQpack, StreamsOK, StreamState
    <3>3. \A q \in Stream :
             state'[q] = IF q = s THEN "kept"
                         ELSE IF type[q] = type[s] /\ state[q] = "kept" THEN "dropped"
                         ELSE state[q]
      BY <2>3 DEF KeepQpack
    <3>4. ASSUME NEW p \in Stream PROVE state'[p] = "delivered" => type'[p].header = "webtransport"
      BY <2>1, <3>3 DEF StreamsOK, ExactlyOwnStreams
    <3>5. ASSUME NEW p \in Stream, state'[p] = "dropped", ~closed'
          PROVE  /\ type'[p].header # "webtransport"
                 /\ type'[p] \in QpackType =>
                       \E q \in Stream \ {p} : type'[q] = type'[p] /\ state'[q] = "kept"
      <4>1. p # s /\ state'[s] = "kept"
        BY <3>3, <3>5
      <4>2. CASE type[p] = type[s]
        BY <2>1, <3>1, <4>1, <4>2
      <4>3. CASE type[p] # type[s]
        BY <2>1, <3>3, <3>5, <4>1, <4>3 DEF StreamsOK, ExactlyOwnStreams
      <4>. QED
        BY <4>2, <4>3
    <3>6. ExactlyOwnStreams'
      BY <3>4, <3>5 DEF ExactlyOwnStreams
    <3>. QED
      BY <2>1, <3>2, <3>6 DEF StreamsOK
  <2>. QED
    BY <1>4, <2>2, <2>3 DEF TakeDecoded
<1>5. CASE ConnectionCloses
  BY <1>1, <1>5 DEF ConnectionCloses
<1>6. ASSUME NEW a \in Acceptor,
             \/ CallAccept(a) \/ BeginPoll(a) \/ ReturnError(a)
             \/ AwaitStream(a) \/ AwaitHeader(a) \/ Cancel(a)
      PROVE  StreamsOK'
  BY <1>1, <1>6
  DEF CallAccept, BeginPoll, ReturnError, AwaitStream, AwaitHeader, Cancel, StreamsOK
<1>7. CASE UNCHANGED vars
  BY <1>1, <1>7 DEF vars, StreamsOK
<1>. QED
  BY <1>2, <1>3, <1>4, <1>5, <1>6, <1>7 DEF Next, Poll

\* The streams start unopened.
LEMMA StreamsInit == Init => StreamsOK
  BY DEF Init, StreamsOK, ExactlyOwnStreams, StreamType, StreamState, Dir

\* Exactly the session's own streams reach the application, and no QPACK stream
\* is closed but for another of its type, whichever calls of accept are pending
\* at once, cancelled or repeated.
THEOREM AcceptOwnStreams == Spec => []ExactlyOwnStreams
<1>1. StreamsOK => ExactlyOwnStreams
  BY DEF StreamsOK
<1>. QED
  BY <1>1, StreamsInit, StreamsStep, PTL DEF Spec
=============================================================================
