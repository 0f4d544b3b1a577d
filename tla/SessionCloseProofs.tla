------------------------- MODULE SessionCloseProofs -------------------------
(***************************************************************************)
(* What the steps that both native backends share do to the invariants of  *)
(* SessionClose, for every set of handles and codes, every bound, and any  *)
(* foreign peer.                                                           *)
(***************************************************************************)
EXTENDS SessionClose, TLAPS

(***************************************************************************)
(* The error mapping for every range, the source's one included.           *)
(***************************************************************************)

\* A natural below the modulus is its own remainder: `code as u32` truncates
\* nothing that error_from_http3 computes.
LEMMA SmallRemainder ==
    ASSUME NEW n \in Nat, NEW x \in 0..n
    PROVE  x % (n + 1) = x
  OBVIOUS

\* Skipping one code point in 31 and closing the gaps again is the identity.
LEMMA SkipThenClose ==
    ASSUME NEW c \in Nat
    PROVE  LET s == c + (c \div 30) IN s - (s \div 31) = c
  OBVIOUS

\* Skipping is monotone, so no code lands beyond the last one's place.
LEMMA SkipMonotone ==
    ASSUME NEW m \in Nat, NEW c \in 0..m
    PROVE  c + (c \div 30) <= m + (m \div 30)
  OBVIOUS

\* For every application code, error_from_http3 undoes error_to_http3.
THEOREM ErrorRoundTrip == \A code \in AppCode : RoundTrips(code)
<1>. SUFFICES ASSUME NEW code \in AppCode
              PROVE  RoundTrips(code)
  OBVIOUS
<1>. DEFINE s == code + (code \div 30)
<1>1. code \in Nat /\ U32_MAX \in Nat /\ ERROR_FIRST \in Nat
  BY ErrorRange DEF AppCode
<1>2. s \in Nat /\ error_to_http3(code) = ERROR_FIRST + s
  BY <1>1 DEF error_to_http3
<1>3. ERROR_FIRST + s <= ERROR_LAST
  BY <1>1, SkipMonotone, ErrorRange DEF AppCode
<1>4. s - (s \div 31) = code
  BY <1>1, SkipThenClose
<1>5. code % (U32_MAX + 1) = code
  BY <1>1, SmallRemainder DEF AppCode
<1>6. (ERROR_FIRST + s) - ERROR_FIRST = s
  BY <1>1, <1>2
<1>7. ERROR_LAST \in Nat
  BY ErrorRange
<1>. HIDE DEF s
<1>8. ~(ERROR_FIRST + s < ERROR_FIRST \/ ERROR_FIRST + s > ERROR_LAST)
  BY <1>1, <1>2, <1>3, <1>7
<1>. QED
  BY <1>2, <1>4, <1>5, <1>6, <1>8 DEF RoundTrips, error_from_http3

\* Every application code is sent inside the reserved range and never on a
\* GREASE value.
THEOREM ErrorWellPlaced == \A code \in AppCode : WellPlaced(code)
<1>. SUFFICES ASSUME NEW code \in AppCode
              PROVE  WellPlaced(code)
  OBVIOUS
<1>1. code \in Nat /\ U32_MAX \in Nat /\ ERROR_FIRST \in Nat /\ ERROR_LAST \in Nat
  BY ErrorRange DEF AppCode
<1>2. error_to_http3(code) \in ERROR_FIRST..ERROR_LAST
  BY <1>1, SkipMonotone, ErrorRange DEF AppCode, error_to_http3
<1>3. ((ERROR_FIRST + code + (code \div 30)) - 33) % 31 # 0
  BY <1>1, ErrorRange
<1>. QED
  BY <1>2, <1>3 DEF WellPlaced, is_grease_value, error_to_http3
-----------------------------------------------------------------------------
(***************************************************************************)
(* Facts about endpoints and codes.                                        *)
(***************************************************************************)

\* The peer is the other endpoint.
LEMMA PeerFacts ==
    ASSUME NEW e \in End
    PROVE  Peer(e) \in End /\ Peer(e) # e /\ Peer(Peer(e)) = e /\ End = {e, Peer(e)}
  BY SessionConstants DEF End, Peer

\* A decoded code, when there is one, is an application code.
LEMMA FromHttp3Type ==
    ASSUME NEW h \in Nat
    PROVE  error_from_http3(h) \in AppCode \cup {None}
<1>1. ASSUME NEW n \in Nat, NEW x \in Int
      PROVE  x % (n + 1) \in 0..n
  OBVIOUS
<1>. QED
  BY <1>1, ErrorRange DEF error_from_http3, AppCode

\* An encoded code is a natural.
LEMMA ToHttp3Type ==
    ASSUME NEW c \in AppCode
    PROVE  error_to_http3(c) \in Nat
  BY ErrorRange DEF error_to_http3, AppCode

\* SessionError keeps a reason a reason, and never turns one into none.
LEMMA SessionErrorFacts ==
    ASSUME NEW r \in ConnReason
    PROVE  /\ SessionError(r) \in [kind : {"open", "local", "app", "lost", "closed"},
                                   code : Nat]
           /\ r # Open => SessionError(r) # Open
<1>. USE DEF ConnReason, SessionError, Reason, Open
<1>1. CASE r.kind = "app" /\ error_from_http3(r.code) # None
  <2>1. error_from_http3(r.code) \in Nat
    BY <1>1, FromHttp3Type, ErrorRange DEF AppCode
  <2>. QED
    BY <1>1, <2>1
<1>2. CASE ~(r.kind = "app" /\ error_from_http3(r.code) # None)
  BY <1>2
<1>. QED
  BY <1>1, <1>2

\* A CONNECTION_CLOSE with a mapped code is reported as that code.
LEMMA SessionErrorMapped ==
    ASSUME NEW c \in AppCode
    PROVE  SessionError(Reason("app", error_to_http3(c))) = Reason("closed", c)
<1>1. error_from_http3(error_to_http3(c)) = c /\ c # None
  BY ErrorRoundTrip, ErrorRange DEF RoundTrips, AppCode, None
<1>. QED
  BY <1>1 DEF SessionError, Reason

\* Reasons that came with no code are reported as they are.
LEMMA SessionErrorUnnamed ==
    ASSUME NEW r \in Unnamed
    PROVE  SessionError(r) = r
  BY DEF Unnamed, SessionError, Reason, Open
-----------------------------------------------------------------------------
(***************************************************************************)
(* Types, and the queue.                                                   *)
(***************************************************************************)

\* Sending keeps the CONNECT streams sequences of items.
LEMMA SentType ==
    ASSUME SessionTypeOK, NEW e \in End, NEW items \in Seq(ItemSet)
    PROVE  Sent(e, items) \in [End -> Seq(ItemSet)]
  BY PeerFacts DEF SessionTypeOK, Sent

\* Closing QUIC leaves e closed, and nobody is reopened by it.
LEMMA QuicCloseFacts ==
    ASSUME SessionTypeOK, NEW e \in End, NEW h \in Nat, QuicClose(e, h)
    PROVE  /\ conn' \in [End -> ConnReason]
           /\ frame' \in [End -> Nat \cup {None}]
           /\ conn'[e] # Open
           /\ \A f \in End : conn[f] # Open => conn'[f] = conn[f]
           /\ \A f \in End : conn'[f] # conn[f] => f = e /\ conn'[f] = Reason("local", 0)
           /\ \A f \in End : \/ frame'[f] \in {None, frame[f]}
                             \/ f = Peer(e) /\ frame'[f] = h /\ conn[e] = Open
<1>1. Peer(e) \in End /\ Peer(e) # e
  BY PeerFacts
<1>2. Reason("local", 0) \in ConnReason /\ Reason("local", 0) # Open
  BY DEF ConnReason, Reason, Open
<1>3. CASE conn[e] = Open
  <2>1. /\ conn' = [conn EXCEPT ![e] = Reason("local", 0)]
        /\ frame' = [frame EXCEPT ![e] = None,
                                  ![Peer(e)] = IF conn[Peer(e)] = Open THEN h ELSE None]
    BY <1>3 DEF QuicClose
  <2>2. /\ conn' \in [End -> ConnReason]
        /\ \A f \in End : conn'[f] = IF f = e THEN Reason("local", 0) ELSE conn[f]
    BY <1>2, <2>1 DEF SessionTypeOK
  <2>3. /\ frame' \in [End -> Nat \cup {None}]
        /\ \A f \in End : \/ frame'[f] \in {None, frame[f]}
                          \/ f = Peer(e) /\ frame'[f] = h
    BY <1>1, <2>1 DEF SessionTypeOK
  <2>. QED
    BY <1>2, <1>3, <2>2, <2>3
<1>4. CASE conn[e] # Open
  BY <1>4 DEF QuicClose, SessionTypeOK
<1>. QED
  BY <1>3, <1>4

\* run_closed returns: the types and the queue are in order if a close that was
\* being written is what it returns.
LEMMA ReturnQueued ==
    ASSUME SessionTypeOK, FirstQueued, NEW e \in End, NEW o \in OutcomeSet,
           task[e] \in Running,
           task[e] # "select" => o = outcome[e],
           Return(e, o)
    PROVE  SessionTypeOK' /\ FirstQueued'
<1>. DEFINE fin == IF finished[e] THEN <<>> ELSE <<Item("fin", 0)>>
<1>1. Item("fin", 0) \in ItemSet
  BY SessionConstants DEF Item, ItemSet, ForeignType
<1>2. fin \in Seq(ItemSet)
  BY <1>1
<1>3. Sent(e, fin) \in [End -> Seq(ItemSet)]
  BY <1>2, SentType
<1>4. stream' \in [End -> Seq(ItemSet)]
  BY <1>3 DEF Return
<1>5. SessionTypeOK'
  BY <1>4 DEF SessionTypeOK, Return
<1>6. FirstQueued'
  BY DEF SessionTypeOK, FirstQueued, Return, Running
<1>. QED
  BY <1>5, <1>6

\* The steps of run_closed.
LEMMA RunClosedQueued ==
    ASSUME SessionTypeOK, FirstQueued, NEW e \in End, RunClosed(e)
    PROVE  SessionTypeOK' /\ FirstQueued'
<1>0. 0 \in AppCode
  BY SessionConstants
<1>1. CASE ReadFinal(e)
  <2>. DEFINE item == Head(stream[e])
  <2>1. item \in ItemSet
    BY <1>1 DEF ReadFinal, SessionTypeOK
  <2>2. /\ Item("close", item.code) \in OutcomeSet
        /\ Item("error", 0) \in OutcomeSet
        /\ Item("end", 0) \in OutcomeSet
    BY <1>0, <2>1 DEF Item, ItemSet, OutcomeSet
  <2>3. PICK o \in OutcomeSet : Return(e, o)
    BY <1>1, <2>2 DEF ReadFinal
  <2>. QED
    BY <1>1, <2>3, ReturnQueued DEF ReadFinal, Running
<1>2. CASE ReadUnknown(e)
  <2>1. stream' \in [End -> Seq(ItemSet)]
    BY <1>2 DEF ReadUnknown, SessionTypeOK
  <2>2. SessionTypeOK'
    BY <1>2, <2>1 DEF ReadUnknown, SessionTypeOK
  <2>. QED
    BY <1>2, <2>2 DEF ReadUnknown, FirstQueued
<1>3. CASE ReadFails(e)
  BY <1>0, <1>3, ReturnQueued DEF ReadFails, Running, Item, OutcomeSet
<1>4. CASE RecvCommand(e)
  <2>1. Head(queue[e]) \in AppCode /\ queue[e] = <<Head(asked[e])>> /\ asked[e] # <<>>
    BY <1>4, SessionConstants DEF RecvCommand, SessionTypeOK, FirstQueued
  <2>2. outcome' \in [End -> OutcomeSet]
    BY <1>4, <2>1 DEF RecvCommand, SessionTypeOK, Item, OutcomeSet
  <2>3. SessionTypeOK'
    BY <1>4, <2>2 DEF RecvCommand, SessionTypeOK, Running
  <2>4. FirstQueued'
    BY <1>4, <2>1 DEF RecvCommand, SessionTypeOK, FirstQueued, Item
  <2>. QED
    BY <2>3, <2>4
<1>5. CASE RecvNone(e)
  BY <1>0, <1>5, ReturnQueued DEF RecvNone, Running, Item, OutcomeSet
<1>6. CASE WriteCapsule(e)
  <2>. DEFINE items == <<Item("close", outcome[e].code), Item("fin", 0)>>
  <2>1. outcome[e].code \in AppCode
    BY DEF SessionTypeOK, OutcomeSet
  <2>2. items \in Seq(ItemSet)
    BY <1>0, <2>1 DEF Item, ItemSet, ForeignType
  <2>3. Sent(e, items) \in [End -> Seq(ItemSet)]
    BY <2>2, SentType
  <2>4. SessionTypeOK'
    BY <1>6, <2>3 DEF WriteCapsule, SessionTypeOK, Running
  <2>5. FirstQueued'
    BY <1>6 DEF WriteCapsule, SessionTypeOK, FirstQueued
  <2>. QED
    BY <2>4, <2>5
<1>7. CASE WriteFails(e) \/ StreamStopped(e) \/ CloseDeadline(e)
  <2>1. task[e] \in Running /\ Return(e, outcome[e])
    BY <1>7 DEF WriteFails, StreamStopped, CloseDeadline, Running
  <2>2. outcome[e] \in OutcomeSet
    BY DEF SessionTypeOK
  <2>. QED
    BY <2>1, <2>2, ReturnQueued
<1>. QED
  BY <1>1, <1>2, <1>3, <1>4, <1>5, <1>6, <1>7 DEF RunClosed

\* run_closed moves its own task, among its own places or to its return, and
\* leaves handles, requests and QUIC alone.
LEMMA RunClosedFacts ==
    ASSUME SessionTypeOK, NEW e \in End, RunClosed(e)
    PROVE  /\ task[e] \in Running /\ task'[e] \in Running \cup {"returned"}
           /\ task'[e] \in {"select", "writing"} => task[e] = "select"
           /\ wrote'[e] => wrote[e] \/ task[e] = "writing"
           /\ \A f \in End : f # e => task'[f] = task[f] /\ outcome'[f] = outcome[f]
                                      /\ wrote'[f] = wrote[f]
           /\ UNCHANGED <<live, conn, frame, asked>>
<1>1. ASSUME NEW o, Return(e, o)
      PROVE  /\ task'[e] = "returned"
             /\ \A f \in End : f # e => task'[f] = task[f] /\ outcome'[f] = outcome[f]
             /\ UNCHANGED <<live, conn, frame, asked, wrote>>
  BY <1>1 DEF Return, SessionTypeOK
<1>2. CASE ReadFinal(e) \/ ReadFails(e) \/ RecvNone(e) \/ WriteFails(e)
           \/ StreamStopped(e) \/ CloseDeadline(e)
  <2>1. task[e] \in Running /\ \E o : Return(e, o)
    BY <1>2 DEF ReadFinal, ReadFails, RecvNone, WriteFails, StreamStopped, CloseDeadline,
                Running
  <2>. QED
    BY <1>1, <2>1
<1>3. CASE ReadUnknown(e)
  BY <1>3 DEF ReadUnknown, SessionTypeOK, Running
<1>4. CASE RecvCommand(e)
  BY <1>4 DEF RecvCommand, SessionTypeOK, Running
<1>5. CASE WriteCapsule(e)
  BY <1>5 DEF WriteCapsule, SessionTypeOK, Running
<1>. QED
  BY <1>2, <1>3, <1>4, <1>5 DEF RunClosed

\* The network and a foreign peer touch the streams and QUIC.
LEMMA NetworkFacts ==
    ASSUME SessionTypeOK, NEW e \in End, Network(e)
    PROVE  /\ UNCHANGED <<live, queue, task, outcome, asked, wrote>>
           /\ \A f \in End : frame'[f] \in {None, frame[f]}
           /\ \A f \in End : conn'[f] # conn[f] =>
                 /\ f = e
                 /\ conn[f] = Open
                 /\ \/ conn'[f] = Reason("lost", 0)
                    \/ frame[f] # None /\ conn'[f] = Reason("app", frame[f])
           /\ \/ UNCHANGED stream
              \/ \E type \in Foreign : stream' = Sent(e, <<Item(type, 0)>>) /\ UNCHANGED conn
<1>1. CASE DeliverConnectionClose(e)
  BY <1>1 DEF DeliverConnectionClose, SessionTypeOK
<1>2. CASE ConnectionLost(e)
  BY <1>2 DEF ConnectionLost, SessionTypeOK
<1>3. ASSUME NEW type \in Foreign, ForeignItem(e, type)
      PROVE  /\ UNCHANGED <<live, queue, task, outcome, asked, wrote, frame, conn>>
             /\ stream' = Sent(e, <<Item(type, 0)>>)
  BY <1>3 DEF ForeignItem
<1>. QED
  BY <1>1, <1>2, <1>3 DEF Network

\* They keep the types and the queue.
LEMMA NetworkQueued ==
    ASSUME SessionTypeOK, FirstQueued, NEW e \in End, Network(e)
    PROVE  SessionTypeOK' /\ FirstQueued'
<1>1. CASE DeliverConnectionClose(e) \/ ConnectionLost(e)
  <2>1. PICK r \in ConnReason : conn' = [conn EXCEPT ![e] = r]
    <3>1. frame[e] # None => Reason("app", frame[e]) \in ConnReason
      BY DEF SessionTypeOK, ConnReason, Reason
    <3>2. Reason("lost", 0) \in ConnReason
      BY DEF ConnReason, Reason
    <3>. QED
      BY <1>1, <3>1, <3>2 DEF DeliverConnectionClose, ConnectionLost
  <2>2. /\ frame' = [frame EXCEPT ![e] = None]
        /\ UNCHANGED <<live, queue, task, outcome, stream, finished, asked, wrote>>
    BY <1>1 DEF DeliverConnectionClose, ConnectionLost
  <2>3. SessionTypeOK'
    BY <2>1, <2>2 DEF SessionTypeOK
  <2>. QED
    BY <2>2, <2>3 DEF FirstQueued
<1>2. ASSUME NEW type \in Foreign, ForeignItem(e, type)
      PROVE  SessionTypeOK' /\ FirstQueued'
  <2>1. <<Item(type, 0)>> \in Seq(ItemSet)
    BY SessionConstants DEF Item, ItemSet
  <2>2. stream' \in [End -> Seq(ItemSet)]
    BY <1>2, <2>1, SentType DEF ForeignItem
  <2>3. SessionTypeOK'
    BY <1>2, <2>2 DEF ForeignItem, SessionTypeOK
  <2>. QED
    BY <1>2, <2>3 DEF ForeignItem, FirstQueued
<1>. QED
  BY <1>1, <1>2 DEF Network

\* A call of close: the queue takes it, or QUIC is closed.
LEMMA CloseQueued ==
    ASSUME SessionTypeOK, FirstQueued, NEW e \in End, NEW c \in Code, Close(e, c)
    PROVE  /\ SessionTypeOK' /\ FirstQueued'
           /\ asked' = [asked EXCEPT ![e] = Append(@, c)]
           /\ UNCHANGED <<live, task, outcome, stream, finished, wrote>>
           /\ \/ RxOpen(e) /\ UNCHANGED <<conn, frame>>
              \/ ~RxOpen(e) /\ QuicClose(e, error_to_http3(c))
           /\ error_to_http3(c) \in Nat
<1>1. asked' \in [End -> Seq(Code)] /\ asked'[e] = Append(asked[e], c)
  BY DEF Close, SessionTypeOK
<1>2. /\ asked'[e] # <<>>
      /\ Head(asked'[e]) = IF asked[e] = <<>> THEN c ELSE Head(asked[e])
  BY <1>1 DEF SessionTypeOK
<1>3. \A f \in End : f # e => asked'[f] = asked[f]
  BY DEF Close, SessionTypeOK
<1>4. /\ UNCHANGED <<live, task, outcome, stream, finished, wrote>>
      /\ asked' = [asked EXCEPT ![e] = Append(@, c)]
  BY DEF Close
<1>5. error_to_http3(c) \in Nat
  BY SessionConstants, ToHttp3Type
<1>6. CASE RxOpen(e)
  <2>1. /\ queue' = [queue EXCEPT ![e] = IF @ = <<>> THEN <<c>> ELSE @]
        /\ UNCHANGED <<conn, frame>>
    BY <1>6 DEF Close
  <2>2. SessionTypeOK'
    BY <1>1, <1>4, <2>1 DEF SessionTypeOK
  <2>3. FirstQueued'
    BY <1>2, <1>3, <1>4, <2>1 DEF SessionTypeOK, FirstQueued
  <2>. QED
    BY <1>4, <1>5, <1>6, <2>1, <2>2, <2>3
<1>7. CASE ~RxOpen(e)
  <2>1. QuicClose(e, error_to_http3(c)) /\ UNCHANGED queue
    BY <1>7 DEF Close, close_connection
  <2>2. conn' \in [End -> ConnReason] /\ frame' \in [End -> Nat \cup {None}]
    BY <1>5, <2>1, QuicCloseFacts
  <2>3. SessionTypeOK'
    BY <1>1, <1>4, <2>1, <2>2 DEF SessionTypeOK
  <2>4. FirstQueued'
    BY <1>2, <1>3, <1>4, <1>7, <2>1 DEF RxOpen, Running, FirstQueued
  <2>. QED
    BY <1>4, <1>5, <1>7, <2>1, <2>3, <2>4
<1>. QED
  BY <1>6, <1>7

\* Cloning and dropping handles: the first handle of a session is never made.
LEMMA HandleQueued ==
    ASSUME SessionTypeOK, FirstQueued, NEW e \in End, NEW h \in Handle,
           CloneHandle(e, h) \/ DropHandle(e, h)
    PROVE  /\ SessionTypeOK' /\ FirstQueued'
           /\ \A f \in End : live'[f] # {} => live[f] # {}
           /\ UNCHANGED <<queue, task, outcome, stream, finished, conn, frame, asked, wrote>>
<1>1. /\ live' \in [End -> SUBSET Handle]
      /\ \A f \in End : live'[f] # {} => live[f] # {}
      /\ UNCHANGED <<queue, task, outcome, stream, finished, conn, frame, asked, wrote>>
  <2>1. CASE CloneHandle(e, h)
    BY <2>1 DEF CloneHandle, SessionTypeOK
  <2>2. CASE DropHandle(e, h)
    BY <2>2 DEF DropHandle, SessionTypeOK
  <2>. QED
    BY <2>1, <2>2
<1>. QED
  BY <1>1 DEF SessionTypeOK, FirstQueued
-----------------------------------------------------------------------------
(***************************************************************************)
(* Where codes come from.                                                  *)
(***************************************************************************)

\* What may be named is an application code.
LEMMA KnownFacts ==
    ASSUME SessionTypeOK, NEW e \in End
    PROVE  /\ {0, 1} \cup First(e) \cup First(Peer(e)) \subseteq Known(e)
           /\ Known(e) \subseteq AppCode
<1>1. Peer(e) \in End
  BY PeerFacts
<1>2. asked[e] \in Seq(Code) /\ asked[Peer(e)] \in Seq(Code)
  BY <1>1 DEF SessionTypeOK
<1>3. First(Peer(e)) \subseteq Known(e)
  <2>1. ASSUME asked[Peer(e)] # <<>>
        PROVE  1 \in DOMAIN asked[Peer(e)] /\ Head(asked[Peer(e)]) = asked[Peer(e)][1]
    BY <1>2, <2>1
  <2>. QED
    BY <2>1 DEF First, Known
<1>4. {asked[Peer(e)][i] : i \in DOMAIN asked[Peer(e)]} \subseteq Code
  BY <1>2
<1>. QED
  BY <1>3, <1>4, SessionConstants DEF Known, First

\* A call of close adds to what may be named and takes nothing away; its code
\* may be named by the other end.
LEMMA AskedFacts ==
    ASSUME SessionTypeOK, NEW e \in End, NEW c \in Code,
           asked' = [asked EXCEPT ![e] = Append(@, c)]
    PROVE  /\ \A f \in End : First(f) \subseteq First(f)'
           /\ \A f \in End : Known(f) \subseteq Known(f)'
           /\ c \in Known(Peer(e))'
<1>1. \A f \in End : asked[f] \in Seq(Code) /\ Peer(f) \in End
  BY PeerFacts DEF SessionTypeOK
<1>2. /\ asked'[e] = Append(asked[e], c)
      /\ \A f \in End : f # e => asked'[f] = asked[f]
  BY DEF SessionTypeOK
<1>3. \A f \in End : \A i \in DOMAIN asked[f] :
          i \in DOMAIN asked'[f] /\ asked'[f][i] = asked[f][i]
  BY <1>1, <1>2
<1>4. ASSUME NEW f \in End PROVE First(f) \subseteq First(f)'
  BY <1>1, <1>2 DEF First
<1>5. ASSUME NEW f \in End PROVE Known(f) \subseteq Known(f)'
  BY <1>1, <1>3, <1>4 DEF Known
<1>6. c \in Known(Peer(e))'
  <2>1. Len(asked'[e]) \in DOMAIN asked'[e] /\ asked'[e][Len(asked'[e])] = c
    BY <1>1, <1>2
  <2>2. Peer(Peer(e)) = e
    BY PeerFacts
  <2>. QED
    BY <2>1, <2>2 DEF Known
<1>. QED
  BY <1>4, <1>5, <1>6

\* As long as nobody asks, nothing more may be named.
LEMMA NotAsked ==
    ASSUME UNCHANGED asked
    PROVE  \A e : First(e)' = First(e) /\ Known(e)' = Known(e)
  BY DEF First, Known

\* What is left to show of a step that changes neither the codes asked for
\* nor the connection.
LEMMA ProvenanceOf ==
    ASSUME Provenance, UNCHANGED <<asked, conn, frame>>,
           \A e \in End :
              /\ \A i \in DOMAIN stream'[e] : stream'[e][i].type = "close" =>
                    stream'[e][i].code \in First(Peer(e))
              /\ outcome'[e].type = "close" =>
                    outcome'[e].code \in {0} \cup First(e) \cup First(Peer(e))
    PROVE  Provenance'
<1>1. \A e \in End : /\ First(e)' = First(e) /\ Known(e)' = Known(e)
                     /\ First(Peer(e))' = First(Peer(e))
  BY NotAsked
<1>. QED
  BY <1>1 DEF Provenance

\* What is on its way after items were sent was so before, or is one of them.
LEMMA SentItems ==
    ASSUME SessionTypeOK, NEW e \in End, NEW items \in Seq(ItemSet),
           NEW f \in End, NEW i \in DOMAIN Sent(e, items)[f]
    PROVE  \/ \E k \in DOMAIN stream[f] : Sent(e, items)[f][i] = stream[f][k]
           \/ f = Peer(e) /\ \E k \in DOMAIN items : Sent(e, items)[f][i] = items[k]
<1>1. Peer(e) \in End /\ stream[f] \in Seq(ItemSet)
  BY PeerFacts DEF SessionTypeOK
<1>2. CASE f # Peer(e) \/ ~RxOpen(Peer(e))
  <2>1. Sent(e, items)[f] = stream[f]
    BY <1>2 DEF Sent, SessionTypeOK
  <2>. QED
    BY <2>1
<1>3. CASE f = Peer(e) /\ RxOpen(Peer(e))
  <2>1. Sent(e, items)[f] = stream[f] \o items
    BY <1>1, <1>3 DEF Sent, SessionTypeOK
  <2>2. i \in DOMAIN (stream[f] \o items)
    BY <2>1
  <2>3. CASE i <= Len(stream[f])
    <3>1. i \in DOMAIN stream[f] /\ (stream[f] \o items)[i] = stream[f][i]
      BY <1>1, <2>2, <2>3
    <3>. QED
      BY <2>1, <3>1
  <2>4. CASE i > Len(stream[f])
    <3>1. i - Len(stream[f]) \in DOMAIN items
      BY <1>1, <2>2, <2>4
    <3>2. (stream[f] \o items)[i] = items[i - Len(stream[f])]
      BY <1>1, <2>2, <2>4
    <3>. QED
      BY <1>3, <2>1, <3>1, <3>2
  <2>. QED
    BY <1>1, <2>2, <2>3, <2>4
<1>. QED
  BY <1>2, <1>3

\* Sending items, of which any close carries the sender's first code.
LEMMA SentProvenance ==
    ASSUME SessionTypeOK, Provenance, NEW e \in End, NEW items \in Seq(ItemSet),
           \A i \in DOMAIN items : items[i].type = "close" => items[i].code \in First(e)
    PROVE  \A f \in End : \A i \in DOMAIN Sent(e, items)[f] :
              Sent(e, items)[f][i].type = "close" =>
                 Sent(e, items)[f][i].code \in First(Peer(f))
<1>. SUFFICES ASSUME NEW f \in End, NEW i \in DOMAIN Sent(e, items)[f],
                     Sent(e, items)[f][i].type = "close"
              PROVE  Sent(e, items)[f][i].code \in First(Peer(f))
  OBVIOUS
<1>1. CASE \E k \in DOMAIN stream[f] : Sent(e, items)[f][i] = stream[f][k]
  BY <1>1 DEF Provenance
<1>2. CASE f = Peer(e) /\ \E k \in DOMAIN items : Sent(e, items)[f][i] = items[k]
  BY <1>2, PeerFacts
<1>. QED
  BY <1>1, <1>2, SentItems

\* run_closed returns what it was sent or asked for.
LEMMA ReturnProvenance ==
    ASSUME SessionTypeOK, Provenance, NEW e \in End, NEW o, Return(e, o),
           o.type = "close" => o.code \in {0} \cup First(e) \cup First(Peer(e))
    PROVE  Provenance'
<1>. DEFINE fin == IF finished[e] THEN <<>> ELSE <<Item("fin", 0)>>
<1>1. fin \in Seq(ItemSet) /\ \A i \in DOMAIN fin : fin[i].type # "close"
  <2>1. Item("fin", 0) \in ItemSet /\ Item("fin", 0).type # "close"
    BY SessionConstants DEF Item, ItemSet, ForeignType
  <2>. QED
    BY <2>1
<1>2. \A f \in End : \A i \in DOMAIN Sent(e, fin)[f] :
         Sent(e, fin)[f][i].type = "close" => Sent(e, fin)[f][i].code \in First(Peer(f))
  <2>. HIDE DEF fin
  <2>. QED
    BY <1>1, SentProvenance
<1>3. stream' = [Sent(e, fin) EXCEPT ![e] = <<>>]
  BY DEF Return
<1>4. Sent(e, fin) \in [End -> Seq(ItemSet)]
  <2>. HIDE DEF fin
  <2>. QED
    BY <1>1, SentType
<1>5. \A f \in End : stream'[f] = IF f = e THEN <<>> ELSE Sent(e, fin)[f]
  <2>. HIDE DEF fin
  <2>. QED
    BY <1>3, <1>4
<1>6. \A f \in End : \A i \in DOMAIN stream'[f] :
         stream'[f][i].type = "close" => stream'[f][i].code \in First(Peer(f))
  <2>. HIDE DEF fin
  <2>. QED
    BY <1>2, <1>5
<1>7. \A f \in End : outcome'[f] = IF f = e THEN o ELSE outcome[f]
  BY DEF Return, SessionTypeOK
<1>8. UNCHANGED <<asked, conn, frame>>
  BY DEF Return
<1>9. \A f \in End : outcome'[f].type = "close" =>
         outcome'[f].code \in {0} \cup First(f) \cup First(Peer(f))
  BY <1>7 DEF Provenance
<1>. QED
  BY <1>6, <1>8, <1>9, ProvenanceOf

\* The steps of run_closed.
LEMMA RunClosedProvenance ==
    ASSUME SessionTypeOK, FirstQueued, Provenance, NEW e \in End, RunClosed(e)
    PROVE  Provenance'
<1>1. CASE ReadFinal(e)
  <2>1. /\ 1 \in DOMAIN stream[e]
        /\ Head(stream[e]) = stream[e][1]
    BY <1>1 DEF ReadFinal, SessionTypeOK
  <2>2. Head(stream[e]).type = "close" => Head(stream[e]).code \in First(Peer(e))
    BY <2>1 DEF Provenance
  <2>3. \/ Head(stream[e]).type = "close" /\ Return(e, Item("close", Head(stream[e]).code))
        \/ Return(e, Item("error", 0))
        \/ Return(e, Item("end", 0))
    BY <1>1 DEF ReadFinal
  <2>4. PICK o : /\ Return(e, o)
                 /\ o.type = "close" => o.code \in First(Peer(e))
    BY <2>2, <2>3 DEF Item
  <2>. QED
    BY <2>4, ReturnProvenance
<1>2. CASE ReadUnknown(e)
  <2>1. \A f \in End : \A i \in DOMAIN stream'[f] :
           \E k \in DOMAIN stream[f] : stream'[f][i] = stream[f][k]
    <3>1. stream' = [stream EXCEPT ![e] = Tail(@)] /\ stream[e] # <<>>
      BY <1>2 DEF ReadUnknown
    <3>2. ASSUME NEW i \in DOMAIN Tail(stream[e])
          PROVE  i + 1 \in DOMAIN stream[e] /\ Tail(stream[e])[i] = stream[e][i + 1]
      BY <3>1 DEF SessionTypeOK
    <3>3. \A f \in End : stream'[f] = IF f = e THEN Tail(stream[e]) ELSE stream[f]
      BY <3>1 DEF SessionTypeOK
    <3>. QED
      BY <3>2, <3>3
  <2>2. UNCHANGED <<asked, conn, frame, outcome>>
    BY <1>2 DEF ReadUnknown
  <2>3. \A f \in End :
          /\ \A i \in DOMAIN stream'[f] : stream'[f][i].type = "close" =>
                stream'[f][i].code \in First(Peer(f))
          /\ outcome'[f].type = "close" =>
                outcome'[f].code \in {0} \cup First(f) \cup First(Peer(f))
    BY <2>1, <2>2 DEF Provenance
  <2>. QED
    BY <2>2, <2>3, ProvenanceOf
<1>3. CASE ReadFails(e)
  BY <1>3, ReturnProvenance DEF ReadFails, Item
<1>4. CASE RecvCommand(e)
  <2>0. queue[e] # <<>> /\ queue[e] = IF asked[e] = <<>> THEN <<>> ELSE <<Head(asked[e])>>
    BY <1>4 DEF RecvCommand, FirstQueued
  <2>1. asked[e] # <<>> /\ Head(queue[e]) = Head(asked[e])
    BY <2>0
  <2>2. Head(queue[e]) \in First(e)
    <3>1. Head(asked[e]) \in Code
      BY <2>1 DEF SessionTypeOK
    <3>. QED
      BY <2>1, <3>1 DEF First
  <2>3. UNCHANGED <<asked, conn, frame, stream>>
    BY <1>4 DEF RecvCommand
  <2>4. \A f \in End : outcome'[f] = IF f = e THEN Item("close", Head(queue[e])) ELSE outcome[f]
    BY <1>4 DEF RecvCommand, SessionTypeOK
  <2>5. \A f \in End : outcome'[f].type = "close" =>
           outcome'[f].code \in {0} \cup First(f) \cup First(Peer(f))
    BY <2>2, <2>4 DEF Provenance, Item
  <2>6. \A f \in End : \A i \in DOMAIN stream'[f] : stream'[f][i].type = "close" =>
           stream'[f][i].code \in First(Peer(f))
    BY <2>3 DEF Provenance
  <2>. QED
    BY <2>3, <2>5, <2>6, ProvenanceOf
<1>5. CASE RecvNone(e)
  BY <1>5, ReturnProvenance DEF RecvNone, Item
<1>6. CASE WriteCapsule(e)
  <2>. DEFINE items == <<Item("close", outcome[e].code), Item("fin", 0)>>
  <2>1. /\ outcome[e].code \in AppCode
        /\ 0 \in AppCode
    BY SessionConstants DEF SessionTypeOK, OutcomeSet
  <2>2. items \in Seq(ItemSet)
    BY <2>1 DEF Item, ItemSet, ForeignType
  <2>3. outcome[e].code \in First(e)
    <3>1. asked[e] # <<>> /\ outcome[e] = Item("close", Head(asked[e]))
      BY <1>6 DEF WriteCapsule, FirstQueued
    <3>2. Head(asked[e]) \in Code
      BY <3>1 DEF SessionTypeOK
    <3>. QED
      BY <3>1, <3>2 DEF First, Item
  <2>4. \A i \in DOMAIN items : items[i].type = "close" => items[i].code \in First(e)
    BY <2>3 DEF Item
  <2>5. stream' = Sent(e, items) /\ UNCHANGED <<asked, conn, frame, outcome>>
    BY <1>6 DEF WriteCapsule
  <2>6. \A f \in End :
          /\ \A i \in DOMAIN stream'[f] : stream'[f][i].type = "close" =>
                stream'[f][i].code \in First(Peer(f))
          /\ outcome'[f].type = "close" =>
                outcome'[f].code \in {0} \cup First(f) \cup First(Peer(f))
    <3>. HIDE DEF items
    <3>1. \A f \in End : \A i \in DOMAIN stream'[f] : stream'[f][i].type = "close" =>
             stream'[f][i].code \in First(Peer(f))
      BY <2>2, <2>4, <2>5, SentProvenance
    <3>. QED
      BY <2>5, <3>1 DEF Provenance
  <2>. QED
    BY <2>5, <2>6, ProvenanceOf
<1>7. CASE WriteFails(e) \/ StreamStopped(e) \/ CloseDeadline(e)
  <2>1. Return(e, outcome[e])
    BY <1>7 DEF WriteFails, StreamStopped, CloseDeadline
  <2>2. outcome[e].type = "close" => outcome[e].code \in {0} \cup First(e) \cup First(Peer(e))
    BY DEF Provenance
  <2>. QED
    BY <2>1, <2>2, ReturnProvenance
<1>. QED
  BY <1>1, <1>2, <1>3, <1>4, <1>5, <1>6, <1>7 DEF RunClosed

\* Closing QUIC with a bare 0 or with a code that the other end may name.
LEMMA QuicCloseProvenance ==
    ASSUME SessionTypeOK, Provenance, NEW e \in End, NEW h \in Nat, QuicClose(e, h),
           UNCHANGED <<stream, outcome>>,
           \A f \in End : First(f) \subseteq First(f)',
           \A f \in End : Known(f) \subseteq Known(f)',
           h \in {0} \cup Mapped(Known(Peer(e)))'
    PROVE  Provenance'
<1>1. \A f \in End : Peer(f) \in End
  BY PeerFacts
<1>2. \A f \in End :
        /\ \A i \in DOMAIN stream'[f] : stream'[f][i].type = "close" =>
              stream'[f][i].code \in First(Peer(f))'
        /\ outcome'[f].type = "close" =>
              outcome'[f].code \in {0} \cup First(f)' \cup First(Peer(f))'
  BY <1>1 DEF Provenance
<1>3. \A f \in End : Mapped(Known(f)) \subseteq Mapped(Known(f))'
  BY DEF Mapped
<1>4. \A f \in End : frame'[f] \in {None, 0} \cup Mapped(Known(f))'
  <2>1. \A f \in End : frame'[f] \in {None, frame[f]} \/ (f = Peer(e) /\ frame'[f] = h)
    BY QuicCloseFacts
  <2>. QED
    BY <1>3, <2>1 DEF Provenance
<1>5. \A f \in End :
        \/ conn'[f] \in Unnamed
        \/ \E g \in {0} \cup Mapped(Known(f))' : conn'[f] = Reason("app", g)
  <2>1. \A f \in End : conn'[f] \in {conn[f], Reason("local", 0)}
    BY QuicCloseFacts
  <2>2. Reason("local", 0) \in Unnamed
    BY DEF Unnamed
  <2>. QED
    BY <1>3, <2>1, <2>2 DEF Provenance
<1>6. Unnamed' = Unnamed
  BY DEF Unnamed, Open, Reason
<1>. QED
  BY <1>2, <1>4, <1>5, <1>6 DEF Provenance

\* The steps of the network and of a foreign peer, whose items carry no code.
LEMMA NetworkProvenance ==
    ASSUME SessionTypeOK, Provenance, NEW e \in End, Network(e)
    PROVE  Provenance'
<1>1. /\ UNCHANGED <<outcome, asked>>
      /\ \A f \in End : frame'[f] \in {None, frame[f]}
      /\ \A f \in End : conn'[f] # conn[f] =>
            \/ conn'[f] = Reason("lost", 0)
            \/ frame[f] # None /\ conn'[f] = Reason("app", frame[f])
      /\ \/ UNCHANGED stream
         \/ \E type \in Foreign : stream' = Sent(e, <<Item(type, 0)>>)
  BY NetworkFacts
<1>2. \A f : First(f)' = First(f) /\ Known(f)' = Known(f)
  BY <1>1, NotAsked
<1>3. \A f \in End : \A i \in DOMAIN stream'[f] : stream'[f][i].type = "close" =>
         stream'[f][i].code \in First(Peer(f))
  <2>1. ASSUME NEW type \in Foreign, stream' = Sent(e, <<Item(type, 0)>>)
        PROVE  \A f \in End : \A i \in DOMAIN stream'[f] : stream'[f][i].type = "close" =>
                  stream'[f][i].code \in First(Peer(f))
    <3>. DEFINE items == <<Item(type, 0)>>
    <3>1. Item(type, 0) \in ItemSet /\ Item(type, 0).type # "close"
      BY SessionConstants DEF Item, ItemSet, ForeignType
    <3>2. items \in Seq(ItemSet) /\ \A i \in DOMAIN items : items[i].type # "close"
      BY <3>1
    <3>3. stream' = Sent(e, items)
      BY <2>1
    <3>. HIDE DEF items
    <3>. QED
      BY <3>2, <3>3, SentProvenance
  <2>. QED
    BY <1>1, <2>1 DEF Provenance
<1>4. \A f \in End : frame'[f] \in {None, 0} \cup Mapped(Known(f))
  BY <1>1 DEF Provenance
<1>5. \A f \in End :
        \/ conn'[f] \in Unnamed
        \/ \E g \in {0} \cup Mapped(Known(f)) : conn'[f] = Reason("app", g)
  <2>1. Reason("lost", 0) \in Unnamed
    BY DEF Unnamed
  <2>2. \A f \in End : frame[f] # None => frame[f] \in {0} \cup Mapped(Known(f))
    BY DEF Provenance
  <2>. QED
    BY <1>1, <2>1, <2>2 DEF Provenance
<1>6. Unnamed' = Unnamed
  BY DEF Unnamed, Open, Reason
<1>7. \A f : Mapped(Known(f))' = Mapped(Known(f))
  BY <1>2 DEF Mapped
<1>. QED
  BY <1>1, <1>2, <1>3, <1>4, <1>5, <1>6, <1>7 DEF Provenance

\* A call of close: a queued code is one that has been asked for, and so is
\* one that goes straight to QUIC.
LEMMA CloseProvenance ==
    ASSUME SessionTypeOK, FirstQueued, Provenance, NEW e \in End, NEW c \in Code, Close(e, c)
    PROVE  Provenance'
<1>1. /\ asked' = [asked EXCEPT ![e] = Append(@, c)] /\ UNCHANGED <<stream, outcome>>
      /\ UNCHANGED <<conn, frame>> \/ QuicClose(e, error_to_http3(c))
      /\ error_to_http3(c) \in Nat
  BY CloseQueued
<1>2. /\ \A f \in End : First(f) \subseteq First(f)'
      /\ \A f \in End : Known(f) \subseteq Known(f)'
      /\ c \in Known(Peer(e))'
  BY <1>1, AskedFacts
<1>3. \A f \in End : Mapped(Known(f)) \subseteq Mapped(Known(f))'
  BY <1>2 DEF Mapped
<1>4. CASE QuicClose(e, error_to_http3(c))
  <2>1. error_to_http3(c) \in {0} \cup Mapped(Known(Peer(e)))'
    BY <1>2 DEF Mapped
  <2>. QED
    BY <1>1, <1>2, <1>4, <2>1, QuicCloseProvenance
<1>5. CASE UNCHANGED <<conn, frame>>
  <2>1. Unnamed' = Unnamed
    BY DEF Unnamed, Open, Reason
  <2>. QED
    BY <1>1, <1>2, <1>3, <1>5, <2>1, PeerFacts DEF Provenance
<1>. QED
  BY <1>1, <1>4, <1>5

\* Steps that leave everything it speaks of alone.
LEMMA IdleProvenance ==
    ASSUME Provenance, UNCHANGED <<stream, outcome, frame, conn, asked>>
    PROVE  Provenance'
<1>1. \A e \in End :
        /\ \A i \in DOMAIN stream'[e] : stream'[e][i].type = "close" =>
              stream'[e][i].code \in First(Peer(e))
        /\ outcome'[e].type = "close" =>
              outcome'[e].code \in {0} \cup First(e) \cup First(Peer(e))
  BY DEF Provenance
<1>. QED
  BY <1>1, ProvenanceOf
\* The codes SessionEnd lets an end name are the ones known to it.
LEMMA NamedCodes ==
    ASSUME SessionTypeOK, NEW e \in End
    PROVE  {0, 1}
             \cup {asked[e][i] : i \in DOMAIN asked[e] \cap {1}}
             \cup UNION {{asked[f][i] : i \in DOMAIN asked[f]} : f \in End \ {e}} = Known(e)
<1>1. End \ {e} = {Peer(e)} /\ asked[e] \in Seq(Code)
  BY PeerFacts DEF SessionTypeOK
<1>2. {asked[e][i] : i \in DOMAIN asked[e] \cap {1}} = First(e)
  <2>1. CASE asked[e] = <<>>
    BY <2>1 DEF First
  <2>2. CASE asked[e] # <<>>
    <3>1. DOMAIN asked[e] \cap {1} = {1} /\ Head(asked[e]) = asked[e][1] /\ asked[e][1] \in Code
      BY <1>1, <2>2
    <3>. QED
      BY <2>2, <3>1 DEF First
  <2>. QED
    BY <2>1, <2>2
<1>. QED
  BY <1>1, <1>2 DEF Known

\* A connection's reason, as a session reports it, is one that e may settle
\* on.
LEMMA ReasonSettles ==
    ASSUME SessionTypeOK, NEW e \in End, NEW r, r # Open,
           r \in Unnamed \/ \E h \in {0} \cup Mapped(Known(e)) : r = Reason("app", h)
    PROVE  \/ \E c \in Known(e) : SessionError(r) \in {Reason("closed", c), Reason("app", c)}
           \/ SessionError(r) \in {Reason("local", 0), Reason("lost", 0)}
<1>0. Known(e) \subseteq AppCode /\ 0 \in Known(e)
  BY KnownFacts
<1>1. CASE r \in Unnamed
  BY <1>1, SessionErrorUnnamed DEF Unnamed
<1>2. ASSUME NEW c \in Known(e), r = Reason("app", error_to_http3(c))
      PROVE  SessionError(r) = Reason("closed", c)
  BY <1>0, <1>2, SessionErrorMapped
<1>3. CASE r = Reason("app", 0)
  <2>1. error_from_http3(0) = None
    BY ErrorRange DEF error_from_http3
  <2>2. SessionError(r) = Reason("app", 0)
    BY <1>3, <2>1 DEF SessionError, Reason
  <2>. QED
    BY <1>0, <2>2
<1>. QED
  BY <1>0, <1>1, <1>2, <1>3 DEF Mapped
-----------------------------------------------------------------------------
(***************************************************************************)
(* One side closes.                                                        *)
(***************************************************************************)

\* Whoever is alone in closing after a step was so before it.
LEMMA OneSidedBefore ==
    ASSUME SessionTypeOK, NEW e \in End, OneSided(e)',
           \A f \in End : \/ asked'[f] = asked[f]
                          \/ \E c \in Code : asked'[f] = Append(asked[f], c),
           live'[Peer(e)] # {} => live[Peer(e)] # {},
           wrote'[e] => wrote[e] \/ task[e] = "writing",
           task'[e] \in {"select", "writing"} => task[e] \in {"select", "writing"}
    PROVE  /\ OneSided(e)
           /\ asked'[Peer(e)] = asked[Peer(e)]
           /\ asked'[e] # asked[e] => asked[e] = <<>>
<1>1. Peer(e) \in End
  BY PeerFacts
<1>2. asked[e] \in Seq(Code) /\ asked[Peer(e)] \in Seq(Code)
  BY <1>1 DEF SessionTypeOK
<1>3. Len(asked'[e]) <= 1 /\ asked'[Peer(e)] = <<>> /\ live'[Peer(e)] # {}
      /\ (wrote'[e] \/ task'[e] \in {"select", "writing"})
  BY DEF OneSided
<1>4. asked'[Peer(e)] = asked[Peer(e)]
  BY <1>1, <1>2, <1>3
<1>5. Len(asked[e]) <= 1 /\ (asked'[e] # asked[e] => asked[e] = <<>>)
  BY <1>2, <1>3
<1>. QED
  BY <1>3, <1>4, <1>5 DEF OneSided

\* The side that neither closes nor drops its handles returns from run_closed
\* with the capsule's code, with an error or with the end of the stream.
LEMMA PassiveReturn ==
    ASSUME SessionTypeOK, FirstQueued, Provenance, NEW e \in End, RunClosed(e),
           asked[e] = <<>>, live[e] # {}
    PROVE  \/ ReadUnknown(e)
           \/ ReadFails(e) /\ Return(e, Item("end", 0))
           \/ /\ task[e] = "select" /\ stream[e] # <<>>
              /\ \/ /\ Head(stream[e]).type = "close"
                    /\ Head(stream[e]).code \in First(Peer(e))
                    /\ Return(e, Item("close", Head(stream[e]).code))
                 \/ Head(stream[e]).type = "oversized" /\ Return(e, Item("error", 0))
                 \/ Head(stream[e]).type \in {"short", "fin"} /\ Return(e, Item("end", 0))
<1>1. task[e] \notin {"writing", "stopping"}
  BY DEF FirstQueued
<1>2. ~RecvCommand(e) /\ ~RecvNone(e)
  BY DEF RecvCommand, RecvNone, FirstQueued
<1>3. ~WriteCapsule(e) /\ ~WriteFails(e) /\ ~StreamStopped(e) /\ ~CloseDeadline(e)
  BY <1>1 DEF WriteCapsule, WriteFails, StreamStopped, CloseDeadline
<1>4. CASE ReadFinal(e)
  <2>1. stream[e] # <<>> /\ task[e] = "select"
    BY <1>4 DEF ReadFinal
  <2>2. 1 \in DOMAIN stream[e] /\ Head(stream[e]) = stream[e][1]
    BY <2>1 DEF SessionTypeOK
  <2>3. Head(stream[e]).type = "close" => Head(stream[e]).code \in First(Peer(e))
    BY <2>2 DEF Provenance
  <2>. QED
    BY <1>4, <2>1, <2>3 DEF ReadFinal
<1>. QED
  BY <1>2, <1>3, <1>4 DEF RunClosed, ReadFails

\* The steps of run_closed.
LEMMA RunClosedTold ==
    ASSUME SessionTypeOK, FirstQueued, Provenance, PeerTold, NEW a \in End, RunClosed(a)
    PROVE  PeerTold'
<1>. SUFFICES ASSUME NEW e \in End, OneSided(e)'
              PROVE  /\ outcome'[Peer(e)].type = "close" => outcome'[Peer(e)].code \in First(e)'
                     /\ frame'[Peer(e)] \in {None} \cup Mapped(First(e))'
                     /\ \/ conn'[Peer(e)] \in Unnamed'
                        \/ \E h \in Mapped(First(e))' : conn'[Peer(e)] = Reason("app", h)
  BY DEF PeerTold
<1>1. /\ task'[a] \in {"select", "writing"} => task[a] = "select"
      /\ wrote'[a] => wrote[a] \/ task[a] = "writing"
      /\ \A f \in End : f # a => task'[f] = task[f] /\ outcome'[f] = outcome[f]
                                 /\ wrote'[f] = wrote[f]
      /\ UNCHANGED <<live, conn, frame, asked>>
  BY RunClosedFacts
<1>2. OneSided(e)
  BY <1>1, OneSidedBefore
<1>3. /\ First(e)' = First(e) /\ Mapped(First(e))' = Mapped(First(e))
      /\ Unnamed' = Unnamed
  BY <1>1, NotAsked DEF Mapped, Unnamed, Open, Reason
<1>4. Peer(e) \in End /\ Peer(Peer(e)) = e /\ asked[Peer(e)] = <<>> /\ live[Peer(e)] # {}
  BY <1>2, PeerFacts DEF OneSided
<1>5. outcome'[Peer(e)].type = "close" => outcome'[Peer(e)].code \in First(e)
  <2>1. CASE a # Peer(e)
    BY <1>1, <1>2, <1>4, <2>1 DEF PeerTold
  <2>2. CASE a = Peer(e)
    <3>1. ASSUME NEW o, Return(a, o) PROVE outcome'[a] = o
      BY <3>1 DEF Return, SessionTypeOK
    <3>2. CASE ReadUnknown(a)
      BY <1>2, <2>2, <3>2 DEF ReadUnknown, PeerTold
    <3>3. CASE \E c \in First(Peer(a)) : Return(a, Item("close", c))
      BY <1>4, <2>2, <3>1, <3>3 DEF Item
    <3>4. CASE Return(a, Item("end", 0)) \/ Return(a, Item("error", 0))
      BY <2>2, <3>1, <3>4 DEF Item
    <3>. QED
      BY <1>4, <2>2, <3>2, <3>3, <3>4, PassiveReturn
  <2>. QED
    BY <2>1, <2>2
<1>. QED
  BY <1>1, <1>2, <1>3, <1>5 DEF PeerTold

\* The network delivers or loses what was sent.
LEMMA NetworkTold ==
    ASSUME SessionTypeOK, PeerTold, NEW a \in End, Network(a)
    PROVE  PeerTold'
<1>. SUFFICES ASSUME NEW e \in End, OneSided(e)'
              PROVE  /\ outcome'[Peer(e)].type = "close" => outcome'[Peer(e)].code \in First(e)'
                     /\ frame'[Peer(e)] \in {None} \cup Mapped(First(e))'
                     /\ \/ conn'[Peer(e)] \in Unnamed'
                        \/ \E h \in Mapped(First(e))' : conn'[Peer(e)] = Reason("app", h)
  BY DEF PeerTold
<1>1. /\ UNCHANGED <<live, queue, task, outcome, asked, wrote>>
      /\ \A f \in End : frame'[f] \in {None, frame[f]}
      /\ \A f \in End : conn'[f] # conn[f] =>
            \/ conn'[f] = Reason("lost", 0)
            \/ frame[f] # None /\ conn'[f] = Reason("app", frame[f])
  BY NetworkFacts
<1>2. OneSided(e)
  BY <1>1 DEF OneSided
<1>3. /\ First(e)' = First(e) /\ Mapped(First(e))' = Mapped(First(e))
      /\ Unnamed' = Unnamed /\ Reason("lost", 0) \in Unnamed
  BY <1>1, NotAsked DEF Mapped, Unnamed, Open, Reason
<1>4. Peer(e) \in End
  BY PeerFacts
<1>. QED
  BY <1>1, <1>2, <1>3, <1>4 DEF PeerTold

\* Closing QUIC: a side that is alone in closing does so with its code.
LEMMA QuicCloseTold ==
    ASSUME SessionTypeOK, PeerTold, NEW a \in End, NEW h \in Nat, QuicClose(a, h),
           UNCHANGED <<live, asked, outcome, wrote>>,
           \A f \in End : task'[f] \in {"select", "writing"} => task'[f] = task[f],
           OneSided(a) /\ conn[a] = Open => h \in Mapped(First(a))
    PROVE  PeerTold'
<1>. SUFFICES ASSUME NEW e \in End, OneSided(e)'
              PROVE  /\ outcome'[Peer(e)].type = "close" => outcome'[Peer(e)].code \in First(e)'
                     /\ frame'[Peer(e)] \in {None} \cup Mapped(First(e))'
                     /\ \/ conn'[Peer(e)] \in Unnamed'
                        \/ \E g \in Mapped(First(e))' : conn'[Peer(e)] = Reason("app", g)
  BY DEF PeerTold
<1>1. /\ \A f \in End : conn'[f] \in {conn[f], Reason("local", 0)}
      /\ \A f \in End : \/ frame'[f] \in {None, frame[f]}
                        \/ f = Peer(a) /\ frame'[f] = h /\ conn[a] = Open
  BY QuicCloseFacts
<1>2. OneSided(e)
  BY DEF OneSided
<1>3. /\ First(e)' = First(e) /\ Mapped(First(e))' = Mapped(First(e))
      /\ Unnamed' = Unnamed /\ Reason("local", 0) \in Unnamed
  BY NotAsked DEF Mapped, Unnamed, Open, Reason
<1>4. Peer(e) \in End /\ (Peer(e) = Peer(a) => e = a)
  BY PeerFacts
<1>5. frame'[Peer(e)] \in {None} \cup Mapped(First(e))
  BY <1>1, <1>2, <1>4 DEF PeerTold
<1>. QED
  BY <1>1, <1>2, <1>3, <1>4, <1>5 DEF PeerTold

\* A call of close by the side that is alone in closing is its first, and is
\* queued.
LEMMA CloseAlone ==
    ASSUME SessionTypeOK, FirstQueued, NEW a \in End, NEW c \in Code, Close(a, c),
           NEW e \in End, OneSided(e)'
    PROVE  /\ OneSided(e) /\ a = e /\ asked[e] = <<>>
           /\ UNCHANGED <<live, task, outcome, stream, finished, conn, frame, wrote>>
           /\ First(e) \subseteq First(e)' /\ Mapped(First(e)) \subseteq Mapped(First(e))'
<1>1. /\ asked' = [asked EXCEPT ![a] = Append(@, c)]
      /\ UNCHANGED <<live, task, outcome, stream, finished, wrote>>
      /\ \/ RxOpen(a) /\ UNCHANGED <<conn, frame>>
         \/ ~RxOpen(a)
  BY CloseQueued
<1>2. \A f \in End : asked'[f] = IF f = a THEN Append(asked[f], c) ELSE asked[f]
  BY <1>1 DEF SessionTypeOK
<1>3. /\ OneSided(e)
      /\ asked'[Peer(e)] = asked[Peer(e)]
      /\ asked'[e] # asked[e] => asked[e] = <<>>
  BY <1>1, <1>2, OneSidedBefore
<1>4. Peer(e) \in End /\ asked[a] \in Seq(Code) /\ End = {e, Peer(e)}
  BY PeerFacts DEF SessionTypeOK
<1>5. Append(asked[a], c) # asked[a]
  BY <1>4
<1>6. a = e /\ asked[e] = <<>>
  BY <1>2, <1>3, <1>4, <1>5
<1>7. RxOpen(a)
  BY <1>3, <1>6 DEF OneSided, FirstQueued, RxOpen, Running
<1>8. UNCHANGED <<conn, frame>>
  BY <1>1, <1>7
<1>9. First(e) \subseteq First(e)'
  BY <1>6 DEF First
<1>10. Mapped(First(e)) \subseteq Mapped(First(e))'
  BY <1>9 DEF Mapped
<1>. QED
  BY <1>1, <1>3, <1>6, <1>8, <1>9, <1>10

\* So the other side learns nothing from the call.
LEMMA CloseTold ==
    ASSUME SessionTypeOK, FirstQueued, PeerTold, NEW a \in End, NEW c \in Code, Close(a, c)
    PROVE  PeerTold'
<1>1. Unnamed' = Unnamed
  BY DEF Unnamed, Open, Reason
<1>. QED
  BY <1>1, CloseAlone DEF PeerTold

\* Steps that leave everything it speaks of alone.
LEMMA IdleTold ==
    ASSUME SessionTypeOK, PeerTold, UNCHANGED <<asked, outcome, frame, conn, wrote>>,
           \A f \in End : live'[f] # {} => live[f] # {},
           \A f \in End : task'[f] \in {"select", "writing"} => task'[f] = task[f]
    PROVE  PeerTold'
<1>1. \A e \in End : /\ OneSided(e)' => OneSided(e)
                     /\ First(e)' = First(e) /\ Mapped(First(e))' = Mapped(First(e))
  BY NotAsked, PeerFacts DEF OneSided, Mapped
<1>2. Unnamed' = Unnamed
  BY DEF Unnamed, Open, Reason
<1>. QED
  BY <1>1, <1>2 DEF PeerTold
=============================================================================
