------------------------- MODULE QuinnSessionProofs -------------------------
(***************************************************************************)
(* Safety of QuinnSession for every set of handles and codes, every bound, *)
(* any foreign peer, with or without connection loss, and that it          *)
(* implements SessionEnd.                                                  *)
(***************************************************************************)
EXTENDS QuinnSession, SessionCloseProofs

\* Only a malformed capsule is an error, and it carries no code.
ErrorsBare == \A e \in End : outcome[e].type = "error" => outcome[e].code = 0

\* The steps of run_closed.
LEMMA RunClosedInv ==
    ASSUME IInv, NEW a \in End, RunClosed(a)
    PROVE  IInv'
<1>0. SessionTypeOK /\ FirstQueued /\ Provenance /\ PeerTold /\ LocalInAnswer
      /\ CodeClosesConnection /\ ErrorsBare
  BY DEF IInv, ErrorsBare
<1>1. SessionTypeOK' /\ FirstQueued' /\ Provenance' /\ PeerTold'
  BY <1>0, RunClosedQueued, RunClosedProvenance, RunClosedTold
<1>2. /\ task[a] \in Running /\ task'[a] \in Running \cup {"returned"}
      /\ task'[a] \in {"select", "writing"} => task[a] = "select"
      /\ wrote'[a] => wrote[a] \/ task[a] = "writing"
      /\ \A f \in End : f # a => task'[f] = task[f] /\ outcome'[f] = outcome[f]
                                 /\ wrote'[f] = wrote[f]
      /\ UNCHANGED <<live, conn, frame, asked>>
  BY <1>0, RunClosedFacts
<1>3. conn[a] # Reason("local", 0)
  BY <1>0, <1>2 DEF LocalInAnswer, RxOpen
<1>4. ASSUME NEW e \in End, conn'[e] = Reason("local", 0)
      PROVE  ~RxOpen(e)'
  BY <1>0, <1>2, <1>3, <1>4 DEF LocalInAnswer, RxOpen, Running
<1>5. ASSUME NEW e \in End, OneSided(e)', conn'[Peer(e)] = Reason("local", 0)
      PROVE  outcome'[Peer(e)].type \in {"close", "error"}
  <2>1. OneSided(e)
    BY <1>0, <1>2, <1>5, OneSidedBefore
  <2>2. Peer(e) # a
    BY <1>2, <1>3, <1>5
  <2>. QED
    BY <1>0, <1>2, <1>5, <2>1, <2>2, PeerFacts DEF LocalInAnswer
<1>6. LocalInAnswer'
  BY <1>4, <1>5 DEF LocalInAnswer, Reason
<1>7. CodeClosesConnection'
  BY <1>0, <1>2 DEF CodeClosesConnection, Running, Open, Reason
<1>8. ErrorsBare'
  <2>1. outcome'[a].type = "error" => outcome'[a].code = 0
    <3>1. ASSUME NEW o, Return(a, o) PROVE outcome'[a] = o
      BY <1>0, <3>1 DEF Return, SessionTypeOK
    <3>2. CASE ReadFinal(a) \/ ReadFails(a) \/ RecvNone(a)
      <4>1. \E o : /\ Return(a, o)
                   /\ o \in {Item("error", 0), Item("end", 0)} \/ o.type = "close"
        BY <3>2 DEF ReadFinal, ReadFails, RecvNone, Item
      <4>. QED
        BY <3>1, <4>1 DEF Item
    <3>3. CASE WriteFails(a) \/ StreamStopped(a) \/ CloseDeadline(a)
      <4>1. Return(a, outcome[a])
        BY <3>3 DEF WriteFails, StreamStopped, CloseDeadline
      <4>. QED
        BY <1>0, <3>1, <4>1 DEF ErrorsBare
    <3>4. CASE RecvCommand(a)
      BY <1>0, <3>4 DEF RecvCommand, SessionTypeOK, Item
    <3>5. CASE ReadUnknown(a) \/ WriteCapsule(a)
      BY <1>0, <3>5 DEF ReadUnknown, WriteCapsule, ErrorsBare
    <3>. QED
      BY <3>2, <3>3, <3>4, <3>5 DEF RunClosed
  <2>. QED
    BY <1>0, <1>2, <2>1 DEF ErrorsBare
<1>. QED
  BY <1>1, <1>6, <1>7, <1>8 DEF IInv, ErrorsBare

\* Steps that leave every task and outcome alone and close QUIC, if at all, at
\* an end that is not the silent side of a one-sided close.
LEMMA QuietInv ==
    ASSUME IInv, SessionTypeOK', FirstQueued', Provenance', PeerTold',
           UNCHANGED <<task, outcome, wrote>>,
           \A f \in End : conn[f] # Open => conn'[f] = conn[f],
           \A f \in End : conn'[f] # conn[f] /\ conn'[f] = Reason("local", 0) => ~RxOpen(f),
           \A e \in End : OneSided(e)' =>
              /\ OneSided(e)
              /\ \/ conn'[Peer(e)] = conn[Peer(e)]
                 \/ conn'[Peer(e)] # Reason("local", 0)
    PROVE  IInv'
<1>1. LocalInAnswer'
  BY DEF IInv, LocalInAnswer, RxOpen, Reason
<1>2. CodeClosesConnection'
  BY DEF IInv, CodeClosesConnection, Open, Reason
<1>. QED
  BY <1>1, <1>2 DEF IInv

\* The network, the application and its handles.
LEMMA OutsideInv ==
    ASSUME IInv, NEW a \in End,
           \/ Network(a)
           \/ \E c \in Code : Close(a, c)
           \/ \E h \in Handle : CloneHandle(a, h) \/ DropHandle(a, h)
    PROVE  IInv'
<1>0. SessionTypeOK /\ FirstQueued /\ Provenance /\ PeerTold
  BY DEF IInv
<1>1. CASE Network(a)
  <2>1. /\ UNCHANGED <<live, queue, task, outcome, asked, wrote>>
        /\ \A f \in End : conn'[f] # conn[f] =>
              /\ conn[f] = Open
              /\ \/ conn'[f] = Reason("lost", 0)
                 \/ conn'[f] = Reason("app", frame[f])
    BY <1>0, <1>1, NetworkFacts
  <2>2. \A f \in End : conn'[f] # conn[f] => conn'[f] # Reason("local", 0)
    <3>1. /\ Reason("lost", 0) # Reason("local", 0)
          /\ \A f \in End : Reason("app", frame[f]) # Reason("local", 0)
      BY DEF Reason
    <3>. QED
      BY <2>1, <3>1
  <2>3. \A e \in End : OneSided(e)' => OneSided(e)
    BY <2>1 DEF OneSided
  <2>4. SessionTypeOK' /\ FirstQueued' /\ Provenance' /\ PeerTold'
    BY <1>0, <1>1, NetworkQueued, NetworkProvenance, NetworkTold
  <2>. QED
    BY <2>1, <2>2, <2>3, <2>4, PeerFacts, QuietInv
<1>2. ASSUME NEW c \in Code, Close(a, c)
      PROVE  IInv'
  <2>1. /\ SessionTypeOK' /\ FirstQueued'
        /\ asked' = [asked EXCEPT ![a] = Append(@, c)]
        /\ UNCHANGED <<live, task, outcome, stream, finished, wrote>>
        /\ \/ RxOpen(a) /\ UNCHANGED <<conn, frame>>
           \/ ~RxOpen(a) /\ QuicClose(a, error_to_http3(c))
        /\ error_to_http3(c) \in Nat
    BY <1>0, <1>2, CloseQueued
  <2>2. /\ \A f \in End : conn[f] # Open => conn'[f] = conn[f]
        /\ \A f \in End : conn'[f] # conn[f] => f = a /\ ~RxOpen(a)
    BY <1>0, <2>1, QuicCloseFacts
  <2>3. \A f \in End : asked'[f] = IF f = a THEN Append(asked[f], c) ELSE asked[f]
    BY <1>0, <2>1 DEF SessionTypeOK
  <2>4. ASSUME NEW e \in End, OneSided(e)'
        PROVE  OneSided(e) /\ a # Peer(e)
    <3>1. OneSided(e) /\ asked'[Peer(e)] = asked[Peer(e)]
      BY <1>0, <2>1, <2>3, <2>4, OneSidedBefore
    <3>2. asked[a] \in Seq(Code) /\ Peer(e) \in End
      BY <1>0, PeerFacts DEF SessionTypeOK
    <3>3. Append(asked[a], c) # asked[a]
      BY <3>2
    <3>. QED
      BY <2>3, <3>1, <3>2, <3>3
  <2>5. Provenance' /\ PeerTold'
    BY <1>0, <1>2, CloseProvenance, CloseTold
  <2>. QED
    BY <2>1, <2>2, <2>4, <2>5, PeerFacts, QuietInv
<1>3. ASSUME NEW h \in Handle, CloneHandle(a, h) \/ DropHandle(a, h)
      PROVE  IInv'
  <2>1. /\ SessionTypeOK' /\ FirstQueued'
        /\ \A f \in End : live'[f] # {} => live[f] # {}
        /\ UNCHANGED <<queue, task, outcome, stream, finished, conn, frame, asked, wrote>>
    BY <1>0, <1>3, HandleQueued
  <2>2. Provenance' /\ PeerTold'
    BY <1>0, <2>1, IdleProvenance, IdleTold
  <2>3. \A e \in End : OneSided(e)' => OneSided(e)
    BY <2>1, PeerFacts DEF OneSided
  <2>. QED
    BY <2>1, <2>2, <2>3, QuietInv
<1>. QED
  BY <1>1, <1>2, <1>3

\* The task closes QUIC with the code of a capsule or of a request, or with 1
\* for a malformed capsule.
LEMMA EndTaskInv ==
    ASSUME IInv, NEW a \in End, EndTask(a)
    PROVE  IInv'
<1>0. SessionTypeOK /\ FirstQueued /\ Provenance /\ PeerTold /\ LocalInAnswer
      /\ CodeClosesConnection
  BY DEF IInv
<1>1. /\ task[a] = "returned" /\ task' = [task EXCEPT ![a] = "done"]
      /\ UNCHANGED <<live, queue, outcome, stream, finished, asked, wrote>>
      /\ \/ outcome[a].type = "close" /\ QuicClose(a, error_to_http3(outcome[a].code))
         \/ outcome[a].type = "error" /\ QuicClose(a, error_to_http3(1))
         \/ outcome[a].type = "end" /\ UNCHANGED <<conn, frame>>
  BY DEF EndTask, close_connection
<1>2. \A f \in End : task'[f] = IF f = a THEN "done" ELSE task[f]
  BY <1>0, <1>1 DEF SessionTypeOK
<1>3. \A f \in End : task'[f] \in {"select", "writing"} => task'[f] = task[f]
  BY <1>2
<1>4. FirstQueued'
  BY <1>0, <1>1, <1>2 DEF FirstQueued
<1>5. \A e \in End : OneSided(e)' => OneSided(e)
  BY <1>1, <1>3 DEF OneSided
<1>6. \A f : First(f)' = First(f) /\ Known(f)' = Known(f)
  BY <1>1, NotAsked
<1>7. CASE outcome[a].type = "end" /\ UNCHANGED <<conn, frame>>
  <2>1. SessionTypeOK'
    BY <1>0, <1>1, <1>7 DEF SessionTypeOK
  <2>2. Provenance' /\ PeerTold'
    BY <1>0, <1>1, <1>3, <1>7, IdleProvenance, IdleTold
  <2>3. LocalInAnswer'
    BY <1>0, <1>1, <1>2, <1>5, <1>7 DEF LocalInAnswer, RxOpen, Running, Reason
  <2>4. CodeClosesConnection'
    BY <1>0, <1>1, <1>2, <1>7 DEF CodeClosesConnection, Open, Reason
  <2>. QED
    BY <1>1, <1>4, <2>1, <2>2, <2>3, <2>4 DEF IInv
<1>8. ASSUME NEW c \in AppCode, QuicClose(a, error_to_http3(c)),
             outcome[a] = Item("close", c) \/ (outcome[a].type = "error" /\ c = 1)
      PROVE  IInv'
  <2>1. error_to_http3(c) \in Nat /\ outcome[a].type \in {"close", "error"}
    BY <1>8, ToHttp3Type DEF Item
  <2>2. /\ conn' \in [End -> ConnReason]
        /\ frame' \in [End -> Nat \cup {None}]
        /\ conn'[a] # Open
        /\ \A f \in End : conn[f] # Open => conn'[f] = conn[f]
        /\ \A f \in End : conn'[f] # conn[f] => f = a
    BY <1>0, <1>8, <2>1, QuicCloseFacts
  <2>3. SessionTypeOK'
    BY <1>0, <1>1, <2>2 DEF SessionTypeOK
  <2>4. Provenance'
    <3>1. Peer(a) \in End /\ Peer(Peer(a)) = a
      BY PeerFacts
    <3>2. c \in {0, 1} \cup First(a) \cup First(Peer(a))
      BY <1>0, <1>8 DEF Provenance, Item
    <3>3. c \in Known(Peer(a))
      BY <1>0, <3>1, <3>2, KnownFacts
    <3>4. error_to_http3(c) \in {0} \cup Mapped(Known(Peer(a)))'
      BY <1>6, <3>3 DEF Mapped
    <3>. QED
      BY <1>0, <1>1, <1>6, <1>8, <2>1, <3>4, QuicCloseProvenance
  <2>5. PeerTold'
    <3>1. OneSided(a) => error_to_http3(c) \in Mapped(First(a))
      <4>. SUFFICES ASSUME OneSided(a) PROVE c \in First(a)
        BY DEF Mapped
      <4>1. asked[a] # <<>> /\ outcome[a] = Item("close", Head(asked[a])) /\ asked[a] \in Seq(Code)
        BY <1>0, <1>1 DEF OneSided, FirstQueued, SessionTypeOK
      <4>2. c = Head(asked[a]) /\ Head(asked[a]) \in Code
        BY <1>8, <4>1 DEF Item
      <4>. QED
        BY <4>1, <4>2 DEF First
    <3>. QED
      BY <1>0, <1>1, <1>3, <1>8, <2>1, <3>1, QuicCloseTold
  <2>6. LocalInAnswer'
    <3>1. ~RxOpen(a)' /\ \A f \in End : f # a => (RxOpen(f)' <=> RxOpen(f))
      BY <1>2 DEF RxOpen, Running
    <3>. QED
      BY <1>0, <1>1, <1>5, <2>1, <2>2, <3>1, PeerFacts DEF LocalInAnswer, Reason
  <2>7. CodeClosesConnection'
    BY <1>0, <1>1, <1>2, <2>2 DEF CodeClosesConnection, Open, Reason
  <2>. QED
    BY <1>1, <1>4, <2>3, <2>4, <2>5, <2>6, <2>7 DEF IInv
<1>9. /\ outcome[a].code \in AppCode /\ 1 \in AppCode
      /\ outcome[a].type = "close" => outcome[a] = Item("close", outcome[a].code)
  BY <1>0, SessionConstants DEF SessionTypeOK, OutcomeSet, Item
<1>. QED
  BY <1>1, <1>7, <1>8, <1>9

\* quinn closes a connection that nobody holds.
LEMMA ImplicitCloseInv ==
    ASSUME IInv, NEW a \in End, ImplicitClose(a)
    PROVE  IInv'
<1>0. SessionTypeOK /\ FirstQueued /\ Provenance /\ PeerTold /\ CodeClosesConnection
  BY DEF IInv
<1>1. /\ live[a] = {} /\ task[a] = "done" /\ conn[a] = Open /\ QuicClose(a, 0)
      /\ UNCHANGED <<live, queue, task, outcome, stream, finished, asked, wrote>>
  BY DEF ImplicitClose
<1>2. /\ conn' \in [End -> ConnReason]
      /\ frame' \in [End -> Nat \cup {None}]
      /\ \A f \in End : conn[f] # Open => conn'[f] = conn[f]
      /\ \A f \in End : conn'[f] # conn[f] => f = a
  BY <1>0, <1>1, QuicCloseFacts
<1>3. SessionTypeOK' /\ FirstQueued'
  BY <1>0, <1>1, <1>2 DEF SessionTypeOK, FirstQueued
<1>4. \A f : First(f)' = First(f) /\ Known(f)' = Known(f)
  BY <1>1, NotAsked
<1>5. Provenance'
  BY <1>0, <1>1, <1>4, QuicCloseProvenance
<1>6. ~OneSided(a)
  <2>1. outcome[a].type = "end"
    BY <1>0, <1>1 DEF CodeClosesConnection
  <2>2. ~wrote[a]
    <3>1. Item("close", Head(asked[a])).type = "close"
      BY DEF Item
    <3>2. wrote[a] => outcome[a] = Item("close", Head(asked[a]))
      BY <1>0 DEF FirstQueued
    <3>. QED
      BY <2>1, <3>1, <3>2
  <2>. QED
    BY <1>1, <2>2 DEF OneSided
<1>7. PeerTold'
  BY <1>0, <1>1, <1>6, QuicCloseTold
<1>8. \A e \in End : OneSided(e)' => OneSided(e) /\ Peer(e) # a
  BY <1>1 DEF OneSided
<1>9. ~RxOpen(a)
  BY <1>1 DEF RxOpen, Running
<1>. QED
  BY <1>1, <1>2, <1>3, <1>5, <1>7, <1>8, <1>9, PeerFacts, QuietInv

\* Every step preserves the invariant.
LEMMA NextInv == IInv /\ [Next]_vars => IInv'
<1>. SUFFICES ASSUME IInv, [Next]_vars PROVE IInv'
  OBVIOUS
<1>1. CASE UNCHANGED vars
  <2>1. UNCHANGED <<live, queue, task, outcome, stream, finished, conn, frame, asked, wrote>>
    BY <1>1 DEF vars, sessionVars
  <2>2. SessionTypeOK' /\ FirstQueued'
    BY <2>1 DEF IInv, SessionTypeOK, FirstQueued
  <2>3. Provenance' /\ PeerTold'
    BY <2>1, IdleProvenance, IdleTold DEF IInv
  <2>4. \A e \in End : OneSided(e)' => OneSided(e)
    BY <2>1 DEF OneSided
  <2>. QED
    BY <2>1, <2>2, <2>3, <2>4, QuietInv
<1>. QED
  BY <1>1, RunClosedInv, OutsideInv, EndTaskInv, ImplicitCloseInv DEF Next

\* The inductive invariant of the Quinn session's close, for any peer.
THEOREM QuinnInvariant == Spec => []IInv
<1>1. Init => IInv
  <2>. SUFFICES ASSUME Init PROVE IInv
    OBVIOUS
  <2>0. 0 \in AppCode
    BY SessionConstants
  <2>1. SessionTypeOK
    BY <2>0 DEF Init, SessionInit, SessionTypeOK, Running, Item, OutcomeSet, ConnReason,
                Reason, Open
  <2>2. Provenance /\ PeerTold
    BY PeerFacts DEF Init, SessionInit, Provenance, PeerTold, Item, Unnamed
  <2>3. FirstQueued /\ CodeClosesConnection
    BY DEF Init, SessionInit, FirstQueued, CodeClosesConnection
  <2>4. LocalInAnswer
    BY PeerFacts DEF Init, SessionInit, LocalInAnswer, Open, Reason
  <2>5. \A e \in End : outcome[e].type # "error"
    BY DEF Init, SessionInit, Item
  <2>. QED
    BY <2>1, <2>2, <2>3, <2>4, <2>5 DEF IInv
<1>2. IInv /\ [Next]_vars => IInv'
  BY NextInv
<1>. QED
  BY <1>1, <1>2, PTL DEF Spec

\* Whatever run_closed returned but a bare end of the CONNECT stream, QUIC is
\* closed when the background task is over.
THEOREM QuinnCodeClosesConnection == Spec => []CodeClosesConnection
<1>1. IInv => CodeClosesConnection
  BY DEF IInv
<1>. QED
  BY <1>1, QuinnInvariant, PTL

\* The other side of a one-sided close is told its code, or reports its own
\* closing in answer to the capsule or to a malformed one, never another code.
THEOREM QuinnPeerCodeOrLocal == Spec => []PeerCodeOrLocal
<1>1. ASSUME IInv PROVE PeerCodeOrLocal
  <2>. SUFFICES ASSUME NEW e \in End, wrote[e], Len(asked[e]) = 1, asked[Peer(e)] = <<>>,
                       live[Peer(e)] # {}
                PROVE  \/ close_reason(Peer(e)) = Reason("closed", Head(asked[e]))
                       \/ close_reason(Peer(e)).kind \in {"open", "lost"}
                       \/ /\ close_reason(Peer(e)).kind = "local"
                          /\ outcome[Peer(e)] \in {Item("close", Head(asked[e])),
                                                   Item("error", 0)}
    BY DEF PeerCodeOrLocal
  <2>1. OneSided(e)
    BY DEF OneSided
  <2>2. First(e) \subseteq {Head(asked[e])} /\ First(e) \subseteq AppCode
    BY SessionConstants DEF First
  <2>3. Peer(e) \in End
    BY PeerFacts
  <2>4. \/ conn[Peer(e)] \in Unnamed
        \/ \E c \in First(e) : conn[Peer(e)] = Reason("app", error_to_http3(c))
    BY <1>1, <2>1 DEF IInv, PeerTold, Mapped
  <2>5. ASSUME NEW c \in First(e), conn[Peer(e)] = Reason("app", error_to_http3(c))
        PROVE  close_reason(Peer(e)) = Reason("closed", Head(asked[e]))
    BY <2>2, <2>5, SessionErrorMapped DEF close_reason
  <2>6. ASSUME conn[Peer(e)] \in Unnamed
        PROVE  close_reason(Peer(e)) = conn[Peer(e)]
    BY <2>6, SessionErrorUnnamed DEF close_reason
  <2>7. ASSUME conn[Peer(e)] = Reason("local", 0)
        PROVE  outcome[Peer(e)] \in {Item("close", Head(asked[e])), Item("error", 0)}
    <3>1. outcome[Peer(e)].type \in {"close", "error"} /\ outcome[Peer(e)] \in OutcomeSet
      BY <1>1, <2>1, <2>3, <2>7 DEF IInv, LocalInAnswer, SessionTypeOK
    <3>2. outcome[Peer(e)].type = "close" => outcome[Peer(e)].code = Head(asked[e])
      BY <1>1, <2>1, <2>2 DEF IInv, PeerTold
    <3>3. outcome[Peer(e)].type = "error" => outcome[Peer(e)].code = 0
      BY <1>1, <2>3 DEF IInv
    <3>. QED
      BY <3>1, <3>2, <3>3 DEF OutcomeSet, Item
  <2>8. CASE conn[Peer(e)] = Reason("local", 0)
    BY <2>6, <2>7, <2>8 DEF Unnamed, Reason
  <2>9. CASE conn[Peer(e)] \in {Open, Reason("lost", 0)}
    BY <2>6, <2>9 DEF Unnamed, Open, Reason
  <2>. QED
    BY <2>4, <2>5, <2>8, <2>9 DEF Unnamed
<1>. QED
  BY <1>1, QuinnInvariant, PTL
-----------------------------------------------------------------------------
(***************************************************************************)
(* The refinement.                                                         *)
(***************************************************************************)

\* The codes SessionEnd lets an end name are the ones known to it.
LEMMA NamedIsKnown ==
    ASSUME SessionTypeOK, NEW e \in End
    PROVE  Ending!Named(e) = Known(e)
  BY NamedCodes DEF Ending!Named

\* An end that settles: QUIC is closed there while nobody asks.
LEMMA ConnSettles ==
    ASSUME SessionTypeOK, Provenance', UNCHANGED asked, NEW a \in End,
           conn[a] = Open, conn'[a] # Open,
           \A f \in End : f # a => conn'[f] = conn[f]
    PROVE  Ending!Next
<1>1. Known(a)' = Known(a) /\ Unnamed' = Unnamed
  BY NotAsked DEF Unnamed, Open, Reason
<1>2. \/ conn'[a] \in Unnamed
      \/ \E h \in {0} \cup Mapped(Known(a)) : conn'[a] = Reason("app", h)
  BY <1>1 DEF Provenance, Mapped
<1>. DEFINE r == SessionError(conn'[a])
<1>3. \/ \E c \in Ending!Named(a) : r \in {Reason("closed", c), Reason("app", c)}
      \/ r \in {Reason("local", 0), Reason("lost", 0)}
  BY <1>2, ReasonSettles, NamedIsKnown
<1>4. close_reason(a) = Open /\ Open = Ending!Open
  BY SessionErrorUnnamed DEF close_reason, Unnamed, Ending!Open, Open, Reason
<1>5. [e \in End |-> close_reason(e)]' = [[e \in End |-> close_reason(e)] EXCEPT ![a] = r]
  BY DEF close_reason, SessionError, Reason
<1>. HIDE DEF r
<1>6. Ending!Settle(a)
  BY <1>3, <1>4, <1>5 DEF Ending!Settle, Reason
<1>. QED
  BY <1>6 DEF Ending!Next

\* Every step of the session is a step of SessionEnd, or leaves it alone.
LEMMA StepSettles ==
    ASSUME IInv, IInv', [Next]_vars
    PROVE  [Ending!Next]_(Ending!vars)
<1>0. SessionTypeOK /\ FirstQueued /\ Provenance /\ Provenance'
  BY DEF IInv
<1>1. ASSUME UNCHANGED <<asked, conn>> PROVE UNCHANGED Ending!vars
  BY <1>1 DEF Ending!vars, close_reason, SessionError, Reason
<1>2. ASSUME UNCHANGED asked, NEW a \in End, \A f \in End : f # a => conn'[f] = conn[f],
             conn' \in [End -> ConnReason], conn[a] # Open => conn'[a] = conn[a]
      PROVE  [Ending!Next]_(Ending!vars)
  <2>1. CASE conn'[a] = conn[a]
    <3>1. conn' = conn
      BY <1>0, <1>2, <2>1 DEF SessionTypeOK
    <3>. QED
      BY <1>1, <1>2, <3>1
  <2>2. CASE conn'[a] # conn[a]
    BY <1>0, <1>2, <2>2, ConnSettles
  <2>. QED
    BY <2>1, <2>2
<1>3. ASSUME NEW a \in End, RunClosed(a) PROVE UNCHANGED <<asked, conn>>
  BY <1>0, <1>3, RunClosedFacts
<1>4. ASSUME NEW a \in End, Network(a) PROVE [Ending!Next]_(Ending!vars)
  <2>1. /\ UNCHANGED asked /\ SessionTypeOK'
        /\ \A f \in End : conn'[f] # conn[f] => f = a /\ conn[f] = Open
    BY <1>0, <1>4, NetworkFacts, NetworkQueued
  <2>. QED
    BY <1>2, <2>1 DEF SessionTypeOK
<1>5. ASSUME NEW a \in End, EndTask(a) \/ ImplicitClose(a) PROVE [Ending!Next]_(Ending!vars)
  <2>1. UNCHANGED asked
    BY <1>5 DEF EndTask, ImplicitClose
  <2>2. UNCHANGED conn \/ \E h \in Nat : QuicClose(a, h)
    <3>1. outcome[a].code \in AppCode /\ 1 \in AppCode
      BY <1>0, SessionConstants DEF SessionTypeOK, OutcomeSet
    <3>2. error_to_http3(outcome[a].code) \in Nat /\ error_to_http3(1) \in Nat
      BY <3>1, ToHttp3Type
    <3>. QED
      BY <1>5, <3>2 DEF EndTask, ImplicitClose, close_connection
  <2>3. ASSUME NEW h \in Nat, QuicClose(a, h) PROVE [Ending!Next]_(Ending!vars)
    <3>1. /\ conn' \in [End -> ConnReason]
          /\ \A f \in End : conn[f] # Open => conn'[f] = conn[f]
          /\ \A f \in End : conn'[f] # conn[f] => f = a
      BY <1>0, <2>3, QuicCloseFacts
    <3>. QED
      BY <1>2, <2>1, <3>1
  <2>. QED
    BY <1>1, <2>1, <2>2, <2>3
<1>6. ASSUME NEW a \in End, NEW c \in Code, Close(a, c) PROVE Ending!Next
  <2>1. /\ asked' = [asked EXCEPT ![a] = Append(@, c)]
        /\ UNCHANGED conn \/ QuicClose(a, error_to_http3(c))
        /\ error_to_http3(c) \in Nat
    BY <1>0, <1>6, CloseQueued
  <2>. DEFINE told == [e \in End |-> close_reason(e)]
  <2>2. \/ told' = told
        \/ told[a] = Ending!Open /\ told' = [told EXCEPT ![a] = Reason("local", 0)]
    <3>1. CASE conn' = conn
      BY <3>1 DEF close_reason, SessionError, Reason
    <3>2. CASE conn' # conn
      <4>1. /\ conn[a] = Open /\ conn'[a] = Reason("local", 0)
            /\ \A f \in End : f # a => conn'[f] = conn[f]
        <5>1. QuicClose(a, error_to_http3(c))
          BY <2>1, <3>2
        <5>2. conn[a] = Open
          BY <3>2, <5>1 DEF QuicClose
        <5>. QED
          BY <1>0, <5>1, <5>2 DEF QuicClose, SessionTypeOK
      <4>2. close_reason(a) = Open /\ Open = Ending!Open
        BY <4>1, SessionErrorUnnamed DEF close_reason, Unnamed, Ending!Open, Open, Reason
      <4>3. \A f \in End : close_reason(f)' = IF f = a THEN Reason("local", 0)
                                                      ELSE close_reason(f)
        BY <4>1 DEF close_reason, SessionError, Reason
      <4>. QED
        BY <4>2, <4>3
    <3>. QED
      BY <3>1, <3>2
  <2>. QED
    BY <2>1, <2>2 DEF Ending!Close, Ending!Next, Reason
<1>7. ASSUME NEW a \in End, NEW h \in Handle, CloneHandle(a, h) \/ DropHandle(a, h)
      PROVE  UNCHANGED <<asked, conn>>
  BY <1>7 DEF CloneHandle, DropHandle
<1>8. CASE UNCHANGED vars
  BY <1>1, <1>8 DEF vars, sessionVars
<1>. QED
  BY <1>1, <1>3, <1>4, <1>5, <1>6, <1>7, <1>8 DEF Next

\* A Quinn session ends as SessionEnd promises: the connection's reason is
\* settled once, on a code that the end may name.
THEOREM QuinnImplementsEnd == Spec => ImplementsEnd
<1>1. Init => Ending!Init
  <2>. SUFFICES ASSUME Init PROVE Ending!Init
    OBVIOUS
  <2>1. \A e \in End : close_reason(e) = Open
    BY SessionErrorUnnamed DEF Init, SessionInit, close_reason, Unnamed
  <2>. QED
    BY <2>1 DEF Init, SessionInit, Ending!Init, Ending!Open, Open, Reason
<1>2. IInv /\ IInv' /\ [Next]_vars => [Ending!Next]_(Ending!vars)
  BY StepSettles
<1>. QED
  BY <1>1, <1>2, QuinnInvariant, PTL DEF Spec, ImplementsEnd, Ending!Spec
=============================================================================
