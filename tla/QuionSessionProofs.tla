------------------------- MODULE QuionSessionProofs -------------------------
(***************************************************************************)
(* Safety of QuionSession and RawSession for every set of handles and      *)
(* codes, every bound on foreign items and close calls, with or without    *)
(* connection loss, and that QuionSession implements SessionEnd.           *)
(***************************************************************************)
EXTENDS RawSession, SessionCloseProofs

-----------------------------------------------------------------------------
(***************************************************************************)
(* The inductive invariant: the steps of SessionClose.                     *)
(***************************************************************************)

\* What the task's end has established survives as long as the task stays
\* where it is and QUIC is not reopened.
LEMMA KeptWhile ==
    ASSUME KeptError, UNCHANGED <<task, outcome, close_error>>,
           \A f \in End : conn[f] # Open => conn'[f] # Open
    PROVE  KeptError'
  BY DEF KeptError

\* No caller of closed() is affected by a step that does not end the task.
LEMMA AsleepWhile ==
    ASSUME NoLostWakeup, UNCHANGED waitVars,
           \A f \in End : task'[f] = "done" => task[f] = "done"
    PROVE  NoLostWakeup'
  BY DEF NoLostWakeup, waitVars

\* The steps that both backends share.
LEMMA SharedInv ==
    ASSUME IInv, NEW e \in End, UNCHANGED <<close_error, waitVars>>,
           \/ RunClosed(e)
           \/ Network(e)
           \/ \E c \in Code : Close(e, c)
           \/ \E h \in Handle : CloneHandle(e, h) \/ DropHandle(e, h)
    PROVE  IInv'
<1>0. SessionTypeOK /\ FirstQueued /\ KeptError /\ NoLostWakeup
  BY DEF IInv, TypeOK
<1>1. ASSUME SessionTypeOK', FirstQueued', KeptError', NoLostWakeup'
      PROVE  IInv'
  BY <1>1 DEF IInv, TypeOK, waitVars
<1>2. CASE RunClosed(e)
  <2>1. /\ task[e] \in Running /\ task'[e] \in Running \cup {"returned"}
        /\ \A f \in End : f # e => task'[f] = task[f] /\ outcome'[f] = outcome[f]
        /\ UNCHANGED conn
    BY <1>0, <1>2, RunClosedFacts
  <2>2. KeptError'
    BY <1>0, <2>1 DEF KeptError, Running
  <2>3. NoLostWakeup'
    BY <1>0, <2>1, AsleepWhile DEF Running
  <2>. QED
    BY <1>0, <1>1, <1>2, <2>2, <2>3, RunClosedQueued
<1>3. CASE Network(e)
  <2>1. /\ UNCHANGED <<task, outcome>>
        /\ \A f \in End : conn[f] # Open => conn'[f] # Open
    BY <1>0, <1>3, NetworkFacts
  <2>. QED
    BY <1>0, <1>1, <1>3, <2>1, NetworkQueued, KeptWhile, AsleepWhile
<1>4. ASSUME NEW c \in Code, Close(e, c)
      PROVE  IInv'
  <2>1. /\ SessionTypeOK' /\ FirstQueued' /\ UNCHANGED <<task, outcome>>
        /\ UNCHANGED conn \/ QuicClose(e, error_to_http3(c))
        /\ error_to_http3(c) \in Nat
    BY <1>0, <1>4, CloseQueued
  <2>2. \A f \in End : conn[f] # Open => conn'[f] # Open
    BY <1>0, <2>1, QuicCloseFacts
  <2>. QED
    BY <1>0, <1>1, <2>1, <2>2, KeptWhile, AsleepWhile
<1>5. ASSUME NEW h \in Handle, CloneHandle(e, h) \/ DropHandle(e, h)
      PROVE  IInv'
  <2>1. SessionTypeOK' /\ FirstQueued' /\ UNCHANGED <<task, outcome, conn>>
    BY <1>0, <1>5, HandleQueued
  <2>. QED
    BY <1>0, <1>1, <2>1, KeptWhile, AsleepWhile
<1>. QED
  BY <1>2, <1>3, <1>4, <1>5
-----------------------------------------------------------------------------
(***************************************************************************)
(* The steps QuionSession adds.                                            *)
(***************************************************************************)

\* close_reason is a reason, and there is one as soon as QUIC is closed.
LEMMA CloseReasonFacts ==
    ASSUME TypeOK, NEW e \in End
    PROVE  /\ close_reason(e) \in [kind : {"open", "local", "app", "lost", "closed"},
                                   code : Nat]
           /\ conn[e] # Open => close_reason(e) # Open
           /\ close_error[e] # Open => close_reason(e) = close_error[e]
<1>1. conn[e] \in ConnReason
  BY DEF TypeOK, SessionTypeOK
<1>. QED
  BY <1>1, SessionErrorFacts DEF close_reason, TypeOK

\* The end of the background task.
LEMMA TaskEndInv ==
    ASSUME IInv, NEW e \in End, TaskEnd(e)
    PROVE  IInv'
<1>. USE DEF IInv
<1>1. CASE RecordError(e)
  <2>1. outcome[e].code \in Nat
    BY ErrorRange DEF TypeOK, SessionTypeOK, OutcomeSet, AppCode
  <2>2. close_error' \in [End -> [kind : {"open", "local", "app", "lost", "closed"},
                                  code : Nat]]
    BY <1>1, <2>1 DEF RecordError, TypeOK, Reason
  <2>3. TypeOK'
    BY <1>1, <2>2 DEF RecordError, TypeOK, SessionTypeOK, waitVars
  <2>4. KeptError'
    BY <1>1 DEF RecordError, TypeOK, SessionTypeOK, KeptError, Running
  <2>5. FirstQueued'
    BY <1>1 DEF RecordError, TypeOK, SessionTypeOK, FirstQueued
  <2>6. NoLostWakeup'
    BY <1>1 DEF RecordError, TypeOK, SessionTypeOK, NoLostWakeup, waitVars
  <2>. QED
    BY <2>3, <2>4, <2>5, <2>6
<1>2. CASE CloseConnection(e)
  <2>1. /\ error_to_http3(FinalCode(outcome[e])) \in Nat
        /\ QuicClose(e, error_to_http3(FinalCode(outcome[e])))
    <3>1. FinalCode(outcome[e]) \in AppCode
      BY SessionConstants DEF FinalCode, TypeOK, SessionTypeOK, OutcomeSet
    <3>. QED
      BY <1>2, <3>1, ToHttp3Type DEF CloseConnection, close_connection
  <2>2. /\ conn' \in [End -> ConnReason]
        /\ frame' \in [End -> Nat \cup {None}]
        /\ conn'[e] # Open
        /\ \A f \in End : conn[f] # Open => conn'[f] # Open
    BY <1>2, <2>1, QuicCloseFacts DEF CloseConnection, TypeOK
  <2>3. TypeOK'
    BY <1>2, <2>2 DEF CloseConnection, TypeOK, SessionTypeOK, waitVars
  <2>4. KeptError'
    BY <1>2, <2>2 DEF CloseConnection, TypeOK, SessionTypeOK, KeptError, Running
  <2>5. FirstQueued'
    BY <1>2 DEF CloseConnection, TypeOK, SessionTypeOK, FirstQueued
  <2>6. NoLostWakeup'
    BY <1>2 DEF CloseConnection, TypeOK, SessionTypeOK, NoLostWakeup, waitVars
  <2>. QED
    BY <2>3, <2>4, <2>5, <2>6
<1>3. CASE StoreError(e)
  <2>1. /\ close_reason(e) # Open
        /\ close_error[e] # Open => close_reason(e) = close_error[e]
    BY <1>3, CloseReasonFacts DEF StoreError, KeptError
  <2>2. close_error' \in [End -> [kind : {"open", "local", "app", "lost", "closed"},
                                  code : Nat]]
    BY <1>3, CloseReasonFacts DEF StoreError, TypeOK
  <2>3. TypeOK'
    BY <1>3, <2>2 DEF StoreError, TypeOK, SessionTypeOK, waitVars
  <2>4. KeptError'
    <3>1. Reason("closed", outcome[e].code) # Open
      BY DEF Reason, Open
    <3>. QED
      BY <1>3, <2>1, <3>1 DEF StoreError, TypeOK, SessionTypeOK, KeptError, Running
  <2>5. FirstQueued'
    BY <1>3 DEF StoreError, TypeOK, SessionTypeOK, FirstQueued
  <2>6. NoLostWakeup'
    BY <1>3 DEF StoreError, TypeOK, SessionTypeOK, NoLostWakeup, waitVars
  <2>. QED
    BY <2>3, <2>4, <2>5, <2>6
<1>4. CASE NotifyWaiters(e)
  <2>1. notified' \in [End -> [Handle -> BOOLEAN]]
    BY <1>4 DEF NotifyWaiters, TypeOK
  <2>2. TypeOK'
    BY <1>4, <2>1 DEF NotifyWaiters, TypeOK, SessionTypeOK
  <2>3. KeptError'
    BY <1>4 DEF NotifyWaiters, TypeOK, SessionTypeOK, KeptError, Running
  <2>4. FirstQueued'
    BY <1>4 DEF NotifyWaiters, TypeOK, SessionTypeOK, FirstQueued
  <2>5. NoLostWakeup'
    BY <1>4 DEF NotifyWaiters, TypeOK, SessionTypeOK, NoLostWakeup
  <2>. QED
    BY <2>2, <2>3, <2>4, <2>5
<1>. QED
  BY <1>1, <1>2, <1>3, <1>4 DEF TaskEnd

\* Updating one caller's entry of a table keeps the table's type.
LEMMA EntryType ==
    ASSUME NEW S, NEW t \in [End -> [Handle -> S]], NEW u,
           NEW e \in End, NEW h \in Handle,
           u = t \/ \E x \in S : u = [t EXCEPT ![e][h] = x]
    PROVE  u \in [End -> [Handle -> S]]
<1>1. ASSUME NEW x \in S, u = [t EXCEPT ![e][h] = x]
      PROVE  u \in [End -> [Handle -> S]]
  <2>1. [t[e] EXCEPT ![h] = x] \in [Handle -> S]
    OBVIOUS
  <2>. QED
    BY <1>1, <2>1
<1>. QED
  BY <1>1

\* The callers of closed().
LEMMA WaiterInv ==
    ASSUME IInv, NEW e \in End, NEW h \in Handle, Waiter(e, h)
    PROVE  IInv'
<1>. USE DEF IInv
<1>1. UNCHANGED <<sessionVars, close_error>>
  BY DEF Waiter, CallClosed, CheckReason, Wake, CancelClosed
<1>2. TypeOK'
  <2>1. /\ wait' \in [End -> [Handle -> {"idle", "enabled", "waiting"}]]
        /\ notified' \in [End -> [Handle -> BOOLEAN]]
    <3>. DEFINE S == {"idle", "enabled", "waiting"}
    <3>1. /\ wait \in [End -> [Handle -> S]]
          /\ notified \in [End -> [Handle -> BOOLEAN]]
      BY DEF TypeOK
    <3>2. \/ UNCHANGED wait
          \/ \E x \in S : wait' = [wait EXCEPT ![e][h] = x]
      BY DEF Waiter, CallClosed, CheckReason, Wake, CancelClosed, EnableNotified
    <3>3. \/ UNCHANGED notified
          \/ \E x \in BOOLEAN : notified' = [notified EXCEPT ![e][h] = x]
      BY DEF Waiter, CallClosed, CheckReason, Wake, CancelClosed, EnableNotified
    <3>4. wait' \in [End -> [Handle -> S]]
      <4>. HIDE DEF S
      <4>. QED
        BY <3>1, <3>2, EntryType, Zenon
    <3>5. notified' \in [End -> [Handle -> BOOLEAN]]
      BY <3>1, <3>3, EntryType, Zenon
    <3>. QED
      BY <3>4, <3>5
  <2>. QED
    BY <1>1, <2>1 DEF TypeOK, SessionTypeOK, sessionVars
<1>3. KeptError' /\ FirstQueued'
  BY <1>1 DEF KeptError, FirstQueued, sessionVars
<1>4. NoLostWakeup'
  <2>1. task[e] = "done" => close_reason(e) # Open
    BY CloseReasonFacts DEF KeptError
  <2>2. ASSUME NEW f \in End, NEW g \in Handle,
               task[f] = "done", wait'[f][g] = "waiting"
        PROVE  wait[f][g] = "waiting" /\ notified'[f][g] = notified[f][g]
    BY <2>1, <2>2
    DEF Waiter, CallClosed, CheckReason, Wake, CancelClosed, EnableNotified, TypeOK
  <2>. QED
    BY <1>1, <2>2 DEF NoLostWakeup, sessionVars
<1>. QED
  BY <1>2, <1>3, <1>4
-----------------------------------------------------------------------------
(***************************************************************************)
(* The theorems.                                                           *)
(***************************************************************************)

\* Session::new establishes the invariant: nothing is queued, kept or awaited.
LEMMA InitInv ==
    ASSUME NEW start \in {"select", "monitor"}, InitAt(start)
    PROVE  IInv
<1>0. 0 \in AppCode
  BY SessionConstants
<1>1. TypeOK
  BY <1>0 DEF InitAt, SessionInit, TypeOK, SessionTypeOK, Running, Item, OutcomeSet,
              ConnReason, Reason, Open
<1>. QED
  BY <1>1 DEF InitAt, SessionInit, IInv, KeptError, FirstQueued, NoLostWakeup, Running, Item

\* Every step of a task, of the network, of the application or of a caller of
\* closed() preserves it.
LEMMA NextInv == IInv /\ [Next]_vars => IInv'
<1>. SUFFICES ASSUME IInv, [Next]_vars PROVE IInv'
  OBVIOUS
<1>1. ASSUME NEW e \in End, Shared(e) PROVE IInv'
  BY <1>1, SharedInv DEF Shared
<1>2. ASSUME NEW e \in End, TaskEnd(e) PROVE IInv'
  BY <1>2, TaskEndInv
<1>3. ASSUME NEW e \in End, NEW h \in Handle, Waiter(e, h) PROVE IInv'
  BY <1>3, WaiterInv
<1>4. CASE UNCHANGED vars
  BY <1>4 DEF vars, sessionVars, waitVars, IInv, TypeOK, SessionTypeOK, KeptError,
              FirstQueued, NoLostWakeup
<1>. QED
  BY <1>1, <1>2, <1>3, <1>4 DEF Next

\* The inductive invariant of the Quion session's close.
THEOREM QuionInvariant == Spec => []IInv
<1>1. Init => IInv
  BY InitInv DEF Init
<1>2. IInv /\ [Next]_vars => IInv'
  BY NextInv
<1>. QED
  BY <1>1, <1>2, PTL DEF Spec

\* Type correctness of the two sessions, their tasks and their waiters.
THEOREM QuionTypeCorrect == Spec => []TypeOK
<1>1. IInv => TypeOK
  BY DEF IInv
<1>. QED
  BY <1>1, QuionInvariant, PTL

\* However the CONNECT stream ended, once its task is over the connection is
\* closed and a reason is kept.
THEOREM QuionEndedSessionIsClosed == Spec => []EndedSessionIsClosed
<1>1. IInv => EndedSessionIsClosed
  BY DEF IInv, KeptError, EndedSessionIsClosed
<1>. QED
  BY <1>1, QuionInvariant, PTL

\* No call of closed() sleeps through the only notification.
THEOREM QuionNoLostWakeup == Spec => []NoLostWakeup
<1>1. IInv => NoLostWakeup
  BY DEF IInv
<1>. QED
  BY <1>1, QuionInvariant, PTL

\* The first of any number of close calls is the one sent and kept.
THEOREM QuionFirstCloseWins == Spec => []FirstCloseWins
<1>1. IInv => FirstCloseWins
  <2>. SUFFICES ASSUME IInv, NEW e \in End, task[e] = "done", wrote[e]
                PROVE  close_error[e] = Reason("closed", Head(asked[e]))
    BY DEF FirstCloseWins
  <2>1. outcome[e] = Item("close", Head(asked[e]))
    BY DEF IInv, FirstQueued
  <2>2. outcome[e].type = "close" /\ outcome[e].code = Head(asked[e])
    BY <2>1 DEF Item
  <2>. QED
    BY <2>2 DEF IInv, KeptError, Running
<1>. QED
  BY <1>1, QuionInvariant, PTL
-----------------------------------------------------------------------------
(***************************************************************************)
(* Where codes come from, and the refinement.                              *)
(***************************************************************************)

\* Every step of the session keeps the codes where they came from.
LEMMA ProvenanceStep ==
    ASSUME IInv, Provenance, [Next]_vars
    PROVE  Provenance'
<1>0. SessionTypeOK /\ FirstQueued
  BY DEF IInv, TypeOK
<1>1. ASSUME NEW e \in End, Shared(e) PROVE Provenance'
  <2>1. ASSUME NEW h \in Handle, CloneHandle(e, h) \/ DropHandle(e, h) PROVE Provenance'
    BY <2>1, IdleProvenance DEF CloneHandle, DropHandle
  <2>. QED
    BY <1>0, <1>1, <2>1, RunClosedProvenance, NetworkProvenance, CloseProvenance DEF Shared
<1>2. ASSUME NEW e \in End, CloseConnection(e) PROVE Provenance'
  <2>1. /\ QuicClose(e, error_to_http3(FinalCode(outcome[e])))
        /\ UNCHANGED <<stream, outcome, asked>>
    BY <1>2 DEF CloseConnection, close_connection
  <2>2. \A f : First(f)' = First(f) /\ Known(f)' = Known(f)
    BY <2>1, NotAsked
  <2>3. Peer(e) \in End /\ Peer(Peer(e)) = e
    BY PeerFacts
  <2>4. FinalCode(outcome[e]) \in {0, 1} \cup First(e) \cup First(Peer(e))
    BY DEF FinalCode, Provenance
  <2>5. FinalCode(outcome[e]) \in Known(Peer(e)) /\ Known(Peer(e)) \subseteq AppCode
    BY <1>0, <2>3, <2>4, KnownFacts
  <2>6. /\ error_to_http3(FinalCode(outcome[e])) \in Nat
        /\ error_to_http3(FinalCode(outcome[e])) \in Mapped(Known(Peer(e)))'
    BY <2>2, <2>5, ToHttp3Type DEF Mapped
  <2>. QED
    BY <1>0, <2>1, <2>2, <2>6, QuicCloseProvenance
<1>3. ASSUME NEW e \in End, RecordError(e) \/ StoreError(e) \/ NotifyWaiters(e)
      PROVE  Provenance'
  BY <1>3, IdleProvenance DEF RecordError, StoreError, NotifyWaiters
<1>4. ASSUME NEW e \in End, NEW h \in Handle, Waiter(e, h) PROVE Provenance'
  BY <1>4, IdleProvenance DEF Waiter, CallClosed, CheckReason, Wake, CancelClosed, sessionVars
<1>5. CASE UNCHANGED vars
  BY <1>5, IdleProvenance DEF vars, sessionVars
<1>. QED
  BY <1>1, <1>2, <1>3, <1>4, <1>5 DEF Next, TaskEnd

\* Every code is where it came from, at any time.
THEOREM QuionProvenance == Spec => []Provenance
<1>1. Init => Provenance
  BY DEF Init, InitAt, SessionInit, Provenance, Item, Unnamed
<1>2. IInv /\ Provenance /\ [Next]_vars => Provenance'
  BY ProvenanceStep
<1>. QED
  BY <1>1, <1>2, QuionInvariant, PTL DEF Spec

\* The codes SessionEnd lets an end name are the ones known to it.
LEMMA NamedIsKnown ==
    ASSUME SessionTypeOK, NEW e \in End
    PROVE  Ending!Named(e) = Known(e)
  BY NamedCodes DEF Ending!Named

\* Every step of the session is a step of SessionEnd, or leaves it alone.
LEMMA StepSettles ==
    ASSUME IInv, Provenance, [Next]_vars
    PROVE  [Ending!Next]_(Ending!vars)
<1>0. SessionTypeOK /\ DOMAIN close_error = End
  BY DEF IInv, TypeOK
<1>1. ASSUME UNCHANGED <<asked, close_error>> PROVE UNCHANGED Ending!vars
  BY <1>1 DEF Ending!vars
<1>2. ASSUME NEW e \in End, Shared(e) PROVE [Ending!Next]_(Ending!vars)
  <2>1. UNCHANGED close_error
    BY <1>2 DEF Shared
  <2>2. ASSUME NEW c \in Code, Close(e, c) PROVE Ending!Next
    BY <2>1, <2>2 DEF Close, Ending!Close, Ending!Next
  <2>3. CASE UNCHANGED asked
    BY <1>1, <2>1, <2>3
  <2>4. RunClosed(e) \/ Network(e) => UNCHANGED asked
    BY DEF RunClosed, Network, ReadFinal, ReadUnknown, ReadFails, RecvCommand, RecvNone,
           WriteCapsule, WriteFails, StreamStopped, CloseDeadline, Return,
           DeliverConnectionClose, ConnectionLost, ForeignItem
  <2>5. ASSUME NEW h \in Handle, CloneHandle(e, h) \/ DropHandle(e, h) PROVE UNCHANGED asked
    BY <2>5 DEF CloneHandle, DropHandle
  <2>. QED
    BY <1>2, <2>2, <2>3, <2>4, <2>5 DEF Shared
<1>3. ASSUME NEW e \in End, RecordError(e) PROVE [Ending!Next]_(Ending!vars)
  <2>1. CASE outcome[e].type = "close"
    <3>1. outcome[e].code \in Ending!Named(e)
      BY <1>0, <2>1, NamedIsKnown, KnownFacts DEF Provenance
    <3>2. /\ close_error[e] = Open
          /\ close_error' = [close_error EXCEPT ![e] = Reason("closed", outcome[e].code)]
          /\ UNCHANGED asked
      BY <1>3, <2>1 DEF RecordError, IInv, KeptError
    <3>3. Ending!Settle(e)
      BY <3>1, <3>2 DEF Ending!Settle, Ending!Open, Open, Reason
    <3>. QED
      BY <3>3 DEF Ending!Next
  <2>2. CASE outcome[e].type # "close"
    <3>1. close_error' = close_error /\ UNCHANGED asked
      BY <1>3, <2>2 DEF RecordError, IInv, TypeOK
    <3>. QED
      BY <1>1, <3>1
  <2>. QED
    BY <2>1, <2>2
<1>4. ASSUME NEW e \in End, StoreError(e) PROVE [Ending!Next]_(Ending!vars)
  <2>1. close_error' = [close_error EXCEPT ![e] = close_reason(e)] /\ UNCHANGED asked
    BY <1>4 DEF StoreError
  <2>2. CASE close_error[e] # Open
    <3>1. close_error' = close_error
      BY <1>0, <2>1, <2>2 DEF close_reason, IInv, TypeOK
    <3>. QED
      BY <1>1, <2>1, <3>1
  <2>3. CASE close_error[e] = Open
    <3>1. conn[e] # Open
      BY <1>4 DEF StoreError, IInv, KeptError
    <3>2. close_reason(e) = SessionError(conn[e])
      BY <2>3 DEF close_reason
    <3>3. \/ \E c \in Ending!Named(e) : close_reason(e) \in {Reason("closed", c), Reason("app", c)}
          \/ close_reason(e) \in {Reason("local", 0), Reason("lost", 0)}
      BY <1>0, <3>1, <3>2, ReasonSettles, NamedIsKnown DEF Provenance
    <3>4. Ending!Settle(e)
      BY <2>1, <2>3, <3>3 DEF Ending!Settle, Ending!Open, Open, Reason
    <3>. QED
      BY <3>4 DEF Ending!Next
  <2>. QED
    BY <2>2, <2>3
<1>5. ASSUME NEW e \in End, CloseConnection(e) \/ NotifyWaiters(e) PROVE UNCHANGED Ending!vars
  BY <1>1, <1>5 DEF CloseConnection, NotifyWaiters
<1>6. ASSUME NEW e \in End, NEW h \in Handle, Waiter(e, h) PROVE UNCHANGED Ending!vars
  BY <1>1, <1>6 DEF Waiter, CallClosed, CheckReason, Wake, CancelClosed, sessionVars
<1>7. CASE UNCHANGED vars
  BY <1>1, <1>7 DEF vars, sessionVars
<1>. QED
  BY <1>2, <1>3, <1>4, <1>5, <1>6, <1>7 DEF Next, TaskEnd

\* A Quion session ends as SessionEnd promises: each end settles once, on a
\* code that it may name.
THEOREM QuionImplementsEnd == Spec => ImplementsEnd
<1>1. Init => Ending!Init
  BY DEF Init, InitAt, SessionInit, Ending!Init, Ending!Open, Open, Reason
<1>2. IInv /\ Provenance /\ [Next]_vars => [Ending!Next]_(Ending!vars)
  BY StepSettles
<1>. QED
  BY <1>1, <1>2, QuionInvariant, QuionProvenance, PTL DEF Spec, ImplementsEnd, Ending!Spec
-----------------------------------------------------------------------------
(***************************************************************************)
(* One side closes.                                                        *)
(***************************************************************************)

\* Every step keeps to what the silent side may be told, whoever the peer is.
LEMMA ToldStep ==
    ASSUME IInv, Provenance, PeerTold, [Next]_vars
    PROVE  PeerTold'
<1>0. SessionTypeOK /\ FirstQueued
  BY DEF IInv, TypeOK
<1>1. ASSUME NEW a \in End, Shared(a) PROVE PeerTold'
  <2>1. ASSUME NEW h \in Handle, CloneHandle(a, h) \/ DropHandle(a, h) PROVE PeerTold'
    BY <1>0, <2>1, HandleQueued, IdleTold
  <2>. QED
    BY <1>0, <1>1, <2>1, RunClosedTold, NetworkTold, CloseTold DEF Shared
<1>2. ASSUME NEW a \in End, CloseConnection(a) PROVE PeerTold'
  <2>1. /\ task[a] = "recorded" /\ task' = [task EXCEPT ![a] = "closed"]
        /\ QuicClose(a, error_to_http3(FinalCode(outcome[a])))
        /\ UNCHANGED <<live, asked, outcome, wrote>>
    BY <1>2 DEF CloseConnection, close_connection
  <2>2. \A f \in End : task'[f] \in {"select", "writing"} => task'[f] = task[f]
    BY <1>0, <2>1 DEF SessionTypeOK
  <2>3. error_to_http3(FinalCode(outcome[a])) \in Nat
    <3>1. FinalCode(outcome[a]) \in AppCode
      BY <1>0, SessionConstants DEF FinalCode, SessionTypeOK, OutcomeSet
    <3>. QED
      BY <3>1, ToHttp3Type
  <2>4. OneSided(a) => FinalCode(outcome[a]) \in First(a)
    <3>. SUFFICES ASSUME OneSided(a) PROVE FinalCode(outcome[a]) \in First(a)
      OBVIOUS
    <3>1. asked[a] # <<>> /\ outcome[a] = Item("close", Head(asked[a])) /\ asked[a] \in Seq(Code)
      BY <1>0, <2>1 DEF OneSided, FirstQueued, SessionTypeOK
    <3>2. FinalCode(outcome[a]) = Head(asked[a]) /\ Head(asked[a]) \in Code
      BY <3>1 DEF FinalCode, Item
    <3>. QED
      BY <3>1, <3>2 DEF First
  <2>5. OneSided(a) => error_to_http3(FinalCode(outcome[a])) \in Mapped(First(a))
    BY <2>4 DEF Mapped
  <2>. QED
    BY <1>0, <2>1, <2>2, <2>3, <2>5, QuicCloseTold
<1>3. ASSUME NEW a \in End, RecordError(a) \/ StoreError(a) \/ NotifyWaiters(a)
      PROVE  PeerTold'
  <2>1. /\ UNCHANGED <<live, asked, outcome, frame, conn, wrote>>
        /\ \E t \in {"recorded", "stored", "done"} : task' = [task EXCEPT ![a] = t]
    BY <1>3 DEF RecordError, StoreError, NotifyWaiters
  <2>2. \A f \in End : task'[f] \in {"select", "writing"} => task'[f] = task[f]
    BY <1>0, <2>1 DEF SessionTypeOK
  <2>. QED
    BY <1>0, <2>1, <2>2, IdleTold
<1>4. ASSUME UNCHANGED sessionVars PROVE PeerTold'
  BY <1>0, <1>4, IdleTold DEF sessionVars
<1>5. ASSUME NEW a \in End, NEW h \in Handle, Waiter(a, h) PROVE UNCHANGED sessionVars
  BY <1>5 DEF Waiter, CallClosed, CheckReason, Wake, CancelClosed
<1>. QED
  BY <1>1, <1>2, <1>3, <1>4, <1>5 DEF Next, TaskEnd, vars

\* An unknown capsule may be read, and items that are in order by themselves
\* may be sent.
LEMMA CapsuleTail ==
    ASSUME NEW s \in Seq(ItemSet), s # <<>>, CapsuleFirst(s), Head(s).type = "unknown"
    PROVE  CapsuleFirst(Tail(s))
<1>. SUFFICES ASSUME NEW i \in DOMAIN Tail(s)
              PROVE  /\ Tail(s)[i].type \in {"unknown", "close", "fin"}
                     /\ Tail(s)[i].type = "fin" =>
                           \E k \in DOMAIN Tail(s) : k < i /\ Tail(s)[k].type = "close"
  BY DEF CapsuleFirst
<1>1. /\ Tail(s) \in Seq(ItemSet) /\ Len(Tail(s)) = Len(s) - 1
      /\ \A j \in 1..(Len(s) - 1) : Tail(s)[j] = s[j + 1]
      /\ Head(s) = s[1] /\ Len(s) \in Nat /\ DOMAIN s = 1..Len(s)
  OBVIOUS
<1>2. i \in 1..(Len(s) - 1) /\ i + 1 \in DOMAIN s /\ DOMAIN Tail(s) = 1..(Len(s) - 1)
  BY <1>1
<1>3. ASSUME s[i + 1].type = "fin"
      PROVE  \E k \in DOMAIN Tail(s) : k < i /\ Tail(s)[k].type = "close"
  <2>1. PICK k \in DOMAIN s : k < i + 1 /\ s[k].type = "close"
    BY <1>2, <1>3 DEF CapsuleFirst
  <2>2. k # 1
    BY <1>1, <2>1
  <2>3. k - 1 \in DOMAIN Tail(s) /\ k - 1 < i /\ Tail(s)[k - 1] = s[k]
    BY <1>1, <1>2, <2>1, <2>2
  <2>. QED
    BY <2>1, <2>3
<1>. QED
  BY <1>1, <1>2, <1>3 DEF CapsuleFirst

\* It stays so when items that are so are written after it.
LEMMA CapsuleAppend ==
    ASSUME NEW s \in Seq(ItemSet), NEW items \in Seq(ItemSet),
           CapsuleFirst(s), CapsuleFirst(items)
    PROVE  CapsuleFirst(s \o items)
<1>. DEFINE t == s \o items
<1>1. /\ Len(s) \in Nat /\ Len(items) \in Nat /\ DOMAIN t = 1..(Len(s) + Len(items))
      /\ DOMAIN s = 1..Len(s) /\ DOMAIN items = 1..Len(items)
      /\ \A j \in DOMAIN s : t[j] = s[j]
      /\ \A j \in DOMAIN items : t[Len(s) + j] = items[j]
  OBVIOUS
<1>. HIDE DEF t
<1>. SUFFICES ASSUME NEW i \in DOMAIN t
              PROVE  /\ t[i].type \in {"unknown", "close", "fin"}
                     /\ t[i].type = "fin" => \E k \in DOMAIN t : k < i /\ t[k].type = "close"
  BY DEF CapsuleFirst, t
<1>2. CASE i \in DOMAIN s
  <2>1. DOMAIN s \subseteq DOMAIN t
    BY <1>1
  <2>. QED
    BY <1>1, <1>2, <2>1 DEF CapsuleFirst
<1>3. CASE i \notin DOMAIN s
  <2>1. i - Len(s) \in DOMAIN items /\ i = Len(s) + (i - Len(s))
    BY <1>1, <1>3
  <2>2. t[i] = items[i - Len(s)]
    BY <1>1, <2>1
  <2>3. ASSUME items[i - Len(s)].type = "fin"
        PROVE  \E k \in DOMAIN t : k < i /\ t[k].type = "close"
    <3>1. PICK k \in DOMAIN items : k < i - Len(s) /\ items[k].type = "close"
      BY <2>1, <2>3 DEF CapsuleFirst
    <3>2. Len(s) + k \in DOMAIN t /\ Len(s) + k < i
      BY <1>1, <2>1, <3>1
    <3>. QED
      BY <1>1, <3>1, <3>2
  <2>. QED
    BY <2>1, <2>2, <2>3 DEF CapsuleFirst
<1>. QED
  BY <1>2, <1>3

\* Sending such items keeps the other side's stream in order.
LEMMA CapsuleSent ==
    ASSUME SessionTypeOK, NEW e \in End, NEW items \in Seq(ItemSet),
           CapsuleFirst(stream[Peer(e)]), CapsuleFirst(items)
    PROVE  CapsuleFirst(Sent(e, items)[Peer(e)])
<1>1. Peer(e) \in End /\ stream[Peer(e)] \in Seq(ItemSet)
  BY PeerFacts DEF SessionTypeOK
<1>2. Sent(e, items)[Peer(e)] \in {stream[Peer(e)], stream[Peer(e)] \o items}
  BY <1>1 DEF Sent, SessionTypeOK
<1>. QED
  BY <1>1, <1>2, CapsuleAppend

\* The side that is alone in closing sends its capsule before it ends its
\* half of the stream, and then nothing.
LEMMA CloserSends ==
    ASSUME SessionTypeOK, NEW e \in End, RunClosed(e), wrote[e] => finished[e],
           CapsuleFirst(stream[Peer(e)]), OneSided(e)'
    PROVE  (wrote'[e] => finished'[e]) /\ CapsuleFirst(stream'[Peer(e)])
<1>0. Peer(e) \in End /\ Peer(e) # e
  BY PeerFacts
<1>1. ASSUME NEW o, Return(e, o)
      PROVE  (wrote'[e] => finished'[e]) /\ stream'[Peer(e)] = stream[Peer(e)]
  <2>1. task'[e] = "returned" /\ finished'[e] /\ UNCHANGED wrote
    BY <1>1 DEF Return, SessionTypeOK
  <2>2. finished[e]
    BY <2>1 DEF OneSided
  <2>3. stream'[Peer(e)] = Sent(e, <<>>)[Peer(e)]
    BY <1>0, <1>1, <2>2 DEF Return, Sent, SessionTypeOK
  <2>4. stream[Peer(e)] \o <<>> = stream[Peer(e)]
    BY <1>0 DEF SessionTypeOK
  <2>5. stream'[Peer(e)] = stream[Peer(e)]
    BY <1>0, <2>3, <2>4 DEF Sent, SessionTypeOK
  <2>. QED
    BY <2>1, <2>5
<1>2. CASE \E o : Return(e, o)
  BY <1>1, <1>2
<1>3. CASE ReadUnknown(e) \/ RecvCommand(e)
  <2>1. UNCHANGED <<wrote, finished>> /\ stream'[Peer(e)] = stream[Peer(e)]
    BY <1>0, <1>3 DEF ReadUnknown, RecvCommand, SessionTypeOK
  <2>. QED
    BY <2>1
<1>4. CASE WriteCapsule(e)
  <2>. DEFINE items == <<Item("close", outcome[e].code), Item("fin", 0)>>
  <2>1. outcome[e].code \in AppCode /\ 0 \in AppCode
    BY SessionConstants DEF SessionTypeOK, OutcomeSet
  <2>2. items \in Seq(ItemSet)
    BY <2>1 DEF Item, ItemSet, ForeignType
  <2>3. CapsuleFirst(items)
    BY DEF CapsuleFirst, Item
  <2>4. stream' = Sent(e, items) /\ finished'[e]
    BY <1>4 DEF WriteCapsule, SessionTypeOK
  <2>. QED
    BY <2>2, <2>3, <2>4, CapsuleSent
<1>. QED
  BY <1>2, <1>3, <1>4 DEF RunClosed, ReadFinal, ReadFails, RecvNone, WriteFails, StreamStopped,
                          CloseDeadline

\* The silent side returns the capsule's code, or has found QUIC closed.
LEMMA SilentReturns ==
    ASSUME SessionTypeOK, FirstQueued, Provenance, NEW p \in End, RunClosed(p),
           asked[p] = <<>>, live[p] # {}, CapsuleFirst(stream[p]), AnswersCapsule(p)
    PROVE  AnswersCapsule(p)' /\ CapsuleFirst(stream'[p])
<1>0. /\ task[p] \in Running /\ conn[p] # Reason("local", 0) /\ UNCHANGED conn
  BY RunClosedFacts DEF AnswersCapsule
<1>1. CASE ReadUnknown(p)
  <2>1. /\ stream[p] # <<>> /\ Head(stream[p]).type = "unknown"
        /\ stream'[p] = Tail(stream[p]) /\ stream[p] \in Seq(ItemSet)
        /\ UNCHANGED <<task, outcome, conn>>
    BY <1>1 DEF ReadUnknown, SessionTypeOK
  <2>2. CapsuleFirst(stream'[p])
    BY <2>1, CapsuleTail
  <2>. QED
    BY <2>1, <2>2 DEF AnswersCapsule, Open, Reason
<1>2. ASSUME NEW o, Return(p, o), o.type \in {"close", "end"}, o.type = "end" => conn[p] # Open
      PROVE  AnswersCapsule(p)' /\ CapsuleFirst(stream'[p])
  <2>1. outcome'[p] = o /\ task'[p] = "returned" /\ stream'[p] = <<>>
    <3>1. Peer(p) \in End
      BY PeerFacts
    <3>. QED
      BY <1>2, <3>1 DEF Return, Sent, SessionTypeOK
  <2>2. CapsuleFirst(<<>>)
    BY DEF CapsuleFirst
  <2>. QED
    BY <1>0, <1>2, <2>1, <2>2 DEF AnswersCapsule, Open, Reason
<1>3. stream[p] # <<>> => Head(stream[p]).type \in {"unknown", "close"}
  <2>. SUFFICES ASSUME stream[p] # <<>> PROVE Head(stream[p]).type \in {"unknown", "close"}
    OBVIOUS
  <2>1. 1 \in DOMAIN stream[p] /\ Head(stream[p]) = stream[p][1] /\ DOMAIN stream[p] \subseteq Nat \ {0}
    BY DEF SessionTypeOK
  <2>2. ~\E k \in DOMAIN stream[p] : k < 1
    BY <2>1
  <2>. QED
    BY <2>1, <2>2 DEF CapsuleFirst
<1>4. \/ ReadUnknown(p)
      \/ ReadFails(p) /\ Return(p, Item("end", 0))
      \/ \E c : Return(p, Item("close", c))
  BY <1>3, PassiveReturn
<1>5. ReadFails(p) => conn[p] # Open
  BY DEF ReadFails
<1>6. Item("end", 0).type = "end" /\ \A c : Item("close", c).type = "close"
  BY DEF Item
<1>. QED
  BY <1>1, <1>2, <1>4, <1>5, <1>6

\* The steps of run_closed keep what holds while e is alone in closing.
LEMMA RunClosedAgrees ==
    ASSUME IInv, Provenance, Agreement, NEW a \in End, RunClosed(a), UNCHANGED close_error
    PROVE  Agreement'
<1>. SUFFICES ASSUME NEW e \in End, OneSided(e)' PROVE Agrees(e)'
  BY DEF Agreement
<1>0. SessionTypeOK /\ FirstQueued /\ Peer(e) \in End /\ Peer(e) # e /\ End = {e, Peer(e)}
      /\ Peer(Peer(e)) = e
  BY PeerFacts DEF IInv, TypeOK
<1>1. /\ task[a] \in Running /\ task'[a] \in Running \cup {"returned"}
      /\ task'[a] \in {"select", "writing"} => task[a] = "select"
      /\ wrote'[a] => wrote[a] \/ task[a] = "writing"
      /\ \A f \in End : f # a => task'[f] = task[f] /\ outcome'[f] = outcome[f]
                                 /\ wrote'[f] = wrote[f]
      /\ UNCHANGED <<live, conn, frame, asked>>
  BY <1>0, RunClosedFacts
<1>2. OneSided(e) /\ Agrees(e)
  BY <1>0, <1>1, OneSidedBefore DEF Agreement
<1>3. First(e)' = First(e) /\ Mapped(First(e))' = Mapped(First(e))
  BY <1>1, NotAsked DEF Mapped
<1>4. /\ close_error'[Peer(e)] \in {Open, Reason("lost", 0)}
                                     \cup {Reason("closed", c) : c \in First(e)'}
      /\ frame'[e] \in {None} \cup Mapped(First(e))'
      /\ task'[e] \in Running \cup {"returned"} =>
            \/ conn'[e] \in {Open, Reason("lost", 0)}
            \/ \E h \in Mapped(First(e))' : conn'[e] = Reason("app", h)
  BY <1>1, <1>2, <1>3 DEF Agrees
<1>5. /\ wrote'[e] => finished'[e]
      /\ CapsuleFirst(stream'[Peer(e)])
      /\ AnswersCapsule(Peer(e))'
  <2>1. CASE a = e
    <3>1. (wrote'[e] => finished'[e]) /\ CapsuleFirst(stream'[Peer(e)])
      BY <1>0, <1>2, <2>1, CloserSends DEF Agrees
    <3>2. AnswersCapsule(Peer(e))'
      BY <1>0, <1>1, <1>2, <2>1 DEF Agrees, AnswersCapsule, Open, Reason
    <3>. QED
      BY <3>1, <3>2
  <2>2. CASE a = Peer(e)
    <3>1. finished'[e] = finished[e] /\ wrote'[e] = wrote[e]
      <4>1. UNCHANGED finished \/ \E x : finished' = [finished EXCEPT ![a] = x]
        BY DEF RunClosed, ReadFinal, ReadUnknown, ReadFails, RecvCommand, RecvNone,
               WriteCapsule, WriteFails, StreamStopped, CloseDeadline, Return
      <4>. QED
        BY <1>0, <1>1, <2>2, <4>1 DEF SessionTypeOK
    <3>2. asked[Peer(e)] = <<>> /\ live[Peer(e)] # {}
      BY <1>2 DEF OneSided
    <3>3. AnswersCapsule(Peer(e))' /\ CapsuleFirst(stream'[Peer(e)])
      BY <1>0, <1>2, <2>2, <3>2, SilentReturns DEF Agrees
    <3>. QED
      BY <1>2, <3>1, <3>3 DEF Agrees
  <2>. QED
    BY <1>0, <2>1, <2>2
<1>. QED
  BY <1>4, <1>5 DEF Agrees, CapsuleFirst, Open, Reason

\* So do QUIC and a peer that sends unknown capsules.
LEMMA NetworkAgrees ==
    ASSUME Foreign \subseteq {"unknown"}, IInv, Agreement,
           NEW a \in End, Network(a), UNCHANGED close_error
    PROVE  Agreement'
<1>. SUFFICES ASSUME NEW e \in End, OneSided(e)' PROVE Agrees(e)'
  BY DEF Agreement
<1>0. SessionTypeOK /\ FirstQueued /\ Peer(e) \in End /\ Peer(e) # e /\ End = {e, Peer(e)}
      /\ Peer(Peer(e)) = e
  BY PeerFacts DEF IInv, TypeOK
<1>1. /\ UNCHANGED <<live, queue, task, outcome, asked, wrote>>
      /\ \A f \in End : frame'[f] \in {None, frame[f]}
      /\ \A f \in End : conn'[f] # conn[f] =>
            /\ conn[f] = Open
            /\ \/ conn'[f] = Reason("lost", 0)
               \/ frame[f] # None /\ conn'[f] = Reason("app", frame[f])
  BY <1>0, NetworkFacts
<1>2. OneSided(e) /\ Agrees(e)
  BY <1>1 DEF OneSided, Agreement
<1>3. First(e)' = First(e) /\ Mapped(First(e))' = Mapped(First(e))
  BY <1>1, NotAsked DEF Mapped
<1>4. /\ close_error'[Peer(e)] \in {Open, Reason("lost", 0)}
                                     \cup {Reason("closed", c) : c \in First(e)'}
      /\ frame'[e] \in {None} \cup Mapped(First(e))'
  BY <1>0, <1>1, <1>2, <1>3 DEF Agrees
<1>5. task'[e] \in Running \cup {"returned"} =>
            \/ conn'[e] \in {Open, Reason("lost", 0)}
            \/ \E h \in Mapped(First(e))' : conn'[e] = Reason("app", h)
  <2>1. frame[e] # None => frame[e] \in Mapped(First(e))'
    BY <1>2, <1>3 DEF Agrees
  <2>. QED
    BY <1>1, <1>2, <1>3, <2>1 DEF Agrees
<1>6. AnswersCapsule(Peer(e))'
  <2>1. /\ Reason("lost", 0) # Reason("local", 0) /\ Reason("lost", 0) # Open
        /\ \A h : Reason("app", h) # Reason("local", 0) /\ Reason("app", h) # Open
    BY DEF Reason, Open
  <2>2. /\ conn'[Peer(e)] = Reason("local", 0) => conn[Peer(e)] = Reason("local", 0)
        /\ conn[Peer(e)] # Open => conn'[Peer(e)] # Open
    BY <1>0, <1>1, <2>1
  <2>. QED
    BY <1>1, <1>2, <2>2 DEF Agrees, AnswersCapsule, Open, Reason
<1>7. (wrote'[e] => finished'[e]) /\ CapsuleFirst(stream'[Peer(e)])
  <2>1. ASSUME NEW type \in Foreign, ForeignItem(a, type)
        PROVE  (wrote'[e] => finished'[e]) /\ CapsuleFirst(stream'[Peer(e)])
    <3>1. stream' = Sent(a, <<Item("unknown", 0)>>) /\ finished' = [finished EXCEPT ![a] = FALSE]
          /\ ~finished[a]
      BY <2>1 DEF ForeignItem
    <3>2. wrote'[e] => finished'[e]
      BY <1>0, <1>1, <1>2, <3>1 DEF Agrees, SessionTypeOK
    <3>3. <<Item("unknown", 0)>> \in Seq(ItemSet) /\ CapsuleFirst(<<Item("unknown", 0)>>)
      BY SessionConstants DEF Item, ItemSet, ForeignType, CapsuleFirst
    <3>4. CapsuleFirst(stream'[Peer(e)])
      <4>1. CASE a = e
        BY <1>0, <1>2, <3>1, <3>3, <4>1, CapsuleSent DEF Agrees
      <4>2. CASE a = Peer(e)
        <5>1. stream'[Peer(e)] = stream[Peer(e)]
          BY <1>0, <3>1, <4>2 DEF Sent, SessionTypeOK
        <5>. QED
          BY <1>2, <5>1 DEF Agrees
      <4>. QED
        BY <1>0, <4>1, <4>2
    <3>. QED
      BY <3>2, <3>4
  <2>2. DeliverConnectionClose(a) \/ ConnectionLost(a) => UNCHANGED <<stream, finished>>
    BY DEF DeliverConnectionClose, ConnectionLost
  <2>. QED
    BY <1>1, <1>2, <2>1, <2>2 DEF Network, Agrees
<1>. QED
  BY <1>4, <1>5, <1>6, <1>7 DEF Agrees, CapsuleFirst, Open, Reason

\* Steps that leave the streams, QUIC and the silent side's outcome alone.
LEMMA IdleAgrees ==
    ASSUME IInv, Agreement, UNCHANGED <<outcome, stream, finished, conn, frame, wrote>>,
           \A e \in End : OneSided(e)' =>
              /\ OneSided(e)
              /\ First(e) \subseteq First(e)' /\ Mapped(First(e)) \subseteq Mapped(First(e))'
              /\ \/ close_error'[Peer(e)] = close_error[Peer(e)]
                 \/ close_error'[Peer(e)] \in {Open, Reason("lost", 0)}
                                     \cup {Reason("closed", c) : c \in First(e)},
           \A f \in End : \/ task'[f] = task[f]
                          \/ task[f] = "returned" /\ task'[f] = "recorded"
                          \/ task[f] = "closed" /\ task'[f] = "stored"
                          \/ task[f] = "stored" /\ task'[f] = "done"
    PROVE  Agreement'
<1>. SUFFICES ASSUME NEW e \in End, OneSided(e)' PROVE Agrees(e)'
  BY DEF Agreement
<1>0. Peer(e) \in End
  BY PeerFacts
<1>1. Agrees(e)
  BY DEF Agreement
<1>2. AnswersCapsule(Peer(e))'
  BY <1>0, <1>1 DEF Agrees, AnswersCapsule, Running, Open, Reason
<1>3. close_error'[Peer(e)] \in {Open, Reason("lost", 0)}
                                     \cup {Reason("closed", c) : c \in First(e)'}
  BY <1>1 DEF Agrees
<1>4. frame'[e] \in {None} \cup Mapped(First(e))'
  BY <1>1 DEF Agrees
<1>5. task'[e] \in Running \cup {"returned"} =>
            \/ conn'[e] \in {Open, Reason("lost", 0)}
            \/ \E h \in Mapped(First(e))' : conn'[e] = Reason("app", h)
  BY <1>1 DEF Agrees, Running
<1>6. (wrote'[e] => finished'[e]) /\ CapsuleFirst(stream'[Peer(e)])
  BY <1>1 DEF Agrees
<1>. QED
  BY <1>2, <1>3, <1>4, <1>5, <1>6 DEF Agrees, CapsuleFirst, Open, Reason

\* The end of the task: what the silent side keeps is the closer's code.
LEMMA TaskEndAgrees ==
    ASSUME IInv, PeerTold, Agreement, NEW a \in End, TaskEnd(a)
    PROVE  Agreement'
<1>0. SessionTypeOK /\ KeptError /\ DOMAIN close_error = End
  BY DEF IInv, TypeOK
<1>1. UNCHANGED <<live, asked, outcome, stream, finished, wrote>>
  BY DEF TaskEnd, RecordError, CloseConnection, StoreError, NotifyWaiters
<1>2. \A f : First(f)' = First(f) /\ Mapped(First(f))' = Mapped(First(f))
  BY <1>1, NotAsked DEF Mapped
<1>3. /\ \A f \in End : f # a => task'[f] = task[f] /\ close_error'[f] = close_error[f]
      /\ \E t \in {"recorded", "closed", "stored", "done"} : task'[a] = t
  BY <1>0 DEF TaskEnd, RecordError, CloseConnection, StoreError, NotifyWaiters, SessionTypeOK
<1>4. \A e \in End : OneSided(e)' => OneSided(e)
  BY <1>1, <1>3 DEF OneSided
<1>5. CASE RecordError(a)
  <2>1. /\ task[a] = "returned" /\ task'[a] = "recorded" /\ UNCHANGED <<conn, frame>>
        /\ close_error'[a] = IF outcome[a].type = "close" THEN Reason("closed", outcome[a].code)
                                                          ELSE close_error[a]
    BY <1>0, <1>5 DEF RecordError, SessionTypeOK
  <2>2. ASSUME NEW e \in End, OneSided(e), a = Peer(e), outcome[a].type = "close"
        PROVE  outcome[a].code \in First(e)
    BY <2>2 DEF PeerTold
  <2>3. \A e \in End : OneSided(e) =>
           \/ close_error'[Peer(e)] = close_error[Peer(e)]
           \/ \E c \in First(e) : close_error'[Peer(e)] = Reason("closed", c)
    BY <1>3, <2>1, <2>2, PeerFacts
  <2>. QED
    BY <1>1, <1>2, <1>3, <1>4, <2>1, <2>3, IdleAgrees
<1>6. CASE StoreError(a)
  <2>1. /\ task[a] = "closed" /\ task'[a] = "stored" /\ UNCHANGED <<conn, frame>>
        /\ close_error'[a] = close_reason(a)
    BY <1>0, <1>6 DEF StoreError, SessionTypeOK
  <2>2. ASSUME NEW e \in End, OneSided(e), a = Peer(e)
        PROVE  \/ close_error'[a] = close_error[a]
               \/ close_error'[a] \in {Open, Reason("lost", 0)}
                                     \cup {Reason("closed", c) : c \in First(e)}
    <3>1. CASE close_error[a] # Open
      BY <2>1, <3>1 DEF close_reason
    <3>2. CASE close_error[a] = Open
      <4>1. close_error'[a] = SessionError(conn[a])
        BY <2>1, <3>2 DEF close_reason
      <4>2. AnswersCapsule(a)
        BY <2>2 DEF Agreement, Agrees
      <4>3. conn[a] # Reason("local", 0)
        <5>1. outcome[a].type # "close"
          BY <1>0, <2>1, <3>2 DEF KeptError, Running, Open, Reason
        <5>. QED
          BY <4>2, <5>1 DEF AnswersCapsule
      <4>4. CASE conn[a] \in Unnamed
        BY <4>1, <4>3, <4>4, SessionErrorUnnamed DEF Unnamed
      <4>5. ASSUME NEW c \in First(e), conn[a] = Reason("app", error_to_http3(c))
            PROVE  close_error'[a] = Reason("closed", c)
        BY <4>1, <4>5, SessionErrorMapped, SessionConstants DEF First
      <4>6. conn[a] \in Unnamed \/ \E c \in First(e) : conn[a] = Reason("app", error_to_http3(c))
        BY <2>2 DEF PeerTold, Mapped
      <4>. QED
        BY <4>4, <4>5, <4>6
    <3>. QED
      BY <3>1, <3>2
  <2>3. \A e \in End : OneSided(e) =>
           \/ close_error'[Peer(e)] = close_error[Peer(e)]
           \/ close_error'[Peer(e)] \in {Open, Reason("lost", 0)}
                                     \cup {Reason("closed", c) : c \in First(e)}
    BY <1>3, <2>2, PeerFacts
  <2>. QED
    BY <1>1, <1>2, <1>3, <1>4, <2>1, <2>3, IdleAgrees
<1>7. CASE NotifyWaiters(a)
  <2>1. task[a] = "stored" /\ task'[a] = "done" /\ UNCHANGED <<conn, frame, close_error>>
    BY <1>0, <1>7 DEF NotifyWaiters, SessionTypeOK
  <2>. QED
    BY <1>1, <1>2, <1>3, <1>4, <2>1, IdleAgrees
<1>8. CASE CloseConnection(a)
  <2>. SUFFICES ASSUME NEW e \in End, OneSided(e)' PROVE Agrees(e)'
    BY DEF Agreement
  <2>0. Peer(e) \in End /\ Peer(e) # e /\ End = {e, Peer(e)} /\ Peer(Peer(e)) = e
    BY PeerFacts
  <2>1. OneSided(e) /\ Agrees(e)
    BY <1>4 DEF Agreement
  <2>. DEFINE h == error_to_http3(FinalCode(outcome[a]))
  <2>2. /\ task[a] = "recorded" /\ task'[a] = "closed" /\ UNCHANGED close_error
        /\ QuicClose(a, h)
    BY <1>0, <1>8 DEF CloseConnection, close_connection, SessionTypeOK
  <2>3. h \in Nat
    <3>1. FinalCode(outcome[a]) \in AppCode
      BY <1>0, SessionConstants DEF FinalCode, SessionTypeOK, OutcomeSet
    <3>. QED
      BY <3>1, ToHttp3Type
  <2>. HIDE DEF h
  <2>4. /\ \A f \in End : conn[f] # Open => conn'[f] = conn[f]
        /\ \A f \in End : conn'[f] # conn[f] => f = a /\ conn'[f] = Reason("local", 0)
        /\ \A f \in End : \/ frame'[f] \in {None, frame[f]}
                          \/ f = Peer(a) /\ frame'[f] = h /\ conn[a] = Open
    BY <1>0, <2>2, <2>3, QuicCloseFacts
  <2>5. a = Peer(e) /\ conn[a] = Open => outcome[a].type = "close" /\ h \in Mapped(First(e))
    <3>. SUFFICES ASSUME a = Peer(e), conn[a] = Open
                  PROVE  outcome[a].type = "close" /\ h \in Mapped(First(e))
      OBVIOUS
    <3>1. outcome[a].type = "close"
      BY <1>0, <2>1, <2>2 DEF Agrees, AnswersCapsule, Running, SessionTypeOK, OutcomeSet
    <3>2. FinalCode(outcome[a]) \in First(e)
      BY <2>1, <3>1 DEF PeerTold, FinalCode
    <3>. QED
      BY <3>1, <3>2 DEF Mapped, h
  <2>6. frame'[e] \in {None} \cup Mapped(First(e))'
    BY <1>2, <2>0, <2>1, <2>4, <2>5 DEF Agrees
  <2>7. AnswersCapsule(Peer(e))'
    <3>1. CASE a = e
      <4>1. conn'[Peer(e)] = conn[Peer(e)] /\ task'[Peer(e)] = task[Peer(e)]
        BY <1>3, <2>0, <2>4, <3>1
      <4>. QED
        BY <1>1, <2>1, <4>1 DEF Agrees, AnswersCapsule, Open, Reason
    <3>2. CASE a = Peer(e)
      <4>1. outcome[a].type \notin {"error", "none"} /\ conn[a] # Reason("local", 0)
            /\ (outcome[a].type = "end" => conn[a] # Open)
        BY <2>1, <2>2, <3>2 DEF Agrees, AnswersCapsule, Running
      <4>2. conn'[a] = Reason("local", 0) => conn[a] = Open
        BY <2>4, <4>1
      <4>. QED
        BY <1>1, <2>2, <2>4, <2>5, <3>2, <4>1, <4>2 DEF AnswersCapsule, Running, Open, Reason
    <3>. QED
      BY <2>0, <3>1, <3>2
  <2>8. task'[e] \in Running \cup {"returned"} =>
            \/ conn'[e] \in {Open, Reason("lost", 0)}
            \/ \E g \in Mapped(First(e))' : conn'[e] = Reason("app", g)
    <3>1. task'[e] \in Running \cup {"returned"} => e # a
      BY <2>2 DEF Running
    <3>. QED
      BY <1>2, <1>3, <2>1, <2>4, <3>1 DEF Agrees
  <2>9. /\ wrote'[e] => finished'[e]
        /\ CapsuleFirst(stream'[Peer(e)])
        /\ close_error'[Peer(e)] \in {Open, Reason("lost", 0)}
                                     \cup {Reason("closed", c) : c \in First(e)'}
    BY <1>1, <1>2, <2>1, <2>2 DEF Agrees
  <2>. QED
    BY <2>6, <2>7, <2>8, <2>9 DEF Agrees, CapsuleFirst, Open, Reason
<1>. QED
  BY <1>5, <1>6, <1>7, <1>8 DEF TaskEnd

\* Every step, as long as the peer sends no malformed capsule.
LEMMA AgreementStep ==
    ASSUME Foreign \subseteq {"unknown"}, IInv, Provenance, PeerTold, Agreement, [Next]_vars
    PROVE  Agreement'
<1>0. SessionTypeOK /\ FirstQueued
  BY DEF IInv, TypeOK
<1>1. ASSUME NEW a \in End, NEW c \in Code, Close(a, c), UNCHANGED close_error PROVE Agreement'
  <2>1. \A e \in End : OneSided(e)' =>
           /\ OneSided(e)
           /\ First(e) \subseteq First(e)' /\ Mapped(First(e)) \subseteq Mapped(First(e))'
           /\ UNCHANGED <<task, outcome, stream, finished, conn, frame, wrote>>
    BY <1>0, <1>1, CloseAlone
  <2>2. CASE \E e \in End : OneSided(e)'
    BY <1>1, <2>1, <2>2, IdleAgrees
  <2>3. CASE ~\E e \in End : OneSided(e)'
    BY <2>3 DEF Agreement
  <2>. QED
    BY <2>2, <2>3
<1>2. ASSUME UNCHANGED <<task, outcome, stream, finished, conn, frame, asked, wrote, close_error>>,
             \A f \in End : live'[f] # {} => live[f] # {}
      PROVE  Agreement'
  <2>1. \A e \in End : /\ OneSided(e)' => OneSided(e)
                       /\ First(e)' = First(e) /\ Mapped(First(e))' = Mapped(First(e))
    BY <1>2, NotAsked, PeerFacts DEF OneSided, Mapped
  <2>. QED
    BY <1>2, <2>1, IdleAgrees
<1>3. ASSUME NEW a \in End, NEW h \in Handle, CloneHandle(a, h) \/ DropHandle(a, h),
             UNCHANGED close_error
      PROVE  Agreement'
  BY <1>0, <1>2, <1>3, HandleQueued
<1>4. ASSUME NEW a \in End, Shared(a) PROVE Agreement'
  <2>1. UNCHANGED close_error
    BY <1>4 DEF Shared
  <2>. QED
    BY <1>1, <1>3, <1>4, <2>1, RunClosedAgrees, NetworkAgrees DEF Shared
<1>5. ASSUME NEW a \in End, NEW h \in Handle, Waiter(a, h)
      PROVE  UNCHANGED <<sessionVars, close_error>>
  BY <1>5 DEF Waiter, CallClosed, CheckReason, Wake, CancelClosed
<1>6. ASSUME UNCHANGED <<sessionVars, close_error>> PROVE Agreement'
  BY <1>2, <1>6 DEF sessionVars
<1>. QED
  BY <1>4, <1>5, <1>6, TaskEndAgrees DEF Next, vars

\* Between two endpoints that send no malformed capsule, a close by one side
\* alone is reported with its code by both, whichever of the capsule and the
\* CONNECTION_CLOSE gets there first, unless the connection is lost.
THEOREM QuionOneSidedCloseAgrees ==
    ASSUME Foreign \subseteq {"unknown"}
    PROVE  Spec => []OneSidedCloseAgrees
<1>1. Init => PeerTold /\ Agreement
  <2>. SUFFICES ASSUME Init PROVE PeerTold /\ Agreement
    OBVIOUS
  <2>1. ASSUME NEW e \in End
        PROVE  /\ outcome[Peer(e)] = Item("none", 0)
               /\ frame[Peer(e)] = None /\ frame[e] = None
               /\ conn[Peer(e)] = Open /\ conn[e] = Open
               /\ ~wrote[e] /\ stream[Peer(e)] = <<>>
               /\ task[Peer(e)] = "select"
               /\ close_error[Peer(e)] = Open
    BY PeerFacts DEF Init, InitAt, SessionInit
  <2>2. PeerTold
    BY <2>1 DEF PeerTold, Unnamed, Item
  <2>3. ASSUME NEW e \in End PROVE AnswersCapsule(Peer(e))
    BY <2>1 DEF AnswersCapsule, Item, Running, Open, Reason
  <2>4. Agreement
    BY <2>1, <2>3 DEF Agreement, Agrees, CapsuleFirst
  <2>. QED
    BY <2>2, <2>4
<1>2. IInv /\ Provenance /\ PeerTold /\ Agreement /\ [Next]_vars => PeerTold' /\ Agreement'
  BY ToldStep, AgreementStep
<1>3. IInv /\ PeerTold /\ Agreement => OneSidedCloseAgrees
  <2>. SUFFICES ASSUME IInv, PeerTold, Agreement, NEW e \in End,
                       wrote[e], Len(asked[e]) = 1, asked[Peer(e)] = <<>>, live[Peer(e)] # {},
                       NEW r \in {close_reason(e), close_reason(Peer(e))}
                PROVE  r = Reason("closed", Head(asked[e])) \/ r.kind \in {"open", "lost"}
    BY DEF OneSidedCloseAgrees
  <2>0. OneSided(e) /\ Agrees(e) /\ KeptError /\ FirstQueued /\ Peer(e) \in End
    <3>1. OneSided(e)
      BY DEF OneSided
    <3>. QED
      BY <3>1, PeerFacts DEF Agreement, IInv
  <2>1. \A c \in First(e) : c = Head(asked[e]) /\ c \in AppCode
    BY SessionConstants DEF First
  <2>2. ASSUME NEW q, \/ q \in {Open, Reason("lost", 0)}
                      \/ \E h \in Mapped(First(e)) : q = Reason("app", h),
               r = SessionError(q)
        PROVE  r = Reason("closed", Head(asked[e])) \/ r.kind \in {"open", "lost"}
    <3>1. CASE q \in {Open, Reason("lost", 0)}
      BY <2>2, <3>1, SessionErrorUnnamed DEF Unnamed, Open, Reason
    <3>2. ASSUME NEW c \in First(e), q = Reason("app", error_to_http3(c))
          PROVE  r = Reason("closed", Head(asked[e]))
      BY <2>1, <2>2, <3>2, SessionErrorMapped
    <3>. QED
      BY <2>2, <3>1, <3>2 DEF Mapped
  <2>3. CASE r = close_reason(Peer(e))
    <3>1. CASE close_error[Peer(e)] # Open
      <4>1. r = close_error[Peer(e)]
        BY <2>3, <3>1 DEF close_reason
      <4>. QED
        BY <2>0, <2>1, <4>1 DEF Agrees, Open, Reason
    <3>2. CASE close_error[Peer(e)] = Open
      <4>1. r = SessionError(conn[Peer(e)])
        BY <2>3, <3>2 DEF close_reason
      <4>2. conn[Peer(e)] # Reason("local", 0)
        <5>1. ASSUME conn[Peer(e)] = Reason("local", 0)
              PROVE  close_error[Peer(e)] = Reason("closed", outcome[Peer(e)].code)
          BY <2>0, <5>1 DEF Agrees, AnswersCapsule, KeptError
        <5>. QED
          BY <3>2, <5>1 DEF Open, Reason
      <4>3. \/ conn[Peer(e)] \in {Open, Reason("lost", 0)}
            \/ \E h \in Mapped(First(e)) : conn[Peer(e)] = Reason("app", h)
        BY <2>0, <4>2 DEF PeerTold, Unnamed
      <4>. QED
        BY <2>2, <4>1, <4>3
    <3>. QED
      BY <3>1, <3>2
  <2>4. CASE r = close_reason(e)
    <3>1. outcome[e].type = "close" /\ outcome[e].code = Head(asked[e])
      <4>1. outcome[e] = Item("close", Head(asked[e]))
        BY <2>0 DEF FirstQueued
      <4>. QED
        BY <4>1 DEF Item
    <3>2. CASE task[e] \in Running \cup {"returned"}
      <4>1. r = SessionError(conn[e])
        BY <2>0, <2>4, <3>2 DEF close_reason, KeptError
      <4>. QED
        BY <2>0, <2>2, <3>2, <4>1 DEF Agrees
    <3>3. CASE task[e] \notin Running \cup {"returned"}
      <4>1. close_error[e] = Reason("closed", Head(asked[e]))
        BY <2>0, <3>1, <3>3 DEF KeptError
      <4>. QED
        BY <2>4, <4>1 DEF close_reason, Open, Reason
    <3>. QED
      BY <3>2, <3>3
  <2>. QED
    BY <2>3, <2>4
<1>. QED
  BY <1>1, <1>2, <1>3, QuionInvariant, QuionProvenance, PTL DEF Spec
-----------------------------------------------------------------------------
(***************************************************************************)
(* What close_reason reports changes once at most.                         *)
(***************************************************************************)

\* What a step has to leave as it is for Witnessed to hold after it.
LEMMA WitnessedAfter ==
    ASSUME SessionTypeOK, Witnessed,
           \A f \in End : /\ wrote[f] => wrote'[f]
                          /\ asked[f] # <<>> => asked'[f] # <<>>
                          /\ live[f] = {} => live'[f] = {},
           \A f \in End : \A i \in DOMAIN stream'[f] : stream'[f][i].type = "close" =>
              wrote'[Peer(f)] \/ \E k \in DOMAIN stream[f] : stream'[f][i] = stream[f][k],
           \A f \in End : outcome'[f].type = "close" =>
              \/ outcome'[f] = outcome[f]
              \/ wrote'[Peer(f)] \/ asked'[f] # <<>> \/ live'[f] = {},
           \A f \in End :
              /\ task'[f] \in Running \cup {"returned", "recorded"} =>
                    task[f] \in Running \cup {"returned", "recorded"}
              /\ conn'[f] = conn[f] \/ conn'[f] # Reason("local", 0) \/ asked'[f] # <<>>
                    \/ task'[f] \notin Running \cup {"returned", "recorded"}
    PROVE  Witnessed'
<1>1. \A f \in End : Peer(f) \in End
  BY PeerFacts
<1>2. Reason("local", 0)' = Reason("local", 0)
  BY DEF Reason
<1>3. ASSUME NEW f \in End
      PROVE  \A i \in DOMAIN stream'[f] : stream'[f][i].type = "close" => wrote'[Peer(f)]
  BY <1>1 DEF Witnessed
<1>4. ASSUME NEW f \in End, outcome'[f].type = "close"
      PROVE  wrote'[Peer(f)] \/ asked'[f] # <<>> \/ live'[f] = {}
  BY <1>1, <1>4 DEF Witnessed
<1>5. ASSUME NEW f \in End, conn'[f] = Reason("local", 0), asked'[f] = <<>>
      PROVE  task'[f] \notin Running \cup {"returned", "recorded"}
  BY <1>5 DEF Witnessed
<1>. QED
  BY <1>3, <1>4, <1>5 DEF Witnessed, Running, Reason

\* run_closed returns a code that it had, or was given.
LEMMA ReturnWitnessed ==
    ASSUME SessionTypeOK, Witnessed, NEW e \in End, NEW o, Return(e, o), task[e] \in Running,
           o.type = "close" =>
              o = outcome[e] \/ wrote[Peer(e)] \/ asked[e] # <<>> \/ live[e] = {}
    PROVE  Witnessed'
<1>. DEFINE fin == IF finished[e] THEN <<>> ELSE <<Item("fin", 0)>>
<1>1. fin \in Seq(ItemSet) /\ \A i \in DOMAIN fin : fin[i].type # "close"
  <2>1. Item("fin", 0) \in ItemSet /\ Item("fin", 0).type # "close"
    BY SessionConstants DEF Item, ItemSet, ForeignType
  <2>. QED
    BY <2>1
<1>2. /\ stream' = [Sent(e, fin) EXCEPT ![e] = <<>>]
      /\ task' = [task EXCEPT ![e] = "returned"]
      /\ outcome' = [outcome EXCEPT ![e] = o]
      /\ UNCHANGED <<live, conn, asked, wrote>>
  BY DEF Return
<1>. HIDE DEF fin
<1>3. Sent(e, fin) \in [End -> Seq(ItemSet)]
  BY <1>1, SentType
<1>4. \A f \in End : stream'[f] = IF f = e THEN <<>> ELSE Sent(e, fin)[f]
  BY <1>2, <1>3
<1>5. ASSUME NEW f \in End, NEW i \in DOMAIN stream'[f], stream'[f][i].type = "close"
      PROVE  \E k \in DOMAIN stream[f] : stream'[f][i] = stream[f][k]
  <2>1. i \in DOMAIN Sent(e, fin)[f] /\ stream'[f][i] = Sent(e, fin)[f][i]
    BY <1>4, <1>5
  <2>. QED
    BY <1>1, <1>5, <2>1, SentItems
<1>6. \A f \in End : /\ task'[f] = IF f = e THEN "returned" ELSE task[f]
                     /\ outcome'[f] = IF f = e THEN o ELSE outcome[f]
  BY <1>2 DEF SessionTypeOK
<1>. QED
  BY <1>2, <1>5, <1>6, WitnessedAfter

\* The steps of run_closed.
LEMMA RunClosedWitnessed ==
    ASSUME SessionTypeOK, FirstQueued, Witnessed, NEW e \in End, RunClosed(e)
    PROVE  Witnessed'
<1>1. CASE ReadFinal(e)
  <2>1. 1 \in DOMAIN stream[e] /\ Head(stream[e]) = stream[e][1] /\ task[e] \in Running
    BY <1>1 DEF ReadFinal, SessionTypeOK, Running
  <2>2. Head(stream[e]).type = "close" => wrote[Peer(e)]
    BY <2>1 DEF Witnessed
  <2>3. PICK o : Return(e, o) /\ (o.type = "close" => wrote[Peer(e)])
    BY <1>1, <2>2 DEF ReadFinal, Item
  <2>. QED
    BY <2>1, <2>3, ReturnWitnessed
<1>2. CASE ReadUnknown(e)
  <2>1. stream' = [stream EXCEPT ![e] = Tail(@)] /\ stream[e] # <<>>
    BY <1>2 DEF ReadUnknown
  <2>2. ASSUME NEW i \in DOMAIN Tail(stream[e])
        PROVE  i + 1 \in DOMAIN stream[e] /\ Tail(stream[e])[i] = stream[e][i + 1]
    BY <2>1 DEF SessionTypeOK
  <2>3. \A f \in End : stream'[f] = IF f = e THEN Tail(stream[e]) ELSE stream[f]
    BY <2>1 DEF SessionTypeOK
  <2>4. \A f \in End : \A i \in DOMAIN stream'[f] :
           \E k \in DOMAIN stream[f] : stream'[f][i] = stream[f][k]
    BY <2>2, <2>3
  <2>5. UNCHANGED <<live, asked, wrote, outcome, task, conn>>
    BY <1>2 DEF ReadUnknown
  <2>. QED
    BY <2>4, <2>5, WitnessedAfter
<1>3. CASE ReadFails(e)
  BY <1>3, ReturnWitnessed DEF ReadFails, Item, Running
<1>4. CASE RecvCommand(e)
  <2>1. /\ task' = [task EXCEPT ![e] = "writing"] /\ task[e] = "select" /\ asked[e] # <<>>
        /\ UNCHANGED <<live, stream, conn, asked, wrote>>
        /\ \A f \in End : f # e => outcome'[f] = outcome[f]
    BY <1>4 DEF RecvCommand, FirstQueued, SessionTypeOK
  <2>2. \A f \in End : task'[f] \in Running \cup {"returned", "recorded"} =>
           task[f] \in Running \cup {"returned", "recorded"}
    BY <2>1 DEF SessionTypeOK, Running
  <2>. QED
    BY <2>1, <2>2, WitnessedAfter
<1>5. CASE RecvNone(e)
  BY <1>5, ReturnWitnessed DEF RecvNone, Running
<1>6. CASE WriteCapsule(e)
  <2>. DEFINE items == <<Item("close", outcome[e].code), Item("fin", 0)>>
  <2>1. items \in Seq(ItemSet)
    <3>1. outcome[e].code \in AppCode /\ 0 \in AppCode
      BY SessionConstants DEF SessionTypeOK, OutcomeSet
    <3>. QED
      BY <3>1 DEF Item, ItemSet, ForeignType
  <2>2. /\ stream' = Sent(e, items) /\ wrote' = [wrote EXCEPT ![e] = TRUE]
        /\ task' = [task EXCEPT ![e] = "stopping"] /\ task[e] = "writing"
        /\ UNCHANGED <<live, outcome, conn, asked>>
    BY <1>6 DEF WriteCapsule
  <2>. HIDE DEF items
  <2>3. wrote'[e] /\ \A f \in End : wrote[f] => wrote'[f]
    BY <2>2 DEF SessionTypeOK
  <2>4. ASSUME NEW f \in End, NEW i \in DOMAIN stream'[f]
        PROVE  wrote'[Peer(f)] \/ \E k \in DOMAIN stream[f] : stream'[f][i] = stream[f][k]
    <3>1. i \in DOMAIN Sent(e, items)[f] /\ (f = Peer(e) => Peer(f) = e)
      BY <2>2, PeerFacts
    <3>. QED
      BY <2>1, <2>2, <2>3, <3>1, SentItems
  <2>5. \A f \in End : task'[f] \in Running \cup {"returned", "recorded"} =>
           task[f] \in Running \cup {"returned", "recorded"}
    BY <2>2 DEF SessionTypeOK, Running
  <2>. QED
    BY <2>2, <2>3, <2>4, <2>5, WitnessedAfter
<1>7. CASE WriteFails(e) \/ StreamStopped(e) \/ CloseDeadline(e)
  BY <1>7, ReturnWitnessed DEF WriteFails, StreamStopped, CloseDeadline, Running
<1>. QED
  BY <1>1, <1>2, <1>3, <1>4, <1>5, <1>6, <1>7 DEF RunClosed

\* Every step of the session.
LEMMA WitnessedStep ==
    ASSUME IInv, Witnessed, [Next]_vars
    PROVE  Witnessed'
<1>0. SessionTypeOK /\ FirstQueued
  BY DEF IInv, TypeOK
<1>1. ASSUME NEW e \in End, Network(e) PROVE Witnessed'
  <2>1. /\ UNCHANGED <<live, task, outcome, asked, wrote>>
        /\ \A f \in End : conn'[f] = conn[f] \/ conn'[f] # Reason("local", 0)
        /\ \/ UNCHANGED stream
           \/ \E type \in Foreign : stream' = Sent(e, <<Item(type, 0)>>)
    <3>1. /\ UNCHANGED <<live, task, outcome, asked, wrote>>
          /\ \A f \in End : conn'[f] # conn[f] =>
                conn'[f] = Reason("lost", 0) \/ conn'[f] = Reason("app", frame[f])
          /\ \/ UNCHANGED stream
             \/ \E type \in Foreign : stream' = Sent(e, <<Item(type, 0)>>)
      BY <1>0, <1>1, NetworkFacts
    <3>2. \A f \in End : Reason("local", 0) \notin {Reason("lost", 0), Reason("app", frame[f])}
      BY DEF Reason
    <3>. QED
      BY <3>1, <3>2
  <2>2. ASSUME NEW type \in Foreign, stream' = Sent(e, <<Item(type, 0)>>),
               NEW f \in End, NEW i \in DOMAIN stream'[f], stream'[f][i].type = "close"
        PROVE  \E k \in DOMAIN stream[f] : stream'[f][i] = stream[f][k]
    <3>. DEFINE items == <<Item(type, 0)>>
    <3>1. Item(type, 0) \in ItemSet /\ Item(type, 0).type # "close"
      BY SessionConstants DEF Item, ItemSet, ForeignType
    <3>2. items \in Seq(ItemSet) /\ \A k \in DOMAIN items : items[k].type # "close"
      BY <3>1
    <3>3. stream' = Sent(e, items)
      BY <2>2
    <3>. HIDE DEF items
    <3>. QED
      BY <1>0, <2>2, <3>2, <3>3, SentItems
  <2>3. \A f \in End : \A i \in DOMAIN stream'[f] : stream'[f][i].type = "close" =>
           \E k \in DOMAIN stream[f] : stream'[f][i] = stream[f][k]
    BY <2>1, <2>2
  <2>. QED
    BY <1>0, <2>1, <2>3, WitnessedAfter
<1>2. ASSUME NEW e \in End, NEW c \in Code, Close(e, c) PROVE Witnessed'
  <2>1. /\ asked' = [asked EXCEPT ![e] = Append(@, c)]
        /\ UNCHANGED <<live, task, outcome, stream, wrote>>
        /\ UNCHANGED conn \/ QuicClose(e, error_to_http3(c))
        /\ error_to_http3(c) \in Nat
    BY <1>0, <1>2, CloseQueued
  <2>2. asked'[e] # <<>> /\ \A f \in End : asked[f] # <<>> => asked'[f] # <<>>
    BY <1>0, <2>1 DEF SessionTypeOK
  <2>3. \A f \in End : conn'[f] = conn[f] \/ f = e
    BY <1>0, <2>1, QuicCloseFacts
  <2>. QED
    BY <1>0, <2>1, <2>2, <2>3, WitnessedAfter
<1>3. ASSUME NEW e \in End, NEW h \in Handle, CloneHandle(e, h) \/ DropHandle(e, h)
      PROVE  Witnessed'
  <2>1. /\ \A f \in End : live[f] = {} => live'[f] = {}
        /\ UNCHANGED <<task, outcome, stream, conn, asked, wrote>>
    BY <1>0, <1>3, HandleQueued
  <2>. QED
    BY <1>0, <2>1, WitnessedAfter
<1>4. ASSUME NEW e \in End, CloseConnection(e) PROVE Witnessed'
  <2>1. /\ task' = [task EXCEPT ![e] = "closed"]
        /\ QuicClose(e, error_to_http3(FinalCode(outcome[e])))
        /\ UNCHANGED <<live, outcome, stream, asked, wrote>>
    BY <1>4 DEF CloseConnection, close_connection
  <2>2. error_to_http3(FinalCode(outcome[e])) \in Nat
    <3>1. FinalCode(outcome[e]) \in AppCode
      BY <1>0, SessionConstants DEF FinalCode, SessionTypeOK, OutcomeSet
    <3>. QED
      BY <3>1, ToHttp3Type
  <2>3. \A f \in End : conn'[f] = conn[f] \/ f = e
    BY <1>0, <2>1, <2>2, QuicCloseFacts
  <2>4. \A f \in End : task'[f] = IF f = e THEN "closed" ELSE task[f]
    BY <1>0, <2>1 DEF SessionTypeOK
  <2>. QED
    BY <1>0, <2>1, <2>3, <2>4, WitnessedAfter DEF Running
<1>5. ASSUME NEW e \in End, RecordError(e) \/ StoreError(e) \/ NotifyWaiters(e)
      PROVE  Witnessed'
  <2>1. /\ UNCHANGED <<live, outcome, stream, conn, asked, wrote>>
        /\ \/ task[e] = "returned" /\ task' = [task EXCEPT ![e] = "recorded"]
           \/ \E t \in {"stored", "done"} : task' = [task EXCEPT ![e] = t]
    BY <1>5 DEF RecordError, StoreError, NotifyWaiters
  <2>2. \A f \in End : task'[f] \in Running \cup {"returned", "recorded"} =>
           task[f] \in Running \cup {"returned", "recorded"}
    BY <1>0, <2>1 DEF SessionTypeOK, Running
  <2>. QED
    BY <1>0, <2>1, <2>2, WitnessedAfter
<1>6. ASSUME UNCHANGED sessionVars PROVE Witnessed'
  BY <1>0, <1>6, WitnessedAfter DEF sessionVars
<1>7. ASSUME NEW e \in End, NEW h \in Handle, Waiter(e, h) PROVE UNCHANGED sessionVars
  BY <1>7 DEF Waiter, CallClosed, CheckReason, Wake, CancelClosed
<1>. QED
  BY <1>0, <1>1, <1>2, <1>3, <1>4, <1>5, <1>6, <1>7, RunClosedWitnessed DEF Next, Shared, TaskEnd, vars

\* A reason of the connection is final, and only the task keeps one.
LEMMA ReportFacts ==
    ASSUME IInv, [Next]_vars, NEW e \in End
    PROVE  /\ conn[e] # Open => conn'[e] = conn[e]
           /\ close_error'[e] = close_error[e]
                \/ (RecordError(e) /\ outcome[e].type = "close") \/ StoreError(e)
<1>0. SessionTypeOK /\ DOMAIN close_error = End
  BY DEF IInv, TypeOK
<1>1. ASSUME NEW f \in End, Shared(f)
      PROVE  close_error' = close_error /\ (conn[e] # Open => conn'[e] = conn[e])
  <2>1. close_error' = close_error
    BY <1>1 DEF Shared
  <2>2. ASSUME NEW h \in Handle, CloneHandle(f, h) \/ DropHandle(f, h) PROVE UNCHANGED conn
    BY <2>2 DEF CloneHandle, DropHandle
  <2>3. RunClosed(f) => UNCHANGED conn
    BY <1>0, RunClosedFacts
  <2>4. Network(f) => (conn[e] # Open => conn'[e] = conn[e])
    BY <1>0, NetworkFacts
  <2>5. ASSUME NEW c \in Code, Close(f, c) PROVE conn[e] # Open => conn'[e] = conn[e]
    <3>1. error_to_http3(c) \in Nat /\ (UNCHANGED conn \/ QuicClose(f, error_to_http3(c)))
      BY <1>0, <2>5, CloseQueued DEF IInv
    <3>. QED
      BY <1>0, <3>1, QuicCloseFacts
  <2>. QED
    BY <1>1, <2>1, <2>2, <2>3, <2>4, <2>5 DEF Shared
<1>2. ASSUME NEW f \in End, CloseConnection(f)
      PROVE  close_error' = close_error /\ (conn[e] # Open => conn'[e] = conn[e])
  <2>1. /\ QuicClose(f, error_to_http3(FinalCode(outcome[f])))
        /\ close_error' = close_error
    BY <1>2 DEF CloseConnection, close_connection
  <2>2. FinalCode(outcome[f]) \in AppCode
    BY <1>0, SessionConstants DEF FinalCode, SessionTypeOK, OutcomeSet
  <2>. QED
    BY <1>0, <2>1, <2>2, ToHttp3Type, QuicCloseFacts
<1>3. ASSUME NEW f \in End, RecordError(f) \/ StoreError(f)
      PROVE  UNCHANGED conn /\ (f # e => close_error'[e] = close_error[e])
  BY <1>0, <1>3 DEF RecordError, StoreError
<1>4. RecordError(e) /\ outcome[e].type # "close" => close_error'[e] = close_error[e]
  BY <1>0 DEF RecordError
<1>5. ASSUME NEW f \in End, NotifyWaiters(f) PROVE UNCHANGED <<conn, close_error>>
  BY <1>5 DEF NotifyWaiters
<1>6. ASSUME NEW f \in End, NEW h \in Handle, Waiter(f, h) PROVE UNCHANGED <<conn, close_error>>
  BY <1>6 DEF Waiter, CallClosed, CheckReason, Wake, CancelClosed, sessionVars
<1>7. CASE UNCHANGED vars
  BY <1>7 DEF vars, sessionVars
<1>. QED
  BY <1>1, <1>2, <1>3, <1>4, <1>5, <1>6, <1>7 DEF Next, TaskEnd

\* An end that takes no part in the close is told one code, whichever way.
LEMMA PassiveReport ==
    ASSUME IInv, PeerTold, Witnessed, NEW e \in End,
           task[e] = "returned", outcome[e].type = "close", conn[e] # Open,
           asked[e] = <<>>, live[e] # {}, Len(asked[Peer(e)]) <= 1
    PROVE  SessionError(conn[e]) \in {Reason("lost", 0), Reason("closed", outcome[e].code)}
<1>0. Peer(e) \in End /\ Peer(Peer(e)) = e
  BY PeerFacts
<1>1. OneSided(Peer(e))
  BY <1>0 DEF OneSided, Witnessed
<1>2. /\ outcome[e].code \in First(Peer(e))
      /\ conn[e] \in Unnamed \/ \E h \in Mapped(First(Peer(e))) : conn[e] = Reason("app", h)
  BY <1>0, <1>1 DEF PeerTold
<1>3. conn[e] # Reason("local", 0)
  BY DEF Witnessed
<1>4. CASE conn[e] \in Unnamed
  BY <1>3, <1>4, SessionErrorUnnamed DEF Unnamed
<1>5. ASSUME NEW c \in First(Peer(e)), conn[e] = Reason("app", error_to_http3(c))
      PROVE  SessionError(conn[e]) = Reason("closed", outcome[e].code)
  <2>1. c \in AppCode /\ c = outcome[e].code
    BY <1>2, SessionConstants DEF First
  <2>. QED
    BY <1>5, <2>1, SessionErrorMapped
<1>. QED
  BY <1>2, <1>4, <1>5 DEF Mapped

\* Every change of what close_reason reports.
LEMMA ReportStep ==
    ASSUME IInv, PeerTold, Witnessed, [Next]_vars, NEW e \in End,
           close_reason(e) # Open, close_reason(e)' # close_reason(e)
    PROVE  /\ close_error[e] = Open
           /\ close_reason(e)' = Reason("closed", outcome[e].code)
           /\ \/ asked[e] # <<>> \/ live[e] = {}
              \/ Len(asked[Peer(e)]) > 1
              \/ close_reason(e).kind = "lost"
<1>0. SessionTypeOK /\ DOMAIN close_error = End /\ KeptError
  BY DEF IInv, TypeOK
<1>1. Open' = Open /\ \A r : SessionError(r)' = SessionError(r)
  BY DEF Open, Reason, SessionError
<1>2. /\ close_reason(e) = IF close_error[e] # Open THEN close_error[e] ELSE SessionError(conn[e])
      /\ close_reason(e)' = IF close_error'[e] # Open THEN close_error'[e] ELSE SessionError(conn'[e])
  BY <1>1 DEF close_reason, SessionError
<1>3. close_error[e] = Open => conn[e] # Open
  <2>1. SessionError(Open) = Open
    BY SessionErrorUnnamed DEF Unnamed
  <2>. QED
    BY <1>2, <2>1
<1>4. close_error'[e] # close_error[e]
  BY <1>2, <1>3, ReportFacts
<1>5. ~StoreError(e)
  <2>. SUFFICES ASSUME StoreError(e) PROVE FALSE
    OBVIOUS
  <2>1. close_error'[e] = close_reason(e)
    BY <1>0 DEF StoreError
  <2>. QED
    BY <1>2, <2>1
<1>6. RecordError(e) /\ outcome[e].type = "close"
  BY <1>4, <1>5, ReportFacts
<1>7. /\ task[e] = "returned" /\ close_error[e] = Open
      /\ close_error'[e] = Reason("closed", outcome[e].code)
      /\ Reason("closed", outcome[e].code) # Open
  BY <1>0, <1>6 DEF RecordError, KeptError, Reason, Open
<1>8. /\ close_reason(e) = SessionError(conn[e]) /\ conn[e] # Open
      /\ close_reason(e)' = Reason("closed", outcome[e].code)
  BY <1>2, <1>3, <1>7
<1>9. ASSUME asked[e] = <<>>, live[e] # {}, ~(Len(asked[Peer(e)]) > 1)
      PROVE  close_reason(e).kind = "lost"
  <2>1. Len(asked[Peer(e)]) <= 1
    <3>1. Len(asked[Peer(e)]) \in Nat
      BY <1>0, PeerFacts DEF SessionTypeOK
    <3>. QED
      BY <1>9, <3>1
  <2>2. close_reason(e) \in {Reason("lost", 0), Reason("closed", outcome[e].code)}
    BY <1>6, <1>7, <1>8, <1>9, <2>1, PassiveReport
  <2>3. close_reason(e) = Reason("lost", 0)
    BY <1>8, <2>2
  <2>. QED
    BY <2>3 DEF Reason
<1>. QED
  BY <1>7, <1>8, <1>9

\* What close_reason reports changes at most once, to the session's own code,
\* and only if there were two closes to tell apart or the connection was lost.
THEOREM QuionReportChangesOnce == Spec => ReportChangesOnce
<1>1. Init => PeerTold /\ Witnessed
  <2>. SUFFICES ASSUME Init PROVE PeerTold /\ Witnessed
    OBVIOUS
  <2>1. ASSUME NEW e \in End
        PROVE  /\ outcome[e] = Item("none", 0) /\ frame[e] = None
               /\ conn[e] = Open /\ stream[e] = <<>>
    BY DEF Init, InitAt, SessionInit
  <2>2. PeerTold
    BY <2>1, PeerFacts DEF PeerTold, Unnamed, Item
  <2>3. Witnessed
    BY <2>1 DEF Witnessed, Item, Open, Reason
  <2>. QED
    BY <2>2, <2>3
<1>2. IInv /\ Provenance /\ PeerTold /\ Witnessed /\ [Next]_vars => PeerTold' /\ Witnessed'
  BY ToldStep, WitnessedStep
<1>3. IInv /\ PeerTold /\ Witnessed /\ [Next]_vars =>
        [\A e \in End :
           close_reason(e) # Open /\ close_reason(e)' # close_reason(e) =>
             /\ close_error[e] = Open
             /\ close_reason(e)' = Reason("closed", outcome[e].code)
             /\ \/ asked[e] # <<>> \/ live[e] = {}
                \/ Len(asked[Peer(e)]) > 1
                \/ close_reason(e).kind = "lost"]_vars
  BY ReportStep
<1>. QED
  BY <1>1, <1>2, <1>3, QuionInvariant, QuionProvenance, PTL DEF Spec, ReportChangesOnce
-----------------------------------------------------------------------------
(***************************************************************************)
(* Raw sessions.                                                           *)
(***************************************************************************)

\* Closing QUIC by a call, or for want of handles, keeps the invariant.
LEMMA RawCloses ==
    ASSUME SessionTypeOK, RawKept, raw, UNCHANGED raw, NEW a \in End, NEW h \in Nat,
           QuicClose(a, h),
           conn[a] = Open => RawFirst(a)' = h,
           RawClosed(a) => RawFirst(a)' = RawFirst(a),
           asked'[a] # <<>> \/ live'[a] = {},
           \A f \in End : f # a => asked'[f] = asked[f] /\ live'[f] = live[f],
           \A f \in End : task'[f] \in {"monitor", "closed", "stored", "done"},
           UNCHANGED <<outcome, wrote, close_error>>
    PROVE  RawKept'
<1>. SUFFICES ASSUME NEW e \in End
              PROVE  /\ asked'[e] # <<>> => conn'[e] # Open
                     /\ frame'[e] # None => frame'[e] = RawFirst(Peer(e))' /\ RawClosed(Peer(e))'
                     /\ \/ conn'[e] \in Unnamed'
                        \/ conn'[e] = Reason("app", RawFirst(Peer(e))') /\ RawClosed(Peer(e))'
                     /\ close_error'[e] # Open =>
                           conn'[e] # Open /\ close_error'[e] = SessionError(conn'[e])
  BY DEF RawKept, Open, Reason, Unnamed, SessionError
<1>1. Peer(e) \in End /\ End = {e, Peer(e)} /\ Peer(e) # e /\ (e = Peer(a) <=> Peer(e) = a)
  BY PeerFacts
<1>2. /\ conn'[a] # Open
      /\ \A f \in End : conn[f] # Open => conn'[f] = conn[f]
      /\ \A f \in End : conn'[f] # conn[f] => f = a /\ conn'[f] = Reason("local", 0)
      /\ \A f \in End : \/ frame'[f] \in {None, frame[f]}
                        \/ f = Peer(a) /\ frame'[f] = h /\ conn[a] = Open
  BY QuicCloseFacts
<1>3. /\ asked[e] # <<>> => conn[e] # Open
      /\ frame[e] # None => frame[e] = RawFirst(Peer(e)) /\ RawClosed(Peer(e))
      /\ \/ conn[e] \in Unnamed
         \/ conn[e] = Reason("app", RawFirst(Peer(e))) /\ RawClosed(Peer(e))
      /\ close_error[e] # Open => conn[e] # Open /\ close_error[e] = SessionError(conn[e])
  BY DEF RawKept
<1>4. RawClosed(a)'
  BY <1>2 DEF RawClosed, Open, Reason
<1>5. RawClosed(Peer(e)) => RawClosed(Peer(e))' /\ RawFirst(Peer(e))' = RawFirst(Peer(e))
  <2>1. CASE Peer(e) = a
    BY <1>4, <2>1
  <2>2. CASE Peer(e) # a
    BY <1>1, <1>2, <2>2 DEF RawClosed, RawFirst, Open, Reason
  <2>. QED
    BY <2>1, <2>2
<1>6. frame'[e] # None => frame'[e] = RawFirst(Peer(e))' /\ RawClosed(Peer(e))'
  BY <1>1, <1>2, <1>3, <1>4, <1>5
<1>7. Reason("local", 0) \in Unnamed /\ Unnamed' = Unnamed
  BY DEF Unnamed, Open, Reason
<1>8. \/ conn'[e] \in Unnamed'
      \/ conn'[e] = Reason("app", RawFirst(Peer(e))') /\ RawClosed(Peer(e))'
  BY <1>2, <1>3, <1>5, <1>7
<1>. QED
  BY <1>2, <1>3, <1>6, <1>8

\* Steps that leave the codes and QUIC alone.
LEMMA RawIdle ==
    ASSUME RawKept, raw, UNCHANGED <<raw, outcome, wrote, asked, frame, conn>>,
           \A f \in End : live[f] = {} => live'[f] = {},
           \A f \in End : task'[f] \in {"monitor", "closed", "stored", "done"},
           \A f \in End : close_error'[f] # Open =>
                             conn[f] # Open /\ close_error'[f] = SessionError(conn[f])
    PROVE  RawKept'
<1>1. \A e \in End : /\ RawClosed(Peer(e)) => RawClosed(Peer(e))'
                     /\ RawFirst(Peer(e))' = RawFirst(Peer(e))
  BY PeerFacts DEF RawClosed, RawFirst, Open, Reason
<1>. QED
  BY <1>1 DEF RawKept, Unnamed, Open, Reason, SessionError

\* QUIC tells a raw session of the other's close, or is lost.
LEMMA RawNetwork ==
    ASSUME SessionTypeOK, RawKept, raw, UNCHANGED <<raw, close_error>>,
           NEW a \in End, DeliverConnectionClose(a) \/ ConnectionLost(a)
    PROVE  RawKept'
<1>1. Network(a)
  BY DEF Network
<1>2. /\ UNCHANGED <<live, queue, task, outcome, asked, wrote>>
      /\ \A f \in End : frame'[f] \in {None, frame[f]}
      /\ \A f \in End : conn'[f] # conn[f] =>
            /\ conn[f] = Open
            /\ \/ conn'[f] = Reason("lost", 0)
               \/ frame[f] # None /\ conn'[f] = Reason("app", frame[f])
  BY <1>1, NetworkFacts
<1>3. \A f \in End : conn[f] # Open => conn'[f] # Open
  BY <1>2
<1>4. \A e \in End : /\ RawClosed(Peer(e)) => RawClosed(Peer(e))'
                     /\ RawFirst(Peer(e))' = RawFirst(Peer(e))
  BY <1>2, <1>3, PeerFacts DEF RawClosed, RawFirst, Open, Reason
<1>5. Reason("lost", 0) \in Unnamed /\ Unnamed' = Unnamed
  BY DEF Unnamed, Open, Reason
<1>6. \A e \in End :
        \/ conn'[e] \in Unnamed
        \/ conn'[e] = Reason("app", RawFirst(Peer(e))) /\ RawClosed(Peer(e))
  BY <1>2, <1>5 DEF RawKept
<1>7. \A e \in End : frame'[e] # None => frame'[e] = RawFirst(Peer(e)) /\ RawClosed(Peer(e))
  BY <1>2 DEF RawKept
<1>8. \A e \in End : close_error'[e] # Open =>
         conn'[e] # Open /\ close_error'[e] = SessionError(conn'[e])
  BY <1>2 DEF RawKept
<1>9. \A e \in End :
        /\ task'[e] \in {"monitor", "closed", "stored", "done"}
        /\ outcome'[e].type = "none" /\ ~wrote'[e]
        /\ asked'[e] # <<>> => conn'[e] # Open
        /\ frame'[e] # None => frame'[e] = RawFirst(Peer(e))' /\ RawClosed(Peer(e))'
        /\ \/ conn'[e] \in Unnamed'
           \/ conn'[e] = Reason("app", RawFirst(Peer(e))') /\ RawClosed(Peer(e))'
  BY <1>2, <1>3, <1>4, <1>5, <1>6, <1>7 DEF RawKept
<1>. QED
  BY <1>8, <1>9 DEF RawKept, Open, Reason, SessionError

\* The monitor and a call of close on a raw session.
LEMMA RawCloseStep ==
    ASSUME IInv, RawKept, raw, UNCHANGED <<raw, outcome, wrote, close_error, waitVars>>,
           NEW e \in End,
           \/ MonitorClosed(e)
           \/ MonitorDropped(e)
           \/ \E c \in Code : RawClose(e, c)
    PROVE  IInv' /\ RawKept'
<1>0. /\ SessionTypeOK /\ KeptError /\ FirstQueued /\ NoLostWakeup
      /\ \A f \in End : /\ task[f] \in {"monitor", "closed", "stored", "done"}
                        /\ outcome[f].type = "none" /\ ~wrote[f]
                        /\ asked[f] # <<>> => conn[f] # Open
                        /\ asked[f] \in Seq(Code)
  BY DEF IInv, TypeOK, SessionTypeOK, RawKept
<1>1. ASSUME SessionTypeOK',
             \A f \in End : task'[f] \in {task[f], "closed"},
             \A f \in End : conn[f] # Open => conn'[f] # Open,
             \A f \in End : task'[f] # task[f] => conn'[f] # Open /\ task[f] = "monitor"
      PROVE  IInv'
  <2>1. TypeOK'
    BY <1>1 DEF IInv, TypeOK, waitVars
  <2>2. KeptError'
    BY <1>0, <1>1 DEF KeptError, Running
  <2>3. FirstQueued'
    BY <1>0, <1>1 DEF FirstQueued
  <2>4. NoLostWakeup'
    BY <1>0, <1>1, AsleepWhile
  <2>. QED
    BY <2>1, <2>2, <2>3, <2>4 DEF IInv
<1>2. CASE MonitorClosed(e)
  <2>1. /\ task[e] = "monitor" /\ conn[e] # Open /\ task' = [task EXCEPT ![e] = "closed"]
        /\ UNCHANGED <<live, queue, outcome, stream, finished, conn, frame, asked, wrote,
                       close_error>>
    BY <1>2 DEF MonitorClosed
  <2>2. SessionTypeOK' /\ \A f \in End : task'[f] = IF f = e THEN "closed" ELSE task[f]
    BY <1>0, <2>1 DEF SessionTypeOK
  <2>3. \A f \in End : close_error'[f] # Open =>
           conn[f] # Open /\ close_error'[f] = SessionError(conn[f])
    BY <2>1 DEF RawKept
  <2>4. RawKept'
    BY <1>0, <2>1, <2>2, <2>3, RawIdle
  <2>. QED
    BY <1>1, <2>1, <2>2, <2>4
<1>3. CASE MonitorDropped(e)
  <2>1. /\ task[e] = "monitor" /\ live[e] = {} /\ task' = [task EXCEPT ![e] = "closed"]
        /\ QuicClose(e, 0)
        /\ UNCHANGED <<live, queue, outcome, stream, finished, asked, wrote>>
    BY <1>3 DEF MonitorDropped
  <2>2. /\ conn' \in [End -> ConnReason] /\ frame' \in [End -> Nat \cup {None}]
        /\ conn'[e] # Open
        /\ \A f \in End : conn[f] # Open => conn'[f] # Open
    BY <1>0, <2>1, QuicCloseFacts
  <2>3. SessionTypeOK' /\ \A f \in End : task'[f] = IF f = e THEN "closed" ELSE task[f]
    BY <1>0, <2>1, <2>2 DEF SessionTypeOK
  <2>4. /\ RawFirst(e)' = RawFirst(e)
        /\ conn[e] = Open => RawFirst(e) = 0
    BY <1>0, <2>1 DEF RawFirst
  <2>5. RawKept'
    BY <1>0, <2>1, <2>3, <2>4, RawCloses
  <2>. QED
    BY <1>1, <2>1, <2>2, <2>3, <2>5
<1>4. ASSUME NEW c \in Code, RawClose(e, c)
      PROVE  IInv' /\ RawKept'
  <2>1. /\ live[e] # {} /\ asked' = [asked EXCEPT ![e] = Append(@, c)]
        /\ QuicClose(e, c)
        /\ UNCHANGED <<live, queue, task, outcome, stream, finished, wrote>>
    BY <1>4 DEF RawClose
  <2>2. c \in Nat
    BY SessionConstants, ErrorRange DEF AppCode
  <2>3. /\ conn' \in [End -> ConnReason] /\ frame' \in [End -> Nat \cup {None}]
        /\ \A f \in End : conn[f] # Open => conn'[f] # Open
    BY <1>0, <2>1, <2>2, QuicCloseFacts
  <2>4. /\ asked' \in [End -> Seq(Code)]
        /\ \A f \in End : asked'[f] = IF f = e THEN Append(asked[e], c) ELSE asked[f]
    BY <1>0, <2>1 DEF SessionTypeOK
  <2>5. SessionTypeOK'
    BY <1>0, <2>1, <2>3, <2>4 DEF SessionTypeOK
  <2>6. /\ asked'[e] # <<>>
        /\ Head(asked'[e]) = IF asked[e] = <<>> THEN c ELSE Head(asked[e])
    BY <1>0, <2>4
  <2>7. /\ conn[e] = Open => RawFirst(e)' = c
        /\ RawClosed(e) => RawFirst(e)' = RawFirst(e)
    BY <1>0, <2>1, <2>6 DEF RawFirst, RawClosed
  <2>8. RawKept'
    BY <1>0, <2>1, <2>2, <2>4, <2>6, <2>7, RawCloses
  <2>. QED
    BY <1>1, <2>1, <2>3, <2>5, <2>8
<1>. QED
  BY <1>2, <1>3, <1>4

\* Every step of two raw sessions.
LEMMA RawStep ==
    ASSUME IInv, RawKept, raw, UNCHANGED raw, RawNext
    PROVE  IInv' /\ RawKept'
<1>0. /\ SessionTypeOK
      /\ \A f \in End : /\ task[f] \in {"monitor", "closed", "stored", "done"}
                        /\ close_error[f] # Open =>
                              conn[f] # Open /\ close_error[f] = SessionError(conn[f])
  BY DEF IInv, TypeOK, RawKept
<1>1. ASSUME NEW e \in End, MonitorClosed(e) \/ MonitorDropped(e)
      PROVE  IInv' /\ RawKept'
  BY <1>1, RawCloseStep DEF MonitorClosed, MonitorDropped
<1>2. ASSUME NEW e \in End, NEW c \in Code, RawClose(e, c)
      PROVE  IInv' /\ RawKept'
  BY <1>2, RawCloseStep DEF RawClose
<1>3. ASSUME NEW e \in End, StoreError(e)
      PROVE  IInv' /\ RawKept'
  <2>1. IInv'
    BY <1>3, TaskEndInv DEF TaskEnd
  <2>2. /\ task[e] = "closed" /\ task' = [task EXCEPT ![e] = "stored"]
        /\ close_error' = [close_error EXCEPT ![e] = close_reason(e)]
        /\ UNCHANGED <<live, outcome, conn, frame, asked, wrote>>
    BY <1>3 DEF StoreError
  <2>3. conn[e] # Open
    BY <2>2 DEF IInv, KeptError
  <2>4. close_reason(e) = SessionError(conn[e])
    BY <1>0 DEF close_reason
  <2>5. \A f \in End : /\ task'[f] \in {task[f], "stored"}
                       /\ close_error'[f] = IF f = e THEN SessionError(conn[e]) ELSE close_error[f]
    BY <1>0, <2>2, <2>4 DEF IInv, TypeOK, SessionTypeOK
  <2>. QED
    BY <1>0, <2>1, <2>2, <2>3, <2>5, RawIdle
<1>4. ASSUME NEW e \in End, NotifyWaiters(e)
      PROVE  IInv' /\ RawKept'
  <2>1. IInv'
    BY <1>4, TaskEndInv DEF TaskEnd
  <2>2. /\ \A f \in End : task'[f] \in {task[f], "done"}
        /\ UNCHANGED <<live, outcome, conn, frame, asked, wrote, close_error>>
    BY <1>0, <1>4 DEF NotifyWaiters, SessionTypeOK
  <2>. QED
    BY <1>0, <2>1, <2>2, RawIdle
<1>5. ASSUME NEW e \in End, RawShared(e)
      PROVE  IInv' /\ RawKept'
  <2>1. IInv' /\ UNCHANGED close_error
    BY <1>5, SharedInv DEF RawShared, Network
  <2>2. CASE DeliverConnectionClose(e) \/ ConnectionLost(e)
    BY <1>0, <2>1, <2>2, RawNetwork
  <2>3. ASSUME NEW h \in Handle, CloneHandle(e, h) \/ DropHandle(e, h)
        PROVE  RawKept'
    <3>1. \A f \in End : live[f] = {} => live'[f] = {}
      BY <1>0, <2>3 DEF CloneHandle, DropHandle, SessionTypeOK
    <3>2. UNCHANGED <<task, outcome, conn, frame, asked, wrote>>
      BY <2>3 DEF CloneHandle, DropHandle
    <3>. QED
      BY <1>0, <2>1, <3>1, <3>2, RawIdle
  <2>. QED
    BY <1>5, <2>1, <2>2, <2>3 DEF RawShared
<1>6. ASSUME NEW e \in End, NEW h \in Handle, Waiter(e, h)
      PROVE  IInv' /\ RawKept'
  <2>1. IInv'
    BY <1>6, WaiterInv
  <2>2. UNCHANGED <<live, task, outcome, conn, frame, asked, wrote, close_error>>
    BY <1>6 DEF Waiter, CallClosed, CheckReason, Wake, CancelClosed, sessionVars
  <2>. QED
    BY <1>0, <2>1, <2>2, RawIdle
<1>. QED
  BY <1>1, <1>2, <1>3, <1>4, <1>5, <1>6 DEF RawNext, Monitor

\* The inductive invariant holds of raw sessions as well: reasons are kept and
\* callers of closed() are woken there too.
THEOREM EitherInvariant == EitherSpec => [](IInv /\ RawKept)
<1>1. EitherInit => IInv /\ RawKept
  <2>. SUFFICES ASSUME EitherInit PROVE IInv /\ RawKept
    OBVIOUS
  <2>1. IInv
    <3>1. CASE raw
      BY <3>1, InitInv DEF EitherInit
    <3>2. CASE ~raw
      BY <3>2, InitInv DEF EitherInit
    <3>. QED
      BY <3>1, <3>2
  <2>2. RawKept
    BY DEF EitherInit, InitAt, SessionInit, RawKept, Item, Unnamed
  <2>. QED
    BY <2>1, <2>2
<1>2. IInv /\ RawKept /\ [EitherNext]_eitherVars => IInv' /\ RawKept'
  <2>. SUFFICES ASSUME IInv, RawKept, [EitherNext]_eitherVars PROVE IInv' /\ RawKept'
    OBVIOUS
  <2>1. CASE raw /\ RawNext /\ UNCHANGED raw
    BY <2>1, RawStep
  <2>2. CASE ~raw /\ Next /\ UNCHANGED raw
    BY <2>2, NextInv DEF RawKept
  <2>3. CASE UNCHANGED eitherVars
    <3>1. IInv'
      BY <2>3, NextInv DEF eitherVars
    <3>2. UNCHANGED <<raw, live, task, outcome, conn, frame, asked, wrote, close_error>>
      BY <2>3 DEF eitherVars, vars, sessionVars
    <3>3. CASE raw
      BY <3>1, <3>2, <3>3, RawIdle DEF RawKept
    <3>4. CASE ~raw
      BY <3>1, <3>2, <3>4 DEF RawKept
    <3>. QED
      BY <3>1, <3>3, <3>4
  <2>. QED
    BY <2>1, <2>2, <2>3 DEF EitherNext
<1>. QED
  BY <1>1, <1>2, PTL DEF EitherSpec

\* An end of a raw session is told the first code that the other's application
\* passed to close, as it is.
THEOREM RawFirstCodeArrives == EitherSpec => []RawCodeArrives
<1>1. ASSUME IInv, RawKept
      PROVE  RawCodeArrives
  <2>. SUFFICES ASSUME NEW e \in End, raw, close_reason(e).kind \in {"app", "closed"}
                PROVE  close_reason(e) = Reason("app", RawFirst(Peer(e)))
    BY DEF RawCodeArrives
  <2>1. /\ close_error[e] # Open => close_error[e] = SessionError(conn[e])
        /\ conn[e] \in Unnamed \/ conn[e] = Reason("app", RawFirst(Peer(e)))
    BY <1>1 DEF RawKept
  <2>2. close_reason(e) = SessionError(conn[e])
    BY <2>1 DEF close_reason
  <2>3. conn[e] \notin Unnamed
    BY <2>2, SessionErrorUnnamed DEF Unnamed, Open, Reason
  <2>4. RawFirst(Peer(e)) \in AppCode
    <3>1. asked[Peer(e)] \in Seq(Code)
      BY <1>1, PeerFacts DEF IInv, TypeOK, SessionTypeOK
    <3>2. asked[Peer(e)] # <<>> => Head(asked[Peer(e)]) \in Code
      BY <3>1
    <3>. QED
      BY <3>2, SessionConstants DEF RawFirst
  <2>5. error_from_http3(RawFirst(Peer(e))) = None
    BY <2>4, RawRange, ErrorRange DEF AppCode, error_from_http3
  <2>. QED
    BY <2>1, <2>2, <2>3, <2>5 DEF SessionError, Reason
<1>. QED
  BY <1>1, EitherInvariant, PTL
=============================================================================
