--------------------------- MODULE HandshakeProofs ---------------------------
(***************************************************************************)
(* For any number of clients: the server's handshakes stay within their    *)
(* bound, every request has one answer, and who gives up closes the        *)
(* connection.                                                             *)
(***************************************************************************)
EXTENDS Handshake, FiniteSetTheorems, TLAPS

\* The answers are different, and each is one item long.
LEMMA Answers ==
    /\ \A r \in {"ok", "reject", "eof"} : <<r>> # <<>> /\ Len(<<r>>) = 1
    /\ <<"ok">> # <<"reject">> /\ <<"ok">> # <<"eof">>
    /\ Len(<<>>) = 0
<1>1. \A r \in {"ok", "reject", "eof"} : Len(<<r>>) = 1 /\ <<r>>[1] = r
  OBVIOUS
<1>2. Len(<<>>) = 0
  OBVIOUS
<1>. QED
  BY <1>1, <1>2

\* A step that starts no handshake keeps their number within the bound.
LEMMA PendingShrinks ==
    ASSUME IsFiniteSet(Pending), PendingBound, Pending' \subseteq Pending
    PROVE  IsFiniteSet(Pending)' /\ PendingBound'
<1>1. /\ IsFiniteSet(Pending')
      /\ Cardinality(Pending') <= Cardinality(Pending)
  BY FS_Subset
<1>2. Cardinality(Pending) \in Nat /\ Cardinality(Pending') \in Nat
  BY <1>1, FS_CardinalityType
<1>. QED
  BY <1>1, <1>2, HandshakeConstants DEF PendingBound

\* Admit adds one handshake, and only below the bound.
LEMMA PendingGrows ==
    ASSUME IsFiniteSet(Pending), NEW c \in Conn,
           Cardinality(Pending) < MaxPending, Pending' \subseteq Pending \cup {c}
    PROVE  IsFiniteSet(Pending)' /\ PendingBound'
<1>1. /\ IsFiniteSet(Pending \cup {c})
      /\ Cardinality(Pending \cup {c}) <= Cardinality(Pending) + 1
  <2>1. Cardinality(Pending) \in Nat
    BY FS_CardinalityType
  <2>2. /\ IsFiniteSet(Pending \cup {c})
        /\ \/ Cardinality(Pending \cup {c}) = Cardinality(Pending)
           \/ Cardinality(Pending \cup {c}) = Cardinality(Pending) + 1
    BY FS_AddElement
  <2>. QED
    BY <2>1, <2>2
<1>2. /\ IsFiniteSet(Pending')
      /\ Cardinality(Pending') <= Cardinality(Pending \cup {c})
  BY <1>1, FS_Subset
<1>3. /\ Cardinality(Pending) \in Nat
      /\ Cardinality(Pending \cup {c}) \in Nat
      /\ Cardinality(Pending') \in Nat
  BY <1>1, <1>2, FS_CardinalityType
<1>. QED
  BY <1>1, <1>2, <1>3, HandshakeConstants DEF PendingBound

\* Changing the entry of one side of one connection.
LEMMA Entry ==
    ASSUME NEW T, NEW f \in [Conn -> [Side -> T]], NEW v \in T,
           NEW c \in Conn, NEW s \in Side
    PROVE  LET g == [f EXCEPT ![c][s] = v]
           IN  /\ g \in [Conn -> [Side -> T]]
               /\ \A d \in Conn, r \in Side :
                     g[d][r] = IF d = c /\ r = s THEN v ELSE f[d][r]
  OBVIOUS

\* A step that answers nothing on c, and by which the server neither reaches
\* nor leaves a place after the answer, keeps what is known of the answer.
LEMMA AnswerKept ==
    ASSUME NEW c \in Conn, AnswerAt(c),
           response'[c] = response[c],
           link[c][Server] = "closed" => link'[c][Server] = "closed",
           at'[c][Client] = "session" => at[c][Client] = "session",
           \/ at'[c][Server] = at[c][Server]
           \/ at[c][Server] \notin Answered /\ at'[c][Server] \notin Answered
    PROVE  AnswerAt(c)'
  BY DEF AnswerAt, Answered

\* Before anybody connects nothing is pending and nothing answered.
LEMMA HandshakeInit == Init => IInv
<1>. SUFFICES ASSUME Init PROVE IInv
  OBVIOUS
<1>1. Pending = {}
  BY DEF Init, Pending, Handshaking, Side, Client, Server
<1>2. TypeOK
  BY DEF Init, TypeOK, ClientState, ServerState, Handshaking, Side, Client, Server
<1>3. AnswerByState
  BY DEF Init, AnswerByState, AnswerAt, Side, Client, Server
<1>4. IsFiniteSet(Pending) /\ PendingBound
  BY <1>1, FS_EmptySet, HandshakeConstants DEF PendingBound
<1>. QED
  BY <1>2, <1>3, <1>4 DEF IInv

\* The types of the variables but at and response.
Rest ==
    /\ link \in [Conn -> [Side -> {"none", "open", "closed"}]]
    /\ settings \in [Conn -> [Side -> {"unsent", "ok", "bad"}]]
    /\ request \in [Conn -> {"unsent", "ok", "bad"}]
    /\ acceptor \in {"idle", "accepting", "dropped"}
    /\ endpoint \in {"open", "closed"}

\* A side moves on, answers nothing and starts no pending handshake.
LEMMA QuietStep ==
    ASSUME IInv, NEW c \in Conn, NEW s \in Side, NEW to,
           at' = [at EXCEPT ![c][s] = to],
           s = Client => to \in ClientState \ {"session"},
           s = Server => /\ to \in ServerState \ Answered
                         /\ at[c][Server] \notin Answered
                         /\ to \in Handshaking(Server) => at[c][Server] \in Handshaking(Server),
           response' = response,
           \A d \in Conn : link[d][Server] = "closed" => link'[d][Server] = "closed",
           Rest'
    PROVE  IInv'
<1>1. to \in ClientState \cup ServerState
  BY DEF Side
<1>2. \A d \in Conn, r \in Side : at'[d][r] = IF d = c /\ r = s THEN to ELSE at[d][r]
  BY <1>1, Entry DEF IInv, TypeOK
<1>3. at' \in [Conn -> [Side -> ClientState \cup ServerState]]
  BY <1>1, Entry DEF IInv, TypeOK
<1>4. TypeOK'
  BY <1>2, <1>3 DEF IInv, TypeOK, Rest, Side, Client, Server
<1>5. AnswerByState'
  <2>. SUFFICES ASSUME NEW d \in Conn PROVE AnswerAt(d)'
    BY DEF AnswerByState
  <2>1. AnswerAt(d)
    BY DEF IInv, AnswerByState
  <2>2. /\ at'[d][Client] = "session" => at[d][Client] = "session"
        /\ \/ at'[d][Server] = at[d][Server]
           \/ at[d][Server] \notin Answered /\ at'[d][Server] \notin Answered
    BY <1>2 DEF Side, Client, Server
  <2>. QED
    BY <2>1, <2>2, AnswerKept
<1>6. Pending' \subseteq Pending
  BY <1>2 DEF Pending, Side, Client, Server
<1>. QED
  BY <1>4, <1>5, <1>6, PendingShrinks DEF IInv

\* Nobody moves and nothing is answered.
LEMMA StillStep ==
    ASSUME IInv, at' = at, response' = response,
           \A d \in Conn : link[d][Server] = "closed" => link'[d][Server] = "closed",
           Rest'
    PROVE  IInv'
<1>1. TypeOK'
  BY DEF IInv, TypeOK, Rest
<1>2. AnswerByState'
  <2>. SUFFICES ASSUME NEW d \in Conn PROVE AnswerAt(d)'
    BY DEF AnswerByState
  <2>. QED
    BY AnswerKept DEF IInv, AnswerByState
<1>3. Pending' \subseteq Pending
  BY DEF Pending
<1>. QED
  BY <1>1, <1>2, <1>3, PendingShrinks DEF IInv

\* The server answers on c, or gives the answer up.
LEMMA AnswerStep ==
    ASSUME IInv, NEW c \in Conn, NEW to \in Answered, NEW r \in Seq({"ok", "reject", "eof"}),
           at' = [at EXCEPT ![c][Server] = to],
           response' = [response EXCEPT ![c] = r],
           AnswerAt(c)',
           UNCHANGED <<link, settings, request, acceptor, endpoint>>
    PROVE  IInv'
<1>1. to \in ServerState /\ to \notin Handshaking(Server) /\ Server \in Side
  BY DEF Answered, ServerState, Handshaking, Side, Client, Server
<1>2. \A d \in Conn, s \in Side : at'[d][s] = IF d = c /\ s = Server THEN to ELSE at[d][s]
  BY <1>1, Entry DEF IInv, TypeOK
<1>3. at' \in [Conn -> [Side -> ClientState \cup ServerState]]
  BY <1>1, Entry DEF IInv, TypeOK
<1>4. TypeOK'
  BY <1>1, <1>2, <1>3 DEF IInv, TypeOK, Side, Client, Server
<1>5. AnswerByState'
  <2>. SUFFICES ASSUME NEW d \in Conn, d # c PROVE AnswerAt(d)'
    BY DEF AnswerByState
  <2>1. AnswerAt(d) /\ response'[d] = response[d]
    BY DEF IInv, AnswerByState, TypeOK
  <2>2. at'[d][Client] = at[d][Client] /\ at'[d][Server] = at[d][Server]
    BY <1>2 DEF Side
  <2>. QED
    BY <2>1, <2>2, AnswerKept
<1>6. Pending' \subseteq Pending
  BY <1>1, <1>2 DEF Pending, Side
<1>. QED
  BY <1>4, <1>5, <1>6, PendingShrinks DEF IInv

\* A side's handshake fails.
LEMMA FailInv ==
    ASSUME IInv, NEW c \in Conn, NEW s \in Side,
           at[c][s] \in Handshaking(s), Fail(c, s)
    PROVE  IInv'
<1>1. /\ link' \in [Conn -> [Side -> {"none", "open", "closed"}]]
      /\ \A d \in Conn, r \in Side :
            link'[d][r] = IF d = c /\ r = s THEN "closed" ELSE link[d][r]
  BY Entry DEF IInv, TypeOK, Fail
<1>2. Rest'
  BY <1>1 DEF IInv, TypeOK, Rest, Fail
<1>3. \A d \in Conn : link[d][Server] = "closed" => link'[d][Server] = "closed"
  BY <1>1 DEF Side
<1>4. s = Client => "failed" \in ClientState \ {"session"}
  BY DEF ClientState
<1>5. s = Server => /\ "failed" \in ServerState \ Answered
                    /\ at[c][Server] \notin Answered
                    /\ "failed" \notin Handshaking(Server)
  BY DEF ServerState, Answered, Handshaking, Client, Server
<1>. QED
  BY <1>2, <1>3, <1>4, <1>5, QuietStep DEF Fail

\* What QUIC does to a connection.
LEMMA LinkInv ==
    ASSUME IInv, NEW c \in Conn,
           \/ QuicEstablished(c) \/ ImplicitClose(c)
           \/ \E s \in Side : DeliverClose(c, s) \/ ConnectionLost(c, s)
    PROVE  IInv'
<1>1. ASSUME NEW s \in Side, link' = [link EXCEPT ![c][s] = "closed"]
      PROVE  /\ link' \in [Conn -> [Side -> {"none", "open", "closed"}]]
             /\ \A d \in Conn : link[d][Server] = "closed" => link'[d][Server] = "closed"
  <2>1. /\ link' \in [Conn -> [Side -> {"none", "open", "closed"}]]
        /\ \A d \in Conn, r \in Side :
              link'[d][r] = IF d = c /\ r = s THEN "closed" ELSE link[d][r]
    BY <1>1, Entry DEF IInv, TypeOK
  <2>. QED
    BY <2>1 DEF Side
<1>2. CASE QuicEstablished(c)
  <2>1. link' \in [Conn -> [Side -> {"none", "open", "closed"}]]
    BY <1>2 DEF QuicEstablished, IInv, TypeOK
  <2>2. \A d \in Conn : link[d][Server] = "closed" => link'[d][Server] = "closed"
    BY <1>2 DEF QuicEstablished, IInv, TypeOK, Side
  <2>. QED
    BY <1>2, <2>1, <2>2, StillStep DEF QuicEstablished, IInv, TypeOK, Rest
<1>3. CASE ImplicitClose(c)
  <2>1. Server \in Side
    BY DEF Side
  <2>. QED
    BY <1>1, <1>3, <2>1, StillStep DEF ImplicitClose, IInv, TypeOK, Rest
<1>4. ASSUME NEW s \in Side, DeliverClose(c, s) PROVE IInv'
  BY <1>1, <1>4, StillStep DEF DeliverClose, IInv, TypeOK, Rest
<1>5. ASSUME NEW s \in Side, ConnectionLost(c, s) PROVE IInv'
  BY <1>1, <1>5, StillStep DEF ConnectionLost, IInv, TypeOK, Rest
<1>. QED
  BY <1>2, <1>3, <1>4, <1>5

\* The steps of Settings::connect, and a broken connection, on either side.
LEMMA ExchangeInv ==
    ASSUME IInv, NEW c \in Conn, NEW s \in Side, Exchange(c, s)
    PROVE  IInv'
<1>. USE DEF IInv
<1>1. ASSUME NEW from \in {"quic", "settings"}, NEW to \in {"settings", "connect"},
             Advance(c, s, from, to),
             UNCHANGED <<link, settings, request, response, acceptor, endpoint>>
      PROVE  IInv'
  <2>1. /\ s = Client => to \in ClientState \ {"session"}
        /\ s = Server => to \in ServerState \ Answered
    BY DEF ClientState, ServerState, Handshaking, Answered, Client, Server
  <2>2. s = Server => /\ at[c][Server] \notin Answered
                      /\ at[c][Server] \in Handshaking(Server)
    BY <1>1 DEF Advance, Answered, Handshaking, Client, Server
  <2>. QED
    BY <1>1, <2>1, <2>2, QuietStep DEF Advance, TypeOK, Rest
<1>2. CASE BeginSettings(c, s)
  BY <1>1, <1>2 DEF BeginSettings
<1>3. CASE SettingsExchanged(c, s)
  BY <1>1, <1>3 DEF SettingsExchanged
<1>4. CASE SendSettings(c, s)
  <2>1. PICK f \in {"ok", "bad"} : settings' = [settings EXCEPT ![c][s] = f]
    BY <1>4 DEF SendSettings, Frame
  <2>2. settings' \in [Conn -> [Side -> {"unsent", "ok", "bad"}]]
    BY <2>1, Entry DEF TypeOK
  <2>. QED
    BY <1>4, <2>2, StillStep DEF SendSettings, TypeOK, Rest
<1>5. CASE SettingsRefused(c, s)
  <2>1. at[c][s] \in Handshaking(s)
    BY <1>5 DEF SettingsRefused, Handshaking
  <2>. QED
    BY <1>5, <2>1, FailInv DEF SettingsRefused
<1>6. CASE Broken(c, s)
  BY <1>6, FailInv DEF Broken
<1>. QED
  BY <1>2, <1>3, <1>4, <1>5, <1>6 DEF Exchange

\* The steps of the client.
LEMMA ClientInv ==
    ASSUME IInv, NEW c \in Conn,
           Connect(c) \/ ClientStep(c) \/ CancelConnect(c)
    PROVE  IInv'
<1>. USE DEF IInv
<1>0. Client \in Side /\ Client # Server
  BY DEF Side, Client, Server
<1>1. CASE Connect(c)
  <2>1. at' = [at EXCEPT ![c] = [s \in Side |-> IF s = Client THEN "quic" ELSE "incoming"]]
    BY <1>1 DEF Connect
  <2>2. /\ at' \in [Conn -> [Side -> ClientState \cup ServerState]]
        /\ at'[c][Client] = "quic"
        /\ at'[c][Server] = "incoming"
        /\ \A d \in Conn \ {c} : at'[d] = at[d]
    BY <2>1, <1>0 DEF TypeOK, ClientState, ServerState, Handshaking, Side
  <2>3. \A d \in Conn : at'[d][Client] \in ClientState /\ at'[d][Server] \in ServerState
    BY <2>2 DEF TypeOK, ClientState, ServerState, Handshaking, Client, Server
  <2>4. TypeOK'
    BY <1>1, <2>2, <2>3 DEF Connect, TypeOK
  <2>5. at[c][Server] = "idle"
    BY <1>1 DEF Connect, Side
  <2>6. AnswerByState'
    <3>. SUFFICES ASSUME NEW d \in Conn PROVE AnswerAt(d)'
      BY DEF AnswerByState
    <3>1. AnswerAt(d) /\ response' = response /\ link' = link
      BY <1>1 DEF AnswerByState, Connect
    <3>2. /\ at'[d][Client] = "session" => at[d][Client] = "session"
          /\ \/ at'[d][Server] = at[d][Server]
             \/ at[d][Server] \notin Answered /\ at'[d][Server] \notin Answered
      BY <2>2, <2>5 DEF Answered
    <3>. QED
      BY <3>1, <3>2, AnswerKept
  <2>7. Pending' \subseteq Pending
    BY <2>2 DEF Pending, Handshaking, Client, Server
  <2>. QED
    BY <2>4, <2>6, <2>7, PendingShrinks
<1>2. CASE SendRequest(c)
  <2>1. "response" \in ClientState \ {"session"}
    BY DEF ClientState, Handshaking, Client
  <2>2. request' \in [Conn -> {"unsent", "ok", "bad"}]
    BY <1>2 DEF SendRequest, Frame, TypeOK
  <2>. QED
    BY <1>0, <1>2, <2>1, <2>2, QuietStep DEF SendRequest, Advance, TypeOK, Rest
<1>3. CASE ReadResponse(c)
  <2>1. at[c][Client] \in Handshaking(Client)
    BY <1>3 DEF ReadResponse, Handshaking
  <2>2. CASE Head(response[c]) = "ok" /\ at' = [at EXCEPT ![c][Client] = "session"]
             /\ UNCHANGED <<link, settings, request, response, acceptor, endpoint>>
    <3>1. response[c] = <<"ok">>
      <4>1. AnswerAt(c) /\ response[c] # <<>>
        BY <1>3 DEF AnswerByState, ReadResponse
      <4>2. response[c] # <<"reject">> /\ response[c] # <<"eof">>
        BY <2>2
      <4>. QED
        BY <4>1, <4>2 DEF AnswerAt, Answered
    <3>2. /\ at' \in [Conn -> [Side -> ClientState \cup ServerState]]
          /\ \A d \in Conn, r \in Side :
                at'[d][r] = IF d = c /\ r = Client THEN "session" ELSE at[d][r]
      <4>1. "session" \in ClientState \cup ServerState
        BY DEF ClientState
      <4>. QED
        BY <2>2, <1>0, <4>1, Entry DEF TypeOK
    <3>3. TypeOK'
      BY <2>2, <3>2, <1>0 DEF TypeOK, Side, ClientState
    <3>4. AnswerByState'
      BY <2>2, <3>1, <3>2, <1>0 DEF AnswerByState, AnswerAt, Side
    <3>5. Pending' \subseteq Pending
      BY <3>2, <1>0 DEF Pending, Side
    <3>. QED
      BY <3>3, <3>4, <3>5, PendingShrinks
  <2>3. CASE /\ at' = [at EXCEPT ![c][Client] = "rejected"]
             /\ link' = [link EXCEPT ![c][Client] = "closed"]
             /\ UNCHANGED <<settings, request, response, acceptor, endpoint>>
    <3>1. /\ link' \in [Conn -> [Side -> {"none", "open", "closed"}]]
          /\ \A d \in Conn, r \in Side :
                link'[d][r] = IF d = c /\ r = Client THEN "closed" ELSE link[d][r]
      BY <2>3, <1>0, Entry DEF TypeOK
    <3>2. \A d \in Conn : link[d][Server] = "closed" => link'[d][Server] = "closed"
      BY <3>1 DEF Side
    <3>3. "rejected" \in ClientState \ {"session"}
      BY DEF ClientState
    <3>. QED
      BY <1>0, <2>3, <3>1, <3>2, <3>3, QuietStep DEF TypeOK, Rest
  <2>4. CASE Fail(c, Client)
    BY <1>0, <2>1, <2>4, FailInv
  <2>. QED
    BY <1>3, <2>2, <2>3, <2>4 DEF ReadResponse
<1>4. CASE CancelConnect(c)
  BY <1>0, <1>4, FailInv DEF CancelConnect
<1>. QED
  BY <1>0, <1>1, <1>2, <1>3, <1>4, ExchangeInv DEF ClientStep

\* The steps of Server::accept.
LEMMA AcceptInv ==
    ASSUME IInv,
           \/ \E c \in Conn : Admit(c) \/ ServerStep(c)
           \/ CallAccept \/ CancelAccept \/ AcceptNone
    PROVE  IInv'
<1>. USE DEF IInv
<1>0. Server \in Side /\ Client # Server
  BY DEF Side, Client, Server
<1>1. ASSUME NEW c \in Conn, Admit(c) PROVE IInv'
  <2>1. "quic" \in ServerState /\ "quic" \notin Answered
    BY DEF ServerState, Handshaking, Answered, Client, Server
  <2>2. /\ at' \in [Conn -> [Side -> ClientState \cup ServerState]]
        /\ \A d \in Conn, r \in Side :
              at'[d][r] = IF d = c /\ r = Server THEN "quic" ELSE at[d][r]
    BY <1>0, <1>1, <2>1, Entry DEF Admit, Advance, TypeOK
  <2>3. TypeOK'
    BY <1>0, <1>1, <2>1, <2>2 DEF Admit, TypeOK, Side
  <2>4. AnswerByState'
    <3>. SUFFICES ASSUME NEW d \in Conn PROVE AnswerAt(d)'
      BY DEF AnswerByState
    <3>1. AnswerAt(d) /\ response' = response /\ link' = link
      BY <1>1 DEF AnswerByState, Admit
    <3>2. at[c][Server] \notin Answered
      BY <1>1 DEF Admit, Advance, Answered
    <3>3. /\ at'[d][Client] = at[d][Client]
          /\ \/ at'[d][Server] = at[d][Server]
             \/ at[d][Server] \notin Answered /\ at'[d][Server] \notin Answered
      BY <1>0, <2>1, <2>2, <3>2 DEF Side
    <3>. QED
      BY <3>1, <3>3, AnswerKept
  <2>5. Pending' \subseteq Pending \cup {c}
    BY <1>0, <2>2 DEF Pending
  <2>. QED
    BY <1>1, <2>3, <2>4, <2>5, PendingGrows DEF Admit
<1>2. ASSUME NEW c \in Conn, ReceiveRequest(c) PROVE IInv'
  <2>1. /\ "request" \in ServerState \ Answered
        /\ "request" \notin Handshaking(Server)
        /\ at[c][Server] \notin Answered
    BY <1>2 DEF ReceiveRequest, Advance, ServerState, Answered, Handshaking, Client, Server
  <2>. QED
    BY <1>0, <1>2, <2>1, QuietStep DEF ReceiveRequest, Advance, TypeOK, Rest
<1>3. ASSUME NEW c \in Conn, RequestRefused(c) PROVE IInv'
  <2>1. at[c][Server] \in Handshaking(Server)
    BY <1>3 DEF RequestRefused, Handshaking, Client, Server
  <2>. QED
    BY <1>0, <1>3, <2>1, FailInv DEF RequestRefused
<1>4. CASE CallAccept
  BY <1>4, StillStep DEF CallAccept, TypeOK, Rest
<1>5. CASE CancelAccept
  BY <1>5, StillStep DEF CancelAccept, TypeOK, Rest
<1>6. CASE AcceptNone
  BY <1>6, StillStep DEF AcceptNone, TypeOK, Rest
<1>. QED
  BY <1>0, <1>1, <1>2, <1>3, <1>4, <1>5, <1>6, ExchangeInv DEF ServerStep

\* The end of the Server, or of its endpoint.
LEMMA ShutdownInv ==
    ASSUME IInv, DropServer \/ EndpointCloses
    PROVE  IInv'
<1>. USE DEF IInv
<1>0. Server \in Side /\ Client \in Side /\ Client # Server
  BY DEF Side, Client, Server
<1>1. CASE DropServer
  <2>. DEFINE Dropped == {c \in Conn : at[c][Server] \in {"incoming"} \cup Handshaking(Server)}
  <2>1. /\ at' = [c \in Conn |-> IF c \in Dropped THEN [at[c] EXCEPT ![Server] = "failed"]
                                                  ELSE at[c]]
        /\ link' = [c \in Conn |-> IF c \in Dropped THEN [link[c] EXCEPT ![Server] = "closed"]
                                                    ELSE link[c]]
    BY <1>1 DEF DropServer
  <2>2. "failed" \in ServerState \ Answered /\ "failed" \notin Handshaking(Server)
    BY DEF ServerState, Answered, Handshaking, Client, Server
  <2>3. /\ at' \in [Conn -> [Side -> ClientState \cup ServerState]]
        /\ \A c \in Conn : /\ at'[c][Client] = at[c][Client]
                           /\ at'[c][Server] = IF c \in Dropped THEN "failed" ELSE at[c][Server]
    BY <1>0, <2>1, <2>2 DEF TypeOK
  <2>4. /\ link' \in [Conn -> [Side -> {"none", "open", "closed"}]]
        /\ \A c \in Conn : link[c][Server] = "closed" => link'[c][Server] = "closed"
    BY <1>0, <2>1 DEF TypeOK
  <2>5. TypeOK'
    BY <1>1, <2>2, <2>3, <2>4 DEF DropServer, TypeOK
  <2>6. AnswerByState'
    <3>. SUFFICES ASSUME NEW c \in Conn PROVE AnswerAt(c)'
      BY DEF AnswerByState
    <3>1. c \in Dropped => at[c][Server] \notin Answered
      BY DEF Answered, Handshaking, Client, Server
    <3>2. AnswerAt(c) /\ response' = response
      BY <1>1 DEF AnswerByState, DropServer
    <3>. QED
      BY <2>2, <2>3, <2>4, <3>1, <3>2, AnswerKept
  <2>7. Pending' \subseteq Pending
    BY <2>2, <2>3 DEF Pending
  <2>. QED
    BY <2>5, <2>6, <2>7, PendingShrinks
<1>2. CASE EndpointCloses
  <2>1. link' = [c \in Conn |-> IF at[c][Server] = "idle" THEN link[c]
                                ELSE [link[c] EXCEPT ![Server] = "closed"]]
    BY <1>2 DEF EndpointCloses
  <2>2. /\ link' \in [Conn -> [Side -> {"none", "open", "closed"}]]
        /\ \A c \in Conn : link[c][Server] = "closed" => link'[c][Server] = "closed"
    BY <1>0, <2>1 DEF TypeOK
  <2>. QED
    BY <1>2, <2>2, StillStep DEF EndpointCloses, TypeOK, Rest
<1>. QED
  BY <1>1, <1>2

\* The steps of a Request.
LEMMA RequestInv ==
    ASSUME IInv, NEW c \in Conn,
           Decision(c) \/ Answer(c) \/ Stopped(c) \/ CancelAnswer(c)
    PROVE  IInv'
<1>. USE DEF IInv
<1>0. Server \in Side /\ Client # Server
  BY DEF Side, Client, Server
<1>1. /\ AnswerAt(c)
      /\ \A to : at' = [at EXCEPT ![c][Server] = to] /\ to \in ServerState =>
            at'[c][Server] = to /\ at'[c][Client] = at[c][Client]
  <2>1. ASSUME NEW to \in ServerState, at' = [at EXCEPT ![c][Server] = to]
        PROVE  \A r \in Side : at'[c][r] = IF r = Server THEN to ELSE at[c][r]
    <3>1. to \in ClientState \cup ServerState
      OBVIOUS
    <3>. QED
      BY <1>0, <2>1, <3>1, Entry DEF TypeOK
  <2>. QED
    BY <1>0, <2>1 DEF AnswerByState, Side
<1>2. ASSUME NEW to \in {"answering", "rejecting"}, Decide(c, to) PROVE IInv'
  <2>1. /\ to \in ServerState \ Answered
        /\ to \notin Handshaking(Server)
        /\ at[c][Server] \notin Answered
    BY <1>2 DEF Decide, ServerState, Answered, Handshaking, Client, Server
  <2>. QED
    BY <1>0, <1>2, <2>1, QuietStep DEF Decide, TypeOK, Rest
<1>3. ASSUME at[c][Server] \in {"request", "answering", "rejecting", "stopping"},
             at[c][Server] = "stopping" \/ response[c] = <<>>,
             at' = [at EXCEPT ![c][Server] = "over"],
             EndOfStream(c),
             UNCHANGED <<link, settings, request, acceptor, endpoint>>
      PROVE  IInv'
  <2>1. PICK r \in Seq({"ok", "reject", "eof"}) :
            /\ response' = [response EXCEPT ![c] = r]
            /\ r = IF response[c] = <<>> THEN <<"eof">> ELSE response[c]
    <3>. DEFINE r0 == IF response[c] = <<>> THEN <<"eof">> ELSE response[c]
    <3>1. r0 \in Seq({"ok", "reject", "eof"})
      <4>1. <<"eof">> \in Seq({"ok", "reject", "eof"})
        OBVIOUS
      <4>2. response[c] \in Seq({"ok", "reject", "eof"})
        BY DEF TypeOK
      <4>. QED
        BY <4>1, <4>2
    <3>2. response' = [response EXCEPT ![c] = r0]
      BY <1>3 DEF EndOfStream
    <3>. QED
      BY <3>1, <3>2
  <2>2. response'[c] = IF response[c] = <<>> THEN <<"eof">> ELSE response[c]
    BY <2>1 DEF TypeOK
  <2>3. "over" \in ServerState /\ "over" \in Answered
    BY DEF ServerState, Answered
  <2>4. at'[c][Server] = "over" /\ at'[c][Client] = at[c][Client]
    BY <1>1, <1>3, <2>3
  <2>5. AnswerAt(c)'
    BY <1>1, <1>3, <2>2, <2>3, <2>4 DEF AnswerAt
  <2>. QED
    BY <1>3, <2>1, <2>3, <2>5, AnswerStep
<1>4. CASE DropOutsideRuntime(c)
  <2>1. response[c] = <<>>
    BY <1>1, <1>4 DEF DropOutsideRuntime, AnswerAt, Answered
  <2>. QED
    BY <1>3, <1>4, <2>1 DEF DropOutsideRuntime
<1>5. CASE RespondFails(c)
  <2>1. response[c] = <<>>
    BY <1>1, <1>5 DEF RespondFails, AnswerAt, Answered
  <2>. QED
    BY <1>3, <1>5, <2>1 DEF RespondFails
<1>6. CASE CancelAnswer(c)
  <2>1. at[c][Server] = "stopping" \/ response[c] = <<>>
    BY <1>1, <1>6 DEF CancelAnswer, AnswerAt, Answered
  <2>. QED
    BY <1>3, <1>6, <2>1 DEF CancelAnswer
<1>7. CASE Stopped(c)
  <2>1. response[c] = <<"reject">>
    BY <1>1, <1>7 DEF Stopped, AnswerAt
  <2>2. EndOfStream(c)
    <3>1. response' = [response EXCEPT ![c] = response[c]]
      BY <1>7 DEF Stopped, TypeOK
    <3>. QED
      BY <2>1, <3>1, Answers DEF EndOfStream
  <2>. QED
    BY <1>3, <1>7, <2>2 DEF Stopped
<1>8. ASSUME NEW from \in {"answering", "rejecting"}, NEW status \in {"ok", "reject"},
             NEW to \in {"session", "stopping"},
             status = "ok" <=> to = "session",
             Respond(c, from, status, to)
      PROVE  IInv'
  <2>1. response[c] = <<>>
    BY <1>1, <1>8 DEF Respond, AnswerAt, Answered
  <2>2. response' = [response EXCEPT ![c] = <<status>>] /\ response'[c] = <<status>>
    BY <1>8, <2>1 DEF Respond, TypeOK
  <2>3. to \in ServerState /\ to \in Answered
    BY DEF ServerState, Answered
  <2>4. at'[c][Server] = to /\ at'[c][Client] = at[c][Client]
    BY <1>1, <1>8, <2>3 DEF Respond
  <2>5. AnswerAt(c)'
    BY <1>1, <1>8, <2>1, <2>2, <2>3, <2>4 DEF AnswerAt
  <2>6. <<status>> \in Seq({"ok", "reject", "eof"})
    OBVIOUS
  <2>. QED
    BY <1>8, <2>2, <2>3, <2>5, <2>6, AnswerStep DEF Respond
<1>. QED
  BY <1>2, <1>4, <1>5, <1>6, <1>7, <1>8
  DEF Decision, Ok, Close, DropRequest, Answer, RespondOk, RespondReject

\* Every step preserves the invariant.
LEMMA HandshakeNext == IInv /\ [Next]_vars => IInv'
<1>. SUFFICES ASSUME IInv, [Next]_vars PROVE IInv'
  OBVIOUS
<1>1. ASSUME NEW c \in Conn, NEW s \in Side, TimeOut(c, s) PROVE IInv'
  BY <1>1, FailInv DEF TimeOut
<1>2. CASE UNCHANGED vars
  BY <1>2, StillStep DEF vars, IInv, TypeOK, Rest
<1>. QED
  BY <1>1, <1>2, LinkInv, ClientInv, AcceptInv, ShutdownInv, RequestInv DEF Next

\* The inductive invariant, for every number of connections.
THEOREM HandshakeInvariant == Spec => []IInv
  BY HandshakeInit, HandshakeNext, PTL DEF Spec

\* Server::accept never holds more handshakes than max_pending_handshakes,
\* whatever is cancelled, times out or is dropped.
THEOREM HandshakeBounded == Spec => []PendingBound
<1>1. IInv => PendingBound
  BY DEF IInv
<1>. QED
  BY <1>1, HandshakeInvariant, PTL

\* A request has one answer, and no client has a session the server has not.
THEOREM HandshakeOneAnswer == Spec => []OneAnswer
<1>1. IInv => OneAnswer
  <2>. SUFFICES ASSUME IInv, NEW c \in Conn
                PROVE  /\ Len(response[c]) <= 1
                       /\ at[c][Server] = "over" /\ link[c][Server] # "closed" => response[c] # <<>>
                       /\ at[c][Client] = "session" => at[c][Server] = "session"
    BY DEF OneAnswer
  <2>1. AnswerAt(c)
    BY DEF IInv, AnswerByState
  <2>2. response[c] \in {<<>>, <<"ok">>, <<"reject">>, <<"eof">>}
    BY <2>1 DEF AnswerAt, Answered
  <2>3. Len(response[c]) <= 1
    <3>1. Len(response[c]) \in {0, 1}
      BY <2>2, Answers
    <3>2. \A n \in {0, 1} : n <= 1
      OBVIOUS
    <3>. QED
      BY <3>1, <3>2, Zenon
  <2>4. at[c][Server] = "over" /\ link[c][Server] # "closed" => response[c] # <<>>
    BY <2>1, Answers DEF AnswerAt
  <2>5. at[c][Client] = "session" => at[c][Server] = "session"
    BY <2>1, Answers DEF AnswerAt, Answered
  <2>. QED
    BY <2>3, <2>4, <2>5
<1>. QED
  BY <1>1, HandshakeInvariant, PTL
-----------------------------------------------------------------------------
(***************************************************************************)
(* Giving up.                                                              *)
(***************************************************************************)
GaveUp == {"rejected", "failed"}

\* What a step may do to a side that has given up, or makes give up.
GivesUpClosed ==
    \A c \in Conn, s \in Side :
        /\ link[c][s] = "closed" => link'[c][s] = "closed"
        /\ at'[c][s] \in GaveUp => at[c][s] = at'[c][s] \/ link'[c][s] = "closed"

\* A side moves on, and its connection stays as it is.
LEMMA MovesOn ==
    ASSUME TypeOK, NEW c \in Conn, NEW s \in Side,
           NEW to \in (ClientState \cup ServerState) \ GaveUp,
           at' = [at EXCEPT ![c][s] = to], UNCHANGED link
    PROVE  GivesUpClosed
<1>1. \A d \in Conn, r \in Side : at'[d][r] = IF d = c /\ r = s THEN to ELSE at[d][r]
  BY Entry DEF TypeOK
<1>. QED
  BY <1>1 DEF GivesUpClosed

\* A side gives up: HandshakeGuard, or the drop of the only handle.
LEMMA GivesUp ==
    ASSUME TypeOK, NEW c \in Conn, NEW s \in Side, NEW to \in GaveUp,
           at' = [at EXCEPT ![c][s] = to], link' = [link EXCEPT ![c][s] = "closed"]
    PROVE  GivesUpClosed
<1>1. to \in ClientState \cup ServerState
  BY DEF GaveUp, ClientState
<1>2. \A d \in Conn, r \in Side : at'[d][r] = IF d = c /\ r = s THEN to ELSE at[d][r]
  BY <1>1, Entry DEF TypeOK
<1>3. \A d \in Conn, r \in Side : link'[d][r] = IF d = c /\ r = s THEN "closed" ELSE link[d][r]
  BY Entry DEF TypeOK
<1>. QED
  BY <1>2, <1>3 DEF GivesUpClosed

\* Nobody moves, and no connection is reopened.
LEMMA NobodyMoves ==
    ASSUME at' = at,
           \A c \in Conn, s \in Side : link[c][s] = "closed" => link'[c][s] = "closed"
    PROVE  GivesUpClosed
  BY DEF GivesUpClosed

\* The steps of both sides' handshakes.
LEMMA ExchangeGivesUp ==
    ASSUME TypeOK, NEW c \in Conn, NEW s \in Side, Exchange(c, s) \/ TimeOut(c, s)
    PROVE  GivesUpClosed
<1>1. CASE Fail(c, s)
  BY <1>1, GivesUp DEF Fail, GaveUp
<1>2. CASE BeginSettings(c, s) \/ SettingsExchanged(c, s)
  BY <1>2, MovesOn
  DEF BeginSettings, SettingsExchanged, Advance, ServerState, Handshaking, GaveUp, Client, Server
<1>3. CASE SendSettings(c, s)
  BY <1>3, NobodyMoves DEF SendSettings
<1>. QED
  BY <1>1, <1>2, <1>3 DEF Exchange, SettingsRefused, Broken, TimeOut

\* The other steps of a client, of the accepting server and of a Request.
LEMMA SideGivesUp ==
    ASSUME TypeOK, NEW c \in Conn,
           \/ Connect(c) \/ SendRequest(c) \/ ReadResponse(c) \/ CancelConnect(c)
           \/ Admit(c) \/ ReceiveRequest(c) \/ RequestRefused(c)
           \/ Decision(c) \/ Answer(c) \/ Stopped(c) \/ CancelAnswer(c)
    PROVE  GivesUpClosed
<1>0. Client \in Side /\ Server \in Side /\ Client # Server
  BY DEF Side, Client, Server
<1>1. ASSUME NEW s \in Side, Fail(c, s) PROVE GivesUpClosed
  BY <1>1, GivesUp DEF Fail, GaveUp
<1>2. CASE Connect(c)
  <2>1. \A d \in Conn, s \in Side :
           at'[d][s] = IF d = c THEN (IF s = Client THEN "quic" ELSE "incoming") ELSE at[d][s]
    BY <1>2 DEF Connect, TypeOK
  <2>. QED
    BY <1>2, <2>1 DEF Connect, GivesUpClosed, GaveUp
<1>3. CASE SendRequest(c)
  BY <1>0, <1>3, MovesOn DEF SendRequest, Advance, ClientState, Handshaking, GaveUp
<1>4. CASE ReadResponse(c)
  <2>1. CASE at' = [at EXCEPT ![c][Client] = "session"] /\ UNCHANGED link
    BY <1>0, <2>1, MovesOn DEF ClientState, GaveUp
  <2>2. CASE /\ at' = [at EXCEPT ![c][Client] = "rejected"]
             /\ link' = [link EXCEPT ![c][Client] = "closed"]
    BY <1>0, <2>2, GivesUp DEF GaveUp
  <2>. QED
    BY <1>0, <1>1, <1>4, <2>1, <2>2 DEF ReadResponse
<1>5. ASSUME NEW to \in ServerState \ GaveUp, at' = [at EXCEPT ![c][Server] = to], UNCHANGED link
      PROVE  GivesUpClosed
  BY <1>0, <1>5, MovesOn
<1>6. CASE Admit(c) \/ ReceiveRequest(c)
  BY <1>5, <1>6
  DEF Admit, ReceiveRequest, Advance, ServerState, Handshaking, GaveUp, Client, Server
<1>7. CASE CancelConnect(c) \/ RequestRefused(c)
  BY <1>0, <1>1, <1>7 DEF CancelConnect, RequestRefused
<1>8. CASE Decision(c) \/ Answer(c) \/ Stopped(c) \/ CancelAnswer(c)
  BY <1>5, <1>8
  DEF Decision, Ok, Close, DropRequest, DropOutsideRuntime, Decide, Answer, RespondOk,
      RespondReject, Respond, RespondFails, Stopped, CancelAnswer, ServerState, GaveUp
<1>. QED
  BY <1>2, <1>3, <1>4, <1>6, <1>7, <1>8

\* What QUIC, the Server's calls and its end do.
LEMMA SharedGivesUp ==
    ASSUME TypeOK,
           \/ \E c \in Conn :
                 \/ QuicEstablished(c) \/ ImplicitClose(c)
                 \/ \E s \in Side : DeliverClose(c, s) \/ ConnectionLost(c, s)
           \/ CallAccept \/ CancelAccept \/ AcceptNone \/ DropServer \/ EndpointCloses
           \/ UNCHANGED vars
    PROVE  GivesUpClosed
<1>0. Server \in Side
  BY DEF Side
<1>1. ASSUME NEW c \in Conn, QuicEstablished(c) PROVE GivesUpClosed
  <2>1. \A d \in Conn, s \in Side : link'[d][s] = IF d = c THEN "open" ELSE link[d][s]
    BY <1>1 DEF QuicEstablished, TypeOK
  <2>. QED
    BY <1>1, <2>1, NobodyMoves DEF QuicEstablished
<1>2. ASSUME NEW c \in Conn, NEW s \in Side, at' = at, link' = [link EXCEPT ![c][s] = "closed"]
      PROVE  GivesUpClosed
  <2>1. \A d \in Conn, r \in Side :
           link'[d][r] = IF d = c /\ r = s THEN "closed" ELSE link[d][r]
    BY <1>2, Entry DEF TypeOK
  <2>. QED
    BY <1>2, <2>1, NobodyMoves
<1>3. ASSUME NEW c \in Conn,
             ImplicitClose(c) \/ \E s \in Side : DeliverClose(c, s) \/ ConnectionLost(c, s)
      PROVE  GivesUpClosed
  BY <1>0, <1>2, <1>3 DEF ImplicitClose, DeliverClose, ConnectionLost
<1>4. CASE CallAccept \/ CancelAccept \/ AcceptNone \/ UNCHANGED vars
  BY <1>4, NobodyMoves DEF CallAccept, CancelAccept, AcceptNone, vars
<1>5. CASE DropServer
  <2>1. \A c \in Conn, s \in Side :
           \/ at'[c][s] = at[c][s] /\ link'[c][s] = link[c][s]
           \/ link'[c][s] = "closed"
    BY <1>5 DEF DropServer, TypeOK
  <2>. QED
    BY <2>1 DEF GivesUpClosed
<1>6. CASE EndpointCloses
  <2>1. \A c \in Conn, s \in Side : link'[c][s] \in {link[c][s], "closed"}
    BY <1>6 DEF EndpointCloses, TypeOK
  <2>. QED
    BY <1>6, <2>1, NobodyMoves DEF EndpointCloses
<1>. QED
  BY <1>1, <1>3, <1>4, <1>5, <1>6

\* A side that has failed, timed out, been cancelled or been refused has closed
\* the connection, for any number of connections and any timeouts.
THEOREM HandshakeGivingUpCloses == Spec => []GivingUpCloses
<1>1. Init => GivingUpCloses
  BY DEF Init, GivingUpCloses
<1>2. IInv /\ GivingUpCloses /\ [Next]_vars => GivingUpCloses'
  <2>. SUFFICES ASSUME IInv, GivingUpCloses, [Next]_vars PROVE GivingUpCloses'
    OBVIOUS
  <2>0. Client \in Side /\ Server \in Side
    BY DEF Side
  <2>1. GivesUpClosed
    BY <2>0, ExchangeGivesUp, SideGivesUp, SharedGivesUp DEF IInv, Next, ClientStep, ServerStep
  <2>. QED
    BY <2>1 DEF GivesUpClosed, GivingUpCloses, GaveUp
<1>. QED
  BY <1>1, <1>2, HandshakeInvariant, PTL DEF Spec
=============================================================================
