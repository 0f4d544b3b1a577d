------------------------------ MODULE Handshake ------------------------------
(***************************************************************************)
(* How a session begins: Client::connect and Session::connect on one side, *)
(* Server::accept and the Request it yields on the other (client.rs,       *)
(* session.rs, server.rs, settings.rs, connect.rs of the native backends). *)
(*                                                                         *)
(* Each connection has its own client; one Server admits them.  A server   *)
(* handshake is a future in the set behind Server::accept: it moves only   *)
(* while a call of accept is being polled.  QUIC is external: an           *)
(* endpoint whose connection is closed stays so, and its peer learns of it *)
(* later.                                                                  *)
(*                                                                         *)
(* The two backends run the same exchange.  Quion closes a connection it   *)
(* gives up with a HandshakeGuard; over Quinn the handshake future owns    *)
(* the only handle, and dropping that closes the connection.               *)
(***************************************************************************)
EXTENDS Naturals, FiniteSets, Sequences

CONSTANTS Conn,           \* connections, one client each
          Foreign,        \* those whose client is another implementation
          MaxPending,     \* max_pending_handshakes, a NonZeroUsize
          ServerTimeout,  \* is the server's handshake_timeout set?
          ClientTimeout   \* is the client's handshake_timeout set?

ASSUME HandshakeConstants ==
    /\ Foreign \subseteq Conn
    /\ MaxPending \in Nat \ {0}
    /\ ServerTimeout \in BOOLEAN
    /\ ClientTimeout \in BOOLEAN

Client == "client"
Server == "server"
Side == {Client, Server}
Other(s) == IF s = Client THEN Server ELSE Client

VARIABLES
    at,        \* at[c][s]: where side s of connection c is
    link,      \* link[c][s]: the QUIC connection as side s sees it
    settings,  \* settings[c][s]: the SETTINGS frame side s has sent
    request,   \* request[c]: the CONNECT request the client has sent
    response,  \* response[c]: what the server has sent in answer
    acceptor,  \* the Server: no call of accept, one being polled, dropped
    endpoint   \* the QUIC endpoint behind the Server

vars == <<at, link, settings, request, response, acceptor, endpoint>>

\* Inside the future that handshake_timeout bounds.
Handshaking(s) == IF s = Client THEN {"quic", "settings", "connect", "response"}
                                  ELSE {"quic", "settings", "connect"}

ClientState == {"idle", "session", "rejected", "failed"} \cup Handshaking(Client)
ServerState == {"idle", "incoming", "request", "answering", "rejecting", "stopping",
                "session", "over", "failed"} \cup Handshaking(Server)

\* The handshakes in the set behind Server::accept.
Pending == {c \in Conn : at[c][Server] \in Handshaking(Server)}

\* What a side sends: another implementation may send what is not accepted.
Frame(c, s) == IF s = Client /\ c \in Foreign THEN {"ok", "bad"} ELSE {"ok"}

Init ==
    /\ at = [c \in Conn |-> [s \in Side |-> "idle"]]
    /\ link = [c \in Conn |-> [s \in Side |-> "none"]]
    /\ settings = [c \in Conn |-> [s \in Side |-> "unsent"]]
    /\ request = [c \in Conn |-> "unsent"]
    /\ response = [c \in Conn |-> <<>>]
    /\ acceptor = "idle"
    /\ endpoint = "open"
-----------------------------------------------------------------------------
(***************************************************************************)
(* QUIC (external).                                                        *)
(***************************************************************************)
QuicEstablished(c) ==
    /\ at[c][Client] = "quic"
    /\ at[c][Server] = "quic"
    /\ \A s \in Side : link[c][s] = "none"
    /\ link' = [link EXCEPT ![c] = [s \in Side |-> "open"]]
    /\ UNCHANGED <<at, settings, request, response, acceptor, endpoint>>

\* Side s learns that the other side closed or abandoned the connection.
DeliverClose(c, s) ==
    /\ link[c][Other(s)] = "closed"
    /\ link[c][s] # "closed"
    /\ link' = [link EXCEPT ![c][s] = "closed"]
    /\ UNCHANGED <<at, settings, request, response, acceptor, endpoint>>

ConnectionLost(c, s) ==
    /\ link[c][s] = "open"
    /\ link' = [link EXCEPT ![c][s] = "closed"]
    /\ UNCHANGED <<at, settings, request, response, acceptor, endpoint>>

\* The application closes the server's endpoint through a handle of its own:
\* all its connections close, and those that wait to be accepted are refused.
EndpointCloses ==
    /\ endpoint = "open"
    /\ endpoint' = "closed"
    /\ link' = [c \in Conn |-> IF at[c][Server] = "idle" THEN link[c]
                               ELSE [link[c] EXCEPT ![Server] = "closed"]]
    /\ UNCHANGED <<at, settings, request, response, acceptor>>

\* QUIC may close a connection the server's application has no handle of.
ImplicitClose(c) ==
    /\ at[c][Server] = "over"
    /\ link[c][Server] = "open"
    /\ link' = [link EXCEPT ![c][Server] = "closed"]
    /\ UNCHANGED <<at, settings, request, response, acceptor, endpoint>>
-----------------------------------------------------------------------------
(***************************************************************************)
(* Steps of either side's handshake.                                       *)
(***************************************************************************)
Polled(s) == s = Client \/ acceptor = "accepting"

Advance(c, s, from, to) ==
    /\ at[c][s] = from
    /\ Polled(s)
    /\ at' = [at EXCEPT ![c][s] = to]

\* Fault: no HandshakeGuard.
Fail_NoGuard(c, s) ==
    /\ at' = [at EXCEPT ![c][s] = "failed"]
    /\ acceptor' = IF s = Server THEN "idle" ELSE acceptor
    /\ UNCHANGED <<link, settings, request, response, endpoint>>

\* The handshake ends with an error or is dropped: its HandshakeGuard closes
\* the connection.  On the server, accept returns the error.
Fail(c, s) ==
    /\ at' = [at EXCEPT ![c][s] = "failed"]
    /\ link' = [link EXCEPT ![c][s] = "closed"]
    /\ acceptor' = IF s = Server THEN "idle" ELSE acceptor
    /\ UNCHANGED <<settings, request, response, endpoint>>

BeginSettings(c, s) ==
    /\ link[c][s] = "open"
    /\ Advance(c, s, "quic", "settings")
    /\ UNCHANGED <<link, settings, request, response, acceptor, endpoint>>

\* Settings::open, one half of the try_join.
SendSettings(c, s) ==
    /\ at[c][s] = "settings"
    /\ Polled(s)
    /\ link[c][s] = "open"
    /\ settings[c][s] = "unsent"
    /\ \E f \in Frame(c, s) : settings' = [settings EXCEPT ![c][s] = f]
    /\ UNCHANGED <<at, link, request, response, acceptor, endpoint>>

\* Both halves of the try_join are complete.
SettingsExchanged(c, s) ==
    /\ Advance(c, s, "settings", "connect")
    /\ settings[c][s] # "unsent"
    /\ settings[c][Other(s)] = "ok"
    /\ UNCHANGED <<link, settings, request, response, acceptor, endpoint>>

\* Settings::accept fails, and with it the try_join.
SettingsRefused(c, s) ==
    /\ at[c][s] = "settings"
    /\ Polled(s)
    /\ settings[c][Other(s)] = "bad"
    /\ Fail(c, s)

\* Whatever the handshake awaits fails with the connection.
Broken(c, s) ==
    /\ at[c][s] \in Handshaking(s)
    /\ Polled(s)
    /\ link[c][s] = "closed"
    /\ Fail(c, s)

\* Fault: the timer only starts once QUIC is established.
TimeOut_AfterQuic(c, s) ==
    /\ at[c][s] \in Handshaking(s) \ {"quic"}
    /\ Polled(s)
    /\ IF s = Client THEN ClientTimeout ELSE ServerTimeout
    /\ Fail(c, s)

\* The timer is part of the handshake's future.
TimeOut(c, s) ==
    /\ at[c][s] \in Handshaking(s)
    /\ Polled(s)
    /\ IF s = Client THEN ClientTimeout ELSE ServerTimeout
    /\ Fail(c, s)
-----------------------------------------------------------------------------
(***************************************************************************)
(* The client.                                                             *)
(***************************************************************************)
Connect(c) ==
    /\ \A s \in Side : at[c][s] = "idle"
    /\ endpoint = "open"
    /\ at' = [at EXCEPT ![c] = [s \in Side |-> IF s = Client THEN "quic" ELSE "incoming"]]
    /\ UNCHANGED <<link, settings, request, response, acceptor, endpoint>>

\* Connect::open: write the request, then read the response.
SendRequest(c) ==
    /\ link[c][Client] = "open"
    /\ Advance(c, Client, "connect", "response")
    /\ \E f \in Frame(c, Client) : request' = [request EXCEPT ![c] = f]
    /\ UNCHANGED <<link, settings, response, acceptor, endpoint>>

\* Only 200 makes a session; another status is an error, as is the stream's
\* end, and the guard closes the connection.
ReadResponse(c) ==
    /\ at[c][Client] = "response"
    /\ response[c] # <<>>
    /\ \/ /\ Head(response[c]) = "ok"
          /\ at' = [at EXCEPT ![c][Client] = "session"]
          /\ UNCHANGED <<link, settings, request, response, acceptor, endpoint>>
       \/ /\ Head(response[c]) = "reject"
          /\ at' = [at EXCEPT ![c][Client] = "rejected"]
          /\ link' = [link EXCEPT ![c][Client] = "closed"]
          /\ UNCHANGED <<settings, request, response, acceptor, endpoint>>
       \/ /\ Head(response[c]) = "eof"
          /\ Fail(c, Client)

\* The application drops the future of connect.
CancelConnect(c) ==
    /\ at[c][Client] \in Handshaking(Client)
    /\ Fail(c, Client)
-----------------------------------------------------------------------------
(***************************************************************************)
(* The server: Server::accept.                                             *)
(***************************************************************************)
CallAccept ==
    /\ acceptor = "idle"
    /\ acceptor' = "accepting"
    /\ UNCHANGED <<at, link, settings, request, response, endpoint>>

\* Pending handshakes stay in the Server when a call of accept is dropped.
CancelAccept ==
    /\ acceptor = "accepting"
    /\ acceptor' = "idle"
    /\ UNCHANGED <<at, link, settings, request, response, endpoint>>

\* Fault: one handshake too many.
Admit_OneMore(c) ==
    /\ endpoint = "open"
    /\ Advance(c, Server, "incoming", "quic")
    /\ Cardinality(Pending) <= MaxPending
    /\ UNCHANGED <<link, settings, request, response, acceptor, endpoint>>

\* The first branch of accept's select!, which waits for room.
Admit(c) ==
    /\ endpoint = "open"
    /\ Advance(c, Server, "incoming", "quic")
    /\ Cardinality(Pending) < MaxPending
    /\ UNCHANGED <<link, settings, request, response, acceptor, endpoint>>

\* The endpoint is closed: accept returns None, whatever is still pending.
AcceptNone ==
    /\ acceptor = "accepting"
    /\ endpoint = "closed"
    /\ Cardinality(Pending) < MaxPending
    /\ acceptor' = "idle"
    /\ UNCHANGED <<at, link, settings, request, response, endpoint>>

\* Connect::accept has read the request: accept returns it.
ReceiveRequest(c) ==
    /\ Advance(c, Server, "connect", "request")
    /\ request[c] = "ok"
    /\ acceptor' = "idle"
    /\ UNCHANGED <<link, settings, request, response, endpoint>>

RequestRefused(c) ==
    /\ at[c][Server] = "connect"
    /\ Polled(Server)
    /\ request[c] = "bad"
    /\ Fail(c, Server)

\* The Server is dropped: so are its handshakes, whose guards close, and QUIC
\* refuses what has not been admitted.  Requests handed out live on.
DropServer ==
    /\ acceptor = "idle"
    /\ acceptor' = "dropped"
    /\ endpoint' = "closed"
    /\ LET dropped == {c \in Conn : at[c][Server] \in {"incoming"} \cup Handshaking(Server)}
       IN  /\ at' = [c \in Conn |-> IF c \in dropped THEN [at[c] EXCEPT ![Server] = "failed"]
                                                     ELSE at[c]]
           /\ link' = [c \in Conn |-> IF c \in dropped THEN [link[c] EXCEPT ![Server] = "closed"]
                                                       ELSE link[c]]
    /\ UNCHANGED <<settings, request, response>>
-----------------------------------------------------------------------------
(***************************************************************************)
(* The server: a Request.  ok, close and drop all take its Connect first,  *)
(* so only one of them answers.                                            *)
(***************************************************************************)

\* Dropping the CONNECT stream ends it, if nothing has been sent yet.
EndOfStream(c) ==
    response' = [response EXCEPT ![c] = IF @ = <<>> THEN <<"eof">> ELSE @]

Decide(c, to) ==
    /\ at[c][Server] = "request"
    /\ at' = [at EXCEPT ![c][Server] = to]
    /\ UNCHANGED <<link, settings, request, response, acceptor, endpoint>>

Ok(c) == Decide(c, "answering")

Close(c) == Decide(c, "rejecting")

\* Request::drop spawns a task that rejects with status 500 ...
DropRequest(c) == Decide(c, "rejecting")

\* Fault: the CONNECT stream is kept open.
DropOutsideRuntime_Leaks(c) == Decide(c, "over")

\* ... or, outside a runtime, only drops the stream.
DropOutsideRuntime(c) ==
    /\ at[c][Server] = "request"
    /\ at' = [at EXCEPT ![c][Server] = "over"]
    /\ EndOfStream(c)
    /\ UNCHANGED <<link, settings, request, acceptor, endpoint>>

Respond(c, from, status, to) ==
    /\ at[c][Server] = from
    /\ link[c][Server] = "open"
    /\ at' = [at EXCEPT ![c][Server] = to]
    /\ response' = [response EXCEPT ![c] = Append(@, status)]
    /\ UNCHANGED <<link, settings, request, acceptor, endpoint>>

RespondOk(c) == Respond(c, "answering", "ok", "session")

\* reject: respond, finish, then wait until the peer has it all.
RespondReject(c) == Respond(c, "rejecting", "reject", "stopping")

Stopped(c) ==
    /\ at[c][Server] = "stopping"
    /\ at' = [at EXCEPT ![c][Server] = "over"]
    /\ UNCHANGED <<link, settings, request, response, acceptor, endpoint>>

\* Fault: the error of the write is lost.
RespondFails_Ignored(c) ==
    /\ at[c][Server] \in {"answering", "rejecting"}
    /\ link[c][Server] = "closed"
    /\ at' = [at EXCEPT ![c][Server] = IF @ = "answering" THEN "session" ELSE "stopping"]
    /\ UNCHANGED <<link, settings, request, response, acceptor, endpoint>>

RespondFails(c) ==
    /\ at[c][Server] \in {"answering", "rejecting"}
    /\ link[c][Server] = "closed"
    /\ at' = [at EXCEPT ![c][Server] = "over"]
    /\ EndOfStream(c)
    /\ UNCHANGED <<link, settings, request, acceptor, endpoint>>

\* Fault: the Connect is borrowed, not taken, and dropped with the Request.
CancelAnswer_Rejects(c) ==
    /\ at[c][Server] \in {"answering", "stopping"}
    /\ at' = [at EXCEPT ![c][Server] = "rejecting"]
    /\ UNCHANGED <<link, settings, request, response, acceptor, endpoint>>

\* The future of ok or close is dropped, or the runtime shuts down.
CancelAnswer(c) ==
    /\ at[c][Server] \in {"answering", "rejecting", "stopping"}
    /\ at' = [at EXCEPT ![c][Server] = "over"]
    /\ EndOfStream(c)
    /\ UNCHANGED <<link, settings, request, acceptor, endpoint>>
-----------------------------------------------------------------------------
Exchange(c, s) ==
    \/ BeginSettings(c, s)
    \/ SendSettings(c, s)
    \/ SettingsExchanged(c, s)
    \/ SettingsRefused(c, s)
    \/ Broken(c, s)

ClientStep(c) == Exchange(c, Client) \/ SendRequest(c) \/ ReadResponse(c)

ServerStep(c) == Exchange(c, Server) \/ ReceiveRequest(c) \/ RequestRefused(c)

Decision(c) == Ok(c) \/ Close(c) \/ DropRequest(c) \/ DropOutsideRuntime(c)

Answer(c) == RespondOk(c) \/ RespondReject(c) \/ RespondFails(c)

Next ==
    \/ \E c \in Conn :
          \/ Connect(c) \/ ClientStep(c) \/ CancelConnect(c)
          \/ Admit(c) \/ ServerStep(c)
          \/ Decision(c) \/ Answer(c) \/ Stopped(c) \/ CancelAnswer(c)
          \/ QuicEstablished(c) \/ ImplicitClose(c)
          \/ \E s \in Side : TimeOut(c, s) \/ DeliverClose(c, s) \/ ConnectionLost(c, s)
    \/ CallAccept \/ CancelAccept \/ AcceptNone \/ DropServer \/ EndpointCloses

Spec == Init /\ [][Next]_vars

\* This library's clients move when they can, QUIC tells a side of the other's
\* close, timers fire, and the server's application calls accept again and
\* decides on every request.  It may cancel calls of accept: what only moves
\* inside them gets its turn if it could move in infinitely many.  Nothing is
\* assumed of foreign clients.
FairSpec ==
    /\ Spec
    /\ WF_vars(CallAccept)
    /\ \A c \in Conn :
          /\ SF_vars(Admit(c))
          /\ SF_vars(ServerStep(c))
          /\ SF_vars(TimeOut(c, Server))
          /\ WF_vars(Decision(c))
          /\ WF_vars(Answer(c))
          /\ \A s \in Side : WF_vars(DeliverClose(c, s))
    /\ \A c \in Conn \ Foreign :
          /\ WF_vars(QuicEstablished(c))
          /\ WF_vars(ClientStep(c))
-----------------------------------------------------------------------------
TypeOK ==
    /\ at \in [Conn -> [Side -> ClientState \cup ServerState]]
    /\ \A c \in Conn : at[c][Client] \in ClientState /\ at[c][Server] \in ServerState
    /\ link \in [Conn -> [Side -> {"none", "open", "closed"}]]
    /\ settings \in [Conn -> [Side -> {"unsent", "ok", "bad"}]]
    /\ request \in [Conn -> {"unsent", "ok", "bad"}]
    /\ response \in [Conn -> Seq({"ok", "reject", "eof"})]
    /\ acceptor \in {"idle", "accepting", "dropped"}
    /\ endpoint \in {"open", "closed"}

\* Server::accept never has more handshakes in progress than configured.
PendingBound == Cardinality(Pending) <= MaxPending

\* Whatever becomes of a Request - answered, dropped, its answer cancelled
\* or failed - the client is sent one answer, unless the connection is
\* closed; and the client has a session only if the server has.
OneAnswer ==
    \A c \in Conn :
        /\ Len(response[c]) <= 1
        /\ at[c][Server] = "over" /\ link[c][Server] # "closed" => response[c] # <<>>
        /\ at[c][Client] = "session" => at[c][Server] = "session"

\* A side that has failed, timed out, been cancelled or been refused has closed
\* the connection, whatever the other side has reached by then: QUIC tells that
\* side, and no timeout leaves a session half open.
GivingUpCloses ==
    \A c \in Conn, s \in Side :
        at[c][s] \in {"rejected", "failed"} => link[c][s] = "closed"

\* A client of this library that waits for the response, without a timeout of
\* its own, is told or fails.
NoClientLeftWaiting ==
    \A c \in Conn \ Foreign :
        at[c][Client] = "response" ~> at[c][Client] \in {"session", "rejected", "failed"}

\* With a handshake timeout, clients that stall cannot keep the slots for
\* ever: whoever knocks is let in, or the endpoint is closed.
AdmissionNotBlocked ==
    \A c \in Conn :
        at[c][Server] = "incoming" ~> (at[c][Server] # "incoming" \/ endpoint = "closed")
-----------------------------------------------------------------------------
(***************************************************************************)
(* The inductive invariant behind PendingBound and OneAnswer.              *)
(***************************************************************************)

\* The places of the server after its answer.
Answered == {"session", "stopping", "over"}

\* What has been sent in answer on c, by what the server is doing.
AnswerAt(c) ==
    /\ at[c][Server] = "session" => response[c] = <<"ok">>
    /\ at[c][Server] = "stopping" => response[c] = <<"reject">>
    /\ at[c][Server] = "over" =>
          \/ response[c] \in {<<"reject">>, <<"eof">>}
          \/ response[c] = <<>> /\ link[c][Server] = "closed"
    /\ at[c][Server] \notin Answered => response[c] = <<>>
    /\ at[c][Client] = "session" => response[c] = <<"ok">>

AnswerByState == \A c \in Conn : AnswerAt(c)

\* Nobody but Admit adds to the set of handshakes, and it looks at the bound.
IInv == TypeOK /\ AnswerByState /\ IsFiniteSet(Pending) /\ PendingBound
=============================================================================
