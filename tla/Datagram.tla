------------------------------ MODULE Datagram ------------------------------
(***************************************************************************)
(* Datagrams of a session (session.rs of both native backends): the id of  *)
(* the session, the stream id of its CONNECT request, goes before the      *)
(* payload.  A raw session has no id and sends the payload as it is.       *)
(***************************************************************************)
EXTENDS VarInt

NoId == -1          \* session_id of Session::raw
NoDatagrams == -1   \* the connection has no max_datagram_size

header_datagram(id) == IF id = NoId THEN <<>> ELSE VarIntEncode(id)

\* The connection's limit, less the header, and never negative.
max_datagram_size(id, mtu) ==
    LET size == (IF mtu = NoDatagrams THEN 0 ELSE mtu) - Len(header_datagram(id))
    IN  IF size < 0 THEN 0 ELSE size

\* What goes on the wire; QUIC refuses it if it is larger than its limit.
send_datagram(id, data) == header_datagram(id) \o data
QuicTakes(wire, mtu) == mtu # NoDatagrams /\ Len(wire) <= mtu

UnknownSession == [ok |-> FALSE, data |-> <<>>]

\* Fault: strip the header this side would have written.
read_datagram_OwnHeader(id, wire) ==
    LET read == VarIntDecode(wire) IN
    CASE id = NoId -> [ok |-> TRUE, data |-> wire]
      [] id # NoId /\ (~read.ok \/ read.value # id) -> UnknownSession
      [] OTHER -> [ok |-> TRUE, data |-> SubSeq(wire, Len(header_datagram(id)) + 1, Len(wire))]

read_datagram(id, wire) ==
    LET read == VarIntDecode(wire) IN
    CASE id = NoId -> [ok |-> TRUE, data |-> wire]
      [] id # NoId /\ (~read.ok \/ read.value # id) -> UnknownSession
      [] OTHER -> [ok |-> TRUE, data |-> SubSeq(wire, read.used + 1, Len(wire))]
-----------------------------------------------------------------------------
\* A payload goes out exactly if max_datagram_size allows it, once the limit
\* has room for the id at all, and comes out unchanged at the session with
\* that id, however many bytes the sender spent on the id, and at no other.
DatagramExact(id, other, data, mtu) ==
    LET header == Len(header_datagram(id)) IN
    /\ QuicTakes(send_datagram(id, data), mtu) <=>
         mtu >= header /\ Len(data) <= max_datagram_size(id, mtu)
    /\ read_datagram(id, send_datagram(id, data)) = [ok |-> TRUE, data |-> data]
    /\ id # NoId => \A n \in Width : n >= header =>
         /\ read_datagram(id, VarIntEncodeIn(id, n) \o data) = [ok |-> TRUE, data |-> data]
         /\ other \notin {id, NoId} =>
              read_datagram(other, VarIntEncodeIn(id, n) \o data) = UnknownSession
=============================================================================
