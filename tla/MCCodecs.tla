------------------------------ MODULE MCCodecs ------------------------------
(***************************************************************************)
(* The codecs of webtrans-proto and of datagrams, one state per input.     *)
(* Bounds: every application code of a small range; integers around every  *)
(* change of length; datagrams of up to 3 bytes with ids of every length   *)
(* and every limit up to 12; reasons of up to 4 characters of any width,   *)
(* and every string of up to 7 bytes, so one more than a capsule takes, of *)
(* ASCII, four-byte characters, parts of those and invalid bytes; every    *)
(* settings map over values 0 to 2; every URL built from two or three      *)
(* choices for each of its parts; request sections that differ from a good *)
(* one in one line or one frame.                                           *)
(***************************************************************************)
EXTENDS ErrorCode, Capsule, Datagram, SettingsCodec, ConnectCodec

VARIABLE input

Input(kind, value) == [kind |-> kind, value |-> value]

\* An https URL always has a host.
MCUrl == {url \in [scheme : {"https", "http", "file"}, user : {NoPart, "u"}, host : {"a", "", "b:444"},
                   path : {"/", "/p"}, query : {NoPart, "q"}, fragment : {NoPart, "f"}] :
            url.host = "" <=> url.scheme = "file"}

Around(x) == {n \in x - 2..x + 2 : n >= 0}
Lengths == UNION {Around(x) : x \in {0, 15, 31, 63, 64, 127, 255, 2^14, 2^21, 2^22 - 3, 2^30 - 3}}

PrefixBytes == UNION {[1..n -> {0, 1, 2, 127, 128, 129, 255}] : n \in 1..5}

Datagrams == [id : {NoId, 0, 4, 60, 64}, other : {NoId, 0, 4, 8},
              data : UNION {[1..n -> {0, 4}] : n \in 0..3}, mtu : {NoDatagrams} \cup 0..12]

Reasons == {Utf8(string) : string \in UNION {[1..n -> Character] : n \in 0..4}}
             \cup UNION {[1..n -> {0, 1, 4, 9}] : n \in 0..7}

SettingsMaps == UNION {[ids -> 0..2] : ids \in SUBSET (Setting \ {"QPACK_MAX_TABLE_CAPACITY"})}

\* A good request in one of its orders, and the lines that may take the place
\* of one of its own or be put between them.
GoodLines == <<EncodeLine(":method", "CONNECT"), EncodeLine(":scheme", "https"),
               EncodeLine(":authority", "a"), EncodeLine(":path", "/p?q"),
               EncodeLine(":protocol", "webtransport-h3")>>
OtherLines == {EncodeLine(":method", "GET"), EncodeLine(":scheme", "http"),
               EncodeLine(":authority", "u@a"), EncodeLine(":path", "/p#f"),
               EncodeLine(":path", "/"), EncodeLine(":protocol", "webtransport"),
               EncodeLine(":status", "200"), EncodeLine("te", "gzip"),
               EncodeLine("te", "trailers"), EncodeLine("x-a", "control"),
               EncodeLine("upgrade", "x"), EncodeLine("Upper", "x"),
               Line(<<128>>, <<>>), Line(<<255, 36>>, <<>>), Line(<<0>>, <<>>),
               Line(<<255, 35>>, <<>>), Line(<<196>>, <<>>)}
Sections ==
    [prefix : {<<0, 0>>, <<1, 0>>},
     lines : {ReplaceAt(GoodLines, i, l) : i \in 1..5, l \in OtherLines}
               \cup {InsertAt(GoodLines, i, l) : i \in 1..6, l \in OtherLines}]
Message(typ, long) == [typ |-> typ, long |-> long, section |-> [prefix |-> <<0, 0>>, lines |-> <<>>]]
Before == {<<>>, <<Message("grease", FALSE)>>, <<Message("grease", TRUE)>>, <<Message("data", FALSE)>>}

\* GREASE before the SETTINGS frame, and twice in it.
Greased(stream) ==
    LET frame == stream.frames[1]
        pairs == <<<<Grease, 7>>>> \o frame.pairs \o <<<<Grease, 0>>>>
    IN  [stream EXCEPT !.frames = <<[frame EXCEPT !.typ = "grease"], [frame EXCEPT !.pairs = pairs]>>]

\* The request for url is read back as url.
Arrives(url) ==
    \A order \in FieldOrders(RequestFields(url)) :
        DecodeRequest(<<HeadersFrame(RequestFields(url), order)>>) = [kind |-> "ok", url |-> url]

Init ==
    \/ input \in {Input("code", c) : c \in AppCode}
    \/ input \in {Input("integer", x) : x \in Lengths}
    \/ input \in {Input("prefix", p) : p \in PrefixBytes}
    \/ input \in {Input("datagram", d) : d \in Datagrams}
    \/ input \in {Input("reason", r) : r \in Reasons}
    \/ input \in {Input("settings", s) : s \in SettingsMaps}
    \/ input \in {Input("url", u) : u \in Url}
    \/ input \in {Input("status", s) : s \in Status}
    \/ input \in {Input("request", before \o <<[typ |-> "headers", long |-> FALSE, section |-> s]>>) :
                    before \in Before, s \in Sections}

Next == UNCHANGED input
Spec == Init /\ [][Next]_input
-----------------------------------------------------------------------------
\* An application code comes back from the HTTP/3 error space as itself, and
\* is sent inside the reserved range and off the GREASE values.
CodesExact ==
    input.kind = "code" => RoundTrips(input.value) /\ WellPlaced(input.value)

PrefixSize == {3, 4, 6, 7, 8}

\* decode_prefix gives the integer that the bytes it took denote, or an error.
DecodesExactly(bytes, size) ==
    LET decoded == decode_prefix(bytes, size)
    IN  decoded.kind = "ok" => decoded.value = Denoted(SubSeq(bytes, 1, decoded.used), size)

\* QUIC and QPACK integers come back as themselves, with exactly the bytes they
\* took, at every change of their length: an error here shifts everything
\* that follows on the stream.  Foreign prefix integers are read exactly too,
\* up to the last group that fits usize as a whole.
IntegersExact ==
    /\ input.kind = "integer" /\ input.value <= VarIntMax =>
         \A rest \in {<<>>, <<0>>, <<15, 3>>} : VarIntExact(input.value, rest)
    /\ input.kind = "integer" /\ input.value < 2^USIZE_BITS =>
         \A size \in PrefixSize :
            LET bytes == encode_prefix(size, 0, input.value)
            IN  decode_prefix(bytes \o <<255>>, size) =
                  [kind |-> "ok", flags |-> 0, value |-> input.value, used |-> Len(bytes)]
    /\ input.kind = "prefix" /\ 7 * (Len(input.value) - 1) <= USIZE_BITS =>
         \A size \in PrefixSize : DecodesExactly(input.value, size)

\* A prefix integer too large for usize is an error ("varint bounds exceeded"),
\* never another integer: the test oversized_prefix_returns_error_without_panicking
\* of qpack.rs says so of a longer one.
OversizedPrefixIsError ==
    input.kind = "prefix" => \A size \in PrefixSize : DecodesExactly(input.value, size)

\* A datagram is sent exactly if it fits and is read by its own session only.
DatagramsArrive ==
    input.kind = "datagram" =>
        DatagramExact(input.value.id, input.value.other, input.value.data, input.value.mtu)

\* Session::close fits a reason of any bytes into a capsule that the peer
\* accepts: a cut inside a character may add a U+FFFD after the characters
\* that fit, but never loses one of them, the code or the capsule.
ReasonsFit == input.kind = "reason" => CloseReasonFits(7, input.value)

\* What a side of this library sends is accepted by the other whatever it had
\* set before; a peer is accepted only if it offers datagrams by the newest
\* setting it sent, and never once WT_ENABLED says no; and a map is read back as
\* it was sent, in any order and with GREASE around it, if its flags are flags.
SettingsSound ==
    input.kind = "settings" =>
        LET s == input.value
            valid == \A id \in DOMAIN s \cap BooleanSetting : s[id] <= 1
        IN  /\ \A max \in {0, 3}, deprecated \in BOOLEAN :
                 LET own == enable_webtransport_internal(s, max, deprecated)
                 IN  supports_webtransport_server(own) /\ supports_webtransport_client(own)
            /\ supports_webtransport_server(s) => supports_webtransport_client(s)
            /\ supports_webtransport_client(s) =>
                 /\ Value(s, "WT_ENABLED") # 0
                 /\ IF "ENABLE_DATAGRAM" \in DOMAIN s THEN s["ENABLE_DATAGRAM"] = 1
                    ELSE Value(s, "ENABLE_DATAGRAM_DEPRECATED") = 1
            /\ Cardinality(DOMAIN s) <= 3 =>
                 \A order \in SetToSeqs(DOMAIN s) :
                    ReadSettings(Greased(EncodeSettings(s, order))) =
                      IF valid THEN [kind |-> "ok", settings |-> s] ELSE [kind |-> "InvalidValue"]

\* A URL that Client::connect lets through reaches the server's application
\* unchanged, and a status the client, past any GREASE frame and in any order
\* of the header map; what a server accepts from any other client is a URL
\* that this library's client could have asked for.
RequestsArrive ==
    /\ input.kind = "url" /\ validate_url(input.value) => Arrives(input.value)
    /\ input.kind = "status" =>
         \A order \in FieldOrders(ResponseFields(input.value)) :
            DecodeResponse(<<Message("grease", FALSE), HeadersFrame(ResponseFields(input.value), order)>>)
              = [kind |-> "ok", status |-> input.value]
    /\ input.kind = "request" /\ DecodeRequest(input.value).kind = "ok" =>
         validate_url(DecodeRequest(input.value).url) /\ Arrives(DecodeRequest(input.value).url)
=============================================================================
