---------------------------- MODULE SettingsCodec ----------------------------
(***************************************************************************)
(* webtrans-proto/src/settings.rs: the SETTINGS frame, and the verdict on  *)
(* whether the peer that sent it speaks WebTransport.                      *)
(*                                                                         *)
(* A payload is a sequence of <<identifier, value>> pairs; identifiers are *)
(* named, all GREASE identifiers are one.                                  *)
(***************************************************************************)
EXTENDS Integers, Sequences, SequencesExt, FiniteSets

BooleanSetting == {"ENABLE_CONNECT_PROTOCOL", "ENABLE_DATAGRAM", "ENABLE_DATAGRAM_DEPRECATED",
             "WEBTRANSPORT_ENABLE_DEPRECATED", "WT_ENABLED"}
Setting == BooleanSetting \cup {"WEBTRANSPORT_MAX_SESSIONS", "WEBTRANSPORT_MAX_SESSIONS_DEPRECATED",
                          "QPACK_MAX_TABLE_CAPACITY"}
Grease == "GREASE"

\* One turn of the loop of Settings::decode.
DecodePair(state, pair) ==
    IF state.kind # "ok" \/ pair[1] = Grease THEN state
    ELSE IF pair[1] \in DOMAIN state.settings THEN [kind |-> "DuplicateSetting"]
    ELSE IF pair[1] \in BooleanSetting /\ pair[2] > 1 THEN [kind |-> "InvalidValue"]
    ELSE [kind |-> "ok", settings |-> (pair[1] :> pair[2]) @@ state.settings]

\* The payload of a SETTINGS frame; cut says that it ends inside a pair.
DecodePairs(pairs, cut) ==
    LET loop[i \in 0..Len(pairs)] ==
          IF i = 0 THEN [kind |-> "ok", settings |-> <<>>]
          ELSE DecodePair(loop[i - 1], pairs[i])
        whole == loop[Len(pairs)]
    IN  IF whole.kind = "ok" /\ cut THEN [kind |-> "InvalidSize"] ELSE whole

\* Settings::read and decode of a control stream [typ, frames], each frame
\* [typ, long, pairs, cut].
ReadSettings(stream) ==
    LET frames == stream.frames
        final == {i \in 1..Len(frames) : frames[i].typ # "grease" \/ frames[i].long}
        frame == frames[Min(final)]
    IN  IF stream.typ # "control" THEN [kind |-> "UnexpectedStreamType"]
        ELSE IF final = {} THEN [kind |-> "UnexpectedEnd"]
        ELSE IF frame.long THEN [kind |-> "MessageTooLong"]
        ELSE IF frame.typ # "settings" THEN [kind |-> "UnexpectedFrame"]
        ELSE DecodePairs(frame.pairs, frame.cut)

\* Settings::encode, in one of the orders a HashMap may have.
EncodeSettings(settings, order) ==
    [typ |-> "control",
     frames |-> <<[typ |-> "settings", long |-> FALSE, cut |-> FALSE,
                   pairs |-> [i \in 1..Len(order) |-> <<order[i], settings[order[i]]>>]]>>]

\* Settings::enable_webtransport_internal.
enable_webtransport_internal(settings, max, deprecated) ==
    LET common == "ENABLE_CONNECT_PROTOCOL" :> 1 @@ "ENABLE_DATAGRAM" :> 1
                  @@ "ENABLE_DATAGRAM_DEPRECATED" :> 1 @@ "WT_ENABLED" :> 1
                  @@ "WEBTRANSPORT_MAX_SESSIONS" :> max
        old == "WEBTRANSPORT_MAX_SESSIONS_DEPRECATED" :> max
               @@ "WEBTRANSPORT_ENABLE_DEPRECATED" :> 1
    IN  IF deprecated THEN common @@ old @@ settings
        ELSE [id \in (DOMAIN common \cup DOMAIN settings) \ DOMAIN old |-> (common @@ settings)[id]]
-----------------------------------------------------------------------------
(***************************************************************************)
(* The verdicts.                                                           *)
(***************************************************************************)
Absent == -1
Value(settings, id) == IF id \in DOMAIN settings THEN settings[id] ELSE Absent

\* Fault: the deprecated parameter counts where the current one says no.
Datagram_Any(settings) ==
    IF 1 \in {Value(settings, "ENABLE_DATAGRAM"), Value(settings, "ENABLE_DATAGRAM_DEPRECATED")}
    THEN 1 ELSE 0

\* Current before deprecated.
Datagram(settings) ==
    IF "ENABLE_DATAGRAM" \in DOMAIN settings THEN settings["ENABLE_DATAGRAM"]
    ELSE Value(settings, "ENABLE_DATAGRAM_DEPRECATED")

\* Settings::supports_webtransport: the number of sessions.
supports_webtransport(settings) ==
    IF Value(settings, "WT_ENABLED") = 1 /\ Value(settings, "ENABLE_DATAGRAM") = 1 THEN 1
    ELSE IF Datagram(settings) # 1 THEN 0
    ELSE IF "WEBTRANSPORT_MAX_SESSIONS" \in DOMAIN settings
         THEN settings["WEBTRANSPORT_MAX_SESSIONS"]
    ELSE IF Value(settings, "WEBTRANSPORT_ENABLE_DEPRECATED") # 1 THEN 0
    ELSE IF "WEBTRANSPORT_MAX_SESSIONS_DEPRECATED" \in DOMAIN settings
         THEN settings["WEBTRANSPORT_MAX_SESSIONS_DEPRECATED"]
    ELSE 1

Legacy(settings) ==
    supports_webtransport(settings) > 0 /\ "WT_ENABLED" \notin DOMAIN settings

\* Settings::supports_webtransport_server, asked by a client.
supports_webtransport_server(settings) ==
    \/ /\ Value(settings, "WT_ENABLED") = 1
       /\ Value(settings, "ENABLE_CONNECT_PROTOCOL") = 1
       /\ Value(settings, "ENABLE_DATAGRAM") = 1
    \/ Legacy(settings)

\* Settings::supports_webtransport_client, asked by a server.
supports_webtransport_client(settings) ==
    \/ Value(settings, "WT_ENABLED") = 1 /\ Value(settings, "ENABLE_DATAGRAM") = 1
    \/ Legacy(settings)
=============================================================================
