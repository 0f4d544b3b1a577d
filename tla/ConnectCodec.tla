---------------------------- MODULE ConnectCodec ----------------------------
(***************************************************************************)
(* webtrans-proto/src/connect.rs: the extended CONNECT request and its     *)
(* response as HEADERS frames, and Client's validate_url, which decides    *)
(* what URLs are asked for.                                                *)
(*                                                                         *)
(* A URL is its scheme, user information, host, path, query and fragment;  *)
(* header values are text, put together from these and parsed again.       *)
(***************************************************************************)
EXTENDS Qpack

NoPart == "-"  \* an absent user, query or fragment

CONSTANT Url  \* the URLs in play, all with a path that starts with "/"

ASSUME UrlAssumption ==
    \A url \in Url : DOMAIN url = {"scheme", "user", "host", "path", "query", "fragment"}

\* Url::authority, and the text a path and query make.
Authority(url) == IF url.user = NoPart THEN url.host ELSE url.user \o "@" \o url.host
Target(url) == url.path
                 \o (IF url.query = NoPart THEN "" ELSE "?" \o url.query)
                 \o (IF url.fragment = NoPart THEN "" ELSE "#" \o url.fragment)

\* Url::parse of "https://{authority}{path}": the URL with that text, if any.
Parsed(authority, path) ==
    {url \in Url : url.scheme = "https" /\ Authority(url) = authority /\ Target(url) = path}

WEBTRANSPORT_PROTOCOL == "webtransport-h3"
LEGACY_WEBTRANSPORT_PROTOCOL == "webtransport"
-----------------------------------------------------------------------------
(***************************************************************************)
(* Frames on the request stream: [typ, long, section].                     *)
(***************************************************************************)

\* read_frame, followed by Frame::read on what it returns: the first frame
\* that is not GREASE.  A frame of any type beyond the limit ends the search.
read_frame(frames) ==
    LET final == {i \in 1..Len(frames) : frames[i].typ # "grease" \/ frames[i].long}
    IN  IF final = {} THEN [kind |-> "UnexpectedEnd"]
        ELSE IF frames[Min(final)].long THEN [kind |-> "MessageTooLong"]
        ELSE [kind |-> "ok", frame |-> frames[Min(final)]]

\* The pseudo-headers must be those of the message.
CheckHeaders(headers, allowed) ==
    IF headers.kind = "ok" /\ ~validate_pseudo_headers(headers.fields, allowed)
    THEN [kind |-> "InvalidPseudoHeader"]
    ELSE headers

\* Frame::HEADERS then Headers::decode, on what read_frame returned.
FrameHeaders(read, allowed) ==
    IF read.kind # "ok" THEN read
    ELSE IF read.frame.typ # "headers" THEN [kind |-> "UnexpectedFrame"]
    ELSE CheckHeaders(DecodeSection(read.frame.section), allowed)

ReadHeaders(frames, allowed) == FrameHeaders(read_frame(frames), allowed)

\* encode_headers_frame.
HeadersFrame(fields, order) ==
    [typ |-> "headers", long |-> FALSE, section |-> EncodeSection(fields, order)]

Get(fields, name) == IF name \in DOMAIN fields THEN fields[name] ELSE NoPart
-----------------------------------------------------------------------------
(***************************************************************************)
(* The request.                                                            *)
(***************************************************************************)

\* ConnectRequest::encode: the fields of the request.  The fragment is not
\* part of a request target.
RequestFields(url) ==
    ":method" :> "CONNECT" @@ ":scheme" :> url.scheme
    @@ ":authority" :> Authority(url)
    @@ ":path" :> Target([url EXCEPT !.fragment = NoPart])
    @@ ":protocol" :> WEBTRANSPORT_PROTOCOL

\* ConnectRequest::decode, once the headers are read: the URL, or an error.
\* The last checks are on the URL that the fields make.
RequestUrl(parsed) ==
    LET url == CHOOSE u \in parsed : TRUE
    IN  IF parsed = {} THEN [kind |-> "InvalidUrl"]
        ELSE IF url.user # NoPart THEN [kind |-> "InvalidAuthority"]
        ELSE IF url.fragment # NoPart THEN [kind |-> "InvalidFragment"]
        ELSE [kind |-> "ok", url |-> url]

RequestOf(headers) ==
    LET fields == headers.fields
    IN  IF headers.kind # "ok" THEN [kind |-> headers.kind]
        ELSE IF Get(fields, ":scheme") # "https" THEN [kind |-> "WrongScheme"]
        ELSE IF ":authority" \notin DOMAIN fields THEN [kind |-> "WrongAuthority"]
        ELSE IF ":path" \notin DOMAIN fields THEN [kind |-> "WrongPath"]
        ELSE IF Get(fields, ":method") # "CONNECT" THEN [kind |-> "WrongMethod"]
        ELSE IF Get(fields, ":protocol") \notin
                  {WEBTRANSPORT_PROTOCOL, LEGACY_WEBTRANSPORT_PROTOCOL}
             THEN [kind |-> "WrongProtocol"]
        ELSE RequestUrl(Parsed(fields[":authority"], fields[":path"]))

\* ConnectRequest::read.
DecodeRequest(frames) ==
    RequestOf(ReadHeaders(frames, {":method", ":scheme", ":authority", ":path", ":protocol"}))

\* Fault: a fragment is not looked at.
validate_url_Fragment(url) ==
    /\ url.scheme = "https"
    /\ url.user = NoPart
    /\ url.host # ""

\* Client::connect's validate_url.
validate_url(url) ==
    /\ url.scheme = "https"
    /\ url.user = NoPart
    /\ url.fragment = NoPart
    /\ url.host # ""
-----------------------------------------------------------------------------
(***************************************************************************)
(* The response.                                                           *)
(***************************************************************************)
Status == {"200", "400", "403", "404", "418"}  \* status codes, on both sides
                                               \*   of the static table

\* ConnectResponse::encode.
ResponseFields(status) ==
    ":status" :> status @@ "sec-webtransport-http3-draft" :> "draft02"

\* ConnectResponse::decode and read.
ResponseOf(headers) ==
    IF headers.kind # "ok" THEN [kind |-> headers.kind]
    ELSE IF ":status" \notin DOMAIN headers.fields THEN [kind |-> "WrongStatus"]
    ELSE IF headers.fields[":status"] \notin Status THEN [kind |-> "InvalidStatus"]
    ELSE [kind |-> "ok", status |-> headers.fields[":status"]]

DecodeResponse(frames) == ResponseOf(ReadHeaders(frames, {":status"}))
=============================================================================
