------------------------------- MODULE Capsule -------------------------------
(***************************************************************************)
(* webtrans-proto/src/capsule.rs: one capsule to and from bytes, and how   *)
(* Session::close and capsule_reason fit a close reason into one.          *)
(*                                                                         *)
(* In a reason the byte 0 stands for a continuation byte, 1 to 4 for the   *)
(* first byte of a character of that width, 5 for the first byte of the    *)
(* replacement character U+FFFD, and a larger one for a byte that UTF-8    *)
(* never has: all that validity, replacement and truncation can tell.  A   *)
(* String is the sequence of the first bytes of its characters.            *)
(***************************************************************************)
EXTENDS VarInt, SequencesExt

CONSTANTS CLOSE_TYPE,  \* CLOSE_WEBTRANSPORT_SESSION_TYPE, 0x2843
          CODE_SIZE,   \* bytes of the application code, 4
          MAX_MESSAGE  \* MAX_MESSAGE_SIZE, 1024 bytes of reason

ASSUME CapsuleConstants ==
    /\ CLOSE_TYPE \in 0..VarIntMax
    /\ CODE_SIZE \in Nat \ {0}
    /\ MAX_MESSAGE \in Nat

MAX_PAYLOAD == CODE_SIZE + MAX_MESSAGE  \* MAX_CLOSE_PAYLOAD_SIZE

CloseCapsule(code, reason) == [kind |-> "close", code |-> code, reason |-> reason]
UnknownCapsule(typ, payload) == [kind |-> "unknown", typ |-> typ, payload |-> payload]

\* Results: a capsule, or a CapsuleError.
Decoded(capsule) == [kind |-> "ok", capsule |-> capsule]
Failed(error) == [kind |-> error]
-----------------------------------------------------------------------------
REPLACEMENT == 5  \* U+FFFD, three bytes long
Character == 1..5
CharWidth(c) == IF c = REPLACEMENT THEN 3 ELSE c

\* The bytes of a String.
Utf8(string) ==
    FlattenSeq([i \in 1..Len(string) |->
                  <<string[i]>> \o [j \in 1..CharWidth(string[i]) - 1 |-> 0]])

\* The byte at i begins a character that is all there.
Whole(bytes, i) ==
    /\ bytes[i] \in Character
    /\ i + CharWidth(bytes[i]) - 1 <= Len(bytes)
    /\ \A k \in i + 1..i + CharWidth(bytes[i]) - 1 : bytes[k] = 0

\* The byte at i continues a character, whether or not that is all there.
Continues(bytes, i) ==
    \E k \in 1..i - 1 :
        /\ bytes[k] \in Character
        /\ i < k + CharWidth(bytes[k])
        /\ \A j \in k + 1..i : bytes[j] = 0

\* String::from_utf8 succeeds.
IsUtf8(bytes) == \A i \in 1..Len(bytes) : Whole(bytes, i) \/ Continues(bytes, i)

\* The String of valid bytes.
Characters(bytes) == SelectSeq(bytes, LAMBDA b : b # 0)

\* String::from_utf8_lossy: U+FFFD for a character that is cut short and for
\* every other byte that belongs to none.
from_utf8_lossy(bytes) ==
    FlattenSeq([i \in 1..Len(bytes) |->
                  IF Continues(bytes, i) THEN <<>>
                  ELSE IF Whole(bytes, i) THEN <<bytes[i]>>
                  ELSE <<REPLACEMENT>>])

FirstOf(s, n) == SubSeq(s, 1, IF Len(s) < n THEN Len(s) ELSE n)

\* How many characters from the first of a String fit a capsule.
Fitting(string) ==
    Max({n \in 0..Len(string) : Len(Utf8(FirstOf(string, n))) <= MAX_MESSAGE})

\* Fault: the limit counts characters.
capsule_reason_Chars(bytes) == FirstOf(from_utf8_lossy(bytes), MAX_MESSAGE)

\* Session::capsule_reason: decode, then pop characters until the bytes fit.
capsule_reason(bytes) ==
    LET string == from_utf8_lossy(bytes) IN FirstOf(string, Fitting(string))

\* Session::close: the bytes of the reason that go into the close queue, cut
\* before they are decoded.
CommandReason(reason) == Utf8(capsule_reason(FirstOf(reason, MAX_MESSAGE)))

\* Capsule::encode of a close capsule: bytes, or <<>> for MessageTooLong.
CapsuleEncode(code, reason) ==
    LET message == Utf8(reason)
    IN  IF Len(message) > MAX_MESSAGE
        THEN <<>>
        ELSE VarIntEncode(CLOSE_TYPE)
               \o VarIntEncode(CODE_SIZE + Len(message))
               \o [i \in 1..CODE_SIZE |-> (code \div RADIX^(CODE_SIZE - i)) % RADIX]
               \o message

\* A capsule by its parts, as any peer may encode it: integers of any width.
RawCapsule(typ, typWidth, lenWidth, payload) ==
    VarIntEncodeIn(typ, typWidth) \o VarIntEncodeIn(Len(payload), lenWidth) \o payload

\* The last match of Capsule::decode, on a complete payload.
DecodePayload(typ, payload) ==
    LET message == SubSeq(payload, CODE_SIZE + 1, Len(payload))
    IN  IF typ # CLOSE_TYPE THEN Decoded(UnknownCapsule(typ, payload))
        ELSE IF Len(payload) < CODE_SIZE THEN Failed("UnexpectedEnd")
        ELSE IF Len(message) > MAX_MESSAGE THEN Failed("MessageTooLong")
        ELSE IF ~IsUtf8(message) THEN Failed("InvalidUtf8")
        ELSE Decoded(CloseCapsule(BigEndian(SubSeq(payload, 1, CODE_SIZE)),
                                  Characters(message)))

\* Capsule::decode of the bytes of a buffer.
CapsuleDecode(buf) ==
    LET typ == VarIntDecode(buf)
        length == VarIntDecode(SubSeq(buf, typ.used + 1, Len(buf)))
        header == typ.used + length.used
    IN  IF ~typ.ok \/ ~length.ok THEN Failed("VarInt")
        ELSE IF length.value > MAX_PAYLOAD THEN Failed("MessageTooLong")
        ELSE IF Len(buf) < header + length.value THEN Failed("UnexpectedEnd")
        ELSE DecodePayload(typ.value, SubSeq(buf, header + 1, header + length.value))
-----------------------------------------------------------------------------
\* Whatever bytes Session::close is given as the reason, the capsule that
\* run_closed sends encodes, is accepted and comes back with the code; the second
\* capsule_reason, on the queued bytes, changes nothing; and the capsule
\* carries every character of the reason that fits.  After them there is
\* nothing or, for a character that the cut left incomplete, one U+FFFD.
CloseReasonFits(code, reason) ==
    LET given == from_utf8_lossy(reason)
        kept == FirstOf(given, Fitting(given))
        sent == capsule_reason(CommandReason(reason))
    IN  /\ CapsuleDecode(CapsuleEncode(code, sent)) = Decoded(CloseCapsule(code, sent))
        /\ Utf8(sent) = CommandReason(reason)
        /\ \/ sent = kept
           \/ sent = Append(kept, REPLACEMENT) /\ Len(kept) < Len(given)
=============================================================================
