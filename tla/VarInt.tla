------------------------------- MODULE VarInt -------------------------------
(***************************************************************************)
(* webtrans-proto/src/varint.rs: QUIC variable-length integers.  The two   *)
(* high bits of the first byte say whether 1, 2, 4 or 8 bytes follow in    *)
(* all.  RADIX is 256 in the code; with 16 the same four lengths hold      *)
(* integers below 2^30, which TLC can count to.                            *)
(***************************************************************************)
EXTENDS Integers, Sequences

CONSTANT RADIX  \* how many values a byte has

ASSUME RadixAssumption == RADIX \in Nat /\ RADIX >= 8 /\ RADIX % 4 = 0

Byte == 0..RADIX - 1
Width == {1, 2, 4, 8}
MAX_SIZE == 8

\* The integers that n bytes can hold are below Bound(n).
Bound(n) == (RADIX \div 4) * RADIX^(n - 1)

\* VarInt::MAX, and the check of from_u64.
VarIntMax == Bound(MAX_SIZE) - 1

\* VarInt::size: the shortest length.
VarIntSize(x) == CHOOSE n \in Width : x < Bound(n)
                    /\ \A k \in Width : x < Bound(k) => n <= k

Tag(n) == CASE n = 1 -> 0 [] n = 2 -> 1 [] n = 4 -> 2 [] n = 8 -> 3

\* x in n bytes, big-endian, its length in the two high bits.  RFC 9000 lets
\* a peer use more bytes than it needs.
VarIntEncodeIn(x, n) ==
    [i \in 1..n |-> ((x \div RADIX^(n - i)) % RADIX)
                       + (IF i = 1 THEN Tag(n) * (RADIX \div 4) ELSE 0)]

\* VarInt::encode.
VarIntEncode(x) == VarIntEncodeIn(x, VarIntSize(x))

\* The length that the two high bits of the first byte give.
VarIntWidth(first) == CHOOSE n \in Width : Tag(n) = first \div (RADIX \div 4)

BigEndian(bytes) ==
    LET value[i \in 0..Len(bytes)] ==
          IF i = 0 THEN 0 ELSE value[i - 1] * RADIX + bytes[i]
    IN  value[Len(bytes)]

\* VarInt::decode and VarInt::read: the integer at the front of buf and how
\* many bytes it took, or ok = FALSE (VarIntUnexpectedEnd) if buf ends first.
VarIntDecode(buf) ==
    LET n == IF buf = <<>> THEN 1 ELSE VarIntWidth(Head(buf))
    IN  IF Len(buf) < n
        THEN [ok |-> FALSE, value |-> 0, used |-> 0]
        ELSE [ok |-> TRUE, used |-> n,
              value |-> BigEndian(<<Head(buf) % (RADIX \div 4)>> \o SubSeq(buf, 2, n))]
-----------------------------------------------------------------------------
\* An integer comes back from its encoding whatever follows it, and no proper
\* prefix of the encoding decodes: read_capsule_frame and decode_buffered_capsule
\* rely on the second to tell an incomplete header from a complete one.
VarIntExact(x, rest) ==
    LET bytes == VarIntEncode(x) IN
    /\ Len(bytes) = VarIntSize(x)
    /\ \A i \in 1..Len(bytes) : bytes[i] \in Byte
    /\ VarIntDecode(bytes \o rest) = [ok |-> TRUE, value |-> x, used |-> Len(bytes)]
    /\ \A k \in 0..Len(bytes) - 1 : ~VarIntDecode(SubSeq(bytes, 1, k)).ok
=============================================================================
