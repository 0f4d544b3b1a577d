------------------------------- MODULE Qpack --------------------------------
(***************************************************************************)
(* webtrans-proto/src/qpack.rs: prefix integers, and field sections built  *)
(* from the static table and literals only.                                *)
(*                                                                         *)
(* Prefix integers are modelled to the byte.  A field section is modelled  *)
(* by its field lines: their representation, table index, name and value.  *)
(* Names and values are atomic; what validate_field tells apart about      *)
(* their characters is which of the sets below they are in.                *)
(***************************************************************************)
EXTENDS Integers, Sequences, SequencesExt, FiniteSets

CONSTANTS USIZE_BITS  \* usize::BITS: 64; TLC counts to 2^22, which leaves one
                      \*   bit for the last group of 7 just as 64 does

ASSUME UsizeAssumption == USIZE_BITS \in 8..64
-----------------------------------------------------------------------------
(***************************************************************************)
(* Prefix integers: the low `size` bits of the first byte, then groups of  *)
(* 7 bits, the lowest first.                                               *)
(***************************************************************************)
Mask(size) == 2^size - 1

\* The first byte of a prefix integer, and a value that does not fit in it.
FirstByte(size, flags, low) == ((flags * 2^size) % 256) + low

LongPrefix(size, flags, value) ==
    LET rest == value - Mask(size)
        groups == CHOOSE n \in 1..USIZE_BITS : rest < 128^n /\ (n = 1 \/ rest >= 128^(n - 1))
    IN  <<FirstByte(size, flags, Mask(size))>>
          \o [i \in 1..groups |-> ((rest \div 128^(i - 1)) % 128)
                                     + (IF i < groups THEN 128 ELSE 0)]

\* Fault: the mask itself is taken to fit in the first byte.
encode_prefix_FitsMask(size, flags, value) ==
    IF value <= Mask(size) THEN <<FirstByte(size, flags, value)>>
    ELSE LongPrefix(size, flags, value)

\* encode_prefix.
encode_prefix(size, flags, value) ==
    IF value < Mask(size) THEN <<FirstByte(size, flags, value)>>
    ELSE LongPrefix(size, flags, value)

Exceeded == -1  \* BoundsExceeded, in the place of a value

\* What one turn of the loop of decode_prefix does with the i-th group: the
\* shift keeps the low USIZE_BITS bits, and only the addition is checked.
Accumulate(value, i, byte) ==
    LET power == 7 * (i - 1)
        increment == ((byte % 128) % 2^(USIZE_BITS - power)) * 2^power
    IN  IF value = Exceeded \/ power >= USIZE_BITS \/ value + increment >= 2^USIZE_BITS
        THEN Exceeded
        ELSE value + increment

\* decode_prefix: the flags, the value and the bytes taken, or an error.
decode_prefix(buf, size) ==
    LET first == Head(buf) % 2^size
        groups == Tail(buf)
        loop[i \in 0..Len(groups)] ==
          IF i = 0 THEN Mask(size)
          ELSE Accumulate(loop[i - 1], i, groups[i])
        stops == {i \in 1..Len(groups) : groups[i] < 128 \/ loop[i] = Exceeded}
        last == CHOOSE i \in stops : \A k \in stops : i <= k
    IN  IF buf = <<>> THEN [kind |-> "UnexpectedEnd"]
        ELSE IF first < Mask(size)
             THEN [kind |-> "ok", flags |-> Head(buf) \div 2^size, value |-> first, used |-> 1]
        ELSE IF stops = {} THEN [kind |-> "UnexpectedEnd"]
        ELSE IF loop[last] = Exceeded THEN [kind |-> "BoundsExceeded"]
        ELSE [kind |-> "ok", flags |-> Head(buf) \div 2^size, value |-> loop[last],
              used |-> last + 1]

\* The integer that the bytes of a prefix integer denote (RFC 7541, 5.1), for
\* groups that end with the buffer.
Denoted(buf, size) ==
    LET sum[i \in 0..Len(buf) - 1] ==
          IF i = 0 THEN Mask(size)
          ELSE sum[i - 1] + (buf[i + 1] % 128) * 128^(i - 1)
    IN  IF Head(buf) % 2^size < Mask(size) THEN Head(buf) % 2^size ELSE sum[Len(buf) - 1]
-----------------------------------------------------------------------------
(***************************************************************************)
(* Fields.                                                                 *)
(***************************************************************************)
Pseudo == {":method", ":scheme", ":authority", ":path", ":protocol", ":status", ":other"}
InvalidName == {"", "Upper"}    \* empty, or not all lower-case token characters
InvalidValue == {"control"}     \* holds a control character other than tab
ConnectionSpecific == {"connection", "proxy-connection", "keep-alive",
                       "transfer-encoding", "upgrade"}

\* validate_field: "ok" or the error.
validate_field(name, value) ==
    IF name \in InvalidName THEN "InvalidFieldName"
    ELSE IF value \in InvalidValue THEN "InvalidFieldValue"
    ELSE IF name \in ConnectionSpecific \/ (name = "te" /\ value # "trailers")
         THEN "ConnectionSpecificField"
    ELSE "ok"

\* PREDEFINED_HEADERS: 99 entries, of which only the pseudo-headers are told
\* apart here.
Methods == <<"CONNECT", "DELETE", "GET", "HEAD", "OPTIONS", "POST", "PUT">>
EarlyStatus == <<"103", "200", "304", "404", "503">>
LateStatus == <<"100", "204", "206", "302", "400", "403", "421", "425", "500">>
StaticTable ==
    [i \in 0..98 |->
        CASE i = 0 -> <<":authority", "">>
          [] i = 1 -> <<":path", "/">>
          [] i \in 15..21 -> <<":method", Methods[i - 14]>>
          [] i \in 22..23 -> <<":scheme", IF i = 22 THEN "http" ELSE "https">>
          [] i \in 24..28 -> <<":status", EarlyStatus[i - 23]>>
          [] i \in 63..71 -> <<":status", LateStatus[i - 62]>>
          [] OTHER -> <<"regular", "">>]

\* StaticTable::lookup: the first entry with the name, and an exact one.
lookup(name, value) ==
    LET named == {i \in DOMAIN StaticTable : StaticTable[i][1] = name}
        exact == {i \in named : StaticTable[i][2] = value}
    IN  [named |-> named # {}, exact |-> exact # {},
         index |-> Min(IF exact # {} THEN exact ELSE named \cup {99})]
-----------------------------------------------------------------------------
(***************************************************************************)
(* Field lines: the bytes up to the first string, and the strings.         *)
(***************************************************************************)
Line(head, strings) == [head |-> head, strings |-> strings]

\* encode_index, encode_literal_value and encode_literal, and the choice
\* between them in Headers::encode.
EncodeLine(name, value) ==
    LET entry == lookup(name, value)
    IN  IF entry.exact THEN Line(encode_prefix(6, 3, entry.index), <<>>)
        ELSE IF entry.named THEN Line(encode_prefix(4, 5, entry.index), <<value>>)
        ELSE Line(encode_prefix(3, 4, Len(name)), <<name, value>>)

\* A field, or an error.
Field(name, value) == [kind |-> "ok", name |-> name, value |-> value]

FromTable(index, value) ==
    IF index.kind # "ok" THEN [kind |-> index.kind]
    ELSE IF index.value \notin DOMAIN StaticTable THEN [kind |-> "UnknownEntry"]
    ELSE Field(StaticTable[index.value][1],
               IF value = <<>> THEN StaticTable[index.value][2] ELSE value[1])

\* The match of Headers::decode on the bits of the first byte, and the
\* decode_index, decode_literal_value or decode_literal it selects.
DecodeLine(line) ==
    LET peek == Head(line.head)
        bit4 == (peek \div 16) % 2
    IN  IF peek \div 64 = 3 THEN FromTable(decode_prefix(line.head, 6), <<>>)
        ELSE IF peek \div 64 = 1 /\ bit4 = 1
             THEN FromTable(decode_prefix(line.head, 4), line.strings)
        ELSE IF peek \div 32 = 1
             THEN LET name == decode_prefix(line.head, 3)
                  IN  IF name.kind # "ok" THEN [kind |-> name.kind]
                      ELSE IF name.value # Len(line.strings[1]) THEN [kind |-> "UnexpectedEnd"]
                      ELSE Field(line.strings[1], line.strings[2])
        ELSE [kind |-> "DynamicEntry"]
-----------------------------------------------------------------------------
(***************************************************************************)
(* Field sections.                                                         *)
(***************************************************************************)

\* The orders Headers::encode may give to the fields: a HashMap has no order,
\* and the sort only puts the pseudo-headers first.
FieldOrders(fields) ==
    {order \in SetToSeqs(DOMAIN fields) : \A i, j \in 1..Len(order) :
        order[i] \in Pseudo /\ order[j] \notin Pseudo => i < j}

\* Headers::encode, in one of the orders.
EncodeSection(fields, order) ==
    [prefix |-> encode_prefix(8, 0, 0) \o encode_prefix(7, 0, 0),
     lines |-> [i \in 1..Len(order) |-> EncodeLine(order[i], fields[order[i]])]]

\* One turn of the loop of Headers::decode.  state is what the loop holds:
\* the fields so far, or an error that has ended it.
AddField(state, field) ==
    LET verdict == validate_field(field.name, field.value)
    IN  IF state.kind # "ok" THEN state
        ELSE IF field.kind # "ok" THEN [kind |-> field.kind]
        ELSE IF verdict # "ok" THEN [kind |-> verdict]
        ELSE IF field.name \in Pseudo /\ DOMAIN state.fields \ Pseudo # {}
             THEN [kind |-> "PseudoHeaderAfterRegularField"]
        ELSE IF field.name \in Pseudo /\ field.name \in DOMAIN state.fields
             THEN [kind |-> "DuplicatePseudoHeader"]
        ELSE [kind |-> "ok", fields |-> (field.name :> field.value) @@ state.fields]

\* Headers::decode: the fields, or an error.  Without a dynamic table the
\* section's prefix must be zero.
DecodeSection(section) ==
    LET count == decode_prefix(section.prefix, 8)
        base == decode_prefix(Tail(section.prefix), 7)
        loop[i \in 0..Len(section.lines)] ==
          IF i = 0 THEN [kind |-> "ok", fields |-> <<>>]
          ELSE AddField(loop[i - 1], DecodeLine(section.lines[i]))
    IN  IF count.value # 0 \/ base.flags # 0 \/ base.value # 0
        THEN [kind |-> "DynamicEntry"]
        ELSE loop[Len(section.lines)]

\* Headers::validate_pseudo_headers.
validate_pseudo_headers(fields, allowed) == DOMAIN fields \cap Pseudo \subseteq allowed
=============================================================================
