------------------------ MODULE CapsuleReaderProofs ------------------------
(***************************************************************************)
(* The capsule reader for every limit, every stream of bytes and every cut *)
(* of it into frames.                                                      *)
(***************************************************************************)
EXTENDS CapsuleReader, FiniteSetTheorems, SequenceTheorems, TLAPS

-----------------------------------------------------------------------------
(***************************************************************************)
(* Parts of a sequence of bytes.                                           *)
(***************************************************************************)

\* The bytes after the first lo, up to the first hi.
LEMMA PartFacts ==
    ASSUME NEW c \in Seq(Byte), NEW lo \in Nat, NEW hi \in Nat, lo <= hi, hi <= Len(c)
    PROVE  /\ SubSeq(c, lo + 1, hi) \in Seq(Byte)
           /\ Len(SubSeq(c, lo + 1, hi)) = hi - lo
           /\ \A i \in 1..hi - lo : SubSeq(c, lo + 1, hi)[i] = c[lo + i]
<1>1. Len(c) \in Nat /\ lo + 1 \in Int /\ hi \in Int
  BY LenProperties
<1>2. \A i \in lo + 1..hi : c[i] \in Byte
  <2>1. \A i \in lo + 1..hi : i \in 1..Len(c)
    BY <1>1
  <2>. QED
    BY <2>1, ElementOfSeq
<1>3. /\ SubSeq(c, lo + 1, hi) \in Seq(Byte)
      /\ Len(SubSeq(c, lo + 1, hi)) = IF lo + 1 <= hi THEN hi - (lo + 1) + 1 ELSE 0
      /\ \A i \in 1..hi - (lo + 1) + 1 : SubSeq(c, lo + 1, hi)[i] = c[(lo + 1) + i - 1]
  BY <1>1, <1>2, SubSeqProperties
<1>. DEFINE d == SubSeq(c, lo + 1, hi)
<1>. HIDE DEF d
<1>4. Len(d) = IF lo + 1 <= hi THEN hi - (lo + 1) + 1 ELSE 0
  BY <1>3 DEF d
<1>5. Len(d) = hi - lo
  BY <1>4
<1>6. ASSUME NEW i \in 1..hi - lo PROVE d[i] = c[lo + i]
  <2>1. i \in 1..hi - (lo + 1) + 1 /\ (lo + 1) + i - 1 = lo + i
    OBVIOUS
  <2>. QED
    BY <1>3, <2>1 DEF d
<1>. QED
  BY <1>3, <1>5, <1>6 DEF d

\* Two parts that follow each other make one.
LEMMA JoinParts ==
    ASSUME NEW c \in Seq(Byte), NEW lo \in Nat, NEW mid \in Nat, NEW hi \in Nat,
           lo <= mid, mid <= hi, hi <= Len(c)
    PROVE  SubSeq(c, lo + 1, mid) \o SubSeq(c, mid + 1, hi) = SubSeq(c, lo + 1, hi)
<1>. DEFINE d == SubSeq(c, lo + 1, mid)
            e == SubSeq(c, mid + 1, hi)
            f == SubSeq(c, lo + 1, hi)
<1>1. Len(c) \in Nat /\ mid <= Len(c) /\ lo <= hi
  BY LenProperties
<1>2. d \in Seq(Byte) /\ Len(d) = mid - lo /\ \A i \in 1..mid - lo : d[i] = c[lo + i]
  BY <1>1, PartFacts
<1>3. e \in Seq(Byte) /\ Len(e) = hi - mid /\ \A i \in 1..hi - mid : e[i] = c[mid + i]
  BY <1>1, PartFacts
<1>4. f \in Seq(Byte) /\ Len(f) = hi - lo /\ \A i \in 1..hi - lo : f[i] = c[lo + i]
  BY <1>1, PartFacts
<1>. HIDE DEF d, e, f
<1>5. /\ d \o e \in Seq(Byte) /\ Len(d \o e) = Len(d) + Len(e)
      /\ \A i \in 1..Len(d) + Len(e) :
            (d \o e)[i] = IF i <= Len(d) THEN d[i] ELSE e[i - Len(d)]
  BY <1>2, <1>3, ConcatProperties
<1>6. Len(d \o e) = hi - lo
  BY <1>2, <1>3, <1>5
<1>7. ASSUME NEW i \in 1..hi - lo PROVE (d \o e)[i] = f[i]
  <2>1. (d \o e)[i] = IF i <= mid - lo THEN d[i] ELSE e[i - (mid - lo)]
    <3>1. i \in 1..Len(d) + Len(e)
      BY <1>2, <1>3
    <3>. QED
      BY <1>2, <1>5, <3>1
  <2>2. CASE i <= mid - lo
    <3>1. i \in 1..mid - lo
      BY <2>2
    <3>. QED
      BY <1>2, <1>4, <2>1, <2>2, <3>1
  <2>3. CASE ~(i <= mid - lo)
    <3>1. i - (mid - lo) \in 1..hi - mid /\ mid + (i - (mid - lo)) = lo + i
      BY <2>3
    <3>2. e[i - (mid - lo)] = c[lo + i]
      BY <1>3, <3>1
    <3>. QED
      BY <1>4, <2>1, <2>3, <3>2
  <2>. QED
    BY <2>2, <2>3
<1>8. d \o e = f
  BY <1>4, <1>5, <1>6, <1>7, SeqEqual
<1>. QED
  BY <1>8 DEF d, e, f

\* A part without its first bytes is the part after them.
LEMMA DropPart ==
    ASSUME NEW c \in Seq(Byte), NEW lo \in Nat, NEW mid \in Nat, NEW hi \in Nat,
           lo <= mid, mid <= hi, hi <= Len(c)
    PROVE  SubSeq(SubSeq(c, lo + 1, hi), (mid - lo) + 1, hi - lo) = SubSeq(c, mid + 1, hi)
<1>. DEFINE f == SubSeq(c, lo + 1, hi)
            e == SubSeq(c, mid + 1, hi)
            d == SubSeq(f, (mid - lo) + 1, hi - lo)
<1>1. Len(c) \in Nat /\ lo <= hi /\ mid - lo \in Nat /\ hi - lo \in Nat /\ mid - lo <= hi - lo
  BY LenProperties
<1>2. e \in Seq(Byte) /\ Len(e) = hi - mid /\ \A i \in 1..hi - mid : e[i] = c[mid + i]
  BY <1>1, PartFacts
<1>3. f \in Seq(Byte) /\ Len(f) = hi - lo /\ \A i \in 1..hi - lo : f[i] = c[lo + i]
  BY <1>1, PartFacts
<1>. HIDE DEF e, f
<1>4. hi - lo <= Len(f)
  BY <1>1, <1>3
<1>5. /\ d \in Seq(Byte) /\ Len(d) = (hi - lo) - (mid - lo)
      /\ \A i \in 1..(hi - lo) - (mid - lo) : d[i] = f[(mid - lo) + i]
  BY <1>1, <1>3, <1>4, PartFacts
<1>. HIDE DEF d
<1>6. Len(d) = hi - mid
  BY <1>5
<1>7. ASSUME NEW i \in 1..hi - mid PROVE d[i] = e[i]
  <2>1. i \in 1..(hi - lo) - (mid - lo) /\ (mid - lo) + i \in 1..hi - lo
        /\ lo + ((mid - lo) + i) = mid + i
    OBVIOUS
  <2>. QED
    BY <1>2, <1>3, <1>5, <2>1
<1>8. d = e
  BY <1>2, <1>5, <1>6, <1>7, SeqEqual
<1>. QED
  BY <1>8 DEF d, e, f
-----------------------------------------------------------------------------
(***************************************************************************)
(* Variable-length integers.                                               *)
(***************************************************************************)

\* The two high bits of a byte always name one of the four lengths.
LEMMA WidthFacts ==
    ASSUME NEW b \in Byte
    PROVE  VarIntWidth(b) \in Width /\ VarIntWidth(b) \in 1..MAX_SIZE
<1>1. PICK q \in Nat : RADIX = 4 * q /\ q >= 2
  <2>1. RADIX = 4 * (RADIX \div 4) /\ RADIX \div 4 >= 2 /\ RADIX \div 4 \in Nat
    BY RadixAssumption
  <2>. QED
    BY <2>1
<1>2. RADIX \div 4 = q /\ b \in 0..4 * q - 1
  BY <1>1 DEF Byte
<1>3. b \div q \in 0..3
  BY <1>1, <1>2
<1>4. \E n \in Width : Tag(n) = b \div q
  BY <1>3 DEF Width, Tag
<1>5. VarIntWidth(b) \in Width
  BY <1>2, <1>4 DEF VarIntWidth
<1>. QED
  BY <1>5 DEF Width, MAX_SIZE

\* An integer at the front of a buffer: its first byte gives its length, and
\* it is there as soon as that many bytes are.
LEMMA IntegerFacts ==
    ASSUME NEW c \in Seq(Byte)
    PROVE  /\ c = <<>> => ~VarIntDecode(c).ok
           /\ c # <<>> =>
                 /\ VarIntWidth(c[1]) \in 1..MAX_SIZE
                 /\ VarIntDecode(c).ok <=> VarIntWidth(c[1]) <= Len(c)
                 /\ VarIntDecode(c).ok =>
                       /\ VarIntDecode(c).used = VarIntWidth(c[1])
                       /\ VarIntDecode(c).value =
                             BigEndian(<<c[1] % (RADIX \div 4)>> \o SubSeq(c, 2, VarIntWidth(c[1])))
<1>1. ASSUME c = <<>> PROVE ~VarIntDecode(c).ok
  <2>1. Len(c) < 1
    BY <1>1
  <2>. QED
    BY <1>1, <2>1 DEF VarIntDecode
<1>2. ASSUME c # <<>>
      PROVE  /\ VarIntWidth(c[1]) \in 1..MAX_SIZE
             /\ VarIntDecode(c).ok <=> VarIntWidth(c[1]) <= Len(c)
             /\ VarIntDecode(c).ok =>
                   /\ VarIntDecode(c).used = VarIntWidth(c[1])
                   /\ VarIntDecode(c).value =
                         BigEndian(<<c[1] % (RADIX \div 4)>> \o SubSeq(c, 2, VarIntWidth(c[1])))
  <2>1. Len(c) \in Nat \ {0} /\ Head(c) = c[1] /\ c[1] \in Byte
    BY <1>2, EmptySeq, ElementOfSeq
  <2>. DEFINE n == VarIntWidth(c[1])
              value == BigEndian(<<c[1] % (RADIX \div 4)>> \o SubSeq(c, 2, n))
  <2>2. n \in 1..MAX_SIZE /\ n \in Nat
    BY <2>1, WidthFacts DEF MAX_SIZE
  <2>3. VarIntDecode(c) = IF Len(c) < n
                          THEN [ok |-> FALSE, value |-> 0, used |-> 0]
                          ELSE [ok |-> TRUE, used |-> n, value |-> value]
    BY <1>2, <2>1 DEF VarIntDecode
  <2>. HIDE DEF n, value
  <2>4. CASE Len(c) < n
    BY <2>1, <2>2, <2>3, <2>4 DEF n
  <2>5. CASE ~(Len(c) < n)
    <3>1. VarIntDecode(c).ok = TRUE /\ VarIntDecode(c).used = n /\ VarIntDecode(c).value = value
      BY <2>3, <2>5
    <3>2. n <= Len(c)
      BY <2>1, <2>2, <2>5
    <3>. QED
      BY <2>2, <3>1, <3>2 DEF n, value
  <2>. QED
    BY <2>4, <2>5
<1>. QED
  BY <1>1, <1>2

\* Two buffers that agree wherever both have a byte.
Agree(b, c) == \A i \in 1..Len(b) : i <= Len(c) => b[i] = c[i]

\* A buffer that agrees with one whose integer is complete holds the same
\* integer, or too few bytes for it.
LEMMA SameInteger ==
    ASSUME NEW b \in Seq(Byte), NEW c \in Seq(Byte), Agree(b, c), VarIntDecode(c).ok
    PROVE  /\ VarIntDecode(c).used \in 1..MAX_SIZE /\ VarIntDecode(c).used <= Len(c)
           /\ VarIntDecode(b).ok <=> VarIntDecode(c).used <= Len(b)
           /\ VarIntDecode(b).ok => /\ VarIntDecode(b).used = VarIntDecode(c).used
                                    /\ VarIntDecode(b).value = VarIntDecode(c).value
<1>. DEFINE n == VarIntWidth(c[1])
<1>0. Len(c) \in Nat /\ Len(b) \in Nat
  BY LenProperties
<1>1. c # <<>>
  BY IntegerFacts, Zenon
<1>a. n \in 1..MAX_SIZE /\ n <= Len(c) /\ VarIntDecode(c).used = n
  BY <1>1, IntegerFacts, Zenon
<1>2. n \in 1..MAX_SIZE /\ n \in Nat /\ n <= Len(c) /\ VarIntDecode(c).used = n
  BY <1>a DEF MAX_SIZE
<1>3. CASE b = <<>>
  <2>1. Len(b) = 0 /\ ~(n <= Len(b))
    BY <1>2, <1>3
  <2>2. ~VarIntDecode(b).ok /\ VarIntDecode(b).ok \in BOOLEAN
    BY <1>3, IntegerFacts DEF VarIntDecode
  <2>. QED
    BY <1>2, <2>1, <2>2
<1>4. CASE b # <<>>
  <2>1. 1 \in 1..Len(b) /\ 1 <= Len(c)
    BY <1>0, <1>2, <1>4, EmptySeq
  <2>2. b[1] = c[1]
    BY <2>1 DEF Agree
  <2>3. VarIntDecode(b).ok <=> n <= Len(b)
    BY <1>4, <2>2, IntegerFacts
  <2>4. ASSUME n <= Len(b)
        PROVE  SubSeq(b, 2, n) = SubSeq(c, 2, n)
    <3>1. \A i \in 2..n : b[i] \in Byte /\ c[i] \in Byte /\ b[i] = c[i]
      <4>. SUFFICES ASSUME NEW i \in 2..n PROVE b[i] \in Byte /\ c[i] \in Byte /\ b[i] = c[i]
        OBVIOUS
      <4>1. i \in 1..Len(b) /\ i \in 1..Len(c) /\ i <= Len(c)
        BY <1>1, <1>2, <2>4
      <4>. QED
        BY <4>1, ElementOfSeq DEF Agree
    <3>2. /\ SubSeq(b, 2, n) \in Seq(Byte) /\ Len(SubSeq(b, 2, n)) = IF 2 <= n THEN n - 2 + 1 ELSE 0
          /\ \A i \in 1..n - 2 + 1 : SubSeq(b, 2, n)[i] = b[2 + i - 1]
      BY <1>2, <3>1, SubSeqProperties
    <3>3. /\ SubSeq(c, 2, n) \in Seq(Byte) /\ Len(SubSeq(c, 2, n)) = IF 2 <= n THEN n - 2 + 1 ELSE 0
          /\ \A i \in 1..n - 2 + 1 : SubSeq(c, 2, n)[i] = c[2 + i - 1]
      BY <1>2, <3>1, SubSeqProperties
    <3>4. ASSUME NEW i \in 1..Len(SubSeq(b, 2, n))
          PROVE  SubSeq(b, 2, n)[i] = SubSeq(c, 2, n)[i]
      <4>1. i \in 1..n - 2 + 1 /\ 2 + i - 1 \in 2..n
        BY <1>2, <3>2
      <4>. QED
        BY <3>1, <3>2, <3>3, <4>1
    <3>. QED
      BY <3>2, <3>3, <3>4, SeqEqual
  <2>. HIDE DEF n
  <2>5. CASE n <= Len(b)
    <3>1. VarIntDecode(b).used = n
      BY <1>4, <2>2, <2>3, <2>5, IntegerFacts DEF n
    <3>2. VarIntDecode(b).value = BigEndian(<<c[1] % (RADIX \div 4)>> \o SubSeq(b, 2, n))
      BY <1>4, <2>2, <2>3, <2>5, IntegerFacts DEF n
    <3>3. VarIntDecode(c).value = BigEndian(<<c[1] % (RADIX \div 4)>> \o SubSeq(c, 2, n))
      BY <1>1, IntegerFacts DEF n
    <3>4. VarIntDecode(b).value = VarIntDecode(c).value
      BY <2>4, <2>5, <3>2, <3>3
    <3>. QED
      BY <1>2, <2>3, <2>5, <3>1, <3>4
  <2>6. CASE ~(n <= Len(b))
    BY <1>2, <2>3, <2>6
  <2>. QED
    BY <2>5, <2>6
<1>. QED
  BY <1>3, <1>4
-----------------------------------------------------------------------------
(***************************************************************************)
(* decode_buffered_capsule on a buffer that begins with a capsule c, or    *)
(* with a part of it.                                                      *)
(***************************************************************************)

\* What follows the first t bytes of a buffer.
LEMMA RestFacts ==
    ASSUME NEW c \in Seq(Byte), NEW t \in Nat, t <= Len(c)
    PROVE  /\ SubSeq(c, t + 1, Len(c)) \in Seq(Byte)
           /\ Len(SubSeq(c, t + 1, Len(c))) = Len(c) - t
           /\ \A i \in 1..Len(c) - t : SubSeq(c, t + 1, Len(c))[i] = c[t + i]
<1>1. Len(c) \in Nat /\ Len(c) <= Len(c)
  BY LenProperties
<1>. QED
  BY <1>1, PartFacts

\* Buffers that agree still do when both lose their first bytes.
LEMMA RestAgrees ==
    ASSUME NEW b \in Seq(Byte), NEW c \in Seq(Byte), Agree(b, c),
           NEW t \in Nat, t <= Len(b), t <= Len(c)
    PROVE  Agree(SubSeq(b, t + 1, Len(b)), SubSeq(c, t + 1, Len(c)))
<1>. DEFINE L == Len(b)
            M == Len(c)
            d == SubSeq(b, t + 1, L)
            e == SubSeq(c, t + 1, M)
<1>1. L \in Nat /\ M \in Nat
  BY LenProperties
<1>2. Len(d) = L - t /\ Len(e) = M - t
  BY RestFacts
<1>3. (\A i \in 1..L - t : d[i] = b[t + i]) /\ (\A i \in 1..M - t : e[i] = c[t + i])
  BY RestFacts
<1>4. \A i \in 1..L : i <= M => b[i] = c[i]
  BY DEF Agree
<1>. HIDE DEF L, M, d, e
<1>5. ASSUME NEW i \in 1..L - t, i <= M - t PROVE d[i] = e[i]
  <2>1. i \in 1..M - t /\ t + i \in 1..L /\ t + i <= M
    BY <1>1, <1>5
  <2>. QED
    BY <1>3, <1>4, <2>1
<1>6. \A i \in 1..Len(d) : i <= Len(e) => d[i] = e[i]
  BY <1>2, <1>5
<1>7. Agree(d, e)
  BY <1>6 DEF Agree
<1>. QED
  BY <1>7 DEF d, e, L, M

\* A header is at most two integers long.
LEMMA HeaderFacts ==
    ASSUME NEW c \in Seq(Byte), Framed(c)
    PROVE  /\ TypeOf(c).used \in 1..MAX_SIZE /\ LengthOf(c).used \in 1..MAX_SIZE
           /\ HeaderOf(c) \in 2..2 * MAX_SIZE
           /\ LengthOf(c).value \in Nat /\ Len(c) = HeaderOf(c) + LengthOf(c).value
           /\ TypeOf(c).used <= Len(c)
           /\ SubSeq(c, TypeOf(c).used + 1, Len(c)) \in Seq(Byte)
<1>1. VarIntDecode(c).ok /\ TypeOf(c) = VarIntDecode(c)
  BY DEF Framed, TypeOf
<1>2. Agree(c, c)
  BY DEF Agree
<1>3. TypeOf(c).used \in 1..MAX_SIZE /\ TypeOf(c).used <= Len(c)
  BY <1>1, <1>2, SameInteger, Zenon
<1>4. TypeOf(c).used \in Nat
  BY <1>3 DEF MAX_SIZE
<1>. DEFINE d == SubSeq(c, TypeOf(c).used + 1, Len(c))
<1>5. d \in Seq(Byte)
  BY <1>3, <1>4, RestFacts
<1>6. VarIntDecode(d).ok /\ LengthOf(c) = VarIntDecode(d)
  BY DEF Framed, LengthOf
<1>. HIDE DEF d
<1>7. Agree(d, d)
  BY DEF Agree
<1>8. LengthOf(c).used \in 1..MAX_SIZE
  BY <1>5, <1>6, <1>7, SameInteger, Zenon
<1>9. HeaderOf(c) \in 2..2 * MAX_SIZE
  BY <1>3, <1>8 DEF HeaderOf, MAX_SIZE
<1>. QED
  BY <1>3, <1>5, <1>8, <1>9 DEF Framed, d

\* A buffer that agrees with a capsule starts with it, once it is long enough.
LEMMA WholeCapsule ==
    ASSUME NEW b \in Seq(Byte), NEW c \in Seq(Byte), Agree(b, c), Len(c) <= Len(b)
    PROVE  SubSeq(b, 1, Len(c)) = c
<1>. DEFINE L == Len(b)
            M == Len(c)
            d == SubSeq(b, 1, M)
<1>1. L \in Nat /\ M \in Nat /\ M <= L
  BY LenProperties
<1>2. \A i \in 1..M : b[i] \in Byte /\ b[i] = c[i]
  <2>1. \A i \in 1..M : i \in 1..L /\ i <= M
    BY <1>1
  <2>. QED
    BY <2>1, ElementOfSeq DEF Agree
<1>3. /\ d \in Seq(Byte) /\ Len(d) = IF 1 <= M THEN M - 1 + 1 ELSE 0
      /\ \A i \in 1..M - 1 + 1 : d[i] = b[1 + i - 1]
  <2>1. 1 \in Int /\ M \in Int
    BY <1>1
  <2>. QED
    BY <1>2, <2>1, SubSeqProperties
<1>. HIDE DEF d
<1>4. Len(d) = M
  BY <1>1, <1>3
<1>5. \A i \in 1..Len(d) : d[i] = c[i]
  <2>. SUFFICES ASSUME NEW i \in 1..M PROVE d[i] = c[i]
    BY <1>4
  <2>. HIDE DEF M
  <2>1. i \in 1..M - 1 + 1 /\ 1 + i - 1 = i
    BY <1>1
  <2>. QED
    BY <1>2, <1>3, <2>1
<1>6. d = c
  BY <1>3, <1>4, <1>5, SeqEqual
<1>. QED
  BY <1>6 DEF d

\* decode_buffered_capsule waits for the header, refuses a capsule that is too
\* long as soon as it knows, waits for the payload, and decodes the capsule and
\* not a byte more, whatever follows it.
THEOREM BufferedDecodeExact ==
    ASSUME NEW b \in Seq(Byte), NEW c \in Seq(Byte), Agree(b, c), Framed(c)
    PROVE  decode_buffered_capsule(b) =
             IF Len(b) < HeaderOf(c) THEN Buffered(Failed("incomplete"), 0)
             ELSE IF LengthOf(c).value > MAX_PAYLOAD THEN Buffered(Failed("MessageTooLong"), 0)
             ELSE IF Len(b) < Len(c) THEN Buffered(Failed("incomplete"), 0)
             ELSE Buffered(CapsuleDecode(c), Len(c))
<1>. DEFINE t == TypeOf(c).used
            l == LengthOf(c).used
            v == LengthOf(c).value
            L == Len(b)
            T == VarIntDecode(b)
            d == SubSeq(c, t + 1, Len(c))
            U == VarIntDecode(SubSeq(b, T.used + 1, L))
<1>1. /\ t \in 1..MAX_SIZE /\ t \in Nat /\ l \in 1..MAX_SIZE /\ l \in Nat /\ v \in Nat
      /\ t <= Len(c) /\ d \in Seq(Byte) /\ HeaderOf(c) = t + l /\ Len(c) = t + l + v
      /\ L \in Nat
  <2>1. /\ t \in 1..MAX_SIZE /\ l \in 1..MAX_SIZE /\ v \in Nat /\ Len(c) = HeaderOf(c) + v
        /\ t <= Len(c) /\ d \in Seq(Byte) /\ HeaderOf(c) = t + l
    BY HeaderFacts DEF HeaderOf
  <2>. HIDE DEF t, l, v, d
  <2>. QED
    BY <2>1, LenProperties DEF MAX_SIZE
<1>2. VarIntDecode(c).ok /\ TypeOf(c) = VarIntDecode(c)
  BY DEF Framed, TypeOf
<1>3. VarIntDecode(d).ok /\ LengthOf(c) = VarIntDecode(d)
  BY DEF Framed, LengthOf
<1>4. (T.ok <=> t <= L) /\ (T.ok => T.used = t)
  BY <1>2, SameInteger, Zenon
<1>5. decode_buffered_capsule(b) =
        IF ~T.ok \/ ~U.ok THEN Buffered(Failed("incomplete"), 0)
        ELSE IF U.value > MAX_PAYLOAD THEN Buffered(Failed("MessageTooLong"), 0)
        ELSE IF L < T.used + U.used + U.value THEN Buffered(Failed("incomplete"), 0)
        ELSE Buffered(CapsuleDecode(SubSeq(b, 1, T.used + U.used + U.value)),
                      T.used + U.used + U.value)
  BY Zenon DEF decode_buffered_capsule
<1>6. CASE ~(t <= L)
  <2>1. ~T.ok
    BY <1>4, <1>6, Zenon
  <2>2. decode_buffered_capsule(b) = Buffered(Failed("incomplete"), 0)
    BY <1>5, <2>1, Zenon
  <2>. HIDE DEF t, l, v, L
  <2>3. L < HeaderOf(c)
    BY <1>1, <1>6
  <2>. QED
    BY <2>2, <2>3, Zenon DEF L
<1>7. CASE t <= L
  <2>. DEFINE e == SubSeq(b, t + 1, L)
  <2>1. T.ok /\ T.used = t /\ U = VarIntDecode(e)
    BY <1>4, <1>7, Zenon
  <2>2. e \in Seq(Byte) /\ Len(e) = L - t
    BY <1>1, <1>7, RestFacts
  <2>3. Agree(e, d)
    BY <1>1, <1>7, RestAgrees
  <2>4. /\ VarIntDecode(e).ok <=> l <= Len(e)
        /\ VarIntDecode(e).ok => VarIntDecode(e).used = l /\ VarIntDecode(e).value = v
    <3>. HIDE DEF e, d
    <3>. QED
      BY <1>1, <1>3, <2>2, <2>3, SameInteger, Zenon
  <2>5. (U.ok <=> l <= L - t) /\ (U.ok => U.used = l /\ U.value = v)
    BY <2>1, <2>2, <2>4, Zenon
  <2>. HIDE DEF U, T
  <2>6. CASE ~(l <= L - t)
    <3>1. decode_buffered_capsule(b) = Buffered(Failed("incomplete"), 0)
      BY <1>5, <2>5, <2>6, Zenon
    <3>. HIDE DEF t, l, v, L
    <3>2. L < HeaderOf(c)
      BY <1>1, <1>7, <2>6
    <3>. QED
      BY <3>1, <3>2, Zenon DEF L
  <2>7. CASE l <= L - t
    <3>1. U.ok /\ U.used = l /\ U.value = v
      BY <2>5, <2>7, Zenon
    <3>. HIDE DEF t, l, v, L
    <3>2. ~(L < HeaderOf(c))
      BY <1>1, <1>7, <2>7
    <3>3. decode_buffered_capsule(b) =
            IF v > MAX_PAYLOAD THEN Buffered(Failed("MessageTooLong"), 0)
            ELSE IF L < Len(c) THEN Buffered(Failed("incomplete"), 0)
            ELSE Buffered(CapsuleDecode(SubSeq(b, 1, Len(c))), Len(c))
      BY <1>1, <1>5, <2>1, <3>1, Zenon
    <3>4. ~(L < Len(c)) => SubSeq(b, 1, Len(c)) = c
      <4>1. ~(L < Len(c)) => Len(c) <= L
        BY <1>1
      <4>. QED
        BY <4>1, WholeCapsule DEF L
    <3>. QED
      BY <3>2, <3>3, <3>4, Zenon DEF L, v
  <2>. QED
    BY <2>6, <2>7
<1>. QED
  BY <1>6, <1>7

\* With nothing buffered there is nothing to decode.
LEMMA EmptyBuffer == decode_buffered_capsule(<<>>) = Buffered(Failed("incomplete"), 0)
<1>1. <<>> \in Seq(Byte)
  BY EmptySeq
<1>2. ~VarIntDecode(<<>>).ok
  BY <1>1, IntegerFacts, Zenon
<1>. QED
  BY <1>2, Zenon DEF decode_buffered_capsule

\* Capsule::decode of a complete capsule decides, and refuses one that is too
\* long before it looks at its type.
LEMMA VerdictFacts ==
    ASSUME NEW c \in Seq(Byte), Framed(c)
    PROVE  /\ CapsuleDecode(c).kind # "incomplete"
           /\ LengthOf(c).value > MAX_PAYLOAD => CapsuleDecode(c) = Failed("MessageTooLong")
<1>. DEFINE h == HeaderOf(c)
            v == LengthOf(c).value
<1>1. ASSUME NEW typ, NEW payload PROVE DecodePayload(typ, payload).kind # "incomplete"
  BY DEF DecodePayload, Decoded, Failed
<1>2. TypeOf(c).ok /\ LengthOf(c).ok
  BY DEF Framed
<1>3. CapsuleDecode(c) =
        IF ~TypeOf(c).ok \/ ~LengthOf(c).ok THEN Failed("VarInt")
        ELSE IF v > MAX_PAYLOAD THEN Failed("MessageTooLong")
        ELSE IF Len(c) < h + v THEN Failed("UnexpectedEnd")
        ELSE DecodePayload(TypeOf(c).value, SubSeq(c, h + 1, h + v))
  BY Zenon DEF CapsuleDecode, TypeOf, LengthOf, HeaderOf
<1>4. CapsuleDecode(c) =
        IF v > MAX_PAYLOAD THEN Failed("MessageTooLong")
        ELSE IF Len(c) < h + v THEN Failed("UnexpectedEnd")
        ELSE DecodePayload(TypeOf(c).value, SubSeq(c, h + 1, h + v))
  BY <1>2, <1>3, Zenon
<1>. HIDE DEF h, v
<1>5. Failed("MessageTooLong").kind # "incomplete" /\ Failed("UnexpectedEnd").kind # "incomplete"
  BY DEF Failed
<1>6. CapsuleDecode(c).kind # "incomplete"
  BY <1>1, <1>4, <1>5
<1>. QED
  BY <1>4, <1>6 DEF v
-----------------------------------------------------------------------------
(***************************************************************************)
(* Where the capsules end in what the peer writes.                         *)
(***************************************************************************)

\* The ends increase from 0 to the last byte.
LEMMA WrittenFacts ==
    ASSUME written \in Written
    PROVE  /\ Bytes \in Seq(Byte) /\ Len(Bytes) \in Nat /\ Count \in Nat
           /\ EndOf(written, 0) = 0 /\ EndOf(written, Count) = Len(Bytes)
           /\ \A j, k \in 0..Count : j < k => EndOf(written, j) < EndOf(written, k)
           /\ \A k \in 1..Count : Framed(CapsuleAt(written, k))
           /\ \A k \in 0..Count : EndOf(written, k) \in Nat /\ EndOf(written, k) <= Len(Bytes)
<1>1. /\ Bytes \in Seq(Byte) /\ written.ends \in Seq(Nat)
      /\ EndOf(written, Count) = Len(Bytes)
      /\ \A j, k \in 0..Count : j < k => EndOf(written, j) < EndOf(written, k)
      /\ \A k \in 1..Count : Framed(CapsuleAt(written, k))
  BY ReaderConstants DEF Bytes, Count
<1>2. Len(Bytes) \in Nat /\ Count \in Nat
  BY <1>1, LenProperties DEF Count
<1>3. EndOf(written, 0) = 0
  BY DEF EndOf
<1>4. ASSUME NEW k \in 0..Count PROVE EndOf(written, k) \in Nat
  <2>1. CASE k = 0
    BY <1>3, <2>1
  <2>2. CASE k # 0
    <3>1. k \in 1..Len(written.ends)
      BY <1>2, <2>2 DEF Count
    <3>. QED
      BY <1>1, <2>2, <3>1, ElementOfSeq DEF EndOf
  <2>. QED
    BY <2>1, <2>2
<1>5. ASSUME NEW k \in 0..Count PROVE EndOf(written, k) <= Len(Bytes)
  <2>1. CASE k = Count
    BY <1>1, <1>2, <2>1
  <2>2. CASE k < Count
    <3>1. Count \in 0..Count
      BY <1>2
    <3>2. EndOf(written, k) < EndOf(written, Count)
      BY <1>1, <2>2, <3>1
    <3>. QED
      BY <1>1, <1>2, <1>4, <3>2
  <2>. QED
    BY <1>2, <2>1, <2>2
<1>. QED
  BY <1>1, <1>2, <1>3, <1>4, <1>5

\* The capsules complete in the first n bytes are the first Complete(n).
LEMMA CompleteFacts ==
    ASSUME written \in Written, NEW n \in Nat
    PROVE  /\ Complete(n) \in 0..Count
           /\ \A k \in 1..Count : k <= Complete(n) <=> EndOf(written, k) <= n
<1>. DEFINE S == {k \in 1..Count : EndOf(written, k) <= n}
            m == Cardinality(S)
<1>1. Count \in Nat /\ Complete(n) = m
  BY WrittenFacts DEF Complete
<1>2. /\ \A k \in 1..Count : EndOf(written, k) \in Nat
      /\ \A j, k \in 1..Count : j < k => EndOf(written, j) < EndOf(written, k)
  <2>1. \A k \in 1..Count : k \in 0..Count
    BY <1>1
  <2>. QED
    BY <2>1, WrittenFacts
<1>3. /\ IsFiniteSet(1..Count) /\ Cardinality(1..Count) = Count
  BY <1>1, FS_Interval
<1>4. S \in SUBSET (1..Count) /\ IsFiniteSet(S) /\ m \in Nat /\ m <= Count
  <2>1. S \in SUBSET (1..Count)
    OBVIOUS
  <2>2. IsFiniteSet(S) /\ Cardinality(S) <= Cardinality(1..Count)
    <3>. HIDE DEF S
    <3>. QED
      BY <1>3, <2>1, FS_Subset
  <2>3. m \in Nat
    <3>. HIDE DEF S
    <3>. QED
      BY <2>2, FS_CardinalityType
  <2>. QED
    BY <1>3, <2>1, <2>2, <2>3
<1>5. ASSUME NEW k \in 1..Count, EndOf(written, k) <= n PROVE k <= m
  <2>1. 1..k \in SUBSET S
    <3>. SUFFICES ASSUME NEW j \in 1..k PROVE j \in S
      BY Zenon
    <3>1. j \in 1..Count /\ (j = k \/ j < k)
      BY <1>1
    <3>2. EndOf(written, j) <= n
      BY <1>2, <1>5, <3>1
    <3>. QED
      BY <3>1, <3>2
  <2>2. k \in Nat /\ Cardinality(1..k) = k
    BY <1>1, FS_Interval
  <2>. HIDE DEF S
  <2>3. Cardinality(1..k) <= Cardinality(S)
    BY <1>4, <2>1, FS_Subset
  <2>. QED
    BY <2>2, <2>3
<1>6. ASSUME NEW k \in 1..Count, ~(EndOf(written, k) <= n) PROVE m < k
  <2>1. S \in SUBSET (1..k - 1)
    <3>. SUFFICES ASSUME NEW j \in S PROVE j \in 1..k - 1
      BY Zenon
    <3>1. j \in 1..Count /\ EndOf(written, j) <= n
      OBVIOUS
    <3>2. ~(k < j) /\ k # j
      BY <1>2, <1>6, <3>1
    <3>. QED
      BY <1>1, <3>1, <3>2
  <2>2. k \in Nat /\ k - 1 \in Nat /\ IsFiniteSet(1..k - 1) /\ Cardinality(1..k - 1) = k - 1
    BY <1>1, FS_Interval
  <2>. HIDE DEF S
  <2>3. Cardinality(S) <= Cardinality(1..k - 1)
    BY <2>1, <2>2, FS_Subset
  <2>. QED
    BY <1>4, <2>2, <2>3
<1>. HIDE DEF m
<1>7. ASSUME NEW k \in 1..Count PROVE k <= m <=> EndOf(written, k) <= n
  BY <1>1, <1>4, <1>5, <1>6
<1>. QED
  BY <1>1, <1>4, <1>7
-----------------------------------------------------------------------------
(***************************************************************************)
(* What the reader decides, in a state of the invariant.                   *)
(***************************************************************************)
Next_ == Len(got) + 1
Following == CapsuleAt(written, Next_)

\* The numbers of the invariant.
LEMMA PlaceFacts ==
    ASSUME IInv
    PROVE  /\ written \in Written /\ Bytes \in Seq(Byte) /\ pending \in Seq(Byte)
           /\ cut \in Nat /\ OnWire \in Nat /\ Taken \in Nat /\ Taken <= cut
           /\ cut <= Len(Bytes) /\ Len(Bytes) \in Nat /\ Count \in Nat
           /\ Len(got) \in Nat /\ Len(got) \in 0..Count
           /\ EndOf(written, Len(got)) \in Nat /\ EndOf(written, Len(got)) <= Taken
           /\ Len(pending) = Taken - EndOf(written, Len(got))
           /\ pending = SubSeq(Bytes, EndOf(written, Len(got)) + 1, Taken)
<1>1. written \in Written /\ cut \in 0..Len(Bytes) /\ got \in Seq(Delivered)
      /\ pending \in Seq(Byte)
  BY DEF IInv, TypeOK
<1>2. Bytes \in Seq(Byte) /\ Len(Bytes) \in Nat /\ Count \in Nat /\ Len(got) \in Nat
  BY <1>1, WrittenFacts, LenProperties
<1>3. OnWire \in 0..MAX_FRAME /\ OnWire <= cut /\ MAX_FRAME \in Nat
  BY ReaderConstants DEF IInv, FramesInOrder
<1>4. cut \in Nat /\ OnWire \in Nat /\ Taken \in Nat /\ Taken <= cut /\ cut <= Len(Bytes)
  BY <1>1, <1>2, <1>3 DEF Taken
<1>5. /\ Len(got) <= Count /\ EndOf(written, Len(got)) <= Taken
      /\ pending = SubSeq(Bytes, EndOf(written, Len(got)) + 1, Taken)
  BY DEF IInv, AtBoundary
<1>6. Len(got) \in 0..Count
  BY <1>2, <1>5
<1>7. EndOf(written, Len(got)) \in Nat
  BY <1>1, <1>6, WrittenFacts
<1>8. Taken <= Len(Bytes)
  BY <1>2, <1>4
<1>9. Len(pending) = Taken - EndOf(written, Len(got))
  BY <1>2, <1>4, <1>5, <1>7, <1>8, PartFacts
<1>. QED
  BY <1>1, <1>2, <1>4, <1>5, <1>6, <1>7, <1>9

\* What is pending begins with the capsule that follows, or with a part of it.
LEMMA FollowingFacts ==
    ASSUME IInv, Len(got) < Count
    PROVE  /\ Next_ \in 1..Count /\ Following \in Seq(Byte) /\ Framed(Following)
           /\ EndOf(written, Next_) \in Nat /\ EndOf(written, Next_) <= Len(Bytes)
           /\ EndOf(written, Len(got)) < EndOf(written, Next_)
           /\ Len(Following) = EndOf(written, Next_) - EndOf(written, Len(got))
           /\ Agree(pending, Following)
<1>. DEFINE g == Len(got)
            lo == EndOf(written, g)
            hi == EndOf(written, Next_)
<1>1. /\ g \in Nat /\ g \in 0..Count /\ Count \in Nat /\ written \in Written
      /\ Bytes \in Seq(Byte) /\ Len(Bytes) \in Nat
      /\ lo \in Nat /\ lo <= Taken /\ Taken \in Nat /\ Taken <= Len(Bytes)
      /\ Len(pending) = Taken - lo /\ pending = SubSeq(Bytes, lo + 1, Taken)
  BY PlaceFacts
<1>2. Next_ \in 1..Count /\ Next_ \in 0..Count /\ g < Next_ /\ Next_ - 1 = g
  BY <1>1 DEF Next_
<1>3. hi \in Nat /\ hi <= Len(Bytes) /\ lo < hi /\ Framed(Following)
  BY <1>1, <1>2, WrittenFacts DEF Following
<1>4. Following = SubSeq(Bytes, lo + 1, hi)
  BY <1>2 DEF Following, CapsuleAt, Bytes
<1>. HIDE DEF lo, hi
<1>5. lo <= hi
  BY <1>1, <1>3
<1>6. /\ Following \in Seq(Byte) /\ Len(Following) = hi - lo
      /\ \A i \in 1..hi - lo : Following[i] = Bytes[lo + i]
  BY <1>1, <1>3, <1>4, <1>5, PartFacts
<1>7. \A i \in 1..Taken - lo : pending[i] = Bytes[lo + i]
  BY <1>1, PartFacts
<1>8. Agree(pending, Following)
  <2>. SUFFICES ASSUME NEW i \in 1..Len(pending), i <= Len(Following)
                PROVE  pending[i] = Following[i]
    BY DEF Agree
  <2>1. i \in 1..Taken - lo /\ i \in 1..hi - lo
    BY <1>1, <1>3, <1>6
  <2>. QED
    BY <1>6, <1>7, <2>1
<1>. QED
  BY <1>2, <1>3, <1>6, <1>8 DEF lo, hi

\* Once everything has been returned nothing is pending.
LEMMA AllReturned ==
    ASSUME IInv, Len(got) = Count
    PROVE  pending = <<>> /\ Taken = EndOf(written, Count) /\ cut = Taken
<1>1. /\ EndOf(written, Count) <= Taken /\ Taken <= cut /\ cut <= Len(Bytes)
      /\ Taken \in Nat /\ cut \in Nat /\ Len(Bytes) \in Nat
      /\ pending = SubSeq(Bytes, EndOf(written, Count) + 1, Taken)
      /\ written \in Written
  BY PlaceFacts
<1>2. EndOf(written, Count) = Len(Bytes)
  BY <1>1, WrittenFacts
<1>3. Taken = EndOf(written, Count) /\ cut = Taken /\ Taken < EndOf(written, Count) + 1
      /\ EndOf(written, Count) + 1 \in Int /\ Taken \in Int
  BY <1>1, <1>2
<1>. QED
  BY <1>1, <1>3, SubSeqEmpty

\* A complete capsule is taken whole, and it is the one that follows.
LEMMA TakeFacts ==
    ASSUME IInv, decode_buffered_capsule(pending).verdict.kind = "ok"
    PROVE  /\ Len(got) < Count /\ EndOf(written, Next_) <= Taken
           /\ decode_buffered_capsule(pending).verdict = CapsuleDecode(Following)
           /\ decode_buffered_capsule(pending).total = Len(Following)
<1>. DEFINE next == decode_buffered_capsule(pending)
<1>1. /\ Len(got) \in Nat /\ Count \in Nat /\ Len(got) \in 0..Count
      /\ Taken \in Nat /\ EndOf(written, Len(got)) \in Nat /\ pending \in Seq(Byte)
      /\ Len(pending) = Taken - EndOf(written, Len(got))
  BY PlaceFacts
<1>2. /\ Buffered(Failed("incomplete"), 0).verdict.kind # "ok"
      /\ Buffered(Failed("MessageTooLong"), 0).verdict.kind # "ok"
  BY DEF Buffered, Failed
<1>3. Len(got) < Count
  <2>1. Len(got) # Count
    BY <1>2, AllReturned, EmptyBuffer
  <2>. QED
    BY <1>1, <2>1
<1>4. /\ Following \in Seq(Byte) /\ Framed(Following) /\ Agree(pending, Following)
      /\ EndOf(written, Next_) \in Nat
      /\ Len(Following) = EndOf(written, Next_) - EndOf(written, Len(got))
  BY <1>3, FollowingFacts
<1>5. next = IF Len(pending) < HeaderOf(Following) THEN Buffered(Failed("incomplete"), 0)
             ELSE IF LengthOf(Following).value > MAX_PAYLOAD
                  THEN Buffered(Failed("MessageTooLong"), 0)
             ELSE IF Len(pending) < Len(Following) THEN Buffered(Failed("incomplete"), 0)
             ELSE Buffered(CapsuleDecode(Following), Len(Following))
  BY <1>1, <1>4, BufferedDecodeExact
<1>6. next.verdict.kind = "ok"
  OBVIOUS
<1>. HIDE DEF next
<1>7. ~(Len(pending) < Len(Following)) /\ next = Buffered(CapsuleDecode(Following), Len(Following))
  BY <1>2, <1>5, <1>6, Zenon
<1>8. EndOf(written, Next_) <= Taken
  BY <1>1, <1>4, <1>7
<1>9. next.verdict = CapsuleDecode(Following) /\ next.total = Len(Following)
  BY <1>7 DEF Buffered
<1>. QED
  BY <1>3, <1>8, <1>9 DEF next

\* The reader waits for a frame only with less than a capsule buffered, which
\* is never more than a header and the longest payload.
LEMMA WaitFacts ==
    ASSUME IInv, decode_buffered_capsule(pending).verdict.kind = "incomplete"
    PROVE  /\ Len(pending) < 2 * MAX_SIZE + MAX_PAYLOAD
           /\ Len(got) < Count => Taken < EndOf(written, Next_)
<1>. DEFINE next == decode_buffered_capsule(pending)
<1>1. /\ Len(got) \in Nat /\ Count \in Nat /\ Len(got) \in 0..Count
      /\ Taken \in Nat /\ EndOf(written, Len(got)) \in Nat /\ pending \in Seq(Byte)
      /\ Len(pending) = Taken - EndOf(written, Len(got)) /\ Len(pending) \in Nat
  BY PlaceFacts, LenProperties
<1>2. MAX_PAYLOAD \in Nat /\ MAX_SIZE = 8
  BY CapsuleConstants DEF MAX_PAYLOAD, MAX_SIZE
<1>3. CASE Len(got) = Count
  <2>1. Len(pending) = 0
    BY <1>3, AllReturned, EmptySeq
  <2>. QED
    BY <1>1, <1>2, <1>3, <2>1
<1>4. CASE Len(got) < Count
  <2>1. /\ Following \in Seq(Byte) /\ Framed(Following) /\ Agree(pending, Following)
        /\ EndOf(written, Next_) \in Nat
        /\ Len(Following) = EndOf(written, Next_) - EndOf(written, Len(got))
    BY <1>4, FollowingFacts
  <2>2. next = IF Len(pending) < HeaderOf(Following) THEN Buffered(Failed("incomplete"), 0)
               ELSE IF LengthOf(Following).value > MAX_PAYLOAD
                    THEN Buffered(Failed("MessageTooLong"), 0)
               ELSE IF Len(pending) < Len(Following) THEN Buffered(Failed("incomplete"), 0)
               ELSE Buffered(CapsuleDecode(Following), Len(Following))
    BY <1>1, <2>1, BufferedDecodeExact
  <2>3. /\ Buffered(Failed("MessageTooLong"), 0).verdict.kind # "incomplete"
        /\ Buffered(CapsuleDecode(Following), Len(Following)).verdict.kind # "incomplete"
    <3>1. CapsuleDecode(Following).kind # "incomplete"
      BY <2>1, VerdictFacts
    <3>. QED
      BY <3>1 DEF Buffered, Failed
  <2>4. next.verdict.kind = "incomplete"
    OBVIOUS
  <2>. HIDE DEF next
  <2>5. \/ Len(pending) < HeaderOf(Following)
        \/ ~(LengthOf(Following).value > MAX_PAYLOAD) /\ Len(pending) < Len(Following)
    BY <2>2, <2>3, <2>4, Zenon
  <2>6. /\ HeaderOf(Following) \in 2..2 * MAX_SIZE /\ LengthOf(Following).value \in Nat
        /\ Len(Following) = HeaderOf(Following) + LengthOf(Following).value
    BY <2>1, HeaderFacts
  <2>. DEFINE h == HeaderOf(Following)
              v == LengthOf(Following).value
              L == Len(Following)
              P == Len(pending)
  <2>7. /\ h \in 2..16 /\ v \in Nat /\ L = h + v /\ P \in Nat
        /\ P < h \/ (~(v > MAX_PAYLOAD) /\ P < L)
    BY <1>1, <1>2, <2>5, <2>6
  <2>8. P = Taken - EndOf(written, Len(got)) /\ L = EndOf(written, Next_) - EndOf(written, Len(got))
    BY <1>1, <2>1
  <2>. HIDE DEF h, v, L, P
  <2>9. P < L /\ P < 16 + MAX_PAYLOAD
    BY <1>2, <2>7
  <2>10. Taken < EndOf(written, Next_)
    BY <1>1, <2>1, <2>8, <2>9
  <2>. QED
    BY <1>2, <2>9, <2>10 DEF P
<1>. QED
  BY <1>1, <1>3, <1>4

\* A capsule is refused for what Capsule::decode says of it, and before it is
\* complete only when it is too long.
LEMMA FailFacts ==
    ASSUME IInv, decode_buffered_capsule(pending).verdict.kind \notin {"ok", "incomplete"}
    PROVE  /\ Len(got) < Count
           /\ decode_buffered_capsule(pending).verdict.kind = CapsuleDecode(Following).kind
           /\ EndOf(written, Next_) <= Taken \/ CapsuleDecode(Following).kind = "MessageTooLong"
<1>. DEFINE next == decode_buffered_capsule(pending)
<1>1. /\ Len(got) \in Nat /\ Count \in Nat /\ Len(got) \in 0..Count
      /\ Taken \in Nat /\ EndOf(written, Len(got)) \in Nat /\ pending \in Seq(Byte)
      /\ Len(pending) = Taken - EndOf(written, Len(got))
  BY PlaceFacts
<1>2. Buffered(Failed("incomplete"), 0).verdict.kind = "incomplete"
  BY DEF Buffered, Failed
<1>3. Len(got) < Count
  <2>1. Len(got) # Count
    BY <1>2, AllReturned, EmptyBuffer
  <2>. QED
    BY <1>1, <2>1
<1>4. /\ Following \in Seq(Byte) /\ Framed(Following) /\ Agree(pending, Following)
      /\ EndOf(written, Next_) \in Nat
      /\ Len(Following) = EndOf(written, Next_) - EndOf(written, Len(got))
  BY <1>3, FollowingFacts
<1>5. next = IF Len(pending) < HeaderOf(Following) THEN Buffered(Failed("incomplete"), 0)
             ELSE IF LengthOf(Following).value > MAX_PAYLOAD
                  THEN Buffered(Failed("MessageTooLong"), 0)
             ELSE IF Len(pending) < Len(Following) THEN Buffered(Failed("incomplete"), 0)
             ELSE Buffered(CapsuleDecode(Following), Len(Following))
  BY <1>1, <1>4, BufferedDecodeExact
<1>6. next.verdict.kind # "incomplete"
  OBVIOUS
<1>. HIDE DEF next
<1>7. \/ /\ LengthOf(Following).value > MAX_PAYLOAD
         /\ next = Buffered(Failed("MessageTooLong"), 0)
      \/ /\ ~(Len(pending) < Len(Following))
         /\ next = Buffered(CapsuleDecode(Following), Len(Following))
  BY <1>2, <1>5, <1>6, Zenon
<1>8. CASE /\ LengthOf(Following).value > MAX_PAYLOAD
           /\ next = Buffered(Failed("MessageTooLong"), 0)
  <2>1. CapsuleDecode(Following) = Failed("MessageTooLong")
    BY <1>4, <1>8, VerdictFacts
  <2>2. next.verdict.kind = CapsuleDecode(Following).kind /\ CapsuleDecode(Following).kind = "MessageTooLong"
    BY <1>8, <2>1 DEF Buffered, Failed
  <2>. QED
    BY <1>3, <2>2 DEF next
<1>9. CASE /\ ~(Len(pending) < Len(Following))
           /\ next = Buffered(CapsuleDecode(Following), Len(Following))
  <2>1. EndOf(written, Next_) <= Taken
    BY <1>1, <1>4, <1>9
  <2>2. next.verdict.kind = CapsuleDecode(Following).kind
    BY <1>9 DEF Buffered
  <2>. QED
    BY <1>3, <2>1, <2>2 DEF next
<1>. QED
  BY <1>7, <1>8, <1>9
-----------------------------------------------------------------------------
(***************************************************************************)
(* Every step keeps the invariant.                                         *)
(***************************************************************************)

\* CapsuleStream's verdict of a capsule is Capsule::decode's.
LEMMA VerdictOf ==
    ASSUME written \in Written, NEW k \in 1..Count
    PROVE  /\ Verdicts[CapsuleAt(written, k)] = CapsuleDecode(CapsuleAt(written, k))
           /\ CapsuleDecode(CapsuleAt(written, k)).kind = "ok" =>
                 CapsuleDecode(CapsuleAt(written, k)).capsule \in Delivered
<1>. DEFINE c == CapsuleAt(written, k)
            D == UNION {{CapsuleAt(w, j) : j \in 1..Len(w.ends)} : w \in Written}
<1>1. c \in D
  BY DEF Count
<1>2. Verdicts = [x \in D |-> CapsuleDecode(x)]
  BY DEF Verdicts
<1>. HIDE DEF c, D
<1>3. c \in DOMAIN Verdicts /\ Verdicts[c] = CapsuleDecode(c)
  BY <1>1, <1>2
<1>4. CapsuleDecode(c).kind = "ok" => CapsuleDecode(c).capsule \in Delivered
  BY <1>3 DEF Delivered
<1>. QED
  BY <1>3, <1>4 DEF c

\* The initial states.
LEMMA ReaderInit == Init => IInv
<1>. SUFFICES ASSUME Init PROVE IInv
  OBVIOUS
<1>. USE DEF Init
<1>1. /\ written \in Written /\ Len(Bytes) \in Nat /\ Count \in Nat /\ EndOf(written, 0) = 0
      /\ \A k \in 1..Count : ~(EndOf(written, k) <= 0)
  <2>1. /\ written \in Written /\ Len(Bytes) \in Nat /\ Count \in Nat /\ EndOf(written, 0) = 0
    BY WrittenFacts
  <2>2. ASSUME NEW k \in 1..Count PROVE ~(EndOf(written, k) <= 0)
    <3>1. 0 \in 0..Count /\ k \in 0..Count /\ 0 < k
      BY <2>1
    <3>2. EndOf(written, 0) < EndOf(written, k) /\ EndOf(written, k) \in Nat
      BY <2>1, <3>1, WrittenFacts
    <3>. QED
      BY <2>1, <3>2
  <2>. QED
    BY <2>1, <2>2
<1>2. OnWire = 0 /\ Taken = 0 /\ Len(got) = 0
  BY DEF OnWire, Taken
<1>3. got \in Seq(Delivered) /\ pending \in Seq(Byte)
  BY EmptySeq
<1>4. TypeOK
  BY <1>1, <1>3 DEF TypeOK
<1>5. MAX_FRAME \in Nat /\ MAX_PAYLOAD \in Nat /\ MAX_SIZE = 8
  BY ReaderConstants, CapsuleConstants DEF MAX_PAYLOAD, MAX_SIZE
<1>6. FramesInOrder
  BY <1>2, <1>5 DEF FramesInOrder
<1>7. Complete(0) = 0
  <2>1. {k \in 1..Count : EndOf(written, k) <= 0} = {}
    BY <1>1
  <2>. QED
    BY <2>1, FS_EmptySet DEF Complete
<1>8. SubSeq(Bytes, 0 + 1, 0) = <<>>
  BY SubSeqEmpty
<1>9. AtBoundary
  BY <1>1, <1>2, <1>7, <1>8 DEF AtBoundary
<1>10. BufferBounded
  BY <1>5, EmptySeq DEF BufferBounded
<1>. QED
  BY <1>4, <1>6, <1>9, <1>10 DEF IInv

\* A step of the reader that only decides.
LEMMA DecideStep ==
    ASSUME IInv, UNCHANGED <<written, cut, sent, peer, wire, pending, got>>,
           result' \in {"reading", "close", "end", "error"}
    PROVE  IInv'
<1>1. TypeOK'
  BY DEF IInv, TypeOK, Bytes
<1>2. OnWire' = OnWire /\ Taken' = Taken /\ Bytes' = Bytes /\ Count' = Count
  BY DEF OnWire, Taken, Bytes, Count
<1>3. FramesInOrder'
  BY <1>2 DEF IInv, FramesInOrder
<1>4. AtBoundary'
  BY <1>2 DEF IInv, AtBoundary, Complete
<1>5. BufferBounded'
  BY DEF IInv, BufferBounded
<1>. QED
  BY <1>1, <1>3, <1>4, <1>5 DEF IInv

\* The peer sends a DATA frame.
LEMMA SendDataStep ==
    ASSUME IInv, NEW n \in 0..MAX_FRAME, SendData(n)
    PROVE  IInv'
<1>. DEFINE part == SubSeq(Bytes, cut + 1, cut + n)
<1>1. /\ wire = <<>> /\ cut + n <= Len(Bytes) /\ cut' = cut + n /\ sent' = Complete(cut + n)
      /\ wire' = <<[typ |-> "data", payload |-> part]>>
      /\ UNCHANGED <<written, peer, pending, got, result>>
  BY DEF SendData, CanWrite
<1>2. /\ cut \in Nat /\ Len(Bytes) \in Nat /\ Bytes \in Seq(Byte) /\ MAX_FRAME \in Nat /\ n \in Nat
  BY PlaceFacts, ReaderConstants
<1>3. Bytes' = Bytes /\ Count' = Count
  BY <1>1 DEF Bytes, Count
<1>4. TypeOK'
  <2>1. cut' \in 0..Len(Bytes)
    BY <1>1, <1>2
  <2>. QED
    BY <1>1, <1>3, <2>1 DEF IInv, TypeOK
<1>5. Len(part) = n
  <2>1. cut + n \in Nat /\ cut <= cut + n /\ (cut + n) - cut = n
    BY <1>2
  <2>. QED
    BY <1>1, <1>2, <2>1, PartFacts
<1>. HIDE DEF part
<1>6. OnWire = 0 /\ Taken = cut
  <2>1. OnWire = 0
    BY <1>1 DEF OnWire
  <2>. QED
    BY <1>2, <2>1 DEF Taken
<1>7. wire' # <<>> /\ Head(wire') = [typ |-> "data", payload |-> part]
  BY <1>1
<1>8. OnWire' = n
  BY <1>5, <1>7 DEF OnWire
<1>9. Taken' = cut
  BY <1>1, <1>2, <1>8 DEF Taken
<1>10. FramesInOrder'
  <2>1. OnWire' \in 0..MAX_FRAME /\ OnWire' <= cut'
    BY <1>1, <1>2, <1>8
  <2>2. Head(wire').typ = "data" /\ Head(wire').payload = SubSeq(Bytes', Taken' + 1, cut')
    BY <1>1, <1>3, <1>7, <1>9 DEF part
  <2>. QED
    BY <2>1, <2>2 DEF FramesInOrder
<1>11. AtBoundary'
  <2>1. Complete(cut)' = Complete(cut + n)
    BY <1>1, <1>3 DEF Complete
  <2>. QED
    BY <1>1, <1>3, <1>6, <1>9, <2>1 DEF IInv, AtBoundary
<1>12. BufferBounded'
  BY <1>1 DEF IInv, BufferBounded
<1>. QED
  BY <1>4, <1>10, <1>11, <1>12 DEF IInv

\* The peer sends a frame that holds no byte of a capsule.
LEMMA SendForeignStep ==
    ASSUME IInv, SendOther \/ SendOversized
    PROVE  IInv'
<1>1. /\ wire = <<>> /\ UNCHANGED <<written, cut, sent, pending, got, result>>
      /\ peer' \in {"writing", "fin", "broken"}
  BY DEF SendOther, SendOversized, CanWrite
<1>2. /\ wire' # <<>>
      /\ Head(wire').typ = "other" \/ (Head(wire').typ = "oversized" /\ peer' = "broken")
  BY DEF SendOther, SendOversized
<1>3. OnWire = 0 /\ OnWire' = 0
  BY <1>1, <1>2 DEF OnWire
<1>4. Taken' = Taken /\ Bytes' = Bytes /\ Count' = Count
  BY <1>1, <1>3 DEF Taken, Bytes, Count
<1>5. TypeOK'
  BY <1>1, <1>4 DEF IInv, TypeOK
<1>6. FramesInOrder'
  <2>1. OnWire' \in 0..MAX_FRAME /\ OnWire' <= cut'
    BY <1>1, <1>3 DEF IInv, FramesInOrder
  <2>. QED
    BY <1>2, <2>1 DEF FramesInOrder
<1>7. AtBoundary'
  BY <1>1, <1>4 DEF IInv, AtBoundary, Complete
<1>8. BufferBounded'
  BY <1>1 DEF IInv, BufferBounded
<1>. QED
  BY <1>5, <1>6, <1>7, <1>8 DEF IInv

\* The stream ends.
LEMMA SendFinStep ==
    ASSUME IInv, SendFin
    PROVE  IInv'
<1>1. peer = "writing" /\ peer' = "fin" /\ UNCHANGED <<written, cut, sent, wire, pending, got, result>>
  BY DEF SendFin
<1>2. OnWire' = OnWire /\ Taken' = Taken /\ Bytes' = Bytes /\ Count' = Count
  BY <1>1 DEF OnWire, Taken, Bytes, Count
<1>3. TypeOK'
  BY <1>1, <1>2 DEF IInv, TypeOK
<1>4. FramesInOrder'
  BY <1>1, <1>2 DEF IInv, FramesInOrder
<1>5. AtBoundary'
  BY <1>1, <1>2 DEF IInv, AtBoundary, Complete
<1>6. BufferBounded'
  BY <1>1 DEF IInv, BufferBounded
<1>. QED
  BY <1>3, <1>4, <1>5, <1>6 DEF IInv

\* A capsule is returned, and the next one begins what is left.
LEMMA TakeStep ==
    ASSUME IInv, TakeCapsule
    PROVE  IInv'
<1>. DEFINE next == decode_buffered_capsule(pending)
            lo == EndOf(written, Len(got))
            mid == EndOf(written, Next_)
<1>1. /\ next.verdict.kind = "ok" /\ got' = Append(got, next.verdict.capsule)
      /\ pending' = SubSeq(pending, next.total + 1, Len(pending))
      /\ result' \in {"reading", "close"}
      /\ UNCHANGED <<written, cut, sent, peer, wire>>
  BY DEF TakeCapsule
<1>2. /\ Len(got) < Count /\ mid <= Taken
      /\ next.verdict = CapsuleDecode(Following) /\ next.total = Len(Following)
  BY <1>1, TakeFacts
<1>3. /\ Next_ \in 1..Count /\ mid \in Nat /\ lo < mid /\ Len(Following) = mid - lo
  BY <1>2, FollowingFacts
<1>4. /\ written \in Written /\ Bytes \in Seq(Byte) /\ Len(Bytes) \in Nat /\ Count \in Nat
      /\ cut \in Nat /\ Taken \in Nat /\ Taken <= cut /\ cut <= Len(Bytes)
      /\ Len(got) \in Nat /\ lo \in Nat /\ Len(pending) = Taken - lo
      /\ pending = SubSeq(Bytes, lo + 1, Taken)
  BY PlaceFacts
<1>5. next.verdict.capsule \in Delivered
  BY <1>1, <1>2, <1>3, <1>4, VerdictOf DEF Following
<1>. HIDE DEF next
<1>6. got' \in Seq(Delivered) /\ Len(got') = Len(got) + 1
  BY <1>1, <1>5 DEF IInv, TypeOK
<1>. HIDE DEF lo, mid
<1>7. pending' = SubSeq(Bytes, mid + 1, Taken) /\ Len(pending') = Taken - mid
      /\ pending' \in Seq(Byte)
  <2>1. lo <= mid /\ Taken <= Len(Bytes)
    BY <1>3, <1>4
  <2>2. pending' = SubSeq(SubSeq(Bytes, lo + 1, Taken), (mid - lo) + 1, Taken - lo)
    BY <1>1, <1>2, <1>3, <1>4
  <2>3. pending' = SubSeq(Bytes, mid + 1, Taken)
    BY <1>2, <1>3, <1>4, <2>1, <2>2, DropPart
  <2>. QED
    BY <1>2, <1>3, <1>4, <2>1, <2>3, PartFacts
<1>8. OnWire' = OnWire /\ Taken' = Taken /\ Bytes' = Bytes /\ Count' = Count
  BY <1>1 DEF OnWire, Taken, Bytes, Count
<1>9. TypeOK'
  BY <1>1, <1>6, <1>7, <1>8 DEF IInv, TypeOK
<1>10. FramesInOrder'
  BY <1>1, <1>8 DEF IInv, FramesInOrder
<1>11. AtBoundary'
  <2>1. EndOf(written', Len(got')) = mid
    BY <1>1, <1>6 DEF mid, Next_
  <2>2. Complete(cut)' = Complete(cut)
    BY <1>1, <1>8 DEF Complete
  <2>3. Len(got') <= Count'
    BY <1>2, <1>4, <1>6, <1>8
  <2>4. sent = Complete(cut)
    BY DEF IInv, AtBoundary
  <2>. QED
    BY <1>1, <1>2, <1>7, <1>8, <2>1, <2>2, <2>3, <2>4 DEF AtBoundary
<1>12. BufferBounded'
  <2>1. Len(pending') < Len(pending) /\ Len(pending') \in Nat /\ Len(pending) \in Nat
    BY <1>2, <1>3, <1>4, <1>7
  <2>2. Len(pending) < 2 * MAX_SIZE + MAX_PAYLOAD + MAX_FRAME
    BY DEF IInv, BufferBounded
  <2>3. 2 * MAX_SIZE + MAX_PAYLOAD + MAX_FRAME \in Nat
    BY ReaderConstants, CapsuleConstants DEF MAX_PAYLOAD, MAX_SIZE
  <2>. QED
    BY <2>1, <2>2, <2>3 DEF BufferBounded
<1>. QED
  BY <1>9, <1>10, <1>11, <1>12 DEF IInv

\* A frame is read: the bytes of a DATA frame continue what is pending.
LEMMA ReadStep ==
    ASSUME IInv, ReadFrame
    PROVE  IInv'
<1>. DEFINE lo == EndOf(written, Len(got))
<1>1. /\ decode_buffered_capsule(pending).verdict.kind = "incomplete"
      /\ wire # <<>> /\ Head(wire).typ # "oversized" /\ wire' = <<>>
      /\ pending' = IF Head(wire).typ = "data" THEN pending \o Head(wire).payload ELSE pending
      /\ UNCHANGED <<written, cut, sent, peer, got, result>>
  BY DEF ReadFrame, NeedsFrame
<1>2. /\ Bytes \in Seq(Byte) /\ Len(Bytes) \in Nat /\ pending \in Seq(Byte)
      /\ cut \in Nat /\ OnWire \in Nat /\ Taken \in Nat /\ Taken <= cut /\ cut <= Len(Bytes)
      /\ lo \in Nat /\ lo <= Taken /\ Len(pending) = Taken - lo
      /\ pending = SubSeq(Bytes, lo + 1, Taken)
  BY PlaceFacts
<1>3. /\ Len(pending) < 2 * MAX_SIZE + MAX_PAYLOAD
      /\ MAX_FRAME \in Nat /\ MAX_PAYLOAD \in Nat /\ MAX_SIZE = 8
  BY <1>1, WaitFacts, ReaderConstants, CapsuleConstants DEF MAX_PAYLOAD, MAX_SIZE
<1>. HIDE DEF lo
<1>4. OnWire' = 0 /\ Taken' = cut /\ Bytes' = Bytes /\ Count' = Count
  <2>1. OnWire' = 0
    BY <1>1 DEF OnWire
  <2>. QED
    BY <1>1, <1>2, <2>1 DEF Taken, Bytes, Count
<1>5. /\ pending' = SubSeq(Bytes, lo + 1, cut)
      /\ cut - Taken \in 0..MAX_FRAME
  <2>1. OnWire \in 0..MAX_FRAME /\ cut - Taken = OnWire
    BY <1>2 DEF IInv, FramesInOrder, Taken
  <2>2. CASE Head(wire).typ = "data"
    <3>1. Head(wire).payload = SubSeq(Bytes, Taken + 1, cut)
      BY <1>1, <2>2 DEF IInv, FramesInOrder
    <3>2. pending' = SubSeq(Bytes, lo + 1, Taken) \o SubSeq(Bytes, Taken + 1, cut)
      BY <1>1, <1>2, <2>2, <3>1
    <3>3. pending' = SubSeq(Bytes, lo + 1, cut)
      BY <1>2, <3>2, JoinParts
    <3>. QED
      BY <2>1, <3>3
  <2>3. CASE Head(wire).typ # "data"
    <3>1. OnWire = 0
      BY <2>3 DEF OnWire
    <3>2. Taken = cut
      BY <1>2, <2>1, <3>1
    <3>. QED
      BY <1>1, <1>2, <2>1, <2>3, <3>2
  <2>. QED
    BY <2>2, <2>3
<1>6. pending' \in Seq(Byte) /\ Len(pending') = cut - lo
  <2>1. lo <= cut
    BY <1>2
  <2>. QED
    BY <1>2, <1>5, <2>1, PartFacts
<1>7. TypeOK'
  BY <1>1, <1>4, <1>6 DEF IInv, TypeOK
<1>8. FramesInOrder'
  BY <1>1, <1>2, <1>3, <1>4 DEF FramesInOrder
<1>9. AtBoundary'
  <2>1. EndOf(written', Len(got')) = lo /\ Complete(cut)' = Complete(cut)
    BY <1>1, <1>4 DEF lo, Complete
  <2>2. sent = Complete(cut) /\ Len(got) <= Count
    BY DEF IInv, AtBoundary
  <2>3. lo <= cut
    BY <1>2
  <2>. QED
    BY <1>1, <1>4, <1>5, <2>1, <2>2, <2>3 DEF AtBoundary
<1>10. BufferBounded'
  BY <1>2, <1>3, <1>5, <1>6 DEF BufferBounded
<1>. QED
  BY <1>7, <1>8, <1>9, <1>10 DEF IInv

\* Every step keeps the invariant.
LEMMA ReaderStep == IInv /\ [Next]_vars => IInv'
<1>. SUFFICES ASSUME IInv, [Next]_vars PROVE IInv'
  OBVIOUS
<1>1. CASE UNCHANGED vars
  <2>1. UNCHANGED <<written, cut, sent, peer, wire, pending, got, result>>
    BY <1>1 DEF vars
  <2>2. result' \in {"reading", "close", "end", "error"}
    BY <2>1 DEF IInv, TypeOK
  <2>. QED
    BY <2>1, <2>2, DecideStep
<1>2. ASSUME NEW n \in 0..MAX_FRAME, SendData(n) PROVE IInv'
  BY <1>2, SendDataStep
<1>3. CASE SendOther \/ SendOversized
  BY <1>3, SendForeignStep
<1>4. CASE SendFin
  BY <1>4, SendFinStep
<1>5. CASE TakeCapsule
  BY <1>5, TakeStep
<1>6. CASE FailCapsule \/ RefuseFrame \/ ReadEnd
  <2>1. /\ UNCHANGED <<written, cut, sent, peer, wire, pending, got>>
        /\ result' \in {"reading", "close", "end", "error"}
    BY <1>6 DEF FailCapsule, RefuseFrame, ReadEnd, Outcome
  <2>. QED
    BY <2>1, DecideStep
<1>7. CASE ReadFrame
  BY <1>7, ReadStep
<1>. QED
  BY <1>1, <1>2, <1>3, <1>4, <1>5, <1>6, <1>7 DEF Next, Reader
-----------------------------------------------------------------------------
(***************************************************************************)
(* The theorems.                                                           *)
(***************************************************************************)

\* What is pending always begins where the last returned capsule ended,
\* wherever the peer cuts its bytes into frames.
THEOREM ReaderInvariant == Spec => []IInv
  BY ReaderInit, ReaderStep, PTL DEF Spec

\* read_capsule_frame never buffers more than a partial capsule and one DATA
\* frame: the comment's bound, for every size of frame and payload.
THEOREM ReaderBufferBounded == Spec => []BufferBounded
<1>1. IInv => BufferBounded
  BY DEF IInv
<1>. QED
  BY <1>1, ReaderInvariant, PTL

\* How many capsules are complete on the stream, and how many of them have
\* been returned.
LEMMA SentFacts ==
    ASSUME IInv
    PROVE  /\ sent \in 0..Count /\ Len(got) <= sent
           /\ Len(got) < Count => (EndOf(written, Next_) <= cut <=> Len(got) < sent)
<1>1. /\ written \in Written /\ Count \in Nat /\ Len(got) \in Nat /\ Len(got) \in 0..Count
      /\ cut \in Nat /\ Taken \in Nat /\ Taken <= cut
      /\ EndOf(written, Len(got)) \in Nat /\ EndOf(written, Len(got)) <= Taken
  BY PlaceFacts
<1>2. sent = Complete(cut)
  BY DEF IInv, AtBoundary
<1>3. sent \in 0..Count /\ \A k \in 1..Count : k <= sent <=> EndOf(written, k) <= cut
  BY <1>1, <1>2, CompleteFacts
<1>4. Len(got) <= sent
  <2>1. CASE Len(got) = 0
    BY <1>3, <2>1
  <2>2. CASE Len(got) # 0
    <3>1. Len(got) \in 1..Count /\ EndOf(written, Len(got)) <= cut
      BY <1>1, <2>2
    <3>. QED
      BY <1>3, <3>1
  <2>. QED
    BY <2>1, <2>2
<1>5. ASSUME Len(got) < Count
      PROVE  EndOf(written, Next_) <= cut <=> Len(got) < sent
  <2>1. Next_ \in 1..Count /\ (Next_ <= sent <=> Len(got) < sent)
    BY <1>1, <1>3, <1>5 DEF Next_
  <2>. QED
    BY <1>3, <2>1
<1>. QED
  BY <1>3, <1>4, <1>5

\* With no DATA frame on its way the reader waits for one only when every
\* complete capsule has been returned.
LEMMA WaitingIsDone ==
    ASSUME IInv, NeedsFrame, OnWire = 0
    PROVE  Len(got) = sent
<1>1. /\ Count \in Nat /\ Len(got) \in Nat /\ Len(got) \in 0..Count /\ cut \in Nat
  BY PlaceFacts
<1>2. Taken = cut
  BY <1>1 DEF Taken
<1>3. Len(got) < Count => Taken < EndOf(written, Next_) /\ EndOf(written, Next_) \in Nat
  BY WaitFacts, FollowingFacts DEF NeedsFrame
<1>4. /\ sent \in 0..Count /\ Len(got) <= sent
      /\ Len(got) < Count => (EndOf(written, Next_) <= cut <=> Len(got) < sent)
  BY SentFacts
<1>5. CASE Len(got) < Count
  BY <1>1, <1>2, <1>3, <1>4, <1>5
<1>6. CASE Len(got) = Count
  BY <1>1, <1>4, <1>6
<1>. QED
  BY <1>1, <1>5, <1>6

\* No complete capsule is held back until another frame arrives.
THEOREM ReaderNothingWithheld == Spec => []NothingWithheld
<1>1. IInv => NothingWithheld
  <2>. SUFFICES ASSUME IInv, NeedsFrame, wire = <<>>
                PROVE  Len(got) = sent
    BY DEF NothingWithheld
  <2>1. OnWire = 0
    BY DEF OnWire
  <2>. QED
    BY <2>1, WaitingIsDone
<1>. QED
  BY <1>1, ReaderInvariant, PTL
-----------------------------------------------------------------------------
(***************************************************************************)
(* The reader implements CapsuleStream.                                    *)
(***************************************************************************)
Capsules == [k \in 1..Count |-> CapsuleAt(written, k)]

\* The capsules of the abstract stream.
LEMMA CapsulesFacts ==
    ASSUME IInv
    PROVE  /\ Len(Capsules) = Count
           /\ Len(got) < Count =>
                 /\ Capsules[Len(got) + 1] = Following
                 /\ Verdicts[Following] = CapsuleDecode(Following)
<1>1. Count \in Nat /\ written \in Written
  BY PlaceFacts
<1>2. Len(Capsules) = Count
  BY <1>1 DEF Capsules
<1>3. ASSUME Len(got) < Count
      PROVE  /\ Capsules[Len(got) + 1] = Following
             /\ Verdicts[Following] = CapsuleDecode(Following)
  <2>1. Next_ \in 1..Count
    BY <1>3, FollowingFacts
  <2>2. Capsules[Next_] = Following
    BY <2>1 DEF Capsules, Following
  <2>3. Verdicts[Following] = CapsuleDecode(Following)
    BY <1>1, <2>1, VerdictOf DEF Following
  <2>. QED
    BY <2>2, <2>3 DEF Next_
<1>. QED
  BY <1>2, <1>3

\* A DATA frame completes some capsules, perhaps none, and no fewer than
\* before.
LEMMA SendDataWrites ==
    ASSUME IInv, NEW n \in 0..MAX_FRAME, SendData(n)
    PROVE  Stream!Write
<1>1. /\ written \in Written /\ Count \in Nat /\ cut \in Nat /\ n \in Nat /\ cut + n \in Nat
      /\ sent = Complete(cut)
  BY PlaceFacts, ReaderConstants DEF IInv, AtBoundary
<1>2. /\ peer = "writing" /\ sent' = Complete(cut + n)
      /\ UNCHANGED <<written, peer, got, result>>
  BY DEF SendData, CanWrite
<1>3. sent \in 0..Count /\ \A k \in 1..Count : k <= sent <=> EndOf(written, k) <= cut
  BY <1>1, CompleteFacts
<1>4. sent' \in 0..Count /\ \A k \in 1..Count : k <= sent' <=> EndOf(written, k) <= cut + n
  BY <1>1, <1>2, CompleteFacts
<1>5. sent <= sent'
  <2>1. CASE sent = 0
    BY <1>1, <1>4, <2>1
  <2>2. CASE sent # 0
    <3>1. sent \in 1..Count /\ EndOf(written, sent) <= cut
      BY <1>1, <1>3, <2>2
    <3>2. sent \in 0..Count
      BY <1>3
    <3>3. EndOf(written, sent) \in Nat
      BY <1>1, <3>2, WrittenFacts
    <3>4. EndOf(written, sent) <= cut + n
      BY <1>1, <3>1, <3>3
    <3>. QED
      BY <1>4, <3>1, <3>4
  <2>. QED
    BY <2>1, <2>2
<1>6. sent' \in sent..Len(Capsules)
  BY <1>1, <1>3, <1>4, <1>5, CapsulesFacts
<1>7. Capsules' = Capsules
  BY <1>2 DEF Capsules, Count
<1>. QED
  BY <1>2, <1>6, <1>7 DEF Stream!Write, Capsules

\* A capsule is returned when the stream has it, and it is the next one.
LEMMA TakeDelivers ==
    ASSUME IInv, TakeCapsule
    PROVE  Stream!Deliver
<1>. DEFINE next == decode_buffered_capsule(pending)
<1>1. /\ result = "reading" /\ next.verdict.kind = "ok"
      /\ got' = Append(got, next.verdict.capsule)
      /\ result' = IF next.verdict.capsule.kind = "close" THEN "close" ELSE "reading"
      /\ UNCHANGED <<written, sent, peer>>
  BY DEF TakeCapsule
<1>2. /\ Len(got) < Count /\ EndOf(written, Next_) <= Taken
      /\ next.verdict = CapsuleDecode(Following)
  BY <1>1, TakeFacts
<1>3. Len(got) < sent
  <2>1. Taken \in Nat /\ cut \in Nat /\ Taken <= cut
    BY PlaceFacts
  <2>2. EndOf(written, Next_) \in Nat
    BY <1>2, FollowingFacts
  <2>3. EndOf(written, Next_) <= cut
    BY <1>2, <2>1, <2>2
  <2>. QED
    BY <1>2, <2>3, SentFacts
<1>4. Verdicts[Capsules[Len(got) + 1]] = next.verdict
  BY <1>2, CapsulesFacts
<1>5. Capsules' = Capsules
  BY <1>1 DEF Capsules, Count
<1>. HIDE DEF next
<1>. QED
  BY <1>1, <1>3, <1>4, <1>5 DEF Stream!Deliver, Stream!Reading, Stream!Next_, Capsules

\* A capsule is refused as the stream may refuse it.
LEMMA FailRejects ==
    ASSUME IInv, FailCapsule
    PROVE  Stream!Reject
<1>. DEFINE kind == decode_buffered_capsule(pending).verdict.kind
<1>1. /\ result = "reading" /\ kind \notin {"ok", "incomplete"}
      /\ result' = IF kind = "UnexpectedEnd" THEN "end" ELSE "error"
      /\ UNCHANGED <<written, sent, peer, got>>
  BY DEF FailCapsule, Outcome
<1>2. /\ Len(got) < Count /\ kind = CapsuleDecode(Following).kind
      /\ EndOf(written, Next_) <= Taken \/ kind = "MessageTooLong"
  BY <1>1, FailFacts
<1>. HIDE DEF kind
<1>3. Len(got) < sent \/ kind = "MessageTooLong"
  <2>1. Taken \in Nat /\ cut \in Nat /\ Taken <= cut
    BY PlaceFacts
  <2>2. EndOf(written, Next_) \in Nat
    BY <1>2, FollowingFacts
  <2>3. EndOf(written, Next_) <= Taken => EndOf(written, Next_) <= cut
    BY <2>1, <2>2
  <2>. QED
    BY <1>2, <2>3, SentFacts
<1>4. Verdicts[Capsules[Len(got) + 1]].kind = kind
  BY <1>2, CapsulesFacts
<1>5. Capsules' = Capsules
  BY <1>1 DEF Capsules, Count
<1>6. Len(got) + 1 <= Len(Capsules)
  <2>1. Len(got) \in Nat /\ Count \in Nat
    BY PlaceFacts
  <2>. QED
    BY <1>2, <2>1, CapsulesFacts
<1>. QED
  BY <1>1, <1>3, <1>4, <1>5, <1>6 DEF Stream!Reject, Stream!Next_, Capsules

\* The stream is over only once everything on it has been returned.
LEMMA OverEnds ==
    ASSUME IInv, RefuseFrame \/ ReadEnd
    PROVE  Stream!End
<1>1. /\ NeedsFrame /\ result = "reading" /\ UNCHANGED <<written, sent, peer, got>>
  BY DEF RefuseFrame, ReadEnd, NeedsFrame
<1>2. OnWire = 0
  BY DEF RefuseFrame, ReadEnd, OnWire
<1>3. Len(got) = sent
  BY <1>1, <1>2, WaitingIsDone
<1>4. peer # "writing" /\ result' = IF peer = "fin" THEN "end" ELSE "error"
  <2>1. CASE RefuseFrame
    <3>1. peer = "broken"
      BY <2>1 DEF RefuseFrame, IInv, FramesInOrder
    <3>2. result' = "error"
      BY <2>1 DEF RefuseFrame, Outcome
    <3>. QED
      BY <3>1, <3>2
  <2>2. CASE ReadEnd
    BY <2>2 DEF ReadEnd, Outcome
  <2>. QED
    BY <2>1, <2>2
<1>5. Capsules' = Capsules
  BY <1>1 DEF Capsules, Count
<1>. QED
  BY <1>1, <1>3, <1>4, <1>5 DEF Stream!End, Capsules

\* Every step is a step of the stream or none of its business.
LEMMA StreamStep == IInv /\ [Next]_vars => [Stream!Next]_(Stream!streamVars)
<1>. SUFFICES ASSUME IInv, [Next]_vars
              PROVE  Stream!Next \/ UNCHANGED Stream!streamVars
  OBVIOUS
<1>1. CASE UNCHANGED vars \/ SendOther \/ ReadFrame
  <2>1. UNCHANGED <<written, sent, peer, got, result>>
    BY <1>1 DEF vars, SendOther, ReadFrame
  <2>. QED
    BY <2>1 DEF Stream!streamVars, Count
<1>2. ASSUME NEW n \in 0..MAX_FRAME, SendData(n) PROVE Stream!Next
  BY <1>2, SendDataWrites DEF Stream!Next
<1>3. CASE SendOversized \/ SendFin
  <2>1. Capsules' = Capsules
    BY <1>3 DEF SendOversized, SendFin, Capsules, Count
  <2>2. Stream!Stop("broken") \/ Stream!Stop("fin")
    BY <1>3, <2>1 DEF SendOversized, SendFin, CanWrite, Stream!Stop, Capsules
  <2>. QED
    BY <2>2 DEF Stream!Next
<1>4. CASE TakeCapsule
  BY <1>4, TakeDelivers DEF Stream!Next
<1>5. CASE FailCapsule
  BY <1>5, FailRejects DEF Stream!Next
<1>6. CASE RefuseFrame \/ ReadEnd
  BY <1>6, OverEnds DEF Stream!Next
<1>. QED
  BY <1>1, <1>2, <1>3, <1>4, <1>5, <1>6 DEF Next, Reader

\* The capsules that run_closed is given are those the peer wrote, one at a
\* time and in order, however they were cut into frames, and the end of the
\* stream overtakes none of them.
THEOREM ReaderImplementsStream == Spec => ImplementsStream
<1>1. Init => Stream!Init
  BY DEF Init, Stream!Init
<1>. QED
  BY <1>1, StreamStep, ReaderInvariant, PTL DEF Spec, ImplementsStream, Stream!Spec
=============================================================================
