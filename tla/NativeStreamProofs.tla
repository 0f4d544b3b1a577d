------------------------- MODULE NativeStreamProofs -------------------------
(***************************************************************************)
(* Safety of NativeStream for every size of the header and of the buffer,  *)
(* every set of codes and every kind of session.                           *)
(***************************************************************************)
EXTENDS NativeStream, SequenceTheorems, TLAPS

\* The header's size is a natural, and the session's kind never changes.
LEMMA HeaderFacts ==
    HeaderSize \in Nat /\ (UNCHANGED kind => HeaderSize' = HeaderSize)
  BY StreamConstants DEF HeaderSize

\* A part of the buffer: n bytes from position p on.
LEMMA DataFacts ==
    ASSUME NEW p \in Nat, NEW n \in Nat, p + n <= DATA
    PROVE  /\ SubSeq(Data, p + 1, p + n) \in Seq(1..DATA)
           /\ Len(SubSeq(Data, p + 1, p + n)) = n
           /\ From(SubSeq(Data, p + 1, p + n), p)
<1>1. \A i \in p + 1..p + n : Data[i] = i /\ i \in 1..DATA
  BY StreamConstants DEF Data
<1>2. p + 1 \in Int /\ p + n \in Int /\ \A i \in p + 1..p + n : Data[i] \in 1..DATA
  BY <1>1
<1>3. /\ SubSeq(Data, p + 1, p + n) \in Seq(1..DATA)
      /\ Len(SubSeq(Data, p + 1, p + n)) =
            IF p + 1 <= p + n THEN (p + n) - (p + 1) + 1 ELSE 0
      /\ \A i \in 1..(p + n) - (p + 1) + 1 :
            SubSeq(Data, p + 1, p + n)[i] = Data[(p + 1) + i - 1]
  BY <1>2, SubSeqProperties
<1>4. Len(SubSeq(Data, p + 1, p + n)) = n
  BY <1>3
<1>5. ASSUME NEW i \in 1..n
      PROVE  SubSeq(Data, p + 1, p + n)[i] = p + i
  <2>1. i \in 1..(p + n) - (p + 1) + 1 /\ (p + 1) + i - 1 = p + i /\ p + i \in p + 1..p + n
    OBVIOUS
  <2>. QED
    BY <1>1, <1>3, <2>1
<1>. QED
  BY <1>3, <1>4, <1>5 DEF From

\* The first n bytes of the buffer.
LEMMA FirstBytes ==
    ASSUME NEW n \in Nat, n <= DATA
    PROVE  /\ SubSeq(Data, 1, n) \in Seq(0..DATA) /\ Len(SubSeq(Data, 1, n)) = n
           /\ \A i \in 1..n : SubSeq(Data, 1, n)[i] = i
<1>. DEFINE s == SubSeq(Data, 0 + 1, 0 + n)
<1>1. 0 + n <= DATA /\ 0 + 1 = 1 /\ 0 + n = n /\ 0 \in Nat /\ DATA \in Nat
  BY StreamConstants
<1>2. s \in Seq(1..DATA) /\ Len(s) = n /\ From(s, 0)
  BY <1>1, DataFacts
<1>3. s = SubSeq(Data, 1, n)
  BY <1>1
<1>. HIDE DEF s
<1>4. s \in Seq(0..DATA) /\ \A i \in 1..n : s[i] = i
  BY <1>1, <1>2 DEF From
<1>. QED
  BY <1>2, <1>3, <1>4

\* Codes on the wire: the application's come back as they were, a code that
\* QUIC or nobody chose does not name one.
LEMMA WireFacts ==
    /\ \A c \in Code : /\ c \in AppCode /\ c # None
                       /\ error_to_http3(c) \in Nat \ {0}
                       /\ error_from_http3(error_to_http3(c)) = c
    /\ error_from_http3(0) = None
    /\ \A h \in Nat : error_from_http3(h) \in AppCode \cup {None}
<1>1. ASSUME NEW c \in Code
      PROVE  /\ c \in AppCode /\ c # None
             /\ error_to_http3(c) \in Nat \ {0}
             /\ error_from_http3(error_to_http3(c)) = c
  <2>1. c \in AppCode /\ c \in Nat /\ c # None
    BY StreamConstants, ErrorRange DEF AppCode, None
  <2>2. error_to_http3(c) \in Nat \ {0}
    BY <2>1, ErrorRange DEF error_to_http3
  <2>. DEFINE s == c + (c \div 30)
  <2>3. U32_MAX \in Nat /\ ERROR_FIRST \in Nat /\ ERROR_LAST \in Nat /\ c <= U32_MAX
    BY <2>1, ErrorRange DEF AppCode
  <2>4. s \in Nat /\ error_to_http3(c) = ERROR_FIRST + s
    BY <2>1, <2>3 DEF error_to_http3
  <2>5. s - (s \div 31) = c
    BY <2>1
  <2>6. s <= U32_MAX + (U32_MAX \div 30)
    BY <2>1, <2>3
  <2>7. ERROR_FIRST + s <= ERROR_LAST
    BY <2>3, <2>4, <2>6, ErrorRange
  <2>8. c % (U32_MAX + 1) = c
    BY <2>1, <2>3
  <2>. HIDE DEF s
  <2>9. (ERROR_FIRST + s) - ERROR_FIRST = s /\ ~(ERROR_FIRST + s < ERROR_FIRST)
    BY <2>3, <2>4
  <2>10. error_from_http3(ERROR_FIRST + s) = c
    BY <2>3, <2>4, <2>5, <2>7, <2>8, <2>9 DEF error_from_http3
  <2>. QED
    BY <2>1, <2>2, <2>4, <2>10
<1>2. error_from_http3(0) = None
  BY ErrorRange DEF error_from_http3
<1>3. ASSUME NEW h \in Nat PROVE error_from_http3(h) \in AppCode \cup {None}
  <2>1. ASSUME NEW n \in Nat, NEW x \in Int PROVE x % (n + 1) \in 0..n
    OBVIOUS
  <2>. QED
    BY <2>1, ErrorRange DEF error_from_http3, AppCode
<1>. QED
  BY <1>1, <1>2, <1>3
-----------------------------------------------------------------------------
(***************************************************************************)
(* The bytes of the stream.                                                *)
(***************************************************************************)

\* Appending bytes d + 1, d + 2, ... to a stream whose bytes after the header
\* are at most d and increase.
LEMMA AppendShape ==
    ASSUME NEW H \in Nat, NEW D \in Nat, NEW d \in Nat,
           NEW t \in Seq(0..D), NEW s \in Seq(0..D), H <= Len(t),
           Ascending(t, H, d), From(s, d)
    PROVE  /\ t \o s \in Seq(0..D) /\ Len(t \o s) = Len(t) + Len(s)
           /\ Ascending(t \o s, H, d + Len(s))
           /\ Len(t) = H + d /\ Gapless(t, H) => Gapless(t \o s, H)
<1>. DEFINE L == Len(t)
            n == Len(s)
            u == t \o s
<1>1. /\ L \in Nat /\ n \in Nat /\ u \in Seq(0..D) /\ Len(u) = L + n
      /\ \A i \in 1..L : u[i] = t[i]
      /\ \A i \in 1..n : u[L + i] = s[i]
  OBVIOUS
<1>. HIDE DEF L, n, u
<1>2. ASSUME NEW i \in H + 1..L + n
      PROVE  \/ i \in H + 1..L /\ u[i] = t[i]
             \/ i \in L + 1..L + n /\ u[i] = d + (i - L)
  <2>1. CASE i \in H + 1..L
    <3>1. i \in 1..L
      BY <2>1
    <3>. QED
      BY <1>1, <2>1, <3>1
  <2>2. CASE i \notin H + 1..L
    <3>1. i \in L + 1..L + n
      BY <1>1, <2>2
    <3>2. i - L \in 1..n /\ L + (i - L) = i
      BY <1>1, <3>1
    <3>3. u[i] = s[i - L]
      BY <1>1, <3>2
    <3>. QED
      BY <3>1, <3>2, <3>3 DEF n, From
  <2>. QED
    BY <2>1, <2>2
<1>3. ASSUME NEW i \in H + 1..L + n
      PROVE  u[i] \in 1..d + n
  <2>1. CASE i \in H + 1..L /\ u[i] = t[i]
    <3>1. t[i] \in 1..d
      BY <2>1 DEF L, Ascending
    <3>. QED
      BY <1>1, <2>1, <3>1
  <2>2. CASE i \in L + 1..L + n /\ u[i] = d + (i - L)
    BY <1>1, <2>2
  <2>. QED
    BY <1>2, <2>1, <2>2
<1>4. ASSUME NEW i \in H + 1..L + n, NEW j \in H + 1..L + n, i < j
      PROVE  u[i] < u[j]
  <2>1. CASE j \in H + 1..L /\ u[j] = t[j]
    <3>1. i \in H + 1..L /\ ~(i \in L + 1..L + n)
      BY <1>1, <1>4, <2>1
    <3>2. u[i] = t[i]
      BY <1>2, <3>1
    <3>3. t[i] < t[j]
      BY <1>4, <2>1, <3>1 DEF L, Ascending
    <3>. QED
      BY <2>1, <3>2, <3>3
  <2>2. CASE j \in L + 1..L + n /\ u[j] = d + (j - L)
    <3>1. CASE i \in H + 1..L /\ u[i] = t[i]
      <4>1. t[i] \in 1..d
        BY <3>1 DEF L, Ascending
      <4>2. d + (j - L) > d
        BY <1>1, <2>2
      <4>. QED
        BY <1>1, <2>2, <3>1, <4>1, <4>2
    <3>2. CASE i \in L + 1..L + n /\ u[i] = d + (i - L)
      BY <1>1, <1>4, <2>2, <3>2
    <3>. QED
      BY <1>2, <3>1, <3>2
  <2>. QED
    BY <1>2, <2>1, <2>2
<1>5. ASSUME L = H + d, \A i \in H + 1..L : t[i] = i - H,
             NEW i \in H + 1..L + n
      PROVE  u[i] = i - H
  <2>1. CASE i \in H + 1..L /\ u[i] = t[i]
    BY <1>5, <2>1
  <2>2. CASE i \in L + 1..L + n /\ u[i] = d + (i - L)
    BY <1>1, <1>5, <2>2
  <2>. QED
    BY <1>2, <2>1, <2>2
<1>. QED
  BY <1>1, <1>3, <1>4, <1>5 DEF L, n, u, Ascending, Gapless

\* What a write hands to QUIC are the next bytes of the buffer.
LEMMA AppendBytes ==
    ASSUME TypeOK, StreamInOrder, send = "open",
           NEW s \in Seq(1..DATA), From(s, Handed),
           stream' = stream \o s,
           flight' \in Seq(1..DATA), Len(flight') <= pos',
           Handed' = Handed + Len(s),
           From(flight', Handed'),
           kind.backend = "quion" /\ kind.api = "buf" => flight' = <<>>,
           UNCHANGED <<kind, send, abandoned>>
    PROVE  stream' \in Seq(0..DATA) /\ Len(stream) <= Len(stream') /\ StreamInOrder'
<1>0. HeaderSize \in Nat /\ HeaderSize' = HeaderSize
  BY HeaderFacts
<1>1. /\ stream \in Seq(0..DATA) /\ DATA \in Nat /\ Len(stream) \in Nat /\ Len(s) \in Nat
      /\ Handed \in Nat /\ HeaderSize <= Len(stream)
  BY StreamConstants DEF TypeOK, StreamInOrder, Handed
<1>2. s \in Seq(0..DATA)
  BY <1>1
<1>3. Ascending(stream, HeaderSize, Handed)
  BY DEF StreamInOrder
<1>4. /\ stream' \in Seq(0..DATA) /\ Len(stream') = Len(stream) + Len(s)
      /\ Ascending(stream', HeaderSize, Handed + Len(s))
      /\ Len(stream) = HeaderSize + Handed /\ Gapless(stream, HeaderSize) =>
            Gapless(stream', HeaderSize)
  <2>. DEFINE u == stream \o s
  <2>1. /\ u \in Seq(0..DATA) /\ Len(u) = Len(stream) + Len(s)
        /\ Ascending(u, HeaderSize, Handed + Len(s))
        /\ Len(stream) = HeaderSize + Handed /\ Gapless(stream, HeaderSize) =>
              Gapless(u, HeaderSize)
    BY <1>0, <1>1, <1>2, <1>3, AppendShape
  <2>. QED
    BY <2>1
<1>5. ASSUME ~abandoned'
      PROVE  Len(stream') = HeaderSize + Handed' /\ Gapless(stream', HeaderSize)
  <2>1. Len(stream) = HeaderSize + Handed /\ Gapless(stream, HeaderSize)
    BY <1>1, <1>5 DEF StreamInOrder
  <2>. QED
    BY <1>0, <1>1, <1>4, <2>1
<1>6. Len(stream') >= HeaderSize /\ send' = "open"
  BY <1>0, <1>1, <1>4
<1>7. kind'.backend = "quion" /\ kind'.api = "buf" => flight' = <<>> /\ ~abandoned'
  BY DEF StreamInOrder
<1>8. Len(stream) <= Len(stream')
  BY <1>1, <1>4
<1>9. ~(Len(stream') < HeaderSize)
  BY <1>0, <1>1, <1>4
<1>10. StreamInOrder'
  BY <1>0, <1>4, <1>5, <1>6, <1>7, <1>9 DEF StreamInOrder
<1>. QED
  BY <1>4, <1>8, <1>10

\* A write in progress that is given up leaves increasing bytes, and a gap.
LEMMA Abandoned ==
    ASSUME TypeOK, StreamInOrder, send \in {"none", "opening", "open", "finished", "reset", "dropped"},
           flight' = <<>>, abandoned' = (abandoned \/ flight # <<>>),
           send' = send \/ (send' = "dropped" /\ send \in {"open", "finished", "reset"}),
           UNCHANGED <<kind, pos, stream>>
    PROVE  StreamInOrder'
<1>0. HeaderSize \in Nat /\ HeaderSize' = HeaderSize
  BY HeaderFacts
<1>1. pos \in Nat /\ Len(flight) \in Nat /\ Len(flight) <= pos /\ flight \in Seq(1..DATA)
  BY StreamConstants DEF TypeOK, StreamInOrder
<1>2. Handed' = pos /\ Handed <= pos /\ Handed \in Nat /\ (flight = <<>> => Handed = pos)
  BY <1>1 DEF Handed
<1>3. Len(flight') <= pos' /\ From(flight', Handed')
  BY <1>1 DEF From
<1>4. Ascending(stream', HeaderSize, Handed')
  <2>1. Ascending(stream, HeaderSize, Handed)
    BY DEF StreamInOrder
  <2>2. \A x : x \in 1..Handed => x \in 1..pos
    BY <1>1, <1>2
  <2>. QED
    BY <1>2, <2>1, <2>2 DEF Ascending
<1>5. ~abandoned' => ~abandoned /\ flight = <<>> /\ Handed' = Handed
  BY <1>2
<1>6. Len(stream') < HeaderSize \/ send' \in {"none", "opening"} =>
          pos = 0 /\ ~abandoned' /\ Len(stream) <= HeaderSize
  <2>1. ASSUME Len(stream) < HeaderSize \/ send \in {"none", "opening"}
        PROVE  pos = 0 /\ ~abandoned /\ Len(stream) <= HeaderSize /\ flight = <<>>
    BY <1>1, <2>1 DEF StreamInOrder
  <2>. QED
    BY <2>1
<1>7. /\ send' \in {"open", "finished", "reset"} => Len(stream) >= HeaderSize
      /\ kind.backend = "quion" /\ kind.api = "buf" => ~abandoned'
  BY DEF StreamInOrder
<1>8. ~abandoned' /\ Len(stream) >= HeaderSize =>
          Len(stream) = HeaderSize + Handed' /\ Gapless(stream, HeaderSize)
  BY <1>5 DEF StreamInOrder
<1>. QED
  BY <1>0, <1>3, <1>4, <1>6, <1>7, <1>8 DEF StreamInOrder

\* What a step may do to the bytes: the stream only grows, and not at all once
\* it has ended.
BytesKept ==
    /\ kind' = kind
    /\ pos' \in 0..DATA
    /\ flight' \in Seq(1..DATA)
    /\ abandoned' \in BOOLEAN
    /\ stream' \in Seq(0..DATA)
    /\ Len(stream) <= Len(stream')
    /\ send \in {"none", "finished", "reset", "dropped"} => stream' = stream
    /\ StreamInOrder'

\* Opening writes nothing; a raw stream has no header to write.
LEMMA OpenBytes ==
    ASSUME TypeOK, StreamInOrder, Open
    PROVE  BytesKept
<1>0. HeaderSize \in Nat /\ HeaderSize' = HeaderSize
  BY HeaderFacts DEF Open
<1>1. send = "none" /\ Len(stream) <= HeaderSize /\ Len(stream) \in Nat /\ pos = 0 /\ ~abandoned
  BY DEF Open, StreamInOrder, TypeOK
<1>2. send' = "opening" \/ (send' = "open" /\ Len(stream) >= HeaderSize)
  BY <1>1 DEF Open, HeaderSize
<1>3. Handed' = Handed
  BY DEF Open, Handed
<1>. QED
  BY <1>0, <1>1, <1>2, <1>3 DEF Open, TypeOK, StreamInOrder, BytesKept

\* The header comes before any byte of the buffer.
LEMMA WriteHeaderBytes ==
    ASSUME TypeOK, StreamInOrder, NEW n \in 1..HEADER, WriteHeader(n)
    PROVE  BytesKept
<1>0. HeaderSize \in Nat /\ HeaderSize' = HeaderSize
  BY HeaderFacts DEF WriteHeader
<1>1. /\ send = "opening" /\ Len(stream) \in Nat /\ pos = 0 /\ ~abandoned
      /\ stream \in Seq(0..DATA) /\ DATA \in Nat /\ n \in Nat /\ flight \in Seq(1..DATA)
      /\ Len(flight) <= 0 /\ Len(stream) + n <= HeaderSize
  BY StreamConstants DEF WriteHeader, StreamInOrder, TypeOK
<1>2. Len(flight) = 0 /\ flight = <<>>
  BY <1>1
<1>3. Handed = 0 /\ Handed' = 0
  BY <1>1, <1>2 DEF Handed, WriteHeader
<1>4. stream' \in Seq(0..DATA) /\ Len(stream') = Len(stream) + n
  <2>. DEFINE z == [i \in 1..n |-> 0]
  <2>1. z \in Seq(0..DATA) /\ Len(z) = n
    BY <1>1
  <2>2. stream' = stream \o z
    BY DEF WriteHeader
  <2>. QED
    BY <1>1, <2>1, <2>2
<1>5. Len(stream') <= HeaderSize /\ Len(stream) <= Len(stream')
  BY <1>0, <1>1, <1>4
<1>6. Ascending(stream', HeaderSize, Handed') /\ Gapless(stream', HeaderSize)
  <2>1. HeaderSize + 1..Len(stream') = {}
    BY <1>0, <1>1, <1>4, <1>5
  <2>. QED
    BY <2>1 DEF Ascending, Gapless
<1>7. From(flight', Handed') /\ Len(flight') <= pos'
  BY <1>1, <1>2 DEF WriteHeader, From
<1>8. Len(stream') >= HeaderSize => Len(stream') = HeaderSize + Handed'
  <2>1. Len(stream') \in Nat /\ HeaderSize + 0 = HeaderSize
    BY <1>0, <1>1, <1>4
  <2>2. Len(stream') >= HeaderSize => Len(stream') = HeaderSize + 0
    BY <1>0, <1>5, <2>1
  <2>. QED
    BY <1>3, <2>2
<1>9. /\ kind' = kind /\ pos' = pos /\ flight' = <<>> /\ ~abandoned'
      /\ send' = "opening" \/ (send' = "open" /\ Len(stream') = HeaderSize)
  BY <1>0, <1>1, <1>2 DEF WriteHeader, TypeOK
<1>10. Len(stream') \in Nat
  BY <1>1, <1>4
<1>11. send' = "open" => Len(stream') >= HeaderSize
  BY <1>0, <1>9, <1>10
<1>12. StreamInOrder'
  BY <1>0, <1>1, <1>5, <1>6, <1>7, <1>8, <1>9, <1>11 DEF StreamInOrder
<1>13. pos' \in 0..DATA /\ flight' \in Seq(1..DATA) /\ abandoned' \in BOOLEAN
  <2>1. 0 \in 0..DATA /\ <<>> \in Seq(1..DATA)
    BY <1>1
  <2>. QED
    BY <1>1, <1>9, <2>1 DEF WriteHeader, TypeOK
<1>. QED
  BY <1>1, <1>4, <1>5, <1>9, <1>12, <1>13 DEF BytesKept

\* write_buf over Quion appends what it advances by.
LEMMA WriteBufBytes ==
    ASSUME TypeOK, StreamInOrder, NEW n \in 1..DATA, WriteBuf(n)
    PROVE  BytesKept
<1>0. /\ send = "open" /\ kind.backend = "quion" /\ kind.api = "buf" /\ pos + n <= DATA
      /\ stream' = stream \o SubSeq(Data, pos + 1, pos + n) /\ pos' = pos + n
      /\ UNCHANGED <<kind, send, flight, abandoned>>
  BY DEF WriteBuf, Writable
<1>1. /\ pos \in Nat /\ n \in Nat /\ DATA \in Nat /\ abandoned \in BOOLEAN
      /\ flight = <<>> /\ Handed = pos /\ Handed' = pos + n
  BY <1>0, StreamConstants DEF TypeOK, StreamInOrder, Handed
<1>. DEFINE s == SubSeq(Data, pos + 1, pos + n)
<1>2. s \in Seq(1..DATA) /\ Len(s) = n /\ From(s, Handed)
  BY <1>0, <1>1, DataFacts
<1>3. /\ flight' \in Seq(1..DATA) /\ Len(flight') <= pos' /\ From(flight', Handed')
      /\ flight' = <<>>
  BY <1>0, <1>1 DEF From
<1>4. stream' = stream \o s /\ Handed' = Handed + Len(s)
  BY <1>0, <1>1, <1>2
<1>. HIDE DEF s
<1>5. stream' \in Seq(0..DATA) /\ Len(stream) <= Len(stream') /\ StreamInOrder'
  BY <1>0, <1>2, <1>3, <1>4, AppendBytes
<1>6. pos' \in 0..DATA
  BY <1>0, <1>1
<1>. QED
  BY <1>0, <1>1, <1>3, <1>5, <1>6 DEF BytesKept

\* A chunk leaves the buffer and is in flight as a whole.
LEMMA WriteChunkBytes ==
    ASSUME TypeOK, StreamInOrder, NEW n \in 1..DATA, WriteChunk(n)
    PROVE  BytesKept
<1>0. /\ send = "open" /\ ~(kind.backend = "quion" /\ kind.api = "buf") /\ pos + n <= DATA
      /\ flight' = SubSeq(Data, pos + 1, pos + n) /\ pos' = pos + n /\ flight = <<>>
      /\ UNCHANGED <<kind, send, stream, abandoned>>
  BY DEF WriteChunk, TypeOK, Kind
<1>1. /\ pos \in Nat /\ n \in Nat /\ DATA \in Nat /\ abandoned \in BOOLEAN /\ Handed = pos
      /\ Len(stream) \in Nat /\ stream \in Seq(0..DATA) /\ HeaderSize \in Nat
      /\ HeaderSize' = HeaderSize
  BY <1>0, HeaderFacts, StreamConstants DEF TypeOK, Handed
<1>2. flight' \in Seq(1..DATA) /\ Len(flight') = n /\ From(flight', pos)
  <2>. DEFINE s == SubSeq(Data, pos + 1, pos + n)
  <2>1. s \in Seq(1..DATA) /\ Len(s) = n /\ From(s, pos)
    BY <1>0, <1>1, DataFacts
  <2>. QED
    BY <1>0, <2>1
<1>3. Handed' = Handed /\ Len(flight') <= pos' /\ From(flight', Handed') /\ pos' \in 0..DATA
  BY <1>0, <1>1, <1>2 DEF Handed
<1>4. Len(stream) >= HeaderSize /\ ~(Len(stream) < HeaderSize)
  BY <1>0, <1>1 DEF StreamInOrder
<1>5. StreamInOrder'
  BY <1>0, <1>1, <1>3, <1>4 DEF StreamInOrder
<1>. QED
  BY <1>0, <1>1, <1>2, <1>3, <1>5 DEF BytesKept

\* A turn of the loop moves bytes from the front of the flight to the stream.
LEMMA PushBytes ==
    ASSUME TypeOK, StreamInOrder, NEW n \in 1..DATA, Push(n)
    PROVE  BytesKept
<1>0. /\ send = "open" /\ n <= Len(flight)
      /\ stream' = stream \o SubSeq(flight, 1, n)
      /\ flight' = SubSeq(flight, n + 1, Len(flight))
      /\ UNCHANGED <<kind, send, pos, abandoned>>
  BY DEF Push, Writable
<1>1. /\ pos \in 0..DATA /\ n \in Nat /\ DATA \in Nat /\ abandoned \in BOOLEAN
      /\ flight \in Seq(1..DATA) /\ Len(flight) \in Nat /\ Len(flight) <= pos
      /\ Handed = pos - Len(flight) /\ From(flight, Handed)
  BY <1>0, StreamConstants DEF TypeOK, StreamInOrder, Handed
<1>. DEFINE s == SubSeq(flight, 1, n)
<1>2. \A i \in 1..Len(flight) : flight[i] \in 1..DATA /\ flight[i] = Handed + i
  BY <1>1 DEF From
<1>3. /\ s \in Seq(1..DATA) /\ Len(s) = n
      /\ \A i \in 1..n : s[i] = flight[i]
  BY <1>0, <1>1
<1>4. From(s, Handed)
  <2>1. \A i \in 1..n : i \in 1..Len(flight)
    BY <1>0, <1>1
  <2>. QED
    BY <1>2, <1>3, <2>1 DEF From
<1>5. /\ flight' \in Seq(1..DATA) /\ Len(flight') = Len(flight) - n
      /\ \A i \in 1..Len(flight) - n : flight'[i] = flight[n + i]
  <2>1. /\ SubSeq(flight, n + 1, Len(flight)) \in Seq(1..DATA)
        /\ Len(SubSeq(flight, n + 1, Len(flight))) = Len(flight) - n
        /\ \A i \in 1..Len(flight) - n : SubSeq(flight, n + 1, Len(flight))[i] = flight[n + i]
    BY <1>0, <1>1
  <2>. QED
    BY <1>0, <2>1
<1>6. Handed' = Handed + n /\ Len(flight') <= pos'
  <2>1. Handed' = pos - Len(flight')
    BY <1>0 DEF Handed
  <2>. DEFINE l == Len(flight')
  <2>2. l = Len(flight) - n
    BY <1>5
  <2>. HIDE DEF l
  <2>3. pos - l = (pos - Len(flight)) + n /\ l <= pos
    BY <1>1, <2>2
  <2>. QED
    BY <1>0, <1>1, <2>1, <2>3 DEF l
<1>7. From(flight', Handed')
  <2>1. ASSUME NEW i \in 1..Len(flight') PROVE flight'[i] = Handed' + i
    <3>1. n + i \in 1..Len(flight) /\ i \in 1..Len(flight) - n
      BY <1>0, <1>1, <1>5
    <3>2. flight'[i] = Handed + (n + i)
      BY <1>2, <1>5, <3>1
    <3>3. Handed \in Int
      BY <1>1
    <3>. QED
      BY <1>1, <1>6, <3>2, <3>3
  <2>. QED
    BY <2>1 DEF From
<1>8. ~(kind.backend = "quion" /\ kind.api = "buf")
  BY <1>0, <1>1 DEF StreamInOrder
<1>9. stream' = stream \o s /\ Handed' = Handed + Len(s)
  BY <1>0, <1>3, <1>6
<1>. HIDE DEF s
<1>10. stream' \in Seq(0..DATA) /\ Len(stream) <= Len(stream') /\ StreamInOrder'
  BY <1>0, <1>3, <1>4, <1>5, <1>6, <1>7, <1>8, <1>9, AppendBytes
<1>. QED
  BY <1>0, <1>1, <1>5, <1>10 DEF BytesKept

\* Every step keeps the bytes in order.
LEMMA BytesStep ==
    ASSUME TypeOK, StreamInOrder, [Next]_vars
    PROVE  BytesKept
<1>0. stream \in Seq(0..DATA) /\ Len(stream) \in Nat /\ DATA \in Nat /\ pos \in 0..DATA
      /\ flight \in Seq(1..DATA) /\ abandoned \in BOOLEAN /\ <<>> \in Seq(1..DATA)
  BY StreamConstants DEF TypeOK
<1>1. CASE AbandonWrite \/ DropSend
  <2>1. /\ flight' = <<>> /\ abandoned' = (abandoned \/ flight # <<>>)
        /\ send' = send \/ (send' = "dropped" /\ send \in {"open", "finished", "reset"})
        /\ UNCHANGED <<kind, pos, stream>>
    BY <1>1 DEF AbandonWrite, DropSend
  <2>2. send \in {"none", "opening", "open", "finished", "reset", "dropped"}
    BY DEF TypeOK
  <2>3. StreamInOrder'
    BY <2>1, <2>2, Abandoned
  <2>4. abandoned' \in BOOLEAN
    BY <2>1
  <2>. QED
    BY <1>0, <2>1, <2>3, <2>4 DEF BytesKept
<1>2. CASE Open
  BY <1>2, OpenBytes
<1>3. CASE \E n \in 1..HEADER : WriteHeader(n)
  BY <1>3, WriteHeaderBytes
<1>4. CASE \E n \in 1..DATA : WriteBuf(n) \/ WriteChunk(n) \/ Push(n)
  BY <1>4, WriteBufBytes, WriteChunkBytes, PushBytes
<1>5. CASE /\ UNCHANGED <<kind, pos, flight, abandoned, stream>>
           /\ \/ send' = send
              \/ send' = "dropped"
              \/ send \in {"open", "finished"} /\ send' \in {"finished", "reset"}
  <2>1. HeaderSize' = HeaderSize /\ Handed' = Handed
    BY <1>5, HeaderFacts DEF Handed
  <2>2. StreamInOrder'
    BY <1>5, <2>1 DEF StreamInOrder
  <2>. QED
    BY <1>0, <1>5, <2>2 DEF BytesKept
<1>6. CASE AbandonOpen \/ finish \/ Closed \/ \E c \in Code : reset(c)
  BY <1>5, <1>6 DEF AbandonOpen, finish, Closed, reset, Writable
<1>7. CASE UNCHANGED sendVars
  BY <1>5, <1>7 DEF sendVars
<1>8. \/ Deliver \/ EndingArrives \/ StopArrives \/ ConnectionLost
      \/ Accept \/ HeaderLost \/ ReadEnds \/ DropRecv
      \/ (\E n \in 1..DATA : read(n)) \/ (\E c \in Code : Stop(c))
      \/ UNCHANGED vars
      => UNCHANGED sendVars
  BY DEF Deliver, EndingArrives, StopArrives, ConnectionLost, Accept, HeaderLost,
         ReadEnds, DropRecv, read, Stop, vars, sendVars
<1>. QED
  BY <1>1, <1>2, <1>3, <1>4, <1>6, <1>7, <1>8 DEF Next
-----------------------------------------------------------------------------
(***************************************************************************)
(* How the stream ends.                                                    *)
(***************************************************************************)

\* The records that describe an end are told apart by their first field.
LEMMA Shapes ==
    /\ NotEnded.how = "none" /\ Fin.how = "fin" /\ NotEnded # Fin
    /\ NoOutcome.how = "none" /\ Clean.how = "ok" /\ SessionGone.how = "session"
    /\ NoOutcome # Clean /\ NoOutcome # SessionGone /\ Clean # SessionGone
    /\ \A c, z, b : /\ WireReset(c, z, b).how = "reset" /\ WireReset(c, z, b).code = c
                    /\ WireReset(c, z, b).size = z /\ WireReset(c, z, b).by = b
                    /\ WireReset(c, z, b) # NotEnded /\ WireReset(c, z, b) # Fin
    /\ \A h, c : /\ StreamError(h, c).how = h
                 /\ StreamError(h, c).code = error_from_http3(c)
<1>1. NotEnded.how = "none" /\ Fin.how = "fin"
  BY DEF NotEnded, Fin
<1>2. NoOutcome.how = "none" /\ Clean.how = "ok" /\ SessionGone.how = "session"
  BY DEF NoOutcome, Clean, SessionGone
<1>3. ASSUME NEW c, NEW z, NEW b
      PROVE  /\ WireReset(c, z, b).how = "reset" /\ WireReset(c, z, b).code = c
             /\ WireReset(c, z, b).size = z /\ WireReset(c, z, b).by = b
  BY DEF WireReset
<1>4. ASSUME NEW h, NEW c
      PROVE  StreamError(h, c).how = h /\ StreamError(h, c).code = error_from_http3(c)
  BY DEF StreamError
<1>5. "none" # "fin" /\ "none" # "ok" /\ "none" # "session" /\ "ok" # "session"
      /\ "reset" # "none" /\ "reset" # "fin"
  OBVIOUS
<1>6. ASSUME NEW c, NEW z, NEW b
      PROVE  WireReset(c, z, b) # NotEnded /\ WireReset(c, z, b) # Fin
  BY <1>1, <1>3, <1>5
<1>. QED
  BY <1>1, <1>2, <1>3, <1>4, <1>5, <1>6

\* The code of a STOP_SENDING: the application's, QUIC's own 0, or none yet.
LEMMA StopFacts ==
    ASSUME TypeOK
    PROVE  /\ stop.code \in Nat \cup {None}
           /\ stop.code = 0 \/ stop.code = None \/
                 (stop.by \in Code /\ stop.code = error_to_http3(stop.by))
           /\ stop.code # None /\ error_from_http3(stop.code) = None => stop.code = 0
           /\ stop.code = 0 \/ stop.code = None => stop.by = None
<1>1. stop \in StopSet
  BY DEF TypeOK
<1>2. CASE stop = [code |-> None, by |-> None]
  <2>1. stop.code = None /\ stop.by = None
    BY <1>2
  <2>. QED
    BY <2>1
<1>3. CASE stop = [code |-> 0, by |-> None]
  <2>1. stop.code = 0 /\ stop.by = None /\ 0 \in Nat
    BY <1>3
  <2>. QED
    BY <2>1
<1>4. CASE \E c \in Code : stop = [code |-> error_to_http3(c), by |-> c]
  <2>1. PICK c \in Code : stop = [code |-> error_to_http3(c), by |-> c]
    BY <1>4
  <2>2. stop.code = error_to_http3(c) /\ stop.by = c
    BY <2>1
  <2>3. /\ error_to_http3(c) \in Nat /\ error_to_http3(c) # 0 /\ c # None
        /\ error_from_http3(error_to_http3(c)) = c
    BY WireFacts
  <2>4. error_to_http3(c) # None
    BY <2>3 DEF None
  <2>. QED
    BY <2>2, <2>3, <2>4
<1>. QED
  BY <1>1, <1>2, <1>3, <1>4 DEF StopSet

\* A member of EndingSet, by its first field.
LEMMA EndingFacts ==
    ASSUME NEW e \in EndingSet
    PROVE  /\ e.how \in {"none", "fin", "reset"}
           /\ e.how = "none" <=> e = NotEnded
           /\ e.how = "fin" <=> e = Fin
           /\ e.how = "reset" => e.code \in Nat /\ e.size \in {0, HeaderSize}
<1>1. CASE e \in ResetSet
  <2>1. e.how = "reset" /\ e.code \in Nat /\ e.size \in {0, HeaderSize}
    BY <1>1 DEF ResetSet
  <2>. QED
    BY <2>1, Shapes
<1>2. CASE e = NotEnded
  BY <1>2, Shapes
<1>3. CASE e = Fin
  BY <1>3, Shapes
<1>. QED
  BY <1>1, <1>2, <1>3 DEF EndingSet

\* The endings a stream may have do not change with its state.
LEMMA SameEndings ==
    ASSUME UNCHANGED kind
    PROVE  EndingSet' = EndingSet
<1>1. HeaderSize' = HeaderSize
  BY HeaderFacts
<1>2. ResetSet' = ResetSet
  BY <1>1 DEF ResetSet
<1>. QED
  BY <1>2 DEF EndingSet, NotEnded, Fin

\* What the sending side does to its end.
SenderEnds ==
    \/ UNCHANGED <<send, ending>>
    \/ /\ send \in {"none", "opening"} /\ send' \in {"opening", "open"} /\ UNCHANGED ending
    \/ /\ send \in {"opening", "open"} /\ send' \in {"dropped", "finished"} /\ ending' = Fin
    \/ /\ send \in {"open", "finished"} /\ send' = "reset"
       /\ \E c \in Code :
             ending' = WireReset(error_to_http3(c), IF kind.reliable THEN HeaderSize ELSE 0, c)
    \/ /\ send \in {"finished", "reset"} /\ send' = "dropped" /\ UNCHANGED ending
    \/ /\ send = "open" /\ told /\ send' = "dropped" /\ ending' = WireReset(stop.code, 0, None)

\* Every step is one of the sending side, of the network or of the reader.
LEMMA SenderStep ==
    ASSUME [Next]_vars, TypeOK
    PROVE  \/ UNCHANGED <<netVars, recvVars>> /\ SenderEnds /\ (UNCHANGED result \/ Closed)
           \/ UNCHANGED <<sendVars, recvVars>>
                /\ (Deliver \/ EndingArrives \/ StopArrives \/ ConnectionLost)
           \/ UNCHANGED <<sendVars, netVars>>
                /\ \/ Accept \/ HeaderLost \/ ReadEnds \/ DropRecv
                   \/ (\E n \in 1..DATA : read(n)) \/ (\E c \in Code : Stop(c))
<1>1. CASE \/ Open \/ AbandonWrite \/ AbandonOpen \/ finish \/ Closed \/ UNCHANGED vars
           \/ (\E n \in 1..HEADER : WriteHeader(n))
  BY <1>1 DEF Open, AbandonWrite, AbandonOpen, finish, Closed, WriteHeader, Writable,
              SenderEnds, vars, netVars, recvVars
<1>2. CASE \E n \in 1..DATA : WriteBuf(n) \/ WriteChunk(n) \/ Push(n)
  BY <1>2 DEF WriteBuf, WriteChunk, Push, SenderEnds
<1>3. CASE \E c \in Code : reset(c)
  BY <1>3 DEF reset, SenderEnds
<1>4. CASE DropSend
  <2>1. /\ send' = "dropped" /\ send \in {"open", "finished", "reset"}
        /\ UNCHANGED <<result, netVars, recvVars>>
    BY <1>4 DEF DropSend
  <2>2. CASE send # "open"
    <3>1. ending' = ending
      BY <1>4, <2>2 DEF DropSend
    <3>. QED
      BY <2>1, <2>2, <3>1 DEF SenderEnds
  <2>3. CASE send = "open" /\ told
    <3>1. ending' = WireReset(stop.code, 0, None)
      BY <1>4, <2>3 DEF DropSend
    <3>. QED
      BY <2>1, <2>3, <3>1 DEF SenderEnds
  <2>4. CASE send = "open" /\ ~told
    <3>1. ending' = Fin
      BY <1>4, <2>4 DEF DropSend
    <3>. QED
      BY <2>1, <2>4, <3>1 DEF SenderEnds
  <2>. QED
    BY <2>2, <2>3, <2>4
<1>5. CASE Deliver \/ EndingArrives \/ StopArrives \/ ConnectionLost
  BY <1>5 DEF Deliver, EndingArrives, StopArrives, ConnectionLost, sendVars, recvVars
<1>6. CASE \/ Accept \/ HeaderLost \/ ReadEnds \/ DropRecv
           \/ (\E n \in 1..DATA : read(n)) \/ (\E c \in Code : Stop(c))
  BY <1>6 DEF Accept, HeaderLost, ReadEnds, DropRecv, read, Stop, sendVars, netVars
<1>. QED
  BY <1>1, <1>2, <1>3, <1>4, <1>5, <1>6 DEF Next

\* The sending side's end stays what its type says.
LEMMA SenderType ==
    ASSUME IInv, SenderEnds
    PROVE  /\ ending' \in EndingSet
           /\ send' \in {"none", "opening", "open", "finished", "reset", "dropped"}
<1>1. /\ ending \in EndingSet
      /\ send \in {"none", "opening", "open", "finished", "reset", "dropped"}
  BY DEF IInv, TypeOK
<1>2. send' \in {"none", "opening", "open", "finished", "reset", "dropped"}
  BY <1>1 DEF SenderEnds
<1>3. CASE ending' = ending \/ ending' = Fin
  BY <1>1, <1>2, <1>3 DEF EndingSet
<1>4. ASSUME NEW c \in Code, NEW z \in {0, HeaderSize},
             ending' = WireReset(error_to_http3(c), z, c)
      PROVE  ending' \in EndingSet
  <2>1. error_to_http3(c) \in Nat /\ c \in Code \cup {None}
    BY WireFacts
  <2>. QED
    BY <1>4, <2>1 DEF EndingSet, ResetSet, WireReset
<1>5. ASSUME told, ending' = WireReset(stop.code, 0, None)
      PROVE  ending' \in EndingSet
  <2>1. stop.code \in Nat
    BY <1>5, StopFacts DEF IInv, ReadsWhatWasSent
  <2>. QED
    BY <1>5, <2>1 DEF EndingSet, ResetSet, WireReset
<1>6. (IF kind.reliable THEN HeaderSize ELSE 0) \in {0, HeaderSize}
  OBVIOUS
<1>. QED
  BY <1>2, <1>3, <1>4, <1>5, <1>6 DEF SenderEnds

\* Every step keeps the types.
LEMMA TypeStep ==
    ASSUME IInv, [Next]_vars
    PROVE  TypeOK'
<1>0. TypeOK /\ BytesKept
  BY BytesStep DEF IInv
<1>1. EndingSet' = EndingSet
  BY <1>0, SameEndings DEF BytesKept
<1>2. /\ kind' \in Kind /\ pos' \in 0..DATA /\ flight' \in Seq(1..DATA)
      /\ abandoned' \in BOOLEAN /\ stream' \in Seq(0..DATA)
  BY <1>0 DEF BytesKept, TypeOK
<1>3. CASE UNCHANGED <<netVars, recvVars>> /\ SenderEnds /\ (UNCHANGED result \/ Closed)
  <2>1. /\ ending' \in EndingSet
        /\ send' \in {"none", "opening", "open", "finished", "reset", "dropped"}
    BY <1>3, SenderType
  <2>2. result' \in OutcomeSet
    <3>1. CASE UNCHANGED result
      BY <1>0, <3>1 DEF TypeOK
    <3>2. CASE result' \in {Clean, SessionGone}
      BY <3>2 DEF OutcomeSet
    <3>3. CASE told /\ result' = StreamError("stopped", stop.code)
      <4>1. stop.code \in Nat
        BY <1>0, <3>3, StopFacts DEF IInv, ReadsWhatWasSent
      <4>2. error_from_http3(stop.code) \in AppCode \cup {None}
        BY <4>1, WireFacts
      <4>. QED
        BY <3>3, <4>2 DEF OutcomeSet, StreamError
    <3>. QED
      BY <1>3, <3>1, <3>2, <3>3 DEF Closed
  <2>. QED
    BY <1>0, <1>1, <1>2, <1>3, <2>1, <2>2 DEF TypeOK, netVars, recvVars, OutcomeSet, StopSet
<1>4. CASE /\ UNCHANGED <<sendVars, recvVars>>
           /\ Deliver \/ EndingArrives \/ StopArrives \/ ConnectionLost
  <2>1. arrived' \in Nat /\ heard' \in EndingSet /\ conn' \in {"open", "lost"} /\ told' \in BOOLEAN
    <3>0. arrived \in Nat /\ heard \in EndingSet /\ ending \in EndingSet
          /\ conn \in {"open", "lost"} /\ told \in BOOLEAN /\ arrived + 1 \in Nat
      BY <1>0 DEF TypeOK
    <3>1. CASE Deliver
      BY <3>0, <3>1 DEF Deliver
    <3>2. CASE EndingArrives
      BY <3>0, <3>2 DEF EndingArrives
    <3>3. CASE StopArrives
      BY <3>0, <3>3 DEF StopArrives
    <3>4. CASE ConnectionLost
      BY <3>0, <3>4 DEF ConnectionLost
    <3>. QED
      BY <1>4, <3>1, <3>2, <3>3, <3>4
  <2>. QED
    BY <1>0, <1>1, <1>2, <1>4, <2>1 DEF TypeOK, sendVars, recvVars, OutcomeSet, StopSet
<1>5. CASE /\ UNCHANGED <<sendVars, netVars>>
           /\ \/ Accept \/ HeaderLost \/ ReadEnds \/ DropRecv
              \/ (\E n \in 1..DATA : read(n)) \/ (\E c \in Code : Stop(c))
  <2>1. taken' \in Nat
    <3>1. HeaderSize \in Nat /\ taken \in Nat /\ DATA \in Nat
      BY <1>0, HeaderFacts, StreamConstants DEF TypeOK
    <3>2. taken' = taken \/ taken' = HeaderSize \/ \E n \in 1..DATA : taken' = taken + n
      BY <1>5 DEF Accept, HeaderLost, ReadEnds, DropRecv, read, Stop
    <3>. QED
      BY <3>1, <3>2
  <2>2. recv' \in {"none", "open", "stopped", "dropped", "lost"}
    BY <1>0, <1>5 DEF Accept, HeaderLost, ReadEnds, DropRecv, read, Stop, TypeOK
  <2>3. stop' \in StopSet
    BY <1>0, <1>5 DEF Accept, HeaderLost, ReadEnds, DropRecv, read, Stop, TypeOK, StopSet
  <2>4. outcome' \in OutcomeSet
    <3>1. CASE outcome' \in {Clean, SessionGone} \/ outcome' = outcome
      BY <1>0, <3>1 DEF OutcomeSet, TypeOK
    <3>2. CASE heard.how = "reset" /\ outcome' = StreamError("reset", heard.code)
      <4>1. heard.code \in Nat
        BY <1>0, <3>2, EndingFacts DEF TypeOK
      <4>2. error_from_http3(heard.code) \in AppCode \cup {None}
        BY <4>1, WireFacts
      <4>. QED
        BY <3>2, <4>2 DEF OutcomeSet, StreamError
    <3>. QED
      BY <1>5, <3>1, <3>2 DEF Accept, HeaderLost, ReadEnds, DropRecv, read, Stop
  <2>. QED
    BY <1>0, <1>1, <1>2, <1>5, <2>1, <2>2, <2>3, <2>4 DEF TypeOK, sendVars, netVars, OutcomeSet, StopSet
<1>. QED
  BY <1>0, <1>3, <1>4, <1>5, SenderStep

\* An end is announced once: the sending side goes through its states in order.
LEMMA EndsStep ==
    ASSUME IInv, [Next]_vars
    PROVE  EndsOnce'
<1>0. TypeOK /\ EndsOnce /\ kind' = kind
  BY BytesStep DEF IInv, BytesKept
<1>1. HeaderSize' = HeaderSize
  BY <1>0, HeaderFacts
<1>2. CASE UNCHANGED <<netVars, recvVars>> /\ SenderEnds
  <2>0. UNCHANGED <<heard, stop>>
    BY <1>2 DEF netVars, recvVars
  <2>1. send \in {"none", "opening", "open", "finished", "reset", "dropped"}
    BY <1>0 DEF TypeOK
  <2>2. CASE UNCHANGED <<send, ending>>
    BY <1>0, <1>1, <2>0, <2>2 DEF EndsOnce
  <2>3. CASE send \in {"none", "opening"} /\ send' \in {"opening", "open"} /\ UNCHANGED ending
    BY <1>0, <1>1, <2>0, <2>3 DEF EndsOnce
  <2>4. CASE send \in {"opening", "open"} /\ send' \in {"dropped", "finished"} /\ ending' = Fin
    BY <1>0, <1>1, <2>0, <2>4, Shapes DEF EndsOnce
  <2>5. ASSUME send \in {"open", "finished"}, send' = "reset", NEW c \in Code,
               ending' = WireReset(error_to_http3(c), IF kind.reliable THEN HeaderSize ELSE 0, c)
        PROVE  EndsOnce'
    BY <1>0, <1>1, <2>0, <2>5, Shapes DEF EndsOnce
  <2>6. CASE send \in {"finished", "reset"} /\ send' = "dropped" /\ UNCHANGED ending
    BY <1>0, <1>1, <2>0, <2>6 DEF EndsOnce
  <2>7. CASE send = "open" /\ told /\ send' = "dropped" /\ ending' = WireReset(stop.code, 0, None)
    <3>1. stop.code # None
      BY <2>7 DEF IInv, ReadsWhatWasSent
    <3>. QED
      BY <1>0, <1>1, <2>0, <2>7, <3>1, Shapes DEF EndsOnce
  <2>. QED
    BY <1>2, <2>2, <2>3, <2>4, <2>5, <2>6, <2>7 DEF SenderEnds
<1>3. CASE /\ UNCHANGED <<sendVars, recvVars>>
           /\ Deliver \/ EndingArrives \/ StopArrives \/ ConnectionLost
  <2>1. heard' = heard \/ heard' = ending
    BY <1>3 DEF Deliver, EndingArrives, StopArrives, ConnectionLost
  <2>. QED
    BY <1>0, <1>1, <1>3, <2>1 DEF EndsOnce, sendVars, recvVars
<1>4. CASE /\ UNCHANGED <<sendVars, netVars>>
           /\ \/ Accept \/ HeaderLost \/ ReadEnds \/ DropRecv
              \/ (\E n \in 1..DATA : read(n)) \/ (\E c \in Code : Stop(c))
  <2>1. stop.code # None => stop'.code # None
    <3>1. 0 # None /\ \A c \in Code : error_to_http3(c) # None
      BY WireFacts DEF None
    <3>2. stop' = stop \/ stop' = [code |-> 0, by |-> None]
            \/ \E c \in Code : stop' = [code |-> error_to_http3(c), by |-> c]
      BY <1>4 DEF Accept, HeaderLost, ReadEnds, DropRecv, read, Stop
    <3>. QED
      BY <3>1, <3>2
  <2>. QED
    BY <1>0, <1>1, <1>4, <2>1 DEF EndsOnce, sendVars, netVars
<1>. QED
  BY <1>0, <1>2, <1>3, <1>4, SenderStep
-----------------------------------------------------------------------------
(***************************************************************************)
(* What the receiving side makes of it.                                    *)
(***************************************************************************)

\* A stream that has ended grows no more, and an end that has been announced
\* is known to be one.
LEMMA Ended ==
    ASSUME IInv, [Next]_vars
    PROVE  /\ Len(stream) \in Nat /\ Len(stream') \in Nat /\ Len(stream) <= Len(stream')
           /\ ending # NotEnded => stream' = stream
           /\ heard # NotEnded => ending # NotEnded
           /\ heard.how = "reset" => heard = ending
           /\ heard = Fin /\ ending # Fin => send \in {"reset", "dropped"}
           /\ HeaderSize \in Nat /\ HeaderSize' = HeaderSize /\ kind' = kind
<1>1. BytesKept /\ TypeOK /\ EndsOnce
  BY BytesStep DEF IInv
<1>2. Len(stream) \in Nat /\ Len(stream') \in Nat /\ Len(stream) <= Len(stream')
  BY <1>1 DEF BytesKept, TypeOK
<1>3. HeaderSize \in Nat /\ HeaderSize' = HeaderSize /\ kind' = kind
  BY <1>1, HeaderFacts DEF BytesKept
<1>4. send \in {"none", "opening", "open", "finished", "reset", "dropped"}
  BY <1>1 DEF TypeOK
<1>5. ending # NotEnded => stream' = stream
  BY <1>1, <1>4 DEF BytesKept, EndsOnce
<1>6. /\ heard # NotEnded => ending # NotEnded
      /\ heard.how = "reset" => heard = ending
      /\ heard = Fin /\ ending # Fin => send \in {"reset", "dropped"}
  BY <1>1, <1>4, Shapes DEF EndsOnce
<1>. QED
  BY <1>2, <1>3, <1>5, <1>6

\* A step of the sending side takes nothing away from the reader.
LEMMA SenderReads ==
    ASSUME IInv, [Next]_vars, UNCHANGED <<netVars, recvVars>>, SenderEnds,
           UNCHANGED result \/ Closed
    PROVE  ReadsWhatWasSent'
<1>0. ReadsWhatWasSent /\ EndsOnce /\ TypeOK
  BY DEF IInv
<1>1. UNCHANGED <<conn, arrived, heard, told, recv, taken, outcome, stop>>
  BY DEF netVars, recvVars
<1>2. arrived' <= Len(stream')
  BY <1>0, <1>1, Ended DEF ReadsWhatWasSent, TypeOK
<1>3. ending # NotEnded => ending' # NotEnded
  BY <1>0, Shapes DEF SenderEnds, EndsOnce
<1>4. ending.how = "reset" => ending' = ending
  BY <1>0, Shapes DEF SenderEnds, EndsOnce
<1>5. recv' = "lost" => \/ conn' = "lost"
                        \/ ending' # NotEnded /\ Len(stream') < HeaderSize'
                        \/ ~kind'.reliable /\ ending'.how = "reset"
  BY <1>0, <1>1, <1>3, <1>4, Ended DEF ReadsWhatWasSent
<1>6. outcome' = Clean => heard' = Fin /\ taken' = Len(stream')
  BY <1>0, <1>1, Ended, Shapes DEF ReadsWhatWasSent
<1>7. outcome'.how = "reset" =>
          heard' = ending' /\ ending'.how = "reset" /\ outcome'.code = ending'.by
  BY <1>0, <1>1, <1>4 DEF ReadsWhatWasSent
<1>8. result'.how = "stopped" => told'
  BY <1>0, <1>1, Shapes DEF ReadsWhatWasSent, Closed
<1>. QED
  BY <1>0, <1>1, <1>2, <1>5, <1>6, <1>7, <1>8, Ended DEF ReadsWhatWasSent

\* Neither does the network.
LEMMA NetworkReads ==
    ASSUME IInv, [Next]_vars, UNCHANGED <<sendVars, recvVars>>,
           Deliver \/ EndingArrives \/ StopArrives \/ ConnectionLost
    PROVE  ReadsWhatWasSent'
<1>0. ReadsWhatWasSent /\ EndsOnce /\ TypeOK
  BY DEF IInv
<1>1. /\ UNCHANGED <<kind, send, stream, ending, result>>
      /\ UNCHANGED <<recv, taken, outcome, stop>>
  BY DEF sendVars, recvVars
<1>2. arrived \in Nat /\ taken \in Nat /\ Len(stream) \in Nat
  BY <1>0, Ended DEF TypeOK
<1>3. arrived' <= Len(stream) /\ arrived <= arrived' /\ arrived' \in Nat
  BY <1>0, <1>2 DEF ReadsWhatWasSent, Deliver, EndingArrives, StopArrives, ConnectionLost
<1>4. conn = "lost" => conn' = "lost"
  BY DEF Deliver, EndingArrives, StopArrives, ConnectionLost
<1>5. heard' = heard \/ (heard' = ending /\ outcome # Clean)
  BY DEF Deliver, EndingArrives, StopArrives, ConnectionLost
<1>6. told' => stop.code # None
  BY <1>0 DEF ReadsWhatWasSent, Deliver, EndingArrives, StopArrives, ConnectionLost
<1>7. told => told'
  BY DEF Deliver, EndingArrives, StopArrives, ConnectionLost
<1>8. recv \notin {"none", "lost"} => HeaderSize <= taken /\ taken <= arrived'
  BY <1>0, <1>2, <1>3 DEF ReadsWhatWasSent
<1>9. /\ outcome = Clean => heard' = Fin /\ taken = Len(stream)
      /\ outcome.how = "reset" =>
            heard' = ending /\ ending.how = "reset" /\ outcome.code = ending.by
  BY <1>0, <1>5 DEF ReadsWhatWasSent
<1>. QED
  BY <1>0, <1>1, <1>3, <1>4, <1>6, <1>7, <1>8, <1>9, Ended DEF ReadsWhatWasSent

\* Each step of the reader is true to what the sender did.
LEMMA ReaderReads ==
    ASSUME IInv, [Next]_vars, UNCHANGED <<sendVars, netVars>>,
           \/ Accept \/ HeaderLost \/ ReadEnds \/ DropRecv
           \/ (\E n \in 1..DATA : read(n)) \/ (\E c \in Code : Stop(c))
    PROVE  ReadsWhatWasSent'
<1>0. ReadsWhatWasSent /\ EndsOnce /\ TypeOK
  BY DEF IInv
<1>1. /\ UNCHANGED <<kind, send, stream, ending, result>>
      /\ UNCHANGED <<conn, arrived, heard, told>>
  BY DEF sendVars, netVars
<1>2. /\ arrived \in Nat /\ taken \in Nat /\ Len(stream) \in Nat /\ HeaderSize \in Nat
      /\ arrived <= Len(stream) /\ HeaderSize' = HeaderSize
  BY <1>0, Ended DEF TypeOK, ReadsWhatWasSent
<1>3. Readable \in Nat /\ Readable <= arrived
  <2>1. heard.how = "reset" => heard.size \in Nat
    BY <1>0, <1>2, EndingFacts DEF TypeOK
  <2>. QED
    BY <1>2, <2>1 DEF Readable
<1>4. stop.code = None \/ ~(recv \in {"none", "open", "lost"})
  BY <1>0 DEF ReadsWhatWasSent
<1>5. heard.how = "reset" /\ stop.code = None =>
          /\ heard = ending /\ ending.by \in Code /\ ending.code = error_to_http3(ending.by)
          /\ ending.size = IF kind.reliable THEN HeaderSize ELSE 0
  BY <1>0, Ended DEF EndsOnce
<1>6. CASE Accept
  <2>1. recv = "none" /\ recv' = "open" /\ taken' = HeaderSize /\ UNCHANGED <<outcome, stop>>
    BY <1>6 DEF Accept
  <2>2. HeaderSize <= taken' /\ taken' <= arrived
    BY <1>2, <1>3, <1>6 DEF Accept
  <2>3. outcome = NoOutcome /\ stop.code = None
    BY <1>0, <2>1 DEF ReadsWhatWasSent
  <2>. QED
    BY <1>0, <1>1, <1>2, <2>1, <2>2, <2>3, Shapes DEF ReadsWhatWasSent, None
<1>7. CASE HeaderLost
  <2>1. recv = "none" /\ recv' = "lost" /\ UNCHANGED <<taken, outcome, stop>>
    BY <1>7 DEF HeaderLost
  <2>2. stop.code = None /\ taken = 0 /\ outcome = NoOutcome
    BY <1>0, <2>1 DEF ReadsWhatWasSent
  <2>3. CASE conn = "lost"
    BY <1>0, <1>1, <1>2, <2>1, <2>2, <2>3 DEF ReadsWhatWasSent
  <2>4. CASE heard.how = "reset" /\ heard.size < HeaderSize
    <3>1. ~kind.reliable /\ ending.how = "reset"
      BY <1>2, <1>5, <2>2, <2>4
    <3>. QED
      BY <1>0, <1>1, <1>2, <2>1, <2>2, <3>1 DEF ReadsWhatWasSent
  <2>5. CASE Complete /\ Len(stream) < HeaderSize
    <3>1. ending # NotEnded
      BY <2>5, Ended, Shapes DEF Complete
    <3>. QED
      BY <1>0, <1>1, <1>2, <2>1, <2>2, <2>5, <3>1 DEF ReadsWhatWasSent
  <2>. QED
    BY <1>7, <2>3, <2>4, <2>5 DEF HeaderLost
<1>8. CASE ReadEnds
  <2>1. recv = "open" /\ outcome = NoOutcome /\ UNCHANGED <<recv, taken, stop>>
    BY <1>8 DEF ReadEnds, Reading
  <2>2. stop.code = None
    BY <1>4, <2>1
  <2>3. CASE Complete /\ taken = arrived /\ outcome' = Clean
    <3>1. heard = Fin /\ taken = Len(stream)
      BY <2>3 DEF Complete
    <3>. QED
      BY <1>0, <1>1, <1>2, <2>1, <2>2, <2>3, <3>1, Shapes DEF ReadsWhatWasSent, None
  <2>4. CASE heard.how = "reset" /\ outcome' = StreamError("reset", heard.code)
    <3>1. heard = ending /\ error_from_http3(ending.code) = ending.by
      BY <1>5, <2>2, <2>4, WireFacts
    <3>2. outcome'.how = "reset" /\ outcome'.code = ending.by /\ outcome' # Clean
      BY <2>4, <3>1, Shapes
    <3>. QED
      BY <1>0, <1>1, <1>2, <2>1, <2>2, <2>4, <3>1, <3>2 DEF ReadsWhatWasSent, None
  <2>5. CASE conn = "lost" /\ outcome' = SessionGone
    BY <1>0, <1>1, <1>2, <2>1, <2>2, <2>5, Shapes DEF ReadsWhatWasSent, None
  <2>. QED
    BY <1>8, <2>3, <2>4, <2>5 DEF ReadEnds
<1>9. CASE DropRecv
  <2>1. recv \in {"open", "stopped"} /\ recv' = "dropped" /\ UNCHANGED <<taken, outcome>>
    BY <1>9 DEF DropRecv
  <2>2. CASE Reading
    <3>1. stop'.code = 0 /\ outcome = NoOutcome
      BY <1>9, <2>2 DEF DropRecv, Reading
    <3>. QED
      BY <1>0, <1>1, <1>2, <2>1, <3>1, Shapes DEF ReadsWhatWasSent, None
  <2>3. CASE ~Reading
    <3>1. stop' = stop
      BY <1>9, <2>3 DEF DropRecv
    <3>. QED
      BY <1>0, <1>1, <1>2, <2>1, <3>1 DEF ReadsWhatWasSent
  <2>. QED
    BY <2>2, <2>3
<1>10. ASSUME NEW n \in 1..DATA, read(n)
       PROVE  ReadsWhatWasSent'
  <2>1. recv = "open" /\ outcome = NoOutcome /\ UNCHANGED <<recv, outcome, stop>>
    BY <1>10 DEF read, Reading
  <2>2. HeaderSize <= taken' /\ taken' <= arrived
    <3>1. HeaderSize <= taken /\ n \in Nat
      BY <1>0, <2>1, StreamConstants DEF ReadsWhatWasSent
    <3>. QED
      BY <1>2, <1>3, <1>10, <3>1 DEF read
  <2>. QED
    BY <1>0, <1>1, <1>2, <2>1, <2>2, Shapes DEF ReadsWhatWasSent
<1>11. ASSUME NEW c \in Code, Stop(c)
       PROVE  ReadsWhatWasSent'
  <2>1. recv = "open" /\ recv' = "stopped" /\ outcome = NoOutcome /\ UNCHANGED <<taken, outcome>>
    BY <1>11 DEF Stop, Reading
  <2>2. stop'.code = error_to_http3(c)
    BY <1>11 DEF Stop
  <2>3. stop'.code # 0 /\ stop'.code # None
    BY <2>2, WireFacts DEF None
  <2>. QED
    BY <1>0, <1>1, <1>2, <2>1, <2>3, Shapes DEF ReadsWhatWasSent
<1>. QED
  BY <1>6, <1>7, <1>8, <1>9, <1>10, <1>11

\* Every step keeps the receiving side true to what was sent.
LEMMA ReadsStep ==
    ASSUME IInv, [Next]_vars
    PROVE  ReadsWhatWasSent'
  BY SenderStep, SenderReads, NetworkReads, ReaderReads DEF IInv

\* What closed reports stays true: the reader's stop is final, and so is an end
\* that has arrived with all the bytes, unless the writer resets the stream.
LEMMA TrueStep ==
    ASSUME IInv, [Next]_vars, EndsOnce', ReadsWhatWasSent'
    PROVE  EndsAreTrue'
<1>0. ReadsWhatWasSent /\ EndsOnce /\ TypeOK /\ EndsAreTrue
  BY DEF IInv
<1>1. outcome' = Clean => taken' = Len(stream') /\ send' # "open"
  BY Shapes DEF ReadsWhatWasSent, EndsOnce
<1>2. outcome'.how = "reset" => outcome'.code = ending'.by
  BY DEF ReadsWhatWasSent
<1>3. CASE UNCHANGED <<netVars, recvVars>> /\ SenderEnds /\ (UNCHANGED result \/ Closed)
  <2>0. UNCHANGED <<conn, arrived, heard, told, recv, taken, outcome, stop>>
    BY <1>3 DEF netVars, recvVars
  <2>1. result.how = "stopped" => result.code = stop.by
    BY <1>0 DEF EndsAreTrue
  <2>2. send \in {"reset", "dropped"} => send' \in {"reset", "dropped"}
    BY <1>3 DEF SenderEnds
  <2>3. Complete => Complete'
    BY <2>0, Ended, Shapes DEF Complete
  <2>4. CASE UNCHANGED result
    BY <1>0, <1>1, <1>2, <2>0, <2>2, <2>3, <2>4 DEF EndsAreTrue
  <2>5. CASE Closed
    <3>0. UNCHANGED <<send, stream, ending>>
      BY <2>5 DEF Closed
    <3>1. CASE result' = SessionGone
      BY <1>1, <1>2, <3>1, Shapes DEF EndsAreTrue
    <3>2. CASE told /\ error_from_http3(stop.code) = None /\ result' = Clean
      <4>1. recv = "dropped"
        BY <1>0, <3>2, StopFacts DEF ReadsWhatWasSent
      <4>. QED
        BY <1>1, <1>2, <2>0, <3>2, <4>1, Shapes DEF EndsAreTrue
    <3>3. CASE /\ told /\ error_from_http3(stop.code) # None
               /\ result' = StreamError("stopped", stop.code)
      <4>1. error_from_http3(stop.code) = stop.by
        <5>1. stop.code # None /\ stop.code # 0
          BY <1>0, <3>3, WireFacts DEF ReadsWhatWasSent
        <5>. QED
          BY <1>0, <5>1, StopFacts, WireFacts
      <4>2. result'.how = "stopped" /\ result'.code = stop.by /\ result' # Clean
        BY <3>3, <4>1, Shapes
      <4>. QED
        BY <1>1, <1>2, <2>0, <4>2 DEF EndsAreTrue
    <3>4. CASE result' = Clean /\ (Complete \/ send = "reset")
      BY <1>1, <1>2, <2>3, <3>0, <3>4, Shapes DEF EndsAreTrue
    <3>. QED
      BY <2>5, <3>1, <3>2, <3>3, <3>4 DEF Closed
  <2>. QED
    BY <1>3, <2>4, <2>5
<1>4. CASE /\ UNCHANGED <<sendVars, recvVars>>
           /\ Deliver \/ EndingArrives \/ StopArrives \/ ConnectionLost
  <2>1. UNCHANGED <<send, stream, ending, result, recv, stop>>
    BY <1>4 DEF sendVars, recvVars
  <2>2. Complete => Complete' \/ send \in {"reset", "dropped"}
    <3>1. arrived \in Nat /\ Len(stream) \in Nat
      BY <1>0, Ended DEF TypeOK
    <3>2. CASE Deliver
      BY <3>1, <3>2 DEF Deliver, Complete
    <3>3. CASE EndingArrives
      BY <3>3, Ended DEF EndingArrives, Complete
    <3>4. CASE StopArrives \/ ConnectionLost
      BY <2>1, <3>4 DEF StopArrives, ConnectionLost, Complete
    <3>. QED
      BY <1>4, <3>2, <3>3, <3>4
  <2>. QED
    BY <1>0, <1>1, <1>2, <2>1, <2>2 DEF EndsAreTrue
<1>5. CASE /\ UNCHANGED <<sendVars, netVars>>
           /\ \/ Accept \/ HeaderLost \/ ReadEnds \/ DropRecv
              \/ (\E n \in 1..DATA : read(n)) \/ (\E c \in Code : Stop(c))
  <2>1. UNCHANGED <<send, stream, ending, result, arrived, heard, told>>
    BY <1>5 DEF sendVars, netVars
  <2>2. stop.code # None => stop' = stop
    <3>1. stop.code # None => ~Reading
      BY <1>0 DEF ReadsWhatWasSent, Reading
    <3>. QED
      BY <1>5, <3>1 DEF Accept, HeaderLost, ReadEnds, DropRecv, read, Stop
  <2>3. result.how = "stopped" => result.code = stop.by /\ stop.code # None
    BY <1>0 DEF EndsAreTrue, ReadsWhatWasSent
  <2>4. recv = "dropped" => recv' = "dropped"
    BY <1>5 DEF Accept, HeaderLost, ReadEnds, DropRecv, read, Stop, Reading
  <2>5. Complete' = Complete
    BY <2>1 DEF Complete
  <2>. QED
    BY <1>0, <1>1, <1>2, <2>1, <2>2, <2>3, <2>4, <2>5 DEF EndsAreTrue
<1>. QED
  BY <1>0, <1>3, <1>4, <1>5, SenderStep
-----------------------------------------------------------------------------
\* An unopened stream satisfies the invariant.
LEMMA InitHolds ==
    ASSUME Init
    PROVE  IInv
<1>0. HeaderSize \in Nat /\ DATA \in Nat
  BY HeaderFacts, StreamConstants
<1>1. stop.code = None /\ stop.by = None /\ stop \in StopSet
  BY DEF Init, StopSet
<1>2. ending \in EndingSet /\ heard \in EndingSet /\ outcome \in OutcomeSet /\ result \in OutcomeSet
  BY DEF Init, EndingSet, OutcomeSet
<1>3. TypeOK
  <2>1. stream = <<>> /\ flight = <<>> /\ stream \in Seq(0..DATA) /\ flight \in Seq(1..DATA)
    BY DEF Init
  <2>2. /\ pos = 0 /\ pos \in 0..DATA /\ arrived = 0 /\ arrived \in Nat
        /\ taken = 0 /\ taken \in Nat
    BY <1>0 DEF Init
  <2>3. abandoned = FALSE /\ told = FALSE
    BY DEF Init
  <2>4. kind \in Kind /\ send = "none" /\ conn = "open" /\ recv = "none"
    BY DEF Init
  <2>. QED
    BY <1>1, <1>2, <2>1, <2>2, <2>3, <2>4 DEF TypeOK
<1>4. Len(stream) = 0 /\ Len(flight) = 0 /\ pos = 0 /\ Handed = 0
  <2>1. stream = <<>> /\ flight = <<>> /\ pos = 0
    BY DEF Init
  <2>2. Len(<<>>) = 0 /\ 0 - 0 = 0
    OBVIOUS
  <2>. QED
    BY <2>1, <2>2 DEF Handed
<1>5. Ascending(stream, HeaderSize, Handed) /\ Gapless(stream, HeaderSize) /\ From(flight, Handed)
  <2>1. HeaderSize + 1..0 = {} /\ 1..0 = {}
    BY <1>0
  <2>. QED
    BY <1>4, <2>1 DEF Ascending, Gapless, From
<1>6. Len(stream) >= HeaderSize => HeaderSize = 0
  BY <1>0, <1>4
<1>7. StreamInOrder
  BY <1>0, <1>4, <1>5, <1>6 DEF Init, StreamInOrder
<1>8. EndsOnce
  BY Shapes DEF Init, EndsOnce
<1>9. ReadsWhatWasSent
  BY <1>1, <1>4, Shapes DEF Init, ReadsWhatWasSent, None
<1>10. EndsAreTrue
  BY Shapes DEF Init, EndsAreTrue
<1>. QED
  BY <1>3, <1>7, <1>8, <1>9, <1>10 DEF IInv

\* Reading what has arrived of the stream, byte by byte.
LEMMA GotFacts ==
    ASSUME IInv
    PROVE  /\ Got \in Seq(0..DATA) /\ Len(Got) \in Nat
           /\ \A i \in 1..Len(Got) : /\ HeaderSize + i \in HeaderSize + 1..Len(stream)
                                     /\ Got[i] = stream[HeaderSize + i]
<1>1. /\ stream \in Seq(0..DATA) /\ Len(stream) \in Nat /\ HeaderSize \in Nat
      /\ taken \in Nat /\ taken <= Len(stream)
  <2>1. /\ stream \in Seq(0..DATA) /\ Len(stream) \in Nat /\ HeaderSize \in Nat
        /\ taken \in Nat /\ arrived \in Nat
    BY HeaderFacts DEF IInv, TypeOK
  <2>2. arrived <= Len(stream) /\ (taken = 0 \/ taken <= arrived)
    BY DEF IInv, ReadsWhatWasSent
  <2>. QED
    BY <2>1, <2>2
<1>2. ASSUME NEW i \in HeaderSize + 1..taken
      PROVE  i \in 1..Len(stream) /\ stream[i] \in 0..DATA
  <2>. DEFINE L == Len(stream)
  <2>1. HeaderSize \in Nat /\ taken \in Nat /\ L \in Nat /\ taken <= L
    BY <1>1
  <2>. HIDE DEF L
  <2>2. i \in Nat /\ 1 <= i /\ i <= taken
    BY <2>1
  <2>3. i \in 1..L
    BY <2>1, <2>2
  <2>. QED
    BY <1>1, <2>3, ElementOfSeq DEF L
<1>3. HeaderSize + 1 \in Int /\ taken \in Int
  BY <1>1
<1>4. /\ Got \in Seq(0..DATA)
      /\ Len(Got) = IF HeaderSize + 1 <= taken THEN taken - (HeaderSize + 1) + 1 ELSE 0
      /\ \A i \in 1..taken - (HeaderSize + 1) + 1 : Got[i] = stream[(HeaderSize + 1) + i - 1]
  BY <1>2, <1>3, SubSeqProperties DEF Got
<1>5. ASSUME NEW i \in 1..Len(Got)
      PROVE  HeaderSize + i \in HeaderSize + 1..Len(stream) /\ Got[i] = stream[HeaderSize + i]
  <2>1. i \in 1..taken - (HeaderSize + 1) + 1 /\ HeaderSize + i \in HeaderSize + 1..Len(stream)
    BY <1>1, <1>4
  <2>2. (HeaderSize + 1) + i - 1 = HeaderSize + i
    BY <1>1
  <2>. QED
    BY <1>4, <2>1, <2>2
<1>. QED
  BY <1>4, <1>5

\* The stream in order is what the reader's bytes are made of.
LEMMA InvBuffer ==
    ASSUME IInv
    PROVE  BufferArrives
<1>0. /\ stream \in Seq(0..DATA) /\ Len(stream) \in Nat /\ HeaderSize \in Nat /\ DATA \in Nat
      /\ pos \in Nat /\ pos <= DATA /\ Len(flight) \in Nat /\ Len(flight) <= pos
      /\ Handed \in Nat /\ Handed <= DATA /\ (flight = <<>> => Handed = pos)
  <2>1. /\ stream \in Seq(0..DATA) /\ Len(stream) \in Nat /\ HeaderSize \in Nat /\ DATA \in Nat
        /\ pos \in 0..DATA /\ flight \in Seq(1..DATA) /\ Len(flight) \in Nat
    BY HeaderFacts, StreamConstants DEF IInv, TypeOK
  <2>2. Len(flight) <= pos
    BY DEF IInv, StreamInOrder
  <2>3. flight = <<>> => Len(flight) = 0
    OBVIOUS
  <2>4. pos \in Nat /\ pos <= DATA
    BY <2>1
  <2>5. Handed \in Nat /\ Handed <= DATA /\ (flight = <<>> => Handed = pos)
    BY <2>1, <2>2, <2>3, <2>4 DEF Handed
  <2>. QED
    BY <2>1, <2>2, <2>4, <2>5
<1>1. Ascending(stream, HeaderSize, Handed)
  BY DEF IInv, StreamInOrder
<1>2. ASSUME NEW i \in 1..Len(Got), NEW j \in 1..Len(Got), i < j
      PROVE  Got[i] < Got[j]
  <2>1. /\ HeaderSize + i \in HeaderSize + 1..Len(stream)
        /\ HeaderSize + j \in HeaderSize + 1..Len(stream)
        /\ Got[i] = stream[HeaderSize + i] /\ Got[j] = stream[HeaderSize + j]
    BY GotFacts
  <2>2. HeaderSize + i < HeaderSize + j
    BY <1>0, <1>2
  <2>. QED
    BY <1>1, <2>1, <2>2 DEF Ascending
<1>3. ASSUME ~abandoned
      PROVE  IsPrefix(Got, Data)
  <2>1. CASE Len(Got) = 0
    <3>1. Len(Data) \in Nat
      BY <1>0 DEF Data
    <3>2. SubSeq(Got, 1, Len(Got)) = <<>> /\ SubSeq(Data, 1, Len(Got)) = <<>>
      BY <2>1, SubSeqEmpty
    <3>. QED
      BY <2>1, <3>1, <3>2 DEF IsPrefix
  <2>2. CASE Len(Got) # 0
    <3>. DEFINE g == Len(Got)
    <3>1. g \in Nat /\ g \in 1..g /\ Got \in Seq(0..DATA)
      BY <2>2, GotFacts
    <3>2. HeaderSize + g \in HeaderSize + 1..Len(stream)
      BY <3>1, GotFacts
    <3>3. Len(stream) >= HeaderSize
      BY <1>0, <3>1, <3>2
    <3>4. Len(stream) = HeaderSize + Handed /\ Gapless(stream, HeaderSize)
      BY <1>3, <3>3 DEF IInv, StreamInOrder
    <3>5. g <= Handed /\ g <= DATA
      BY <1>0, <3>1, <3>2, <3>4
    <3>6. ASSUME NEW i \in 1..g PROVE Got[i] = i
      <4>1. HeaderSize + i \in HeaderSize + 1..Len(stream) /\ Got[i] = stream[HeaderSize + i]
        BY GotFacts
      <4>2. stream[HeaderSize + i] = (HeaderSize + i) - HeaderSize
        BY <3>4, <4>1 DEF Gapless
      <4>. QED
        BY <1>0, <4>1, <4>2
    <3>7. Len(Data) = DATA /\ Data \in Seq(1..DATA)
      BY <1>0 DEF Data
    <3>8. /\ SubSeq(Data, 1, g) \in Seq(0..DATA) /\ Len(SubSeq(Data, 1, g)) = g
           /\ \A i \in 1..g : SubSeq(Data, 1, g)[i] = i
      BY <3>1, <3>5, FirstBytes
    <3>9. /\ SubSeq(Got, 1, g) \in Seq(0..DATA) /\ Len(SubSeq(Got, 1, g)) = g
           /\ \A i \in 1..g : SubSeq(Got, 1, g)[i] = i
      <4>1. \A i \in 1..g : Got[i] \in 0..DATA
        BY <3>1, ElementOfSeq
      <4>2. 1 \in Int /\ g \in Int
        BY <3>1
      <4>3. /\ SubSeq(Got, 1, g) \in Seq(0..DATA)
            /\ Len(SubSeq(Got, 1, g)) = IF 1 <= g THEN g - 1 + 1 ELSE 0
            /\ \A i \in 1..g - 1 + 1 : SubSeq(Got, 1, g)[i] = Got[1 + i - 1]
        BY <4>1, <4>2, SubSeqProperties
      <4>. HIDE DEF g
      <4>4. 1 <= g /\ g - 1 + 1 = g
        BY <3>1
      <4>5. \A i \in 1..g : 1 + i - 1 = i
        BY <3>1
      <4>. QED
        BY <3>6, <4>3, <4>4, <4>5
    <3>10. SubSeq(Got, 1, g) = SubSeq(Data, 1, g)
      BY <3>8, <3>9, SeqEqual
    <3>. QED
      BY <3>5, <3>7, <3>10 DEF IsPrefix
  <2>. QED
    BY <2>1, <2>2
<1>4. ASSUME kind.backend = "quion" /\ kind.api = "buf"
      PROVE  Taken = SubSeq(Data, 1, pos)
  <2>1. flight = <<>> /\ ~abandoned /\ Handed = pos
    BY <1>0, <1>4 DEF IInv, StreamInOrder
  <2>2. CASE Len(stream) < HeaderSize
    <3>1. pos = 0 /\ Len(stream) < HeaderSize + 1
      BY <1>0, <2>2 DEF IInv, StreamInOrder
    <3>2. Taken = <<>> /\ SubSeq(Data, 1, pos) = <<>>
      BY <1>0, <3>1, SubSeqEmpty DEF Taken
    <3>. QED
      BY <3>2
  <2>3. CASE Len(stream) >= HeaderSize
    <3>1. Len(stream) = HeaderSize + pos /\ Gapless(stream, HeaderSize)
      BY <2>1, <2>3 DEF IInv, StreamInOrder
    <3>2. HeaderSize + 1 \in Int /\ Len(stream) \in Int
      BY <1>0
    <3>3. \A i \in HeaderSize + 1..Len(stream) : stream[i] \in 0..DATA
      BY <1>0
    <3>4. /\ Taken \in Seq(0..DATA)
          /\ Len(Taken) = IF HeaderSize + 1 <= Len(stream)
                          THEN Len(stream) - (HeaderSize + 1) + 1 ELSE 0
          /\ \A i \in 1..Len(stream) - (HeaderSize + 1) + 1 :
                Taken[i] = stream[(HeaderSize + 1) + i - 1]
      BY <3>2, <3>3, SubSeqProperties DEF Taken
    <3>5. Len(Taken) = pos
      BY <1>0, <3>1, <3>4
    <3>6. ASSUME NEW i \in 1..pos PROVE Taken[i] = i
      <4>1. /\ i \in 1..Len(stream) - (HeaderSize + 1) + 1
            /\ (HeaderSize + 1) + i - 1 \in HeaderSize + 1..Len(stream)
            /\ ((HeaderSize + 1) + i - 1) - HeaderSize = i
        BY <1>0, <3>1
      <4>. QED
        BY <3>1, <3>4, <4>1 DEF Gapless
    <3>7. /\ SubSeq(Data, 1, pos) \in Seq(0..DATA) /\ Len(SubSeq(Data, 1, pos)) = pos
           /\ \A i \in 1..pos : SubSeq(Data, 1, pos)[i] = i
      BY <1>0, FirstBytes
    <3>. QED
      BY <3>4, <3>5, <3>6, <3>7, SeqEqual
  <2>. QED
    BY <1>0, <2>2, <2>3
<1>. QED
  BY <1>2, <1>3, <1>4 DEF BufferArrives

\* A stream is lost for one of three reasons only.
LEMMA InvOpened ==
    ASSUME IInv
    PROVE  OpenedStreamArrives
  BY DEF IInv, ReadsWhatWasSent, OpenedStreamArrives

\* The invariant is inductive.
LEMMA InductiveStep ==
    ASSUME IInv, [Next]_vars
    PROVE  IInv'
<1>1. StreamInOrder'
  BY BytesStep DEF IInv, BytesKept
<1>2. TypeOK' /\ EndsOnce' /\ ReadsWhatWasSent'
  BY TypeStep, EndsStep, ReadsStep
<1>3. EndsAreTrue'
  BY <1>2, TrueStep
<1>. QED
  BY <1>1, <1>2, <1>3 DEF IInv

\* The inductive invariant: the stream is a header and then bytes of the
\* buffer in order, it ends once, and the receiving side has a prefix of it.
THEOREM NativeInvariant == Spec => []IInv
  BY InitHolds, InductiveStep, PTL DEF Spec

\* A stream that open has returned is lost only with the connection, or to a
\* reset where reliable resets were not negotiated.
THEOREM NativeOpenedStreamArrives == Spec => []OpenedStreamArrives
  BY NativeInvariant, InvOpened, PTL

\* Whatever is written, abandoned, delivered and read in whatever portions, the
\* reader gets the buffer's bytes in order, and without a gap unless a write was
\* abandoned; write_buf over Quion never leaves a gap.
THEOREM NativeBufferArrives == Spec => []BufferArrives
  BY NativeInvariant, InvBuffer, PTL

\* Ends, resets and stops are reported as they happened, with the code the
\* other side chose.
THEOREM NativeEndsAreTrue == Spec => []EndsAreTrue
<1>1. IInv => EndsAreTrue
  BY DEF IInv
<1>. QED
  BY NativeInvariant, <1>1, PTL
=============================================================================
