-------------------------- MODULE WasmStreamProofs --------------------------
(***************************************************************************)
(* A browser stream, for any buffers, any limit of a chunk, any number of  *)
(* writes, of bytes from the peer and any sizes of reads.                  *)
(***************************************************************************)
EXTENDS WasmStream, SequenceTheorems, TLAPS

\* What poll_write takes of a buffer that is not empty is a chunk within the
\* 64 KiB limit.
LEMMA ChunkFits ==
    ASSUME NEW b \in Buf, BufLen[b] > 0
    PROVE  ChunkOf(b) \in Chunk
BY SendConstants DEF ChunkOf, Chunk

\* A stream as open_bi and accept_bi return it satisfies the invariant.
LEMMA SendInitially == Init => SendIInv
<1> SUFFICES ASSUME Init
             PROVE  SendIInv
  OBVIOUS
<1>1. sink \in Seq(Chunk) /\ reported \in Seq(Chunk)
  BY DEF Init, SendInit
<1> QED
  BY <1>1 DEF Init, SendInit, SendIInv, SendTypeOK, CleanEndIsComplete

\* Polling the future in flight, whichever call polls it, keeps the
\* invariant as long as the call does not complete.
LEMMA PollsInflight ==
    ASSUME SendIInv, ~sendDropped, UNCHANGED sendDropped,
           StartsWrite \/ StillPending \/ InflightFails
    PROVE  SendIInv'
<1>1. CASE StartsWrite
  BY <1>1 DEF SendIInv, SendTypeOK, CleanEndIsComplete, StartsWrite
<1>2. CASE StillPending
  BY <1>2 DEF SendIInv, SendTypeOK, CleanEndIsComplete, StillPending, sendVars, Chunk
<1>3. CASE InflightFails
  BY <1>3 DEF SendIInv, SendTypeOK, CleanEndIsComplete, InflightFails, Drained
<1> QED
  BY <1>1, <1>2, <1>3

\* Aborting keeps it: the stream does not end cleanly.
LEMMA AbortKeeps ==
    ASSUME SendIInv, Aborts, sendDropped' \in BOOLEAN
    PROVE  SendIInv'
BY DEF SendIInv, SendTypeOK, CleanEndIsComplete, Aborts, Ended

\* Every step of the sending half, the browser's included, keeps the invariant.
LEMMA SendStep ==
    ASSUME SendIInv, SendNext
    PROVE  SendIInv'
<1>1. ASSUME NEW b \in Buf, poll_write(b)
      PROVE  SendIInv'
  <2>1. CASE StartsWrite \/ StillPending \/ InflightFails
    BY <1>1, <2>1, PollsInflight DEF poll_write
  <2>2. CASE AcceptChunk(b)
    <3>1. ChunkOf(b) \in Chunk
      BY <1>1, ChunkFits DEF poll_write
    <3>2. writable = "open" => sink = reported
      BY <2>2 DEF SendIInv, AcceptChunk, InflightOk
    <3>3. Append(reported, ChunkOf(b)) \in Seq(Chunk)
      BY <3>1 DEF SendIInv, SendTypeOK
    <3>4. SendTypeOK'
      BY <1>1, <2>2, <3>1, <3>3 DEF SendIInv, SendTypeOK, AcceptChunk, poll_write
    <3>5. writable \in {"open", "failed"} /\ ~sendClosed /\ ~sendDropped
      BY <1>1 DEF SendIInv, poll_write
    <3> QED
      BY <1>1, <2>2, <3>1, <3>2, <3>4, <3>5
      DEF SendIInv, CleanEndIsComplete, AcceptChunk, poll_write
  <2> QED
    BY <1>1, <2>1, <2>2 DEF poll_write
<1>2. CASE poll_flush
  <2>1. CASE StartsWrite \/ StillPending \/ InflightFails
    BY <1>2, <2>1, PollsInflight DEF poll_flush
  <2>2. CASE Flushed
    BY <1>2, <2>2 DEF SendIInv, SendTypeOK, CleanEndIsComplete, Flushed, Drained, poll_flush
  <2> QED
    BY <1>2, <2>1, <2>2 DEF poll_flush
<1>3. CASE poll_close
  <2>1. CASE StartsWrite \/ StillPending \/ InflightFails
    BY <1>3, <2>1, PollsInflight DEF poll_close
  <2>2. CASE CloseWriter
    BY <1>3, <2>2
    DEF SendIInv, SendTypeOK, CleanEndIsComplete, CloseWriter, InflightOk, Drained, Ended,
        poll_close
  <2> QED
    BY <1>3, <2>1, <2>2 DEF poll_close
<1>4. CASE finish
  <2>1. writable' = writable \/ (writable' = "finished" /\ writable = "open")
    BY <1>4 DEF finish, Ended
  <2> QED
    BY <1>4, <2>1 DEF SendIInv, SendTypeOK, CleanEndIsComplete, finish
<1>5. CASE reset
  BY <1>5, AbortKeeps DEF reset, SendIInv, SendTypeOK
<1>6. CASE DropSend
  <2>1. CASE Aborts
    BY <1>6, <2>1, AbortKeeps DEF DropSend
  <2>2. CASE ~Aborts
    BY <1>6, <2>2 DEF SendIInv, SendTypeOK, CleanEndIsComplete, DropSend, Ended
  <2> QED
    BY <2>1, <2>2
<1>7. CASE BrowserTakes
  BY <1>7 DEF SendIInv, SendTypeOK, CleanEndIsComplete, BrowserTakes
<1>8. CASE WritableFails
  BY <1>8 DEF SendIInv, SendTypeOK, CleanEndIsComplete, WritableFails
<1> QED
  BY <1>1, <1>2, <1>3, <1>4, <1>5, <1>6, <1>7, <1>8 DEF SendNext

\* Every step of the stream keeps the invariant of its sending half.
LEMMA StreamStep == SendIInv /\ [Next]_vars => SendIInv'
<1> SUFFICES ASSUME SendIInv, [Next]_vars
             PROVE  SendIInv'
  OBVIOUS
<1>1. CASE UNCHANGED sendVars
  BY <1>1 DEF sendVars, SendIInv, SendTypeOK, CleanEndIsComplete, Chunk
<1>2. CASE SendNext
  BY <1>2, SendStep
<1>3. CASE SessionEnds
  BY <1>1, <1>3, SendStep DEF SessionEnds, SendNext
<1> QED
  BY <1>1, <1>2, <1>3 DEF Next, vars

\* The inductive invariant of the sending half holds of every behaviour.
THEOREM SendInvariant == Spec => []SendIInv
BY SendInitially, StreamStep, PTL DEF Spec

\* A stream that finish, poll_close or drop has ended cleanly has carried
\* exactly the chunks that poll_write reported, whichever of the calls were
\* given up while a write was in flight and whenever the session ended.
THEOREM CleanEnd == Spec => []CleanEndIsComplete
<1>1. SendIInv => CleanEndIsComplete
  BY DEF SendIInv
<1> QED
  BY <1>1, SendInvariant, PTL

\* poll_write never reports for one buffer what was taken of another: the
\* browser has what was reported, but for the one chunk in flight.
THEOREM Reported == Spec => []ReportedIsSent
<1>1. SendIInv => ReportedIsSent
  BY DEF SendIInv, ReportedIsSent
<1> QED
  BY <1>1, SendInvariant, PTL
-----------------------------------------------------------------------------
(***************************************************************************)
(* The receiving half.  Sequences of numbered bytes:                       *)
(***************************************************************************)

\* Both parts of a sequence that is cut follow what they followed.
LEMMA Cut ==
    ASSUME NEW seq \in Seq(Nat), NEW k \in Nat, Follows(seq, k), NEW n \in 0..Len(seq)
    PROVE  /\ SubSeq(seq, 1, n) \in Seq(Nat)
           /\ Len(SubSeq(seq, 1, n)) = n
           /\ Follows(SubSeq(seq, 1, n), k)
           /\ SubSeq(seq, n + 1, Len(seq)) \in Seq(Nat)
           /\ Len(SubSeq(seq, n + 1, Len(seq))) = Len(seq) - n
           /\ Follows(SubSeq(seq, n + 1, Len(seq)), k + n)
<1>1. Len(seq) \in Nat /\ \A i \in 1..Len(seq) : seq[i] \in Nat
  OBVIOUS
<1>2. /\ SubSeq(seq, 1, n) \in Seq(Nat)
      /\ Len(SubSeq(seq, 1, n)) = n
      /\ \A i \in 1..n : SubSeq(seq, 1, n)[i] = seq[i]
  BY <1>1, SubSeqProperties, Z3
<1>3. /\ SubSeq(seq, n + 1, Len(seq)) \in Seq(Nat)
      /\ Len(SubSeq(seq, n + 1, Len(seq))) = Len(seq) - n
      /\ \A i \in 1..Len(seq) - n : SubSeq(seq, n + 1, Len(seq))[i] = seq[n + i]
  BY <1>1, SubSeqProperties, Z3
<1>. QED
  BY <1>1, <1>2, <1>3 DEF Follows

\* Two sequences that follow each other make one.
LEMMA Join ==
    ASSUME NEW s \in Seq(Nat), NEW t \in Seq(Nat), NEW k \in Nat,
           Follows(s, k), Follows(t, k + Len(s))
    PROVE  /\ s \o t \in Seq(Nat)
           /\ Len(s \o t) = Len(s) + Len(t)
           /\ Follows(s \o t, k)
  BY ConcatProperties DEF Follows

\* Two sequences of one length that follow the same bytes are equal.
LEMMA SameBytes ==
    ASSUME NEW s \in Seq(Nat), NEW t \in Seq(Nat), NEW k \in Nat,
           Follows(s, k), Follows(t, k), Len(s) = Len(t)
    PROVE  s = t
<1>1. \A i \in 1..Len(s) : s[i] = t[i]
  BY DEF Follows
<1>. QED
  BY <1>1, SeqEqual

\* The empty sequence follows anything.
LEMMA Nothing ==
    /\ <<>> \in Seq(Nat) /\ Len(<<>>) = 0
    /\ \A k : Follows(<<>>, k)
  BY DEF Follows

\* poll_chunk returns a first part of the bytes and buffers the rest.
LEMMA Split ==
    ASSUME delivered \in Seq(Nat), Follows(delivered, 0),
           NEW bytes \in Seq(Nat), Follows(bytes, Len(delivered)),
           NEW max \in ReadSize, SplitTo(bytes, max)
    PROVE  /\ delivered' \in Seq(Nat) /\ Follows(delivered', 0)
           /\ buffer' \in Seq(Nat) /\ Follows(buffer', Len(delivered'))
           /\ Len(delivered') + Len(buffer') = Len(delivered) + Len(bytes)
<1>. DEFINE n == Smaller(max, Len(bytes))
<1>1. n \in 0..Len(bytes) /\ Len(delivered) \in Nat
  BY RecvConstants DEF Smaller
<1>2. /\ delivered' = delivered \o SubSeq(bytes, 1, n)
      /\ buffer' = SubSeq(bytes, n + 1, Len(bytes))
  BY DEF SplitTo
<1>. HIDE DEF n
<1>3. /\ SubSeq(bytes, 1, n) \in Seq(Nat)
      /\ Len(SubSeq(bytes, 1, n)) = n
      /\ Follows(SubSeq(bytes, 1, n), Len(delivered))
      /\ buffer' \in Seq(Nat)
      /\ Len(buffer') = Len(bytes) - n
      /\ Follows(buffer', Len(delivered) + n)
  BY <1>1, <1>2, Cut
<1>4. 0 + Len(delivered) = Len(delivered)
  BY <1>1
<1>5. delivered' \in Seq(Nat) /\ Len(delivered') = Len(delivered) + n /\ Follows(delivered', 0)
  BY <1>1, <1>2, <1>3, <1>4, Join
<1>. QED
  BY <1>1, <1>3, <1>5

\* The numbers behind the invariant.
LEMMA Lengths ==
    ASSUME RecvTypeOK
    PROVE  /\ Len(delivered) \in Nat /\ Len(buffer) \in Nat /\ Len(held) \in Nat
           /\ Len(sent) \in Nat /\ Len(answer.bytes) \in Nat
           /\ Buffered \in Nat /\ Obtained \in Nat
           /\ answer.bytes \in Seq(Nat)
<1>1. answer.bytes \in Seq(Nat)
  BY DEF RecvTypeOK
<1>2. /\ Len(delivered) \in Nat /\ Len(buffer) \in Nat /\ Len(held) \in Nat
      /\ Len(sent) \in Nat /\ Len(answer.bytes) \in Nat
  BY <1>1 DEF RecvTypeOK
<1>3. Buffered \in Nat
  BY <1>2 DEF Buffered
<1>4. Obtained \in Nat
  BY <1>2, <1>3 DEF Obtained
<1>. QED
  BY <1>1, <1>2, <1>3, <1>4

\* No answer: no bytes.
LEMMA NoAnswer ==
    /\ Pending \in [kind : {"pending", "chunk", "end", "error"}, bytes : Seq(Nat)]
    /\ Pending.bytes = <<>> /\ Pending.kind = "pending"
    /\ Len(Pending.bytes) = 0 /\ \A k : Follows(Pending.bytes, k)
<1>1. Pending.bytes = <<>> /\ Pending.kind = "pending"
  BY DEF Pending, Answer
<1>. QED
  BY <1>1, Nothing DEF Pending, Answer

\* The peer and the browser, apart from the answers.
LEMMA PeerStep ==
    ASSUME RecvIInv, PeerSends \/ PeerFinishes \/ ReadableFails
    PROVE  RecvIInv'
<1>. USE DEF RecvIInv
<1>0. Obtained \in Nat /\ Buffered \in Nat /\ Len(held) \in Nat /\ Len(sent) \in Nat
  BY Lengths
<1>1. CASE PeerSends
  <2>1. /\ sent' = Append(sent, Len(sent) + 1) /\ held' = Append(held, Len(sent) + 1)
        /\ readable = "open"
        /\ UNCHANGED <<reader, read_state, buffer, eof, recvDropped, answer, readable,
                       delivered, told>>
    BY <1>1 DEF PeerSends
  <2>2. /\ sent' \in Seq(Nat) /\ held' \in Seq(Nat)
        /\ Len(sent') = Len(sent) + 1 /\ Len(held') = Len(held) + 1
    BY <2>1 DEF RecvTypeOK
  <2>3. Obtained + Len(held) = Len(sent) /\ Follows(held, Obtained) /\ Follows(sent, 0)
    BY <2>1 DEF InPlace
  <2>4. Follows(sent', 0) /\ Follows(held', Obtained)
    <3>1. \A i \in 1..Len(sent) + 1 : sent'[i] = IF i = Len(sent) + 1 THEN Len(sent) + 1 ELSE sent[i]
      BY <1>0, <2>1 DEF RecvTypeOK
    <3>2. \A i \in 1..Len(held) + 1 : held'[i] = IF i = Len(held) + 1 THEN Len(sent) + 1 ELSE held[i]
      <4>1. held \in Seq(Nat)
        BY DEF RecvTypeOK
      <4>. QED
        BY <1>0, <2>1, <4>1
    <3>3. Follows(sent', 0)
      BY <1>0, <2>2, <2>3, <3>1 DEF Follows
    <3>. QED
      <4>1. \A i \in 1..Len(held) : held[i] = Obtained + i
        BY <2>3 DEF Follows
      <4>2. \A i \in 1..Len(held') : held'[i] = Obtained + i
        <5>1. 1..Len(held') = 1..Len(held) \cup {Len(held) + 1}
          BY <1>0, <2>2
        <5>2. held'[Len(held) + 1] = Obtained + (Len(held) + 1)
          BY <1>0, <2>3, <3>2
        <5>3. \A i \in 1..Len(held) : held'[i] = held[i]
          BY <1>0, <3>2
        <5>. QED
          BY <4>1, <5>1, <5>2, <5>3
      <4>. QED
        BY <3>3, <4>2 DEF Follows
  <2>5. Obtained' = Obtained /\ Buffered' = Buffered
    BY <2>1 DEF Obtained, Buffered
  <2>6. InPlace'
    <3>1. Obtained' + Len(held') = Len(sent') /\ Obtained' <= Len(sent')
      BY <1>0, <2>2, <2>3, <2>5
    <3>. QED
      BY <2>1, <2>4, <2>5, <3>1 DEF InPlace
  <2>. QED
    BY <2>1, <2>2, <2>6 DEF RecvTypeOK, TrueEnd
<1>2. CASE PeerFinishes
  BY <1>2 DEF PeerFinishes, RecvTypeOK, InPlace, TrueEnd, Buffered, Obtained, Follows
<1>3. CASE ReadableFails
  <2>1. /\ readable' = "failed" /\ held' = <<>>
        /\ UNCHANGED <<reader, read_state, buffer, eof, recvDropped, answer, sent,
                       delivered, told>>
    BY <1>3 DEF ReadableFails
  <2>2. readable = "open" \/ (readable = "finished" /\ held # <<>>)
    BY <1>3 DEF ReadableFails, MayFail
  <2>3. held # <<>> => Len(held) > 0
    BY DEF RecvTypeOK
  <2>4. told # "end"
    <3>1. Len(delivered) = Len(sent) => Len(held) = 0
      <4>1. Obtained + Len(held) = Len(sent)
        BY <2>2 DEF InPlace
      <4>2. Len(delivered) \in Nat /\ Len(buffer) \in Nat /\ Len(answer.bytes) \in Nat
        BY Lengths
      <4>3. Buffered >= Len(delivered)
        BY <4>2 DEF Buffered
      <4>4. Obtained >= Buffered
        BY <1>0, <4>2 DEF Obtained
      <4>. QED
        BY <1>0, <4>1, <4>2, <4>3, <4>4
    <3>. QED
      BY <1>0, <2>2, <2>3, <3>1 DEF TrueEnd
  <2>5. RecvTypeOK'
    BY <2>1, Nothing DEF RecvTypeOK
  <2>6. InPlace'
    BY <2>1 DEF InPlace, Buffered, Obtained, Follows
  <2>7. TrueEnd'
    BY <2>1, <2>2, <2>4 DEF TrueEnd
  <2>. QED
    BY <2>5, <2>6, <2>7
<1>. QED
  BY <1>1, <1>2, <1>3

\* The browser answers: a first part of what it holds, the end, or an error.
LEMMA AnswerStep ==
    ASSUME RecvIInv, BrowserAnswers
    PROVE  RecvIInv'
<1>. USE DEF RecvIInv
<1>0. Obtained \in Nat /\ Buffered \in Nat /\ Len(held) \in Nat /\ Len(sent) \in Nat
  BY Lengths
<1>1. /\ read_state = "reading" /\ answer = Pending
      /\ UNCHANGED <<reader, read_state, buffer, eof, recvDropped, readable, sent,
                     delivered, told>>
  BY DEF BrowserAnswers
<1>2. Obtained = Buffered /\ Buffered' = Buffered
  BY <1>0, <1>1, NoAnswer DEF Obtained, Buffered
<1>3. ASSUME NEW n \in 0..Len(held), readable = "open" \/ held # <<>>,
             answer' = Answer("chunk", SubSeq(held, 1, n)),
             held' = SubSeq(held, n + 1, Len(held))
      PROVE  RecvIInv'
  <2>1. readable \in {"open", "finished"} =>
           Follows(held, Buffered) /\ Buffered + Len(held) = Len(sent)
    BY <1>2 DEF InPlace
  <2>2. readable \in {"open", "finished"}
    BY <1>3 DEF InPlace, RecvTypeOK
  <2>3. held \in Seq(Nat) /\ Buffered \in Nat /\ Len(held) \in Nat
    BY <1>0 DEF RecvTypeOK
  <2>4. answer'.kind = "chunk" /\ answer'.bytes = SubSeq(held, 1, n)
    BY <1>3 DEF Answer
  <2>5. /\ answer'.bytes \in Seq(Nat) /\ Len(answer'.bytes) = n
        /\ Follows(answer'.bytes, Buffered)
        /\ held' \in Seq(Nat) /\ Len(held') = Len(held) - n
        /\ Follows(held', Buffered + n)
    <3>1. Follows(held, Buffered)
      BY <2>1, <2>2
    <3>2. /\ SubSeq(held, 1, n) \in Seq(Nat)
          /\ Len(SubSeq(held, 1, n)) = n
          /\ Follows(SubSeq(held, 1, n), Buffered)
          /\ SubSeq(held, n + 1, Len(held)) \in Seq(Nat)
          /\ Len(SubSeq(held, n + 1, Len(held))) = Len(held) - n
          /\ Follows(SubSeq(held, n + 1, Len(held)), Buffered + n)
      BY <1>3, <2>3, <3>1, Cut
    <3>. QED
      BY <1>3, <2>4, <3>2
  <2>6. Obtained' = Buffered + n /\ Obtained' <= Len(sent)
        /\ Obtained' + Len(held') = Len(sent)
    <3>1. Obtained' = Buffered + n
      BY <1>2, <2>5 DEF Obtained
    <3>2. Buffered + Len(held) = Len(sent)
      BY <2>1, <2>2
    <3>3. Len(held') = Len(held) - n
      BY <2>5
    <3>4. n \in Nat /\ n <= Len(held)
      BY <1>0, <1>3
    <3>. QED
      BY <1>0, <3>1, <3>2, <3>3, <3>4
  <2>7. RecvTypeOK'
    BY <1>1, <1>3, <2>4, <2>5 DEF RecvTypeOK, Answer
  <2>8. InPlace'
    BY <1>1, <1>2, <2>2, <2>5, <2>6 DEF InPlace, Follows
  <2>9. TrueEnd'
    BY <1>1, <2>4 DEF TrueEnd
  <2>. QED
    BY <2>7, <2>8, <2>9
<1>4. CASE /\ readable = "finished" /\ held = <<>>
           /\ answer' = Answer("end", <<>>) /\ UNCHANGED held
  <2>1. answer'.kind = "end" /\ answer'.bytes = <<>>
    BY <1>4 DEF Answer
  <2>2. RecvTypeOK'
    BY <1>1, <1>4, Nothing DEF RecvTypeOK, Answer
  <2>3. Obtained' = Obtained /\ Follows(answer'.bytes, Buffered)
    BY <1>0, <1>2, <2>1, Nothing DEF Obtained
  <2>4. InPlace'
    BY <1>1, <1>2, <1>4, <2>3 DEF InPlace, Follows
  <2>5. TrueEnd'
    BY <1>1, <1>4, <2>1 DEF TrueEnd
  <2>. QED
    BY <2>2, <2>4, <2>5
<1>5. CASE readable = "failed" /\ answer' = Answer("error", <<>>) /\ UNCHANGED held
  <2>1. answer'.kind = "error" /\ answer'.bytes = <<>>
    BY <1>5 DEF Answer
  <2>2. RecvTypeOK'
    BY <1>1, <1>5, Nothing DEF RecvTypeOK, Answer
  <2>3. Obtained' = Obtained /\ Follows(answer'.bytes, Buffered)
    BY <1>0, <1>2, <2>1, Nothing DEF Obtained
  <2>4. InPlace'
    BY <1>1, <1>2, <1>5, <2>3 DEF InPlace, Follows
  <2>5. TrueEnd'
    BY <1>1, <1>5, <2>1 DEF TrueEnd
  <2>. QED
    BY <2>2, <2>4, <2>5
<1>. QED
  BY <1>3, <1>4, <1>5 DEF BrowserAnswers

\* A step that moves no bytes.
LEMMA NoBytesMove ==
    ASSUME InPlace, answer'.bytes = answer.bytes,
           UNCHANGED <<buffer, readable, held, sent, delivered>>
    PROVE  InPlace'
BY DEF InPlace, Buffered, Obtained, Follows

\* A round of poll_chunk that returns bytes of the buffer, or of the chunk that
\* the browser has answered with.
LEMMA ReturnStep ==
    ASSUME RecvIInv, NEW max \in ReadSize,
           ReturnsBuffered(max) \/ ReturnsChunk(max),
           UNCHANGED <<recvDropped, readable, held, sent>>
    PROVE  RecvIInv'
<1>. USE DEF RecvIInv
<1>0. /\ Len(delivered) \in Nat /\ Len(buffer) \in Nat /\ Len(held) \in Nat
      /\ Len(sent) \in Nat /\ Len(answer.bytes) \in Nat
      /\ Buffered \in Nat /\ Obtained \in Nat /\ answer.bytes \in Seq(Nat)
  BY Lengths
<1>1. /\ buffer \in Seq(Nat) /\ delivered \in Seq(Nat)
      /\ Follows(delivered, 0) /\ Follows(buffer, Len(delivered))
      /\ Follows(answer.bytes, Buffered) /\ Obtained <= Len(sent)
  BY DEF RecvTypeOK, InPlace
<1>2. CASE ReturnsBuffered(max)
  <2>1. /\ buffer # <<>> /\ SplitTo(buffer, max)
        /\ UNCHANGED <<reader, read_state, eof, answer, told, recvDropped, readable,
                       held, sent>>
    BY <1>2 DEF ReturnsBuffered
  <2>2. /\ delivered' \in Seq(Nat) /\ Follows(delivered', 0)
        /\ buffer' \in Seq(Nat) /\ Follows(buffer', Len(delivered'))
        /\ Len(delivered') + Len(buffer') = Len(delivered) + Len(buffer)
    BY <1>1, <2>1, Split
  <2>3. Buffered' = Buffered
    BY <2>2 DEF Buffered
  <2>4. Obtained' = Obtained
    BY <2>1, <2>3 DEF Obtained
  <2>5. Len(delivered) # Len(sent)
    <3>1. Len(buffer) > 0
      BY <1>1, <2>1
    <3>2. Buffered > Len(delivered)
      BY <1>0, <3>1 DEF Buffered
    <3>3. Obtained >= Buffered
      BY <1>0 DEF Obtained
    <3>. QED
      BY <1>0, <1>1, <3>2, <3>3
  <2>6. RecvTypeOK'
    BY <2>1, <2>2 DEF RecvTypeOK
  <2>7. InPlace'
    BY <2>1, <2>2, <2>3, <2>4 DEF InPlace
  <2>8. TrueEnd'
    BY <2>1, <2>5 DEF TrueEnd
  <2>. QED
    BY <2>6, <2>7, <2>8
<1>3. CASE ReturnsChunk(max)
  <2>1. /\ buffer = <<>> /\ ~eof /\ answer.bytes # <<>> /\ SplitTo(answer.bytes, max)
        /\ reader' = TRUE /\ read_state' = "idle" /\ answer' = Pending
        /\ UNCHANGED <<eof, told, recvDropped, readable, held, sent>>
    BY <1>3 DEF ReturnsChunk, Answered
  <2>2. Buffered = Len(delivered)
    BY <1>0, <2>1, Nothing DEF Buffered
  <2>3. /\ delivered' \in Seq(Nat) /\ Follows(delivered', 0)
        /\ buffer' \in Seq(Nat) /\ Follows(buffer', Len(delivered'))
        /\ Len(delivered') + Len(buffer') = Len(delivered) + Len(answer.bytes)
    <3>1. Follows(answer.bytes, Len(delivered))
      BY <1>1, <2>2
    <3>. QED
      BY <1>0, <1>1, <2>1, <3>1, Split
  <2>4. Buffered' = Obtained
    BY <2>2, <2>3 DEF Buffered, Obtained
  <2>5. Obtained' = Obtained /\ Follows(answer'.bytes, Buffered')
    <3>1. Len(answer'.bytes) = 0
      BY <2>1, NoAnswer
    <3>2. Obtained' = Obtained
      BY <1>0, <2>4, <3>1 DEF Obtained
    <3>. QED
      BY <2>1, <3>2, NoAnswer
  <2>6. Len(delivered) # Len(sent)
    <3>1. Len(answer.bytes) > 0
      BY <1>0, <2>1
    <3>2. Obtained > Len(delivered)
      BY <1>0, <2>2, <3>1 DEF Obtained
    <3>. QED
      BY <1>0, <1>1, <3>2
  <2>7. RecvTypeOK'
    BY <2>1, <2>3, NoAnswer DEF RecvTypeOK
  <2>8. InPlace'
    BY <2>1, <2>3, <2>5 DEF InPlace
  <2>9. TrueEnd'
    BY <2>1, <2>6, NoAnswer DEF TrueEnd
  <2>. QED
    BY <2>7, <2>8, <2>9
<1>. QED
  BY <1>2, <1>3

\* The rounds of poll_chunk that return no bytes.
LEMMA WaitStep ==
    ASSUME RecvIInv, ReturnsEnd \/ StartsRead \/ ReadsAgain \/ Ends,
           UNCHANGED <<recvDropped, readable, held, sent>>
    PROVE  RecvIInv'
<1>. USE DEF RecvIInv
<1>1. CASE ReturnsEnd
  <2>1. /\ eof /\ told' = (IF told = "nothing" THEN "end" ELSE told)
        /\ UNCHANGED <<reader, read_state, buffer, eof, answer, delivered, recvDropped,
                       readable, held, sent>>
    BY <1>1 DEF ReturnsEnd
  <2>2. told = "nothing" => readable = "cancelled"
    BY <2>1 DEF TrueEnd
  <2>3. RecvTypeOK'
    BY <2>1 DEF RecvTypeOK
  <2>4. InPlace'
    BY <2>1, NoBytesMove
  <2>5. TrueEnd'
    BY <2>1, <2>2 DEF TrueEnd, RecvTypeOK
  <2>. QED
    BY <2>3, <2>4, <2>5
<1>2. CASE StartsRead
  <2>1. /\ read_state = "idle" /\ ~eof /\ reader' = FALSE /\ read_state' = "reading"
        /\ answer' = Pending
        /\ UNCHANGED <<buffer, eof, delivered, told, recvDropped, readable, held, sent>>
    BY <1>2 DEF StartsRead
  <2>2. answer.bytes = <<>>
    BY <2>1 DEF TrueEnd
  <2>3. RecvTypeOK'
    BY <2>1, NoAnswer DEF RecvTypeOK
  <2>4. InPlace'
    BY <2>1, <2>2, NoAnswer, NoBytesMove
  <2>5. TrueEnd'
    BY <2>1, NoAnswer DEF TrueEnd
  <2>. QED
    BY <2>3, <2>4, <2>5
<1>3. CASE ReadsAgain
  <2>1. /\ answer.bytes = <<>> /\ answer' = Pending
        /\ UNCHANGED <<reader, read_state, buffer, eof, delivered, told, recvDropped,
                       readable, held, sent>>
    BY <1>3 DEF ReadsAgain
  <2>2. RecvTypeOK'
    BY <2>1, NoAnswer DEF RecvTypeOK
  <2>3. InPlace'
    BY <2>1, NoAnswer, NoBytesMove
  <2>4. TrueEnd'
    BY <2>1, NoAnswer DEF TrueEnd
  <2>. QED
    BY <2>2, <2>3, <2>4
<1>4. CASE Ends
  <2>1. /\ buffer = <<>> /\ ~eof /\ answer.kind \in {"end", "error"}
        /\ eof' = TRUE /\ told' = answer.kind
        /\ reader' = TRUE /\ read_state' = "idle" /\ answer' = Pending
        /\ UNCHANGED <<buffer, delivered, recvDropped, readable, held, sent>>
    BY <1>4 DEF Ends, Answered
  <2>2. answer.bytes = <<>>
    BY <2>1 DEF TrueEnd
  <2>3. answer.kind = "end" => readable = "finished" /\ Len(delivered) = Len(sent)
    <3>1. SUFFICES ASSUME answer.kind = "end"
                   PROVE  readable = "finished" /\ Len(delivered) = Len(sent)
      OBVIOUS
    <3>2. readable = "finished" /\ held = <<>>
      BY <3>1 DEF TrueEnd
    <3>3. Obtained + Len(held) = Len(sent)
      BY <3>2 DEF InPlace
    <3>4. Len(held) = 0 /\ Len(buffer) = 0 /\ Len(answer.bytes) = 0
      BY <2>1, <2>2, <3>2, Nothing
    <3>5. Len(delivered) \in Nat
      BY Lengths
    <3>6. Buffered = Len(delivered)
      BY <3>4, <3>5 DEF Buffered
    <3>7. Obtained = Len(delivered)
      BY <3>4, <3>5, <3>6 DEF Obtained
    <3>. QED
      BY <3>2, <3>3, <3>4, <3>5, <3>7
  <2>4. RecvTypeOK'
    BY <2>1, NoAnswer DEF RecvTypeOK
  <2>5. InPlace'
    BY <2>1, <2>2, NoAnswer, NoBytesMove
  <2>6. TrueEnd'
    BY <2>1, <2>3, NoAnswer DEF TrueEnd
  <2>. QED
    BY <2>4, <2>5, <2>6
<1>. QED
  BY <1>1, <1>2, <1>3, <1>4

\* stop and drop give up what is buffered, answered or held.
LEMMA CancelStep ==
    ASSUME RecvIInv, Cancels, recvDropped' \in BOOLEAN
    PROVE  RecvIInv'
<1>. USE DEF RecvIInv
<1>1. /\ eof' = TRUE /\ buffer' = <<>> /\ read_state' = "idle" /\ answer' = Pending
      /\ readable' = "cancelled" /\ held' = <<>>
      /\ UNCHANGED <<reader, sent, delivered, told>>
  BY DEF Cancels
<1>2. /\ Len(delivered) \in Nat /\ Len(buffer) \in Nat /\ Len(sent) \in Nat
      /\ Len(answer.bytes) \in Nat /\ Buffered \in Nat /\ Obtained \in Nat
  BY Lengths
<1>3. Buffered' = Len(delivered)
  BY <1>1, <1>2, Nothing DEF Buffered
<1>4. Obtained' = Len(delivered)
  BY <1>1, <1>2, <1>3, NoAnswer DEF Obtained
<1>5. Len(delivered) <= Len(sent)
  <2>1. Buffered >= Len(delivered)
    BY <1>2 DEF Buffered
  <2>2. Obtained >= Buffered
    BY <1>2 DEF Obtained
  <2>3. Obtained <= Len(sent)
    BY DEF InPlace
  <2>. QED
    BY <1>2, <2>1, <2>2, <2>3
<1>6. RecvTypeOK'
  BY <1>1, NoAnswer, Nothing DEF RecvTypeOK
<1>7. InPlace'
  BY <1>1, <1>4, <1>5, NoAnswer, Nothing DEF InPlace
<1>8. TrueEnd'
  BY <1>1, NoAnswer DEF TrueEnd
<1>. QED
  BY <1>6, <1>7, <1>8

\* Every step of the receiving half keeps the invariant.
LEMMA RecvStep ==
    ASSUME RecvIInv, RecvNext
    PROVE  RecvIInv'
<1>1. ASSUME NEW max \in ReadSize, poll_chunk(max)
      PROVE  RecvIInv'
  BY <1>1, ReturnStep, WaitStep DEF poll_chunk
<1>2. CASE stop
  BY <1>2, CancelStep DEF stop, RecvIInv, RecvTypeOK
<1>3. CASE DropRecv
  BY <1>3, CancelStep DEF DropRecv
<1>. QED
  BY <1>1, <1>2, <1>3, PeerStep, AnswerStep DEF RecvNext

\* A stream as open_bi, accept_uni and accept_bi return it: nothing read.
LEMMA RecvInitially == Init => RecvIInv
<1>. SUFFICES ASSUME RecvInit
              PROVE  RecvIInv
  BY DEF Init
<1>1. RecvTypeOK
  BY NoAnswer, Nothing DEF RecvInit, RecvTypeOK
<1>2. Buffered = 0 /\ Obtained = 0
  BY NoAnswer, Nothing DEF RecvInit, Buffered, Obtained
<1>3. InPlace
  BY <1>2, NoAnswer, Nothing DEF RecvInit, InPlace
<1>4. TrueEnd
  BY NoAnswer DEF RecvInit, TrueEnd
<1>. QED
  BY <1>1, <1>3, <1>4 DEF RecvIInv

\* Every step of the stream keeps the invariant of its receiving half.
LEMMA StreamRecvStep == RecvIInv /\ [Next]_vars => RecvIInv'
<1>. SUFFICES ASSUME RecvIInv, [Next]_vars
              PROVE  RecvIInv'
  OBVIOUS
<1>1. CASE UNCHANGED recvVars
  BY <1>1 DEF recvVars, RecvIInv, RecvTypeOK, InPlace, TrueEnd, Buffered, Obtained, Follows
<1>2. CASE RecvNext
  BY <1>2, RecvStep
<1>3. CASE SessionEnds
  BY <1>1, <1>3, RecvStep DEF SessionEnds, RecvNext
<1>. QED
  BY <1>1, <1>2, <1>3 DEF Next, vars

\* The inductive invariant of the receiving half holds of every behaviour:
\* what was returned, buffered, answered and held follow one another.
THEOREM RecvInvariant == Spec => []RecvIInv
BY RecvInitially, StreamRecvStep, PTL DEF Spec

\* What poll_chunk has returned is a first part of what the peer has sent, and
\* with the buffer, the answer in flight and what the browser holds it is all
\* of it, whichever reads were given up and whatever sizes were asked for.
THEOREM RecvBytesInOrder == Spec => []BytesInOrder
<1>1. ASSUME RecvIInv
      PROVE  BytesInOrder
  <2>1. /\ delivered \in Seq(Nat) /\ buffer \in Seq(Nat) /\ answer.bytes \in Seq(Nat)
        /\ held \in Seq(Nat) /\ sent \in Seq(Nat)
    BY <1>1, Lengths DEF RecvIInv, RecvTypeOK
  <2>2. /\ Len(delivered) \in Nat /\ Len(buffer) \in Nat /\ Len(answer.bytes) \in Nat
        /\ Len(held) \in Nat /\ Len(sent) \in Nat /\ Buffered \in Nat /\ Obtained \in Nat
    BY <1>1, Lengths DEF RecvIInv
  <2>3. /\ Follows(sent, 0) /\ Follows(delivered, 0) /\ Follows(buffer, Len(delivered))
        /\ Follows(answer.bytes, Buffered) /\ Obtained <= Len(sent)
        /\ readable \in {"open", "finished"} =>
               Follows(held, Obtained) /\ Obtained + Len(held) = Len(sent)
    BY <1>1 DEF RecvIInv, InPlace
  <2>4. delivered = SubSeq(sent, 1, Len(delivered))
    <3>1. Buffered >= Len(delivered)
      BY <2>2 DEF Buffered
    <3>2. Obtained >= Buffered
      BY <2>2 DEF Obtained
    <3>3. Len(delivered) \in 0..Len(sent)
      BY <2>2, <2>3, <3>1, <3>2
    <3>4. /\ SubSeq(sent, 1, Len(delivered)) \in Seq(Nat)
          /\ Len(SubSeq(sent, 1, Len(delivered))) = Len(delivered)
          /\ Follows(SubSeq(sent, 1, Len(delivered)), 0)
      BY <2>1, <2>3, <3>3, Cut
    <3>. QED
      BY <2>1, <2>3, <3>4, SameBytes
  <2>5. ASSUME readable \in {"open", "finished"}
        PROVE  delivered \o buffer \o answer.bytes \o held = sent
    <3>1. /\ 0 + Len(delivered) = Len(delivered) /\ 0 + Buffered = Buffered
          /\ 0 + Obtained = Obtained
      BY <2>2
    <3>2. /\ delivered \o buffer \in Seq(Nat)
          /\ Len(delivered \o buffer) = Buffered
          /\ Follows(delivered \o buffer, 0)
      BY <2>1, <2>3, <3>1, Join DEF Buffered
    <3>3. /\ delivered \o buffer \o answer.bytes \in Seq(Nat)
          /\ Len(delivered \o buffer \o answer.bytes) = Obtained
          /\ Follows(delivered \o buffer \o answer.bytes, 0)
      BY <2>1, <2>3, <3>1, <3>2, Join DEF Obtained
    <3>4. /\ delivered \o buffer \o answer.bytes \o held \in Seq(Nat)
          /\ Len(delivered \o buffer \o answer.bytes \o held) = Len(sent)
          /\ Follows(delivered \o buffer \o answer.bytes \o held, 0)
      BY <2>1, <2>3, <2>5, <3>1, <3>3, Join
    <3>. QED
      BY <2>1, <2>3, <3>4, SameBytes
  <2>. QED
    BY <2>4, <2>5 DEF BytesInOrder
<1>. QED
  BY <1>1, RecvInvariant, PTL

\* The first end that read returns is "no more data" only after all the peer's
\* bytes, and never in place of a reset, unless stop or drop came first.
THEOREM RecvEndIsTrue == Spec => []EndIsTrue
<1>1. ASSUME RecvIInv
      PROVE  EndIsTrue
  <2>1. Len(delivered) = Len(sent) => delivered = sent
    BY <1>1, SameBytes DEF RecvIInv, RecvTypeOK, InPlace
  <2>. QED
    BY <1>1, <2>1 DEF RecvIInv, TrueEnd, EndIsTrue
<1>. QED
  BY <1>1, RecvInvariant, PTL
=============================================================================
