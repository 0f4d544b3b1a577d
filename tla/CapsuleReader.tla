---------------------------- MODULE CapsuleReader ----------------------------
(***************************************************************************)
(* Session::read_capsule_frame and decode_buffered_capsule, the same in    *)
(* both native backends: HTTP/3 frames in, capsules out, with the bytes    *)
(* that do not yet make a capsule kept in pending.                         *)
(*                                                                         *)
(* The peer writes a sequence of capsules byte for byte, cuts it into DATA *)
(* frames where it likes, puts other frames between them and may stop      *)
(* anywhere, inside a capsule or inside a frame.  One frame at a time is   *)
(* on its way; the reader cannot tell, for it reads them in order.         *)
(***************************************************************************)
EXTENDS Capsule

CONSTANTS MAX_FRAME,  \* MAX_CAPSULE_FRAME_SIZE, 2048
          Written     \* what a peer may write: the bytes, and where in them
                      \*   each capsule ends

\* One capsule: a type, a length and as many bytes as the length says.
TypeOf(c) == VarIntDecode(c)
LengthOf(c) == VarIntDecode(SubSeq(c, TypeOf(c).used + 1, Len(c)))
HeaderOf(c) == TypeOf(c).used + LengthOf(c).used
Framed(c) ==
    /\ TypeOf(c).ok /\ LengthOf(c).ok
    /\ LengthOf(c).value \in Nat
    /\ Len(c) = HeaderOf(c) + LengthOf(c).value

\* The capsules of w end at w.ends[1], w.ends[2] and so on.
EndOf(w, k) == IF k = 0 THEN 0 ELSE w.ends[k]
CapsuleAt(w, k) == SubSeq(w.bytes, EndOf(w, k - 1) + 1, EndOf(w, k))

\* Whatever a peer sends is the beginning of some sequence of capsules.
ASSUME ReaderConstants ==
    /\ MAX_FRAME \in Nat \ {0}
    /\ \A w \in Written :
          /\ w.bytes \in Seq(Byte) /\ w.ends \in Seq(Nat)
          /\ EndOf(w, Len(w.ends)) = Len(w.bytes)
          /\ \A k \in 1..Len(w.ends) : Framed(CapsuleAt(w, k))
          /\ \A j, k \in 0..Len(w.ends) : j < k => EndOf(w, j) < EndOf(w, k)

VARIABLES
    written,   \* what the peer writes
    cut,       \* how many of its bytes it has put into DATA frames
    sent,      \* how many of its capsules those bytes complete
    peer,      \* "writing", "fin", or "broken" after an oversized frame
    wire,      \* the frame on its way: <<>> or <<[typ, payload]>>
    pending,   \* pending_capsules
    got,       \* what read_capsule_frame has returned
    result     \* what run_closed makes of it, "reading" until it returns

vars == <<written, cut, sent, peer, wire, pending, got, result>>

Bytes == written.bytes
Count == Len(written.ends)

\* How many capsules are complete in the first n bytes.
Complete(n) == Cardinality({k \in 1..Count : EndOf(written, k) <= n})

Init ==
    /\ written \in Written
    /\ cut = 0
    /\ sent = 0
    /\ peer = "writing"
    /\ wire = <<>>
    /\ pending = <<>>
    /\ got = <<>>
    /\ result = "reading"
-----------------------------------------------------------------------------
(***************************************************************************)
(* The peer.                                                               *)
(***************************************************************************)
CanWrite == peer = "writing" /\ wire = <<>>

SendData(n) ==
    /\ CanWrite
    /\ cut + n <= Len(Bytes)
    /\ cut' = cut + n
    /\ sent' = Complete(cut + n)
    /\ wire' = <<[typ |-> "data", payload |-> SubSeq(Bytes, cut + 1, cut + n)]>>
    /\ UNCHANGED <<written, peer, pending, got, result>>

\* A GREASE frame, or another frame that is not DATA: its bytes are no part of
\* any capsule.
SendOther ==
    /\ CanWrite
    /\ wire' = <<[typ |-> "other", payload |-> <<0>>]>>
    /\ UNCHANGED <<written, cut, sent, peer, pending, got, result>>

\* A frame header that announces more than MAX_FRAME bytes.
SendOversized ==
    /\ CanWrite
    /\ peer' = "broken"
    /\ wire' = <<[typ |-> "oversized", payload |-> <<>>]>>
    /\ UNCHANGED <<written, cut, sent, pending, got, result>>

\* The stream ends, between frames or inside one.
SendFin ==
    /\ peer = "writing"
    /\ peer' = "fin"
    /\ UNCHANGED <<written, cut, sent, wire, pending, got, result>>
-----------------------------------------------------------------------------
(***************************************************************************)
(* The reader.                                                             *)
(***************************************************************************)

\* What decode_buffered_capsule makes of the buffer, and of how much of it.
Buffered(verdict, total) == [verdict |-> verdict, total |-> total]

\* Fault: a header says nothing until the payload is complete.
decode_buffered_capsule_NoLimit(buf) ==
    LET typ == VarIntDecode(buf)
        length == VarIntDecode(SubSeq(buf, typ.used + 1, Len(buf)))
        total == typ.used + length.used + length.value
    IN  IF ~typ.ok \/ ~length.ok \/ Len(buf) < total
        THEN Buffered(Failed("incomplete"), 0)
        ELSE Buffered(CapsuleDecode(SubSeq(buf, 1, total)), total)

\* decode_buffered_capsule: nothing yet, an error, or a capsule and its size.
decode_buffered_capsule(buf) ==
    LET typ == VarIntDecode(buf)
        length == VarIntDecode(SubSeq(buf, typ.used + 1, Len(buf)))
        total == typ.used + length.used + length.value
    IN  IF ~typ.ok \/ ~length.ok THEN Buffered(Failed("incomplete"), 0)
        ELSE IF length.value > MAX_PAYLOAD THEN Buffered(Failed("MessageTooLong"), 0)
        ELSE IF Len(buf) < total THEN Buffered(Failed("incomplete"), 0)
        ELSE Buffered(CapsuleDecode(SubSeq(buf, 1, total)), total)

\* is_graceful_close tells the end of the stream from an error.
Outcome(error) == IF error = "UnexpectedEnd" THEN "end" ELSE "error"

\* Fault: what follows the capsule in its frame is lost with it.
TakeCapsule_Clears ==
    /\ result = "reading"
    /\ LET next == decode_buffered_capsule(pending) IN
       /\ next.verdict.kind = "ok"
       /\ got' = Append(got, next.verdict.capsule)
       /\ pending' = <<>>
       /\ result' = IF next.verdict.capsule.kind = "close" THEN "close" ELSE "reading"
    /\ UNCHANGED <<written, cut, sent, peer, wire>>

\* A buffered capsule is returned before anything more is read.  run_closed
\* ignores an unknown one and calls again.
TakeCapsule ==
    /\ result = "reading"
    /\ LET next == decode_buffered_capsule(pending) IN
       /\ next.verdict.kind = "ok"
       /\ got' = Append(got, next.verdict.capsule)
       /\ pending' = SubSeq(pending, next.total + 1, Len(pending))
       /\ result' = IF next.verdict.capsule.kind = "close" THEN "close" ELSE "reading"
    /\ UNCHANGED <<written, cut, sent, peer, wire>>

FailCapsule ==
    /\ result = "reading"
    /\ decode_buffered_capsule(pending).verdict.kind \notin {"ok", "incomplete"}
    /\ result' = Outcome(decode_buffered_capsule(pending).verdict.kind)
    /\ UNCHANGED <<written, cut, sent, peer, wire, pending, got>>

NeedsFrame == result = "reading" /\ decode_buffered_capsule(pending).verdict.kind = "incomplete"

\* Fault: any frame is taken for DATA.
ReadFrame_AnyType ==
    /\ NeedsFrame
    /\ wire # <<>>
    /\ Head(wire).typ # "oversized"
    /\ wire' = <<>>
    /\ pending' = pending \o Head(wire).payload
    /\ UNCHANGED <<written, cut, sent, peer, got, result>>

\* A frame that is complete and not too long: DATA is kept, others skipped.
ReadFrame ==
    /\ NeedsFrame
    /\ wire # <<>>
    /\ Head(wire).typ # "oversized"
    /\ wire' = <<>>
    /\ pending' = IF Head(wire).typ = "data" THEN pending \o Head(wire).payload ELSE pending
    /\ UNCHANGED <<written, cut, sent, peer, got, result>>

RefuseFrame ==
    /\ NeedsFrame
    /\ wire # <<>>
    /\ Head(wire).typ = "oversized"
    /\ result' = Outcome("MessageTooLong")
    /\ UNCHANGED <<written, cut, sent, peer, wire, pending, got>>

\* Reading a frame header or its payload meets the end of the stream.
ReadEnd ==
    /\ NeedsFrame
    /\ wire = <<>>
    /\ peer = "fin"
    /\ result' = Outcome("UnexpectedEnd")
    /\ UNCHANGED <<written, cut, sent, peer, wire, pending, got>>

Reader == TakeCapsule \/ FailCapsule \/ ReadFrame \/ RefuseFrame \/ ReadEnd

Next ==
    \/ \E n \in 0..MAX_FRAME : SendData(n)
    \/ SendOther
    \/ SendOversized
    \/ SendFin
    \/ Reader

Spec == Init /\ [][Next]_vars
-----------------------------------------------------------------------------
\* What pending holds never exceeds a partial capsule and one DATA frame, as
\* the comment in read_capsule_frame claims ("A partial capsule is at most
\* 1,044 bytes"): a peer cannot make the reader buffer without limit.
BufferBounded == Len(pending) < 2 * MAX_SIZE + MAX_PAYLOAD + MAX_FRAME

\* The reader waits for another frame only when every capsule that is complete
\* on the stream has been returned: one is never held back until its
\* successor arrives, which for a close capsule would be never.
NothingWithheld == NeedsFrame /\ wire = <<>> => Len(got) = sent

\* The reader turns frames into capsules as CapsuleStream promises: frame
\* boundaries, foreign frames and the capsule limit change nothing of the
\* capsules delivered or their order, and the end of the stream overtakes none.
Verdicts ==
    [c \in UNION {{CapsuleAt(w, k) : k \in 1..Len(w.ends)} : w \in Written} |-> CapsuleDecode(c)]
Stream == INSTANCE CapsuleStream
            WITH capsules <- [k \in 1..Count |-> CapsuleAt(written, k)], Verdict <- Verdicts
ImplementsStream == Stream!Spec
-----------------------------------------------------------------------------
(***************************************************************************)
(* The inductive invariant behind the three.                               *)
(***************************************************************************)
Delivered == {Verdicts[c].capsule : c \in {d \in DOMAIN Verdicts : Verdicts[d].kind = "ok"}}

TypeOK ==
    /\ written \in Written
    /\ cut \in 0..Len(Bytes)
    /\ peer \in {"writing", "fin", "broken"}
    /\ pending \in Seq(Byte)
    /\ got \in Seq(Delivered)
    /\ result \in {"reading", "close", "end", "error"}

\* The bytes of a DATA frame on its way, and how many are past it.
OnWire == IF wire # <<>> /\ Head(wire).typ = "data" THEN Len(Head(wire).payload) ELSE 0
Taken == cut - OnWire

\* A DATA frame holds the last bytes that were cut.
FramesInOrder ==
    /\ OnWire \in 0..MAX_FRAME /\ OnWire <= cut
    /\ wire # <<>> =>
          \/ Head(wire).typ = "data" /\ Head(wire).payload = SubSeq(Bytes, Taken + 1, cut)
          \/ Head(wire).typ = "other"
          \/ Head(wire).typ = "oversized" /\ peer = "broken"

\* What is pending begins where the last capsule ended that was returned.
AtBoundary ==
    /\ sent = Complete(cut)
    /\ Len(got) <= Count
    /\ EndOf(written, Len(got)) <= Taken
    /\ pending = SubSeq(Bytes, EndOf(written, Len(got)) + 1, Taken)

IInv ==
    /\ TypeOK
    /\ FramesInOrder
    /\ AtBoundary
    /\ BufferBounded
=============================================================================
