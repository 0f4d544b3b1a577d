------------------------------ MODULE WasmRecv ------------------------------
(***************************************************************************)
(* webtrans-wasm/src/recv.rs: RecvStream, which turns the promises of a    *)
(* browser's ReadableStream into AsyncRead and into chunks of at most the  *)
(* size the caller asks for.                                               *)
(*                                                                         *)
(* A read that is given up leaves its future, with the Reader in it, in    *)
(* the stream; the next call, of any size, goes on with it.  What a chunk  *)
(* holds beyond that size stays in a buffer.  All calls take &mut self, so *)
(* one poll is one step; the browser and the peer run between polls.       *)
(*                                                                         *)
(* Bytes are numbered in the order in which the peer sends them.           *)
(***************************************************************************)
EXTENDS Naturals, Sequences

CONSTANTS MaxBytes,  \* bound: bytes the peer sends
          ReadSize   \* the sizes callers ask for

ASSUME RecvConstants ==
    /\ MaxBytes \in Nat
    /\ ReadSize \subseteq Nat \ {0}

VARIABLES
    reader,       \* is the Reader here, or with the future, or gone with it?
    read_state,   \* Idle or Reading
    buffer,       \* what is left of the last chunk
    eof,          \* the stream has ended for the caller
    recvDropped,  \* the RecvStream has been dropped
    answer,       \* the browser's answer to the read in the future
    readable,     \* the browser's ReadableStream
    held,         \* the bytes it holds
    sent,         \* history: bytes the peer has sent
    delivered,    \* history: bytes read has returned
    told          \* history: the first end that read has returned

recvVars == <<reader, read_state, buffer, eof, recvDropped, answer, readable,
              held, sent, delivered, told>>

\* Answers of the browser: none yet, a chunk, the end, an error.
Answer(kind, bytes) == [kind |-> kind, bytes |-> bytes]
Pending == Answer("pending", <<>>)

RecvInit ==
    /\ reader = TRUE
    /\ read_state = "idle"
    /\ buffer = <<>>
    /\ eof = FALSE
    /\ recvDropped = FALSE
    /\ answer = Pending
    /\ readable = "open"
    /\ held = <<>>
    /\ sent = <<>>
    /\ delivered = <<>>
    /\ told = "nothing"
-----------------------------------------------------------------------------
(***************************************************************************)
(* The browser and the peer (external).                                    *)
(***************************************************************************)

PeerSends ==
    /\ readable = "open"
    /\ Len(sent) < MaxBytes
    /\ sent' = Append(sent, Len(sent) + 1)
    /\ held' = Append(held, Len(sent) + 1)
    /\ UNCHANGED <<reader, read_state, buffer, eof, recvDropped, answer, readable,
                   delivered, told>>

PeerFinishes ==
    /\ readable = "open"
    /\ readable' = "finished"
    /\ UNCHANGED <<reader, read_state, buffer, eof, recvDropped, answer, held, sent,
                   delivered, told>>

\* Reading can still fail: the peer has not finished, or not all is read.
MayFail == readable = "open" \/ (readable = "finished" /\ held # <<>>)

\* The peer's reset, or the end of the session, discards what is held.
ReadableFails ==
    /\ MayFail
    /\ readable' = "failed"
    /\ held' = <<>>
    /\ UNCHANGED <<reader, read_state, buffer, eof, recvDropped, answer, sent,
                   delivered, told>>

\* A read under way is answered, with a chunk that may be of any size, and
\* empty, with the end or with an error.
BrowserAnswers ==
    /\ read_state = "reading"
    /\ answer = Pending
    /\ \/ /\ readable = "open" \/ held # <<>>
          /\ \E n \in 0..Len(held) :
                /\ answer' = Answer("chunk", SubSeq(held, 1, n))
                /\ held' = SubSeq(held, n + 1, Len(held))
       \/ /\ readable = "finished"
          /\ held = <<>>
          /\ answer' = Answer("end", <<>>)
          /\ UNCHANGED held
       \/ /\ readable = "failed"
          /\ answer' = Answer("error", <<>>)
          /\ UNCHANGED held
    /\ UNCHANGED <<reader, read_state, buffer, eof, recvDropped, readable, sent,
                   delivered, told>>
-----------------------------------------------------------------------------
(***************************************************************************)
(* poll_chunk(max), by the round of its loop that returns.                 *)
(***************************************************************************)
Smaller(a, b) == IF a < b THEN a ELSE b

\* Return what fits of bytes and buffer the rest.
SplitTo(bytes, max) ==
    /\ delivered' = delivered \o SubSeq(bytes, 1, Smaller(max, Len(bytes)))
    /\ buffer' = SubSeq(bytes, Smaller(max, Len(bytes)) + 1, Len(bytes))

ReturnsBuffered(max) ==
    /\ buffer # <<>>
    /\ SplitTo(buffer, max)
    /\ UNCHANGED <<reader, read_state, eof, answer, told>>

\* The end has been reached before: None again.
ReturnsEnd ==
    /\ buffer = <<>>
    /\ eof
    /\ told' = IF told = "nothing" THEN "end" ELSE told
    /\ UNCHANGED <<reader, read_state, buffer, eof, answer, delivered>>

\* Fault: every call starts a read of its own, and forgets the one in flight.
StartsRead_Again ==
    /\ buffer = <<>>
    /\ ~eof
    /\ reader' = FALSE
    /\ read_state' = "reading"
    /\ answer' = Pending
    /\ UNCHANGED <<buffer, eof, delivered, told>>

\* Take the Reader, call the browser's read and wait.
StartsRead ==
    /\ buffer = <<>>
    /\ ~eof
    /\ read_state = "idle"
    /\ reader
    /\ reader' = FALSE
    /\ read_state' = "reading"
    /\ answer' = Pending
    /\ UNCHANGED <<buffer, eof, delivered, told>>

\* poll_inflight_read is ready: the Reader is back.
Answered(kind) ==
    /\ buffer = <<>>
    /\ ~eof
    /\ read_state = "reading"
    /\ answer.kind = kind

ReturnsChunk(max) ==
    /\ Answered("chunk")
    /\ answer.bytes # <<>>
    /\ SplitTo(answer.bytes, max)
    /\ reader' = TRUE
    /\ read_state' = "idle"
    /\ answer' = Pending
    /\ UNCHANGED <<eof, told>>

\* An empty chunk: the next round of the loop reads again.
ReadsAgain ==
    /\ Answered("chunk")
    /\ answer.bytes = <<>>
    /\ answer' = Pending
    /\ UNCHANGED <<reader, read_state, buffer, eof, delivered, told>>

\* Fault: an error is taken for the end.
Ends_Quietly ==
    /\ Answered("end") \/ Answered("error")
    /\ eof' = TRUE
    /\ told' = "end"
    /\ reader' = TRUE
    /\ read_state' = "idle"
    /\ answer' = Pending
    /\ UNCHANGED <<buffer, delivered>>

\* None, or the error.
Ends ==
    /\ Answered("end") \/ Answered("error")
    /\ eof' = TRUE
    /\ told' = answer.kind
    /\ reader' = TRUE
    /\ read_state' = "idle"
    /\ answer' = Pending
    /\ UNCHANGED <<buffer, delivered>>

poll_chunk(max) ==
    /\ ~recvDropped
    /\ \/ ReturnsBuffered(max)
       \/ ReturnsEnd
       \/ StartsRead
       \/ ReturnsChunk(max)
       \/ ReadsAgain
       \/ Ends
    /\ UNCHANGED <<recvDropped, readable, held, sent>>
-----------------------------------------------------------------------------
(***************************************************************************)
(* The other calls.                                                        *)
(***************************************************************************)

\* stop drops the buffer and a future in flight, with its Reader, and cancels
\* the browser's stream; what became of that one no longer matters.
Cancels ==
    /\ eof' = TRUE
    /\ buffer' = <<>>
    /\ read_state' = "idle"
    /\ answer' = Pending
    /\ readable' = "cancelled"
    /\ held' = <<>>
    /\ UNCHANGED <<reader, sent, delivered, told>>

stop ==
    /\ ~recvDropped
    /\ Cancels
    /\ UNCHANGED recvDropped

DropRecv ==
    /\ ~recvDropped
    /\ recvDropped' = TRUE
    /\ Cancels
-----------------------------------------------------------------------------
RecvNext ==
    \/ PeerSends
    \/ PeerFinishes
    \/ ReadableFails
    \/ BrowserAnswers
    \/ \E max \in ReadSize : poll_chunk(max)
    \/ stop
    \/ DropRecv

RecvTypeOK ==
    /\ reader \in BOOLEAN
    /\ read_state \in {"idle", "reading"}
    /\ buffer \in Seq(Nat)
    /\ eof \in BOOLEAN
    /\ recvDropped \in BOOLEAN
    /\ answer \in [kind : {"pending", "chunk", "end", "error"}, bytes : Seq(Nat)]
    /\ readable \in {"open", "finished", "failed", "cancelled"}
    /\ held \in Seq(Nat)
    /\ sent \in Seq(Nat)
    /\ delivered \in Seq(Nat)
    /\ told \in {"nothing", "end", "error"}

\* No byte is lost, doubled or moved, whichever reads are given up and
\* whatever sizes the next ones ask for: what read has returned, what it keeps
\* and what the browser still has is what the peer has sent.  A stream that
\* has failed or was stopped has returned a prefix of it.
BytesInOrder ==
    /\ readable \in {"open", "finished"} =>
           delivered \o buffer \o answer.bytes \o held = sent
    /\ delivered = SubSeq(sent, 1, Len(delivered))

\* The first end that read returns is the true one: it is "no more data" only
\* after all the peer's bytes, and never in place of a reset, unless the
\* application has stopped the stream itself.
EndIsTrue ==
    told = "end" => readable = "cancelled" \/ (readable = "finished" /\ delivered = sent)
-----------------------------------------------------------------------------
(***************************************************************************)
(* The inductive invariant behind the two.                                 *)
(***************************************************************************)

\* The bytes of seq are the ones that follow the first n.
Follows(seq, n) == \A i \in 1..Len(seq) : seq[i] = n + i

\* Up to where the peer's bytes are returned, buffered, or in an answer.
Buffered == Len(delivered) + Len(buffer)
Obtained == Buffered + Len(answer.bytes)

\* What was returned, the buffer, the answer and what the browser holds follow
\* one another; a stream that failed keeps the first three.
InPlace ==
    /\ Follows(sent, 0)
    /\ Follows(delivered, 0)
    /\ Follows(buffer, Len(delivered))
    /\ Follows(answer.bytes, Buffered)
    /\ Obtained <= Len(sent)
    /\ readable \in {"open", "finished"} =>
           Follows(held, Obtained) /\ Obtained + Len(held) = Len(sent)
    /\ readable \in {"failed", "cancelled"} => held = <<>>

\* The end is answered when nothing is held, after which reading cannot fail;
\* and a stream that is at its end has told so, or was stopped.
TrueEnd ==
    /\ read_state = "idle" => answer.kind = "pending"
    /\ answer.kind # "chunk" => answer.bytes = <<>>
    /\ answer.kind = "end" => readable = "finished" /\ held = <<>>
    /\ eof => told # "nothing" \/ readable = "cancelled"
    /\ told = "end" =>
           readable = "cancelled" \/ (readable = "finished" /\ Len(delivered) = Len(sent))

RecvIInv == RecvTypeOK /\ InPlace /\ TrueEnd
=============================================================================
