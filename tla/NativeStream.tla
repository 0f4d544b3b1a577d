---------------------------- MODULE NativeStream ----------------------------
(***************************************************************************)
(* One direction of one stream of a native session (send.rs, recv.rs and   *)
(* the stream parts of session.rs and error.rs of both backends): opened   *)
(* with a session header, written from the application's buffer, finished, *)
(* reset, stopped or dropped, and read by the peer's application once its  *)
(* SessionAccept has decoded the header.                                   *)
(*                                                                         *)
(* The two ends interleave with QUIC, which delivers bytes in order, and   *)
(* the end of the stream or a reset whenever it likes: a RESET_STREAM may  *)
(* overtake all the bytes before it, a RESET_STREAM_AT all but the prefix  *)
(* it names.  A behaviour belongs to one kind of session.                  *)
(***************************************************************************)
EXTENDS ErrorCode, Sequences, SequencesExt

CONSTANTS HEADER,   \* the size of the session header
          DATA,     \* the size of the application's buffer
          Code      \* the codes the applications use

ASSUME StreamConstants ==
    /\ HEADER \in Nat \ {0}
    /\ DATA \in Nat
    /\ Code \subseteq AppCode

VARIABLES
    kind,       \* the session: see Kind
    send,       \* the SendStream
    pos,        \* the position of the application's buffer
    flight,     \* bytes a write in progress still has to hand to QUIC
    abandoned,  \* has a write been dropped, or failed, with bytes in flight?
    stream,     \* the bytes QUIC has taken: 0 for a header byte
    ending,     \* how the sending side has ended the stream
    conn,       \* the connection: "open" or "lost"
    arrived,    \* how many bytes the receiving side has
    heard,      \* the ending, as the receiving side has heard of it
    recv,       \* the RecvStream
    taken,      \* how many bytes it has consumed
    outcome,    \* how reading ended
    stop,       \* the code of a STOP_SENDING
    told,       \* has it reached the sender?
    result      \* what SendStream::closed returned

vars == <<kind, send, pos, flight, abandoned, stream, ending, conn, arrived,
          heard, recv, taken, outcome, stop, told, result>>
netVars == <<conn, arrived, heard, told>>
recvVars == <<recv, taken, outcome, stop>>

\* reliable: Quion, and both sides have negotiated RESET_STREAM_AT.
\* raw: Session::raw, which writes no header.
\* api: does the application write with write_buf, or with write_chunk or
\* write_all?
Kind == {k \in [backend : {"quinn", "quion"}, reliable : BOOLEAN, raw : BOOLEAN,
                api : {"buf", "chunk"}] : k.reliable => k.backend = "quion"}

HeaderSize == IF kind.raw THEN 0 ELSE HEADER

Data == [i \in 1..DATA |-> i]

NotEnded == [how |-> "none"]
Fin == [how |-> "fin"]
WireReset(code, size, by) == [how |-> "reset", code |-> code, size |-> size, by |-> by]

\* A code on the wire, as WriteError::Stopped or ReadError::Reset report it;
\* None for InvalidStopped and InvalidReset.
StreamError(how, code) == [how |-> how, code |-> error_from_http3(code)]
NoOutcome == [how |-> "none", code |-> None]
Clean == [how |-> "ok", code |-> None]
SessionGone == [how |-> "session", code |-> None]

Init ==
    /\ kind \in Kind
    /\ send = "none" /\ pos = 0 /\ flight = <<>> /\ abandoned = FALSE
    /\ stream = <<>> /\ ending = NotEnded
    /\ conn = "open" /\ arrived = 0 /\ heard = NotEnded
    /\ recv = "none" /\ taken = 0 /\ outcome = NoOutcome
    /\ stop = [code |-> None, by |-> None] /\ told = FALSE
    /\ result = NoOutcome
-----------------------------------------------------------------------------
(***************************************************************************)
(* Opening: Session::open_uni and open_bi.                                 *)
(***************************************************************************)
Open ==
    /\ send = "none"
    /\ conn = "open"
    /\ send' = IF kind.raw THEN "open" ELSE "opening"
    /\ UNCHANGED <<kind, pos, flight, abandoned, stream, ending, result, netVars, recvVars>>

\* write_full, as flow control lets it: open returns after the last byte.
WriteHeader(n) ==
    /\ send = "opening"
    /\ conn = "open"
    /\ Len(stream) + n <= HeaderSize
    /\ stream' = stream \o [i \in 1..n |-> 0]
    /\ send' = IF Len(stream') = HeaderSize THEN "open" ELSE send
    /\ UNCHANGED <<kind, pos, flight, abandoned, ending, result, netVars, recvVars>>

\* write_full fails or the future of open is dropped: QUIC finishes the stream
\* of a dropped handle.
AbandonOpen ==
    /\ send = "opening"
    /\ send' = "dropped"
    /\ ending' = Fin
    /\ UNCHANGED <<kind, pos, flight, abandoned, stream, result, netVars, recvVars>>
-----------------------------------------------------------------------------
(***************************************************************************)
(* Writing.  A write may take less than it is given.                       *)
(***************************************************************************)
Writable == send = "open" /\ ~told /\ conn = "open"

\* Fault: the buffer moves past all that was offered.
WriteBuf_Offered(n) ==
    /\ Writable
    /\ kind.backend = "quion" /\ kind.api = "buf"
    /\ pos + n <= DATA
    /\ stream' = stream \o SubSeq(Data, pos + 1, pos + n)
    /\ pos' = DATA
    /\ UNCHANGED <<kind, send, flight, abandoned, ending, result, netVars, recvVars>>

\* write_buf over Quion, as the trait's own: write, then advance by what was
\* taken.  Dropping the future before that changes nothing.
WriteBuf(n) ==
    /\ Writable
    /\ kind.backend = "quion" /\ kind.api = "buf"
    /\ pos + n <= DATA
    /\ stream' = stream \o SubSeq(Data, pos + 1, pos + n)
    /\ pos' = pos + n
    /\ UNCHANGED <<kind, send, flight, abandoned, ending, result, netVars, recvVars>>

\* write_buf over Quinn, and write_chunk: the bytes leave the buffer first.
WriteChunk(n) ==
    /\ send = "open"
    /\ kind.backend = "quinn" \/ kind.api = "chunk"
    /\ flight = <<>>
    /\ pos + n <= DATA
    /\ flight' = SubSeq(Data, pos + 1, pos + n)
    /\ pos' = pos + n
    /\ UNCHANGED <<kind, send, abandoned, stream, ending, result, netVars, recvVars>>

\* One turn of the loop of write_all: n more bytes are taken.
Push(n) ==
    /\ Writable
    /\ n <= Len(flight)
    /\ stream' = stream \o SubSeq(flight, 1, n)
    /\ flight' = SubSeq(flight, n + 1, Len(flight))
    /\ UNCHANGED <<kind, send, pos, abandoned, ending, result, netVars, recvVars>>

\* The future of the write is dropped, or ends with an error.
AbandonWrite ==
    /\ flight # <<>>
    /\ flight' = <<>>
    /\ abandoned' = TRUE
    /\ UNCHANGED <<kind, send, pos, stream, ending, result, netVars, recvVars>>
-----------------------------------------------------------------------------
(***************************************************************************)
(* Ending.  No write is in progress: it would borrow the stream.           *)
(***************************************************************************)
finish ==
    /\ Writable
    /\ flight = <<>>
    /\ send' = "finished"
    /\ ending' = Fin
    /\ UNCHANGED <<kind, pos, flight, abandoned, stream, result, netVars, recvVars>>

\* All that was written, and the end, is there.
Complete == heard = Fin /\ arrived = Len(stream)

\* Fault: always RESET_STREAM.
reset_Plain(c) ==
    /\ send \in {"open", "finished"}
    /\ flight = <<>>
    /\ conn = "open"
    /\ send' = "reset"
    /\ ending' = WireReset(error_to_http3(c), 0, c)
    /\ UNCHANGED <<kind, pos, flight, abandoned, stream, result, netVars, recvVars>>

\* SendStream::reset: RESET_STREAM_AT keeps the header, if negotiated.
reset(c) ==
    /\ send \in {"open", "finished"}
    /\ flight = <<>>
    /\ conn = "open"
    /\ send' = "reset"
    /\ ending' = WireReset(error_to_http3(c), IF kind.reliable THEN HeaderSize ELSE 0, c)
    /\ UNCHANGED <<kind, pos, flight, abandoned, stream, result, netVars, recvVars>>

\* The SendStream is dropped, with a write in progress perhaps: QUIC finishes
\* the stream, or answers a STOP_SENDING with a reset of the same code.
DropSend ==
    /\ send \in {"open", "finished", "reset"}
    /\ send' = "dropped"
    /\ flight' = <<>>
    /\ abandoned' = (abandoned \/ flight # <<>>)
    /\ ending' = CASE send # "open" -> ending
                   [] send = "open" /\ told -> WireReset(stop.code, 0, None)
                   [] OTHER -> Fin
    /\ UNCHANGED <<kind, pos, stream, result, netVars, recvVars>>

\* SendStream::closed, from stopped.  The peer's transport stops a stream whose
\* RecvStream is dropped with a code of its own, which stopped turns to None.
Closed ==
    /\ send \in {"open", "finished", "reset"}
    /\ flight = <<>>
    /\ result = NoOutcome
    /\ \/ /\ conn = "lost"
          /\ result' = SessionGone
       \/ /\ told
          /\ result' = IF error_from_http3(stop.code) = None THEN Clean
                       ELSE StreamError("stopped", stop.code)
       \/ /\ ~told
          /\ \/ send = "finished" /\ Complete
             \/ send = "reset" /\ (heard = ending \/ outcome = Clean)
          /\ result' = Clean
    /\ UNCHANGED <<kind, send, pos, flight, abandoned, stream, ending, netVars, recvVars>>
-----------------------------------------------------------------------------
(***************************************************************************)
(* QUIC (external).                                                        *)
(***************************************************************************)
sendVars == <<kind, send, pos, flight, abandoned, stream, ending, result>>

Deliver ==
    /\ conn = "open"
    /\ arrived < Len(stream)
    /\ arrived' = arrived + 1
    /\ UNCHANGED <<sendVars, conn, heard, told, recvVars>>

\* The end of the stream, or a reset, which may follow a FIN until the reader
\* has seen the end.
EndingArrives ==
    /\ conn = "open"
    /\ heard # ending
    /\ outcome # Clean
    /\ heard' = ending
    /\ UNCHANGED <<sendVars, conn, arrived, told, recvVars>>

StopArrives ==
    /\ conn = "open"
    /\ stop.code # None
    /\ ~told
    /\ told' = TRUE
    /\ UNCHANGED <<sendVars, conn, arrived, heard, recvVars>>

ConnectionLost ==
    /\ conn = "open"
    /\ conn' = "lost"
    /\ UNCHANGED <<sendVars, arrived, heard, told, recvVars>>
-----------------------------------------------------------------------------
(***************************************************************************)
(* The receiving side.                                                     *)
(***************************************************************************)

\* A reset takes away what has arrived past its prefix.
Readable == IF heard.how = "reset" /\ heard.size < arrived THEN heard.size ELSE arrived

\* SessionAccept has read the header and hands the stream to the application;
\* a raw session's streams have none.
Accept ==
    /\ recv = "none"
    /\ conn = "open"
    /\ arrived > 0 \/ heard # NotEnded
    /\ Readable >= HeaderSize
    /\ recv' = "open"
    /\ taken' = HeaderSize
    /\ UNCHANGED <<sendVars, netVars, outcome, stop>>

\* The header cannot be read: SessionAccept drops the stream.
HeaderLost ==
    /\ recv = "none"
    /\ \/ conn = "lost"
       \/ heard.how = "reset" /\ heard.size < HeaderSize
       \/ Complete /\ Len(stream) < HeaderSize
    /\ recv' = "lost"
    /\ UNCHANGED <<sendVars, netVars, taken, outcome, stop>>

Reading == recv = "open" /\ outcome = NoOutcome

read(n) ==
    /\ Reading
    /\ taken + n <= Readable
    /\ taken' = taken + n
    /\ UNCHANGED <<sendVars, netVars, recv, outcome, stop>>

\* Fault: a stream that ends is at its end, whatever has arrived.
ReadEnds_Early ==
    /\ Reading
    /\ \/ heard = Fin /\ outcome' = Clean
       \/ heard.how = "reset" /\ outcome' = StreamError("reset", heard.code)
       \/ conn = "lost" /\ outcome' = SessionGone
    /\ UNCHANGED <<sendVars, netVars, recv, taken, stop>>

\* read returns None, or an error.
ReadEnds ==
    /\ Reading
    /\ \/ Complete /\ taken = arrived /\ outcome' = Clean
       \/ heard.how = "reset" /\ outcome' = StreamError("reset", heard.code)
       \/ conn = "lost" /\ outcome' = SessionGone
    /\ UNCHANGED <<sendVars, netVars, recv, taken, stop>>

\* RecvStream::stop.  The application reads no more.
Stop(c) ==
    /\ Reading
    /\ recv' = "stopped"
    /\ stop' = [code |-> error_to_http3(c), by |-> c]
    /\ UNCHANGED <<sendVars, netVars, taken, outcome>>

\* Dropping a RecvStream that is not at its end stops it with QUIC's code 0.
DropRecv ==
    /\ recv \in {"open", "stopped"}
    /\ recv' = "dropped"
    /\ stop' = IF Reading THEN [code |-> 0, by |-> None] ELSE stop
    /\ UNCHANGED <<sendVars, netVars, taken, outcome>>
-----------------------------------------------------------------------------
Next ==
    \/ Open \/ AbandonOpen \/ AbandonWrite
    \/ \E n \in 1..HEADER : WriteHeader(n)
    \/ \E n \in 1..DATA : WriteBuf(n) \/ WriteChunk(n) \/ Push(n) \/ read(n)
    \/ \E c \in Code : reset(c) \/ Stop(c)
    \/ finish \/ DropSend \/ Closed
    \/ Deliver \/ EndingArrives \/ StopArrives \/ ConnectionLost
    \/ Accept \/ HeaderLost \/ ReadEnds \/ DropRecv

Spec == Init /\ [][Next]_vars
-----------------------------------------------------------------------------
\* The application's bytes in the stream, and those that were read.
Taken == SubSeq(stream, HeaderSize + 1, Len(stream))
Got == SubSeq(stream, HeaderSize + 1, taken)

\* A stream that open_uni or open_bi has returned reaches the peer's
\* application, whatever happens to it: with reliable resets even if it is
\* reset at once (with_reliable_prefix), otherwise unless it is reset.
OpenedStreamArrives ==
    recv = "lost" =>
        \/ conn = "lost"
        \/ Len(stream) < HeaderSize
        \/ ~kind.reliable /\ ending.how = "reset"

\* The reader gets the buffer's bytes, from its start and without a gap, as
\* long as no write was abandoned with bytes in flight; write_buf over Quion
\* may be abandoned and repeated at will.
BufferArrives ==
    /\ ~abandoned => IsPrefix(Got, Data)
    /\ \A i, j \in 1..Len(Got) : i < j => Got[i] < Got[j]
    /\ kind.backend = "quion" /\ kind.api = "buf" => Taken = SubSeq(Data, 1, pos)

\* What either side is told of the other is true.  The reader sees a clean end
\* only after every byte that QUIC took, and a reset only with the code of the
\* writer's reset.  The writer hears of a stop only with the code of the
\* reader's stop, and closed returns without an error only if the reader's
\* side has everything, the writer reset the stream, or the reader dropped it.
EndsAreTrue ==
    /\ outcome = Clean => taken = Len(stream) /\ send # "open"
    /\ outcome.how = "reset" => outcome.code = ending.by
    /\ result.how = "stopped" => result.code = stop.by
    /\ result = Clean => \/ send \in {"reset", "dropped"}
                         \/ Complete
                         \/ recv = "dropped"
-----------------------------------------------------------------------------
(***************************************************************************)
(* The inductive invariant behind the safety properties.                   *)
(***************************************************************************)
ResetSet == [how : {"reset"}, code : Nat, size : {0, HeaderSize}, by : Code \cup {None}]
EndingSet == {NotEnded, Fin} \cup ResetSet
OutcomeSet == {NoOutcome, Clean, SessionGone}
                \cup [how : {"stopped", "reset"}, code : AppCode \cup {None}]
StopSet == {[code |-> None, by |-> None], [code |-> 0, by |-> None]}
             \cup {[code |-> error_to_http3(c), by |-> c] : c \in Code}

TypeOK ==
    /\ kind \in Kind
    /\ send \in {"none", "opening", "open", "finished", "reset", "dropped"}
    /\ pos \in 0..DATA
    /\ flight \in Seq(1..DATA)
    /\ abandoned \in BOOLEAN
    /\ stream \in Seq(0..DATA)
    /\ ending \in EndingSet /\ heard \in EndingSet
    /\ conn \in {"open", "lost"}
    /\ arrived \in Nat /\ taken \in Nat
    /\ recv \in {"none", "open", "stopped", "dropped", "lost"}
    /\ outcome \in OutcomeSet /\ result \in OutcomeSet
    /\ stop \in StopSet
    /\ told \in BOOLEAN

\* The bytes of the buffer that are out of the application's hands and of the
\* write in progress.
Handed == pos - Len(flight)

\* Past a header of h bytes, s holds increasing bytes up to d, or all of them.
Ascending(s, h, d) ==
    /\ \A i \in h + 1..Len(s) : s[i] \in 1..d
    /\ \A i, j \in h + 1..Len(s) : i < j => s[i] < s[j]
Gapless(s, h) == \A i \in h + 1..Len(s) : s[i] = i - h

\* s holds the bytes of the buffer from position p on.
From(s, p) == \A i \in 1..Len(s) : s[i] = p + i

\* The stream is a header and then bytes of the buffer, in order; a write in
\* progress holds the ones just before the buffer's position.  Nothing is
\* missing until a write is abandoned.
StreamInOrder ==
    /\ Len(flight) <= pos
    /\ From(flight, Handed)
    /\ Ascending(stream, HeaderSize, Handed)
    /\ ~abandoned /\ Len(stream) >= HeaderSize =>
          Len(stream) = HeaderSize + Handed /\ Gapless(stream, HeaderSize)
    /\ Len(stream) < HeaderSize \/ send \in {"none", "opening"} =>
          pos = 0 /\ ~abandoned /\ Len(stream) <= HeaderSize
    /\ send \in {"open", "finished", "reset"} => Len(stream) >= HeaderSize
    /\ kind.backend = "quion" /\ kind.api = "buf" => flight = <<>> /\ ~abandoned

\* The stream ends with the send side, a finished one may still be reset, and
\* only a stop is answered with a code that is not the writer's.
EndsOnce ==
    /\ ending = NotEnded <=> send \in {"none", "opening", "open"}
    /\ send = "finished" => ending = Fin
    /\ ending.how = "reset" =>
          \/ /\ ending.by \in Code
             /\ ending.code = error_to_http3(ending.by)
             /\ ending.size = IF kind.reliable THEN HeaderSize ELSE 0
          \/ ending.by = None /\ stop.code # None
    /\ heard = NotEnded \/ heard = ending \/ (heard = Fin /\ ending # NotEnded)

\* What the receiving side has is what was sent, and a reader that has stopped
\* or dropped the stream, or has seen its end, stays so.
ReadsWhatWasSent ==
    /\ arrived <= Len(stream)
    /\ recv \in {"none", "lost"} => taken = 0 /\ outcome = NoOutcome
    /\ recv \notin {"none", "lost"} => HeaderSize <= taken /\ taken <= arrived
    /\ recv = "lost" =>
          \/ conn = "lost"
          \/ ending # NotEnded /\ Len(stream) < HeaderSize
          \/ ~kind.reliable /\ ending.how = "reset"
    /\ outcome = Clean => heard = Fin /\ taken = Len(stream)
    /\ outcome.how = "reset" => heard = ending /\ ending.how = "reset" /\ outcome.code = ending.by
    /\ stop.code # None => recv \in {"stopped", "dropped"} /\ outcome = NoOutcome
    /\ stop.code = 0 => recv = "dropped"
    /\ told => stop.code # None
    /\ result.how = "stopped" => told

IInv ==
    /\ TypeOK
    /\ StreamInOrder
    /\ EndsOnce
    /\ ReadsWhatWasSent
    /\ EndsAreTrue
=============================================================================
