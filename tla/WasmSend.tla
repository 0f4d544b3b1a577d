------------------------------ MODULE WasmSend ------------------------------
(***************************************************************************)
(* webtrans-wasm/src/send.rs: SendStream, which turns the promises of a    *)
(* browser's WritableStream into AsyncWrite.                               *)
(*                                                                         *)
(* poll_write copies its chunk into a future, reports it as accepted and   *)
(* returns; the future owns the Writer and is run by the polls that come   *)
(* later.  A caller may give up any pending call and go on with another    *)
(* one, with another buffer.  All calls take &mut self, so one poll is one *)
(* step; the browser and the peer run between polls.                       *)
(*                                                                         *)
(* A chunk is told apart by the buffer it comes from and its size.         *)
(***************************************************************************)
EXTENDS Naturals, Sequences

CONSTANTS Buf,       \* the application's buffers
          BufLen,    \* BufLen[b]: the length of b
          MaxChunk,  \* the 64 KiB limit of one chunk
          MaxWrites  \* bound: chunks accepted

ASSUME SendConstants ==
    /\ BufLen \in [Buf -> Nat]
    /\ MaxChunk \in Nat \ {0}
    /\ MaxWrites \in Nat

VARIABLES
    writer,      \* is the Writer here, or with the future, or gone with it?
    write_state, \* Idle, or Writing: the future not yet polled, or polled
    chunk,       \* the chunk in the future
    sendClosed,  \* is_closed
    sendDropped, \* the SendStream has been dropped
    promise,     \* the browser's answer to that write
    writable,    \* the browser's WritableStream
    sink,        \* the chunks the browser has taken
    reported     \* history: the chunks poll_write has reported as accepted

sendVars == <<writer, write_state, chunk, sendClosed, sendDropped, promise,
              writable, sink, reported>>

Chunk == [buf : Buf, size : 1..MaxChunk]
NoChunk == <<>>

\* What poll_write takes of a buffer.
ChunkOf(b) == [buf |-> b, size |-> IF BufLen[b] < MaxChunk THEN BufLen[b] ELSE MaxChunk]

SendInit ==
    /\ writer = TRUE
    /\ write_state = "idle"
    /\ chunk = NoChunk
    /\ sendClosed = FALSE
    /\ sendDropped = FALSE
    /\ promise = "none"
    /\ writable = "open"
    /\ sink = <<>>
    /\ reported = <<>>
-----------------------------------------------------------------------------
(***************************************************************************)
(* The browser (external).                                                 *)
(***************************************************************************)

\* The stream takes the chunk of a write under way, in order.
BrowserTakes ==
    /\ promise = "pending"
    /\ writable = "open"
    /\ promise' = "ok"
    /\ sink' = Append(sink, chunk)
    /\ UNCHANGED <<writer, write_state, chunk, sendClosed, sendDropped, writable, reported>>

\* The peer's STOP_SENDING, or the end of the session: the stream fails, and
\* with it a write under way.
WritableFails ==
    /\ writable = "open"
    /\ writable' = "failed"
    /\ promise' = IF promise = "pending" THEN "error" ELSE promise
    /\ UNCHANGED <<writer, write_state, chunk, sendClosed, sendDropped, sink, reported>>

\* Closing or aborting has no effect on a stream that has ended.
Ended(how) == writable' = IF writable = "open" THEN how ELSE writable
-----------------------------------------------------------------------------
(***************************************************************************)
(* poll_inflight_write.                                                    *)
(***************************************************************************)

\* The future is polled for the first time: only now is the browser's write
\* called.  Its promise is never settled at once.
StartsWrite ==
    /\ write_state = "created"
    /\ write_state' = "polled"
    /\ promise' = IF writable = "open" THEN "pending" ELSE "error"
    /\ UNCHANGED <<writer, chunk, sendClosed, writable, sink, reported>>

StillPending ==
    /\ write_state = "polled"
    /\ promise = "pending"
    /\ UNCHANGED sendVars

\* The future is done: the Writer is back.
Drained ==
    /\ writer' = TRUE
    /\ write_state' = "idle"
    /\ chunk' = NoChunk
    /\ promise' = "none"

\* poll_inflight_write is Ready(Ok): nothing in flight, or the write is done.
InflightOk == write_state = "idle" \/ (write_state = "polled" /\ promise = "ok")

\* It is Ready(Err): every caller marks the stream as closed.
InflightFails ==
    /\ write_state = "polled"
    /\ promise = "error"
    /\ Drained
    /\ sendClosed' = TRUE
    /\ UNCHANGED <<writable, sink, reported>>
-----------------------------------------------------------------------------
(***************************************************************************)
(* The application's calls.                                                *)
(***************************************************************************)

\* Fault: a write that finds the one before it done reports that one's size
\* for its own buffer, and does not take the buffer.
AcceptChunk_Resumes(b) ==
    /\ InflightOk
    /\ \/ /\ write_state = "idle"
          /\ writer
          /\ writer' = FALSE
          /\ write_state' = "created"
          /\ chunk' = ChunkOf(b)
          /\ promise' = "none"
       \/ write_state = "polled" /\ Drained
    /\ reported' = Append(reported, ChunkOf(b))
    /\ UNCHANGED <<sendClosed, writable, sink>>

\* The last part of poll_write: take the Writer and own a copy of the chunk,
\* which is now accepted.
AcceptChunk(b) ==
    /\ InflightOk
    /\ write_state = "idle" => writer
    /\ writer' = FALSE
    /\ write_state' = "created"
    /\ chunk' = ChunkOf(b)
    /\ promise' = "none"
    /\ reported' = Append(reported, ChunkOf(b))
    /\ UNCHANGED <<sendClosed, writable, sink>>

\* poll_write of a buffer that is not empty, on a stream that is not closed;
\* in the other cases it returns at once.
poll_write(b) ==
    /\ ~sendDropped
    /\ BufLen[b] > 0
    /\ ~sendClosed
    /\ Len(reported) < MaxWrites
    /\ StartsWrite \/ StillPending \/ InflightFails \/ AcceptChunk(b)
    /\ UNCHANGED sendDropped

\* poll_flush, Ready(Ok).
Flushed ==
    /\ write_state = "polled"
    /\ promise = "ok"
    /\ Drained
    /\ UNCHANGED <<sendClosed, writable, sink, reported>>

poll_flush ==
    /\ ~sendDropped
    /\ StartsWrite \/ StillPending \/ InflightFails \/ Flushed
    /\ UNCHANGED sendDropped

\* The last part of poll_close: close the Writer that the flush gave back.
\* A stream that is closed already has nothing in flight and is left alone.
CloseWriter ==
    /\ InflightOk
    /\ ~sendClosed
    /\ write_state = "idle" => writer
    /\ Drained
    /\ Ended("finished")
    /\ sendClosed' = TRUE
    /\ UNCHANGED <<sink, reported>>

poll_close ==
    /\ ~sendDropped
    /\ StartsWrite \/ StillPending \/ InflightFails \/ CloseWriter
    /\ UNCHANGED sendDropped

\* Fault: a write in flight does not stop finish.
finish_Always ==
    /\ ~sendDropped
    /\ Ended("finished")
    /\ sendClosed' = TRUE
    /\ UNCHANGED <<writer, write_state, chunk, sendDropped, promise, sink, reported>>

\* finish refuses while a write is in flight.  Without a Writer, which a reset
\* has lost, it only marks the stream.
finish ==
    /\ ~sendDropped
    /\ write_state = "idle"
    /\ sendClosed' = TRUE
    /\ IF writer THEN Ended("finished") ELSE UNCHANGED writable
    /\ UNCHANGED <<writer, write_state, chunk, sendDropped, promise, sink, reported>>

\* reset drops a future in flight, and the Writer with it, and aborts.
Aborts ==
    /\ sendClosed' = TRUE
    /\ write_state' = "idle"
    /\ chunk' = NoChunk
    /\ promise' = "none"
    /\ Ended("aborted")
    /\ UNCHANGED <<writer, sink, reported>>

reset ==
    /\ ~sendDropped
    /\ Aborts
    /\ UNCHANGED sendDropped

\* The drop aborts a write in flight, and closes an idle stream.
DropSend ==
    /\ ~sendDropped
    /\ sendDropped' = TRUE
    /\ \/ write_state # "idle" /\ Aborts
       \/ /\ write_state = "idle"
          /\ IF writer THEN Ended("finished") ELSE UNCHANGED writable
          /\ UNCHANGED <<writer, write_state, chunk, sendClosed, promise, sink, reported>>
-----------------------------------------------------------------------------
SendNext ==
    \/ \E b \in Buf : poll_write(b)
    \/ poll_flush
    \/ poll_close
    \/ finish
    \/ reset
    \/ DropSend
    \/ BrowserTakes
    \/ WritableFails

SendTypeOK ==
    /\ writer \in BOOLEAN
    /\ write_state \in {"idle", "created", "polled"}
    /\ chunk \in Chunk \cup {NoChunk}
    /\ sendClosed \in BOOLEAN
    /\ sendDropped \in BOOLEAN
    /\ promise \in {"none", "pending", "ok", "error"}
    /\ writable \in {"open", "finished", "aborted", "failed"}
    /\ sink \in Seq(Chunk)
    /\ reported \in Seq(Chunk)

\* A stream that ends cleanly, by finish, by close or by being dropped, has
\* carried exactly the chunks that were reported as accepted, each once and
\* in order, whichever calls were given up on the way.
CleanEndIsComplete == writable = "finished" => sink = reported

\* What the browser has is what was reported, but for the one chunk in
\* flight: nothing is reported for a buffer that another chunk came from.
ReportedIsSent ==
    writable = "open" =>
        \/ sink = reported
        \/ write_state # "idle" /\ reported = Append(sink, chunk)

\* The inductive invariant behind the two: where the last chunk is, by the
\* state of the future, and that only finish, close, reset and drop, which
\* leave nothing in flight, end the stream from this side.
SendIInv ==
    /\ SendTypeOK
    /\ write_state # "idle" => chunk \in Chunk /\ ~sendClosed /\ ~sendDropped
    /\ write_state = "created" => promise = "none"
    /\ write_state = "polled" => promise # "none"
    /\ promise = "pending" => write_state = "polled" /\ writable = "open"
    /\ promise = "error" => writable # "open"
    /\ ~sendClosed /\ ~sendDropped => writable \in {"open", "failed"}
    /\ writable = "open" =>
          IF write_state = "idle" \/ promise = "ok"
          THEN sink = reported
          ELSE reported = Append(sink, chunk)
    /\ CleanEndIsComplete
=============================================================================
