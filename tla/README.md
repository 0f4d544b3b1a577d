# webtrans in TLA+

TLA+ modules, TLC configurations and TLAPS proofs for webtrans, a Rust
implementation of WebTransport over HTTP/3 with three backends: Quinn and Quion
(native QUIC) and the browser (wasm). The project is about how a session
begins, how it opens and accepts streams, how streams keep their data and tell
the truth about their end, what the codecs accept and, above all, how a session
ends.

## 1. The system

### Parts, state and operations

| Part | State | Operations | What makes it right |
|---|---|---|---|
| Error codes (`webtrans-proto/error.rs`, `grease.rs`) | none | `error_to_http3`, `error_from_http3` | a code survives the trip through the HTTP/3 space; no GREASE value is sent |
| Session close (`session.rs` of Quinn and Quion) | cloned handles, the one-entry close queue, the background task, the CONNECT stream, the QUIC connection; in Quion also `close_error` and `close_notify` | `close`, `closed`, `close_reason`, clone, drop, the task | a close ends both ends; the first close wins; both ends name the same code; nobody waits for ever |
| Stream acceptance (`SessionAccept`, both backends) | accept futures, header decodes in progress, held QPACK streams, one waker each, a mutex | `accept_uni`, `accept_bi`, cancellation | exactly the session's streams are handed over, none lost, no wakeup lost |
| Handshake (`server.rs`, `client.rs`, `settings.rs`, `connect.rs`, `lib.rs`) | the set of pending handshakes, each side's phase, `Request`, `HandshakeGuard` | `Client::connect`, `Server::accept`, `Request::ok`, `close`, drop, timeouts | the bound holds; every request has one answer; giving up reaches the other side |
| Capsule reader and codec (`capsule.rs`, `read_capsule_frame`) | bytes of an incomplete capsule | read, decode, encode | bounded memory; capsules do not depend on frame boundaries |
| Raw sessions, open streams, datagrams (`session.rs`) | cached headers | `raw`, `open_uni`, `open_bi`, `send_datagram`, `read_datagram` | an opened stream is attributed to its session; foreign datagrams are refused |
| Native streams (`send.rs`, `recv.rs`, `error.rs`) | finish and reset state, reliable prefix | `write`, `write_buf`, `write_chunk`, `finish`, `reset`, `closed`, `read`, `stop`, drop | a reset does not cut off the header; no gap in the data; a clean end is a complete one |
| Browser streams and session (`webtrans-wasm`) | the in-flight read or write, `is_closed`, `eof`, a buffer | `poll_write`, `poll_flush`, `poll_close`, `finish`, `reset`, `read`, `stop` | accepted bytes are neither lost nor reported twice |
| Codecs (`varint.rs`, `settings.rs`, `connect.rs`, `qpack.rs`, `huffman.rs`) | none | encode, decode | decoding undoes encoding, bounds are respected |
| Traits, facade, TLS, examples, demo, fuzzing, interop | none of the protocol | | |

### How they interact

`Client::connect` and `Server::accept` establish QUIC, exchange SETTINGS
(`Settings::connect`) and the CONNECT request and response (`Connect`). A
response of 200 turns both sides into a `Session`, whose constructor spawns the
background task that owns the CONNECT stream. The application talks to the task
through a channel of capacity one; the two tasks talk to each other through
capsules on the CONNECT stream and through the QUIC connection's own close. The
application's streams bypass the task: `SessionAccept` polls the QUIC
connection under a mutex that all clones share.

### What is hard

Two ends that close at the same moment; CONNECTION_CLOSE overtaking the capsule
that explains it; a close request that meets the end of the stream; a peer that
grants no credit for the capsule; a notification that is sent once; wakers with
room for one task; futures that are dropped half way; a timeout that meets a
late answer; a reset that overtakes the header of its stream; capsules cut by
frames; integers at the edge of their width. PROJECT.json lists these under `hazards`, each at its line.

## 2. Modules

| Module | Models | Used by |
|---|---|---|
| `ErrorCode` | `error.rs`, `grease.rs` | `SessionClose`, `NativeStream`, `MCCodecs` |
| `VarInt` | `varint.rs` | `Capsule`, `Datagram` |
| `Capsule` | `capsule.rs`, `capsule_reason` and the cut before it in `close` | `CapsuleReader`, `MCCodecs` |
| `CapsuleStream` | what the CONNECT stream promises to `run_closed` (abstract) | `CapsuleReader` |
| `CapsuleReader` | `read_capsule_frame`, `decode_buffered_capsule` | `MCCapsule`, `CapsuleReaderProofs` |
| `Datagram` | datagrams of a session | `MCCodecs` |
| `Qpack` | `qpack.rs` without Huffman | `ConnectCodec` |
| `ConnectCodec` | `webtrans-proto/connect.rs`, `frame.rs`, the client's `validate_url` | `MCCodecs` |
| `SettingsCodec` | `webtrans-proto/settings.rs` | `MCCodecs` |
| `NativeStream` | one stream of a native session, from `open_uni`/`open_bi` to its end at both sides | `MCNativeStream`, `NativeStreamProofs` |
| `SessionClose` | what both native backends share of a session's end: `close`, `run_closed`, handles, the CONNECT stream, the QUIC connection | `QuionSession`, `QuinnSession`, `SessionCloseProofs` |
| `QuionSession` | the end of Quion's task, `close_error`, `closed()` with its Notify | `RawSession`, `QuionSessionProofs` |
| `QuinnSession` | the end of Quinn's task | `MCQuinnSession`, `QuinnSessionProofs` |
| `RawSession` | Quion's `Session::raw`: unmapped codes and the monitor task | `MCQuionSession`, `QuionSessionProofs` |
| `SessionEnd` | what an application may rely on when a session ends (abstract) | `QuionSession`, `QuinnSession` |
| `SessionAccept` | `poll_accept_uni`, `poll_accept_bi`, the mutex, the wakers | `MCSessionAccept`, `SessionAcceptProofs` |
| `WasmSend`, `WasmRecv` | the browser's `SendStream` and `RecvStream` | `WasmStream` |
| `WasmStream` | a bidirectional stream of the browser: both halves under one session | `MCWasmStream`, `WasmStreamProofs` |
| `Handshake` | both sides from `connect`/`accept` to a session or a failure | `MCHandshake`, `HandshakeProofs` |

Operators whose name ends in `_Something` and whose comment begins with
"Fault:" are deliberately wrong variants of the definition that follows them.
They are used to see that each property is able to fail.

### SessionClose, QuionSession, QuinnSession

`End` has the two endpoints; every variable is a function on it. `live` is the
set of `Session` clones, `queue` the channel behind `close_tx`, `task` the
program counter of the background task (`select`, `writing`, `stopping` are
inside `run_closed`; `returned`, `recorded`, `closed`, `stored`, `done` are
after it), `outcome` the result of `run_closed`, `stream` the unread items of
the CONNECT stream, `finished` whether a half has ended, `conn` and `frame` the
connection and a CONNECTION_CLOSE under way. One action is one point where
another task can run in between: an `await`, a lock, a branch of `select!`.
`Return` is shared by all ways out of `run_closed` and contains what dropping
its locals does: the queue and whatever is in it are gone, an unfinished send
half ends.

Abstractions: a close is told apart by its code, the reason text travels with
it; what arrives on the CONNECT stream is an item of a type that
`read_capsule_frame` tells apart (a close, an unknown or GREASE capsule, a
close too short for its code, one that is too long, the end). QUIC is external:
CONNECTION_CLOSE may be delivered before or after what the stream still holds,
a connection may be lost at any time, and `stopped()` may resolve at any time
once the FIN is written, because the acknowledgement comes from the peer's QUIC
stack, not from its task. That the stream may be taken for a sequence of items
is what `CapsuleReader` shows.

The two backends differ only after `run_closed`. Quion records the code,
closes the connection if it is still open (always, an ended stream included),
keeps the connection's reason if there is no code and notifies the waiters.
Quinn closes the connection only if there is a code or a capsule error, and has
no state of its own for waiters; `ImplicitClose` is quinn's close on the drop
of the last handle.

Both are shown to implement `SessionEnd` (`ImplementsEnd`), in which there is no
task, no queue and no stream: applications ask for closes, and each end settles
once, on a reason whose code, if any, is the first its own application asked
for, any that the other's asked for, or 0 or 1, which the library closes with.
The reason is `close_error` for Quion and the connection's for Quinn, where a
call of `close` after the end of the task settles by itself.

`RawSession` takes handles, connection and the callers of `closed()` from
`QuionSession`. A raw session sends nothing through its close queue; the monitor
only learns from it that the last handle is gone. The variable `raw` says which
kind a behaviour is about: `EitherSpec` starts with WebTransport sessions, which
take the steps of `QuionSession`, or with raw ones, which take those of `RawNext`.

### SessionAccept

A behaviour is about one direction, chosen by `Init`; a stream is `queued`, `pending` (its header is
being decoded), `headed`, and then `delivered`, `kept` (QPACK) or `dropped`.
`pc` is where a task is in its call, `acceptWaker` and `decodeWaker` are the two
places that hold a waker. One action is one turn of the poll loop, because the
peer and QUIC run in between while the mutex is held. `Exclusive` says whether
the application keeps at most one call pending; the library neither enforces
nor documents it.

### Handshake

`at[c]` is where the client and the server of connection `c` are. A handshake of
the server moves only inside a call of `accept` (`Polled`), because it is a
future in the Server's set. `Fail` is an error, a timeout or a cancellation and
includes what the `HandshakeGuard` does. A `Request` is decided once: `ok`,
`close` and drop all take its `Connect`. `Foreign` clients may send SETTINGS or
requests that are refused and may stall anywhere. The two backends have the
same text but for the guard: over Quinn the handshake future owns the only
handle of the connection, and dropping the future closes it. What is acceptable
in a SETTINGS frame or a request is decided by the codecs below; here it is
`ok` or `bad`.

### CapsuleStream, CapsuleReader, Capsule, VarInt

`Capsule` and `VarInt` work on bytes. A byte has `RADIX` values, 256 in the code
and 16 in the runs, so that TLC can count to the largest integer; lengths,
tags and limits keep their relations. In a close reason
a character is its width in UTF-8, with U+FFFD apart from the others of three
bytes; its first byte is that number and the bytes that continue it are 0, so
any sequence of bytes is text or not, as in the code. `close` cuts the reason at
a byte (`CommandReason`), and `capsule_reason` decodes what is left, where a
character that was cut becomes U+FFFD, and pops characters until it fits. What
is sent is therefore the characters that fit or, if U+FFFD takes no more bytes
than the cut left, those and one U+FFFD (`CloseReasonFits`). What a peer writes is a sequence of bytes and the places in
it where its capsules end; the constants' assumption asks of it only that every
capsule is a type, a length and as many bytes as the length says. Every stream
of bytes is the beginning of one of these, and the peer need not write all of it.
`CapsuleReader` has a peer that puts its bytes into DATA
frames as it likes, foreign frames and an oversized one among them, and stops
anywhere; the reader keeps what does not make a capsule in `pending`.
`CapsuleStream` is the abstract specification: whole capsules, in order, each
with the verdict of `Capsule::decode`, then the end. `ImplementsStream` is the
refinement; the variables of the abstract stream are those of the reader with
the same names, and cutting, foreign frames and buffering are stutters.

### NativeStream

One direction of one stream. `kind` chooses the backend, whether resets are
reliable (RESET_STREAM_AT, negotiated over Quion), whether the session is raw
(no header) and which call the application writes with. `stream` is what QUIC
has taken, `arrived` and `heard` what has reached the other side, `taken` what
the reader has consumed. The data is the numbered bytes of one buffer at
position `pos`; `flight` is what a write has taken from the buffer and not yet
given to QUIC, which over Quinn is the case in `write_buf` too. QUIC is
external: it delivers in order, but a reset takes away what has not been read,
down to the prefix it names.

### Codecs

`Qpack`, `ConnectCodec`, `SettingsCodec` and `Datagram` are operators. Prefix
integers are modelled to the byte and with the width of `usize` (`USIZE_BITS`);
`Accumulate` is one turn of the loop with what `checked_shl` keeps. Field names
and values are atomic, a field line is its leading bytes and its strings, and of
the static table the pseudo-headers are told apart. `MCCodecs` has one state
for each input.

### WasmSend, WasmRecv, WasmStream

Every call of a stream takes `&mut self`, so one poll is one action; a caller
may leave after any of them and come back with another call, buffer or size,
and the browser and the peer run in between. `write_state` tells a future that
has not been polled (`created`) from one that has (`polled`), because only the
first poll calls the browser's `write`; `writer` and `reader` say whether the
Writer or Reader is in the struct or with the future, or gone with a future
that was dropped. A promise never settles at the poll that creates it, so the
bound of 16 rounds in `poll_chunk` is never met and an empty chunk costs one
poll. The browser's streams are external: `writable` is `finished` from the
moment a clean end is asked of an open stream, `sink` is what it has taken by
then. Written data is chunks, told apart by buffer and size; read data is
numbered bytes, because reads cut it anywhere.

## 3. Runs

Twelve runs; `-workers 2` takes between a few seconds and three minutes each.

| Run | Bounds | Question |
|---|---|---|
| `codecs` | codes 0..515; integers within 2 of every change of length; all byte strings of up to 5 bytes out of 7 for prefix integers; datagrams of up to 3 bytes against limits up to 12; reasons of up to 4 characters of every width, or of up to 7 bytes of any kind (text or not), against a limit of 6; all settings maps over 0..2; 80 URLs; one altered line or frame in a request | does decoding undo encoding, and is what a peer may send either understood exactly or refused? |
| `prefix_bounds` | the same prefix integers | expected violation, see below |
| `capsules` | up to 3 capsules of 6 kinds (a close, an unknown one as large as allowed and one that is empty, too short, too long, not UTF-8) | bounded buffer, nothing held back, refinement of `CapsuleStream` |
| `native_streams` | a header of 2 bytes, a buffer of 3, 2 codes, every kind of session | does an opened stream arrive, is its data without a gap, is what both sides are told of its end true? |
| `quion_close` | WebTransport or raw sessions; 1 handle identity and 2 codes per end, 2 closes per end | what is reported when both ends may close, drop, clone and lose the connection |
| `quion_live` | WebTransport or raw sessions; 1 close per end, foreign items (at most one unread) | does everything end, with a foreign peer and without acknowledgements |
| `quinn_close` | 2 handles, 2 codes and 1 close per end, unknown and malformed capsules | the same for Quinn |
| `quinn_ended` | a foreign end of the stream | expected violation, see below |
| `accept` | 2 streams of any type in either direction, 2 tasks | safety and liveness of acceptance |
| `accept_shared` | 1 stream, 2 tasks at once | expected violation, see below |
| `handshake` | 2 connections, 1 slot, 1 foreign client, both timeouts | the bound, one answer, the slot is freed, giving up closes the connection, no client waits for ever |
| `wasm_stream` | buffers below, at and above the chunk limit, 2 writes, 3 bytes from the peer, reads of 1 or 2 | are accepted chunks and received bytes complete and in order, whatever is given up |

Why the bounds are enough. Two codes distinguish "the first", "the other's" and
"none"; they are 30 and 61, on both sides of a skipped code point, in a range
chosen so that the mapping skips two. Two closes fill the queue and find it
full, or find the receiver gone. One handle that may be dropped, or, in
`quinn_close`, two that may be cloned and dropped, cover the last
drop; the proofs cover any number of handles. Two streams allow one that
stalls before one that is complete, and a QPACK stream with its replacement or with one of the other type; the
proof covers any number. Two clients and one slot are the
smallest contention. Two writes are one in flight and one that meets it; three
bytes make a chunk larger than any read and one more to follow it. A header of
two bytes can be cut by a reset; a buffer of three allows two partial writes and
a reader between them. In `capsules` a frame of `MAX_FRAME` bytes holds two of the
small capsules and part of a third, and the capsule that is too long would by
itself overrun the bound on the buffer. `USIZE_BITS` is 22, which leaves one bit for the
last group of seven as 64 does. Bounds are
the constants `MaxClose`, `MaxForeign`, `MaxWrites` and `MaxBytes`;
everything else is finite by itself. `CHECK_DEADLOCK FALSE` is given where a
finished session, stream or handshake really stops; the acceptance runs check deadlock.

Fairness. In `QuionSession`, `RawSession` and `QuinnSession`: a ready branch of `select!` is
eventually taken (tokio picks branches at random), a spawned task runs on, the
five second timer fires, a woken caller runs, and QUIC does not keep half a
connection for ever (a CONNECTION_CLOSE or the idle timeout arrives). Nothing is
assumed of writing or of being acknowledged, since both need the peer, nor of
the application. In `SessionAccept`: a woken task is polled and the mutex is not
withheld for ever. In `Handshake`: this library's clients move when they can,
the server's application calls `accept` again and decides on its requests;
steps inside `accept` have strong fairness, because calls of `accept` may be
cancelled and resumed. Foreign clients have no fairness at all.

The runs `capsules`, `native_streams` and `wasm_stream` check safety only: what
must happen there depends on a peer or an application that nothing obliges to
move.

### What the violations show

* `prefix_bounds`: a QPACK prefix integer of 2^64 or more whose last group fits
  in part decodes to a small integer: `checked_shl` refuses a shift by the width
  of the type, not the loss of bits.
* `quinn_ended`: over Quinn, a CONNECT stream that ends without a capsule leaves
  the connection open, although a comment in `session.rs` says that the session
  ends; Quion closes it. A close that is queued at this moment is lost.
* `accept_shared`: two pending calls of `accept` on clones share one waker slot;
  the first is not woken again, not even by the close of the connection.

Observations without a run. `Settings::supports_webtransport` documents the
"peer-advertised maximum number" of sessions and returns 1 when `WT_ENABLED` is
set, whatever the maximum. The trait says that a dropped `RecvStream` sends
STOP_SENDING with code 0; natively the transport sends its own 0, which is not
the code that application code 0 is mapped to, so `SendStream::closed` returns
`Ok` (`NativeStream.Closed`). `RecvStream::closed` returns `Ok` for a reset over
Quinn and an error over Quion. A write over Quinn that is given up leaves the
buffer past bytes that were never sent (`NativeStream`, where `BufferArrives`
excepts it); the trait promises nothing for it. Over Quion, `close_reason` may
first report the peer's code, taken from its CONNECTION_CLOSE, and then the
local one, if both ends close at once; `ReportChangesOnce` says that it changes
in no other way. A close reason may end in a U+FFFD that the application did not
write, in the place of a character that was cut.

## 4. Proofs

A theorem holds for every value of the constants that satisfies the named
assumptions: any handles, codes, tasks, streams, connections, buffer sizes and
numbers of calls, where a run has two or three of each.

| Module | Theorems | Assumptions |
|---|---|---|
| `SessionCloseProofs` | `ErrorRoundTrip`, `ErrorWellPlaced`; lemmas: what a step of either backend does to the invariants that both share | `ErrorRange`, what the two source constants satisfy; the lemmas also `SessionConstants` |
| `QuionSessionProofs` | `QuionInvariant`, `QuionTypeCorrect`, `QuionEndedSessionIsClosed`, `QuionNoLostWakeup`, `QuionFirstCloseWins`, `QuionProvenance`, `QuionImplementsEnd`, `QuionOneSidedCloseAgrees`, `QuionReportChangesOnce`; of raw sessions `EitherInvariant`, `RawFirstCodeArrives` | as above; `QuionOneSidedCloseAgrees` also that foreign capsules are unknown ones; the raw theorems `RawRange` |
| `QuinnSessionProofs` | `QuinnInvariant`, `QuinnCodeClosesConnection`, `QuinnPeerCodeOrLocal`, `QuinnImplementsEnd` | `SessionConstants`, `ErrorRange` |
| `SessionAcceptProofs` | `AcceptInvariant`, `AcceptNoStranded`, `AcceptOwnStreams` | `AcceptConstants`; `Exclusive` in the statements of the first two |
| `HandshakeProofs` | `HandshakeInvariant`, `HandshakeBounded`, `HandshakeOneAnswer`, `HandshakeGivingUpCloses` | `HandshakeConstants` |
| `WasmStreamProofs` | `SendInvariant`, `CleanEnd`, `Reported`; `RecvInvariant`, `RecvBytesInOrder`, `RecvEndIsTrue` | the constants' assumptions of the two halves |
| `NativeStreamProofs` | `NativeInvariant`, `NativeOpenedStreamArrives`, `NativeBufferArrives`, `NativeEndsAreTrue` | `StreamConstants`, `ErrorRange` |
| `CapsuleReaderProofs` | `ReaderInvariant`, `BufferedDecodeExact`, `ReaderBufferBounded`, `ReaderNothingWithheld`, `ReaderImplementsStream` | `ReaderConstants`, `CapsuleConstants`, `RadixAssumption` |

*Error codes.* Writing a code as 30q + r with r < 30 puts it at offset 31q + r,
and dividing that by 31 gives q back; the skipped offsets are those with
remainder 30, which are the GREASE values because the range starts one past one.

*Quion session.* `NoLostWakeup`, `EndedSessionIsClosed` and `FirstCloseWins` are
not inductive: each speaks of a task that is done. `IInv` adds what the task has
established at each place on its way (`KeptError`) and where the first code is
(`FirstQueued`: in the queue, then in `outcome`). A caller that sleeps had
found no reason, so the reason was stored after, and the notification comes
after that, with the caller's future already enabled.

*The refinements.* That a step which keeps a reason is a `Settle` of `SessionEnd`
needs to know where every code in transit comes from (`Provenance`): a capsule
carries the first code its sender was asked for; the answer to a capsule carries
that code back to the end that asked first; only a `close` after the end of the
task puts a later code on the wire. `Provenance` is inductive relative to what
is known of the first code (the queue holds it), and the same for both
backends, which is why it is in `SessionClose`. The reason taken from the
connection then is the code that was mapped, by `ErrorRoundTrip`.

*A one-sided close.* The end that is told has two sources, the capsule and the
CONNECTION_CLOSE, and which comes first is QUIC's choice. `PeerTold` (shared)
says that while one side has not closed, every code on its way to it is the
other's; over Quion, `Agreement` adds that the task of the passive side cannot
return without a code unless the capsule is still ahead of the end of the stream
(`CapsuleFirst`) or the connection has told it. It does not hold for a peer
that may also send malformed capsules: the error then closes the connection with
code 1, which is what the assumption on `Foreign` excludes. Over Quinn, where
the passive side may report its own close, `PeerCodeOrLocal` holds for every
foreign item; its invariant adds that a connection closed by the passive side
was closed in answer to what its task has read.

*What is reported.* `close_reason` tells the reason of the connection until the
task has kept one, so it changes when what is kept is not what the connection
said. `ReportChangesOnce` says how. Besides `IInv`, `Provenance` and
`PeerTold` it needs `Witnessed`: a task that returns with a code has read the peer's capsule or
obeyed this end's application, and an end whose application has not closed is
closed by itself only after its task has kept what it read. If neither this
end closed nor its peer closed twice, the capsule and the connection can only
name the one code there is, and what is kept is what was reported. The theorem
holds for all foreign items.

*Raw sessions.* `RawKept` says that QUIC carries no code but `RawFirst`, and that
an end which has sent one has closed for good. `RawRange` says that a raw code
is not mistaken for one of the WebTransport range, which is true of u32 codes.

*Acceptance.* `IInv` says that a task that nobody has woken still owns the wakers
it left (`WakersInPlace`), which is what breaks with two calls pending, and that
the mutex is held exactly during a poll (`OnePoller`). What happens to the
streams does not depend on who polls: `StreamsOK` is inductive without
`Exclusive`. That a QPACK stream is dropped only for another of its type that is
held is kept by every step, because the one held is replaced only by a third of
that type and stays held until the connection closes.

*Handshake.* `IInv` ties what has been sent to where the server is
(`AnswerByState`) and carries the finiteness of the set of pending handshakes,
which counting needs.

*Browser stream.* `CleanEndIsComplete` needs to know where the last chunk is before
the stream ends: `SendIInv` says that it is in the sink or in the future,
by the state of the future and of its promise, and that nothing but a call that
leaves no write in flight ends the stream from this side. `RecvIInv` says that
what was returned, what is buffered, what the answer of a read in flight holds
and what the browser still holds follow each other without a gap, whoever has
dropped what, and that the end is noted only when nothing is left of them.

*Native stream.* `StreamInOrder` says that the stream is a header and then
increasing bytes of the buffer, up to `Handed`, and a write in progress the ones
between `Handed` and the buffer's position; until a write is given up with
bytes in flight, nothing is missing. `EndsOnce` orders the states of the sending
side and allows a reset to follow a FIN; `ReadsWhatWasSent` says that the reader
is never ahead of the stream and has stopped for good once it has stopped. A
reset that nobody's application asked for answers a STOP_SENDING, and then there
is no reader left to be told of it.

*Capsule reader.* None of its three properties is inductive: they say how much is
pending and how many capsules were returned, and a step of the reader depends on
the bytes. `AtBoundary` says which bytes are pending, namely those from the end
of the last capsule returned to the last byte taken off the wire, and
`FramesInOrder` that a DATA frame on its way holds the ones after them. So
`pending` and the capsule that follows agree wherever both have a byte. An
integer at the front of a buffer is decided by its own bytes (`SameInteger`: its
first byte gives its length), and with it a capsule (`BufferedDecodeExact`): too few
bytes are an incomplete capsule and never another one, and bytes after it change
nothing. What it takes for `BufferBounded` is then that the reader asks for a
frame only with less than a header and `MAX_PAYLOAD` bytes pending, and for
`NothingWithheld` that the capsule that follows ends after the last byte taken.
`sent` counts the ends up to a place; that these are the first ones, and that
there are so many, follows from the cardinality of intervals without an
induction (`CompleteFacts`). In the refinement a DATA frame is a `Write` that
completes some capsules, perhaps none, and the two ways to meet the end of the
stream are an `End` because by then nothing is withheld. The value of an integer
is left as it is: that a length is a natural is part of `ReaderConstants`, which
TLC evaluates.

Only model-checked: everything with `~>`, since liveness under fairness is out of
the prover's reach; and the codecs other than the error codes, which rest on what
`BigEndian`, `FlattenSeq` and powers of `RADIX` compute. What a recursive function or a
fold computes for every input needs an induction that the installed provers cannot
do, and they know nothing of exponentiation. What `CodesExact` says of a
code is what `ErrorRoundTrip` and `ErrorWellPlaced` prove of all of them.

## 5. Plan

Done: the modules and proofs above. Next: `closed()` of the browser's streams,
which fails at once while a write or read is in flight; the integers' round trip for every radix, should a prover learn
exponentiation.

## 6. Not modelled

DNS lookup, the choice of an address and endpoint configuration in
`Client::connect` and the builders: a fixed sequence of calls before the first
state of the handshake. `SharedReader` of the browser session, a mutex around a
reader of the `web_streams` crate: that a cancelled read is resumed and that
callers are served in turn is that crate's and the mutex's doing. Huffman strings and the
static table's regular fields: data. TLS and certificates: configuration of
other libraries. Priorities, unordered reads and statistics: handed to QUIC as
they are. Facade, declarations of the traits, examples, demo, fuzzing and
interoperability tests: no protocol state.
