# A TLA+ model of the h2d HTTP/2 server

The repository holds three programs and their test material: `h2d`, an HTTP/2
cleartext server in C11 (`phase1/http2`); a headless port of DOOM
(`phase1/doom`, almost all of it vendored); and the first stage of `zcc`, a
compiler driver in Zig (`phase2/zcc`).  The server is the part with a protocol,
with state that outlives a call and with failure paths that meet each other; it
is what this project models, checks and proves, from the bytes of a frame to the
event loop and its three I/O back ends.

## 1. Inventory

| Component | State | Operations | Talks to |
|---|---|---|---|
| Frame layer (`frame.c`) | none | parse and encode each frame type | called by the connection |
| HPACK (`hpack.c`, `hpack_static.c`) | none | integers, strings, `h2_hpack_extract_path`, `h2_hpack_decode_headers` | called by the connection and by tests |
| Stream (`stream.c`) | life-cycle state, send and receive window, three response flags, path | init, close, receive headers, receive data, send end of stream, add send window | owned by the connection |
| Connection (`connection.c`) | preface and GOAWAY flags, settings, two connection windows, an open header block, 128 stream slots, 128 KiB of input and of output | feed, consume output | called by the server loop |
| Server loop (`server.c`) | table of 128 clients, listener | accept, read, flush, close, one batch of events per turn | connection, I/O back end |
| I/O back ends (`io_epoll.c`, `io_kqueue.c`, `io_uring.c`) | watched descriptors; for io_uring also rings, generations, saved completions | init, add, modify, remove, wait | kernel |
| `main.c`, `zcc`, DOOM, `c11-ref` | see section 6 | | |

The server is one thread.  What makes it hard is not parallelism but order and
failure:

* the peer sends frames in any order, in pieces, to streams that no longer
  exist, and inside header blocks that are still open;
* the output buffer is finite, and is emptied only between calls of `feed`, so
  any handler can fail half way for want of room;
* a frame whose handler failed stays at the head of the input, and
  `h2_read_client` keeps the connection while output is pending, so **the same
  frame is processed again** on the state its first attempt left;
* windows are moved by four parties: WINDOW_UPDATE, SETTINGS, DATA sent, DATA
  received and refreshed;
* stream slots are used again while frames for their old stream are still on
  their way, and descriptor numbers while events for their old connection are;
* peers reset, half-close and read between any two system calls of the loop;
* on io_uring the kernel completes polls while the server cancels them.

What makes each component correct:

* frame layer: parsers invert encoders, and padding, priority and the rest share
  a payload without overlap;
* HPACK: an accepted integer is exact and fits 32 bits, nothing that fits is
  rejected, no offset leaves the block, and the two block decoders agree;
* stream: windows stay in the range of `int32_t`, END_STREAM is sent once and
  only from a state that allows it;
* connection, sending: each accepted request is answered once, HEADERS before
  DATA, within the windows, and no response stays deferred that could go out;
* connection, receiving: both sides agree on the receive windows and these
  never starve the peer;
* connection, table: one slot per id, ids grow, no live stream is evicted;
* connection, errors: an error is final, whatever is retried after it;
* `feed` returns;
* server loop: clients, descriptors and registrations correspond, no client is
  closed for another's event, output reaches peers that read, and abandoned
  clients are let go of;
* back ends: an event is handled for the registration it was reported for, and
  no readiness is lost.

`PROJECT.json` lists the hazards at their lines, with the properties that cover
them.

## 2. Modules

```
H2Frame <- H2Hpack <- H2Stream <- H2Response <- H2Connection <- MCH2Connection
                                 H2Connection <- H2ConnectionProofs
                                     <- H2FlowProofs <- H2WireProofs
H2Frame             <- H2FrameBytes <- MCH2Codecs, H2FrameProofs
H2HpackInt          <- H2HpackCodec <- MCH2Codecs, H2HpackProofs
H2HpackInt, H2Hpack <- H2HpackBlock <- MCH2Codecs, H2BlockProofs
H2Io <= H2Server <- MCH2Server;                 H2Server <- H2ServerProofs
H2Io <= H2Uring  <- MCH2Uring, H2UringProofs
```

`A <- B`: B extends A.  `A <= B`: B implements A, through an INSTANCE.
MCH2Codecs puts the three byte-level modules side by side: a behaviour is one of
any of them, while the variables of the other two rest.

The connection, as the server uses it:

* **H2Frame** (frame.c, frame.h).  A received frame is one record: header
  fields, and of the payload what a parser reads (pad length, dependency,
  settings, increment, HPACK items).  `ParseData`, `ParseHeaders`, ... are the
  codes the `h2_frame_parse_*` functions return; `DataSize`, `PingSize`, ... the
  sizes the encoders write.
* **H2Hpack** (hpack.c).  `ExtractPath` over a sequence of decoded
  instructions.  Each either decodes or fails with the code the byte decoder
  gives it.
* **H2Stream** (stream.c).  The six operations as functions from a stream to a
  return code and a stream.  A path is its length, which is all that the
  response size and flow control depend on.
* **H2Response** (connection.c, the output side).  The bounded output buffer,
  `QueueResponse`, `QueueDeferredData`, `Refresh`.
* **H2Connection** (connection.c, and the calls of server.c around it).  One
  variable per field of `struct h2_connection`, except that the input buffer is
  the sequence of its frames with the number of bytes still `missing` of the
  last, and the output buffer is its length.  `pc`, `ret` and `pos` say where in
  `h2_connection_feed` the server is.

The byte level, which justifies those abstractions:

* **H2FrameBytes** (frame.c).  Every `h2_frame_encode_*` and `h2_frame_parse_*`
  over sequences of bytes.  `FramesAgree` says that H2Frame's verdict on the
  frame that some bytes stand for is the verdict of the byte parser.
* **H2HpackInt**, **H2HpackCodec** (hpack.c).  The loops of
  `h2_hpack_decode_integer` and `h2_hpack_encode_integer`, a byte per step.  The
  decoder reads what the encoder wrote, or arbitrary bytes.
* **H2HpackBlock** (hpack.c, hpack_static.c).  Strings, names, the table lookup
  and the loops of `h2_hpack_extract_path` and `h2_hpack_decode_headers` side by
  side over the same bytes; `encode_literal_new_name`.  `ItemsSuffice` says that
  H2Hpack, given the instructions the bytes hold, returns what the code returns.

The event loop and its back ends:

* **H2Io** (io.h) is the abstract specification, kept by epoll and io_uring and
  not by kqueue (section 3): registrations, batches, and that
  an event is handled while its descriptor is still the registration that the
  event was reported for, or is not registered at all.  `h2_find_client` looks a
  client up by the descriptor number alone, so the server depends on this.
* **H2Server** (server.c, io_epoll.c, io_kqueue.c).  The client table, the
  process's descriptors, their interest, sockets and peers; each system call is
  one step and peers act between any two of them.  What `h2_connection_feed`
  does to the output is any outcome H2Connection allows: more output within the
  capacity, an error or not.
* **H2Uring** (io_uring.c).  One-shot polls, generations, POLL_REMOVE, the
  completion queue and the saved completions, driven as server.c drives it
  (`CloseAny = FALSE`) or as io.h permits (`CloseAny = TRUE`).

### Actions and code

A call of `feed` is a sequence of steps between `pc = "idle"` and
`pc = "idle"` or `"closed"`.  No other action of H2Connection is enabled inside
it, as the server has one thread; the split keeps each early return where the
code has it.

| pc | Step | Code |
|---|---|---|
| idle | `FeedPreface`, `FeedFrame`, `FeedRest` | `h2_connection_feed` up to its loop: capacity check, copy, preface check, first SETTINGS |
| frames | `RejectFrame`, `ProcessData`, ... | `h2_connection_process_frame`, one action per case of its switch |
| settings | `ApplySetting`, `AcknowledgeSettings` | the loop of `h2_connection_apply_settings`, one step per setting |
| flush | `FlushDeferred` | `h2_connection_flush_deferred_responses`, one step per deferred stream |
| result | `FrameDone`, `StreamError`, `ConnectionError` | what `feed` does with the handler's result |
| frames | `FeedDone` | no whole frame is left |
| idle | `Write` | `h2_flush_client`: one `write()` of any size in `WriteSizes` |
| closed | `Closed` | `h2_read_client` gave up; the slot's next client starts from `Init` |

One turn of the event loop (H2Server):

| pc | Step | Code |
|---|---|---|
| wait | `Wait`, `WaitFailed`, `Finished` | the loop's condition and `h2_io_wait` |
| next | `Dispatch`, `BatchDone` | the loop over the batch: listener, unknown descriptor, client |
| accept | `AcceptNone`, `AcceptFailed`, `AcceptRefused`, `AcceptClient` | one turn of `h2_accept_clients` |
| read | `ReadChunk`, `ReadDone` | one turn of `h2_read_client` |
| flush | `Write`, `FlushDone` | one turn of `h2_flush_client` |
| finish | `Finish` | close, leave alone or `h2_io_mod_connection` |
| exit | `Exit` | the clean-up behind the loop |

History variables, not in the code.  H2Connection: `credit` and `allowance`
(what the two peers have granted each other), `wire` (what was queued on each
stream id), `goaway_last`, `retried` (the head frame was already processed by an
earlier call) and `failed` (some call of `feed` returned an error).  `failed` is
where the books close: after an error the code itself no longer keeps them (see
the findings), so `SendAccounting`, `RecvAccounting`, `RecvWindowOpen`,
`DeferredIsBlocked` and the clause of `ResponsePhase` that no accepted stream is
forgotten speak of connections without one: a call that fails on a full output
buffer does leave a stream without its answer.  H2Server: `failed`, and
in an event the connection it was reported for.  H2Uring: `open`, `regs`,
`batch` and the registration in a poll.  H2HpackCodec: `sum` and `scale`, the
value that the bytes stand for.  H2HpackBlock: `items`.

### Abstractions

* Several frames in one `read()` are the same frames in consecutive reads with
  no `Write` between them, so a call of `feed` brings at most one frame; a frame
  may arrive in two pieces (`Cuts`).
* A read that does not fit the input buffer is dropped by the code whole.  The
  model drops the same piece; what follows it is again a frame, while the code
  would go on in the middle of one.  This happens only after the peer filled
  128 KiB behind a failed frame or with one oversized frame.
* Flags in H2Frame are the set of the bits the code tests; stream ids and lengths
  are naturals.
* NULL-pointer checks and encoder calls with buffers that are large enough by
  construction (`wire[...]` in connection.c) cannot fail and are left out.
* In H2Server a connection is two numbers: input chunks that wait in the socket
  and units of output that wait in the connection.  The order of a batch is any
  order.  `accept`, `read` and `h2_io_wait` repeat when a signal interrupts them,
  which changes nothing; `write` gives up (`Interrupts`).
* In H2Uring the kernel's steps are taken before or after the loop that collects
  completions, never inside it: the loop has read the tail of the queue and
  does not look at newer entries.  A round of a removal's loop ends where the
  queue ends at that moment, which is a tail the loop could have read later; an
  entry behind it is met in the next round.
* In H2FrameBytes a byte has 6 bits (`ByteBase = 64`), because four bytes of 8
  exceed TLC's integers.  The layouts are the code's, with every shift written
  as a power of `ByteBase`.  Stream ids are those the program can have, 31 bits;
  an encoder that was called with the reserved bit set would pass its check for
  0 and write stream 0.

## 3. Runs

| Run | Question |
|---|---|
| `send` | Three requests, two slots, windows that SETTINGS lowers and WINDOW_UPDATE raises, a reset: responses once and in order (`WireOrder`), none forgotten (`ResponsePhase`), none left deferred without cause (`DeferredIsBlocked`). |
| `recv` | Uploads that end before and after the response, on live, closed and reused slots: `RecvAccounting`, `RecvWindowOpen`, `StreamTable`, `SlotReuse`. |
| `settings` | The initial window up, down, twice in a frame, past the range of a raised window: `TypeOK`, `SendAccounting`, `ErrorIsFinal`. |
| `headers` | Header blocks in pieces, frames in pieces, every other frame type, good and malformed, in between: `HeaderBlockExclusive`, `ErrorIsFinal`, `GoawayBinding` (after a GOAWAY for a protocol error no stream is opened), and `FeedReturns` under fairness. |
| `codecs` | The byte level.  HPACK integers of every length around the limit of the word, and arbitrary bytes: `DecodeExact`, `RoundTrip`, `RejectsOnly`.  All header blocks of up to five bytes over bytes whose bits matter: `PathAgrees`, `ItemsSuffice`, `InBounds`.  Literals around a one-byte length, a field's buffers and the output's end: `LiteralRoundTrip`.  Frame encoders with numbers on both sides of every byte, received frames around every fixed length: `FrameRoundTrip`, `PayloadShared`, `FramesAgree`. |
| `server` | epoll, more peers than clients, more descriptors than clients, resets, failing calls and interrupted writes: `TypeOK`, `FdTable`, `InterestSound`, `CloseCause`, `ImplementsIo`. |
| `server_live` | kqueue with resets, under fairness: `CloseCause`, `OutputFlows`, `AbandonedClosed`, `EndsClean`. |
| `uring` | Removals of any descriptor at any time, descriptor numbers used again: `TypeOK`, `PollTracked`, `SavedFits`, `CqRoom`, `ImplementsIo`, and under fairness `Delivered`, `RemoveReturns`. |

**kqueue.**  `h2_io_wait` on kqueue reports a read and a write event of one
descriptor separately.  When the first closes the client and the listener's event
between them accepts a new one, the second reaches the new client.  So kqueue
does not satisfy H2Io, and `ImplementsIo` is not a property of `server_live`.
That no client is closed for it all the same (`CloseCause`) has a reason several
steps long: a stale event can close the new client only if it says `closed`; a
write event says so only if its connection was reset; a client that is watched
for writing has output pending at that moment, which no write to a reset
connection can take; and a client with output pending keeps its descriptor.

### Bounds

* Connection runs: windows of 3 to 10 bytes, an `INT32_MAX` of 4 to 25, one or
  two slots, an output buffer that holds one response and a few small frames, an
  input buffer for one or two frames.  Limits are then reached within a few
  frames.  Frame sizes are the real ones.  The set of frames is finite, ids only
  grow and credit is bounded by `INT32_MAX`, so the state space is finite without
  any further constraint.
* Server runs: in `server` three connections for two clients and three
  descriptors, so that the table fills and both a slot and a descriptor are used
  again by a third connection while a batch that names the first is being
  handled.  `server_live` has two connections, the second of which can take the
  number of the first.  One chunk per peer, an output of at most two units and a
  socket that takes one: a write can be partial and can block.
* `uring`: two descriptors and four registrations, so that a number is used
  three times with completions of the earlier two outstanding; room for 4
  completions, 2 saved ones and one event per batch, so completions stay behind.
  `GenMod` exceeds `NumRegs`: that the 30-bit generation comes round to the value
  of a completion that is still on its way is excluded.
* `codecs`: integers with groups of 7 bits and a word of 10, so that two groups
  exceed the word and one does not, as five and four do in the code; header
  blocks with real bytes, a name buffer of two bytes, and a path buffer as large as a
  value buffer, as in the code; frames with bytes of 6 bits (see above).

Deadlock is checked in the connection runs: the connection can always be fed,
written, or is closed.  It is not in the others: a decoder is done, a server
exits, and with a finite number of connections it comes to wait for no one.

### Fairness

* `H2Connection!FairSpec`: weak fairness of `FeedStep`, the steps inside one call
  of `feed`.  The call does not block and nothing preempts it.  Nothing is
  assumed of the peer or of `write()`.
* `H2Server!FairSpec`: weak fairness of the server's own step (a process that
  runs; its only blocking call, `h2_io_wait`, is disabled while nothing is ready)
  and of `Drain` (a peer that has not left reads what it was sent).  Which
  branch the server takes, what a chunk makes it queue, and in which order a batch
  is handled are not fair.
* `H2Uring!FairSpec`: weak fairness of the server's step and of the kernel's
  answer to a POLL_REMOVE; strong fairness of the completion of a descriptor's
  poll, strong only because the model takes kernel steps outside of the
  collecting loop, which a busy server enters again and again.  `Stop` and `Add`
  are not fair.

### Where the code and its documents disagree

Four runs show, with a counterexample, a statement of the repository's documents
or tests that the code does not keep.

| Run | Property | Statement | What happens |
|---|---|---|---|
| `retried_grant` | `CreditRespected` | http2-rfc7540.md:554, no DATA without window | WINDOW_UPDATE is counted, its flush fails on a full buffer, the frame is kept and counted again. |
| `reopened` | `NotReopened` | http2-rfc7540.md:219, nothing after RST_STREAM | A stream refused for want of a slot does not advance `last_stream_id`. |
| `stranded` | `DeferredIsBlocked` | http2-rfc7540.md:674, HEADERS and then DATA | SETTINGS opens the window of a deferred response and nothing flushes it. |
| `server_stuck` | `Ends` | smoke.sh:40 waits for the end of a `--max-connections 1` server | A reset with output pending: the client is never closed and the loop spins. |

`DeferredIsBlocked` holds in `send`, where SETTINGS only lowers windows, and
fails in `stranded`.  `Ends` fails in `server_stuck`; its restriction `EndsClean`,
to peers that do not reset a connection with output pending, holds in
`server_live`.  `Delivered` makes one exception, a completion that was put aside
during a removal; the last row of the second table says why.

Further disagreements, seen in the code while modelling it.  The models behave as
the code does in each of these cases; no run is devoted to them.

| Code | Statement | What happens |
|---|---|---|
| connection.c:633 | http2-rfc7540.md:321, no stream above GOAWAY's last | After INTERNAL_ERROR the frame may succeed on retry and the connection goes on.  `GoawayBinding` holds for all other errors. |
| connection.c:405 | http2-rfc7540.md:97, DATA on such a stream is a stream error | When a reset stream's slot was used again, DATA for it fails the connection. |
| connection.c:49 | connection_test.c:412, fails with GOAWAY | `goaway_sent` is set although the frame did not fit; it is never sent. |
| connection.c:201 | http2-rfc7540.md:37 and 39, larger frames only if the receiver said so, else FRAME_SIZE_ERROR | The peer's own SETTINGS_MAX_FRAME_SIZE becomes the limit for what it sends. |
| connection.c:451 | http2-rfc7540.md:350, WINDOW_UPDATE on a closed stream is ignored | It is added to the window until the window overflows and the connection fails. |
| server.c:339 | http2-server-patterns.md:759, the interest set is updated | It is not for a client that is to be closed and still has output. |
| io_uring.c:482 | io_uring_test.c:56, saved "for the normal event path" | `h2_io_wait` sleeps in the kernel while a saved completion waits.  server.c removes armed descriptors only when it stops, so its clients do not meet this. |

## 4. Proofs

The theorems hold for every value of the constants that satisfies the named
assumptions of the modules.  Every run evaluates these on its instance.

### Connection

Assumptions: `FrameSizeAssumption` (the frame size limits are ordered),
`FramesAssumption` (the peer's frames are records of the frame type),
`PathCapAssumption` (a path buffer holds at least `/` and its terminator),
`WindowAssumption` (the default window is positive and fits `int32_t`),
`OutputAssumption` (the output buffer has a capacity) and `ConnectionAssumption`
(slots, cuts and write sizes are natural numbers).

**H2ConnectionProofs** begins with the lemmas about operators: each stream operation
returns a stream whose windows keep to their range (`StreamInitType`, ...,
`AddSendWindowType`), a frame parser returns an error code and lengths within
the frame (`ParseType`, `HeaderBlockLenType`), a decoded path fits its buffer
(`ExtractPathType`), and the output side never passes its capacity nor a window
it spends (`QueueType`, `RefreshType`, `QueueDeferredDataType`,
`QueueResponseType`).  The later modules rest on three more: a queued response
spends the window of its own stream and of the connection by the same amount and
touches no other (`QueueResponseWindows`), a stream is always in one phase of a
response (`StreamPhase`), and `QueueResponse` sends HEADERS once and ends in
"sent", "deferred" or an error (`QueueResponseResponds`).

Its theorems:

| Theorem | Statement |
|---|---|
| `TypeCorrect` | `Spec => []TypeOK`: every window is an `int32_t`, no receive window is negative; the open header block, every path and the output keep to their buffers |
| `TableCorrect` | `Spec => []StreamTable`: one slot per id, tracked ids are odd and at most `last_stream_id` |
| `ReuseCorrect` | `Spec => SlotReuse`: no live stream is evicted and a slot's new id is above every earlier one |

The inductive invariant is `Inv == TypeOK /\ Busy /\ StreamTable`.

* The input is not bounded by `TypeOK`: `feed` compares the length with the room
  that is left before it copies (connection.c:581), which is `Feed`'s guard.
* `TypeOK` alone is not inductive.  The settings loop and the flush loop read
  the frame at the head of the input; that there is one, and that the loop index
  is at least 1, is known only from the step that entered the loop.  `Busy`
  carries it.
* `StreamTable` is needed with it because a new id is compared with
  `last_stream_id` only; that no other slot holds the id follows from every
  tracked id being at most `last_stream_id`.
* `TypeOK` states that a window is in range after an addition, so each lemma on
  an addition rests on the check the code makes before it
  (`h2_stream_add_send_window`, the loop of `h2_connection_apply_settings`).

Each action has a lemma that concludes `StepOK`: types and `Busy` hold in the next
state, and the step either leaves all ids alone (`KeepsIds`) or gives one reusable
slot to an acceptable id (`OpensStream`).  `TableStep` shows once that both keep
`StreamTable`, and `ReuseCorrect` reads `SlotReuse` off the same alternative.

**H2FlowProofs** (windows):

| Theorem | Statement |
|---|---|
| `SendCorrect` | `Spec => []SendAccounting`: as long as no call failed, send windows are what was granted less what was queued |
| `RecvCorrect` | `Spec => []RecvAccounting`: as long as no call failed, receive windows are what the peer was told |
| `RecvOpenCorrect` | `Spec => []RecvWindowOpen`: more than half of every receive window is open between calls |

The invariant is `CallInv /\ FlowInv` on top of `Inv`.  `CallInv`: only a
handler's result is an error, and a frame is processed again only after a call
that failed; this is why a frame of a connection without failure is charged once.
`FlowInv` states the three properties under `Sound`, which is weaker than their
own hypothesis: between a stream error and its RST_STREAM the connection is no
longer `Healthy`, but the books must still be right, because it is `Healthy`
again after it.  One place needs an exception.  `process_data` ignores a refresh
that did not fit for DATA on a closed stream; there `RecvAccounting` is false for
a moment.  `Overdrawn` says that the output is then so full that the RST_STREAM
which must follow does not fit either, so that the call fails.

**H2WireProofs**, responses:

| Theorem | Statement |
|---|---|
| `PhaseCorrect` | `Spec => []ResponsePhase`: as long as no call failed, an accepted stream is answered or its body is deferred behind its HEADERS; END_STREAM is sent only from a state that allows it |
| `WireCorrect` | `Spec => []WireOrder`: a stream that is opened gets HEADERS once, then at most one DATA with END_STREAM, and nothing but RST_STREAM after its RST_STREAM |

`ResponseInv == PhaseInv /\ AnsweredInv /\ WireInv`.  `WireOrder` says nothing
about streams, so `WireInv` ties what was queued for an id to the flags of the
live stream with that id, and says that nothing but a refusal was queued for ids
above `last_stream_id`, which may still be opened.  `AnsweredInv` names the one
stream that may be without an answer: the one whose stream error is about to
reset it.

`WireOrder` does not say that nothing follows *any* RST_STREAM: an id that was
refused for want of a slot may be opened later and then has its one response, as
run `reopened` shows.  HEADERS after the RST_STREAM of a stream that was opened
would be a violation.

**H2WireProofs**, errors and retries:

| Theorem | Statement |
|---|---|
| `GoawayCorrect` | `Spec => []GoawayBinding`: after GOAWAY for anything but INTERNAL_ERROR no id above the one it named is accepted |
| `ErrorCorrect` | `Spec => ErrorIsFinal`: the frame that failed is never consumed |
| `BlockCorrect` | `Spec => HeaderBlockExclusive`: while a header block is open nothing but its CONTINUATION has an effect |

The question behind the first two is what the *second* processing of a frame
does, on the state that the first one left.  `Fails(f)` says that
`process_frame` gives a connection error for `f` in the present state; the
invariant `ErrorInv == LoopInv /\ ResultInv /\ PoisonInv /\ GoawayBinding` says
that a handler's error is one that it would give again (`ResultInv`) and that
after the GOAWAY the head frame still `Fails`, however far its processing has
come (`PoisonInv`).  Each handler that changes state before it fails is a case of
its own: SETTINGS has applied the settings before the bad one, but these move the
window of a live stream and the initial window alike, so the sum that overflowed
overflows again; WINDOW_UPDATE has not moved the window that overflows; HEADERS
has advanced `last_stream_id` or opened the block, so that the same frame is
rejected for that.  That `flush` fails with INTERNAL_ERROR only uses `PhaseInv`.

**H2WireProofs**, deferred responses:

| Theorem | Statement |
|---|---|
| `DeferredCorrect` | `Spec /\ NeverRaised => []DeferredIsBlocked`: where SETTINGS never raises the initial window, a deferred response is blocked by a window |

`DeferredIsBlocked` is not true of every behaviour: run `stranded` shows SETTINGS
raising a window and leaving the response behind.  The theorem says that this is
the only way.  `NeverRaised` is a condition on the behaviour
(`[][initial_stream_window' <= initial_stream_window]_vars`), kept by every peer
whose SETTINGS lower the window or leave it alone, as in run `send`; everything
else, every frame, slot and buffer, is free.  The invariant `HeldInv` says of a
connection without error that each deferred response is blocked, except while a
WINDOW_UPDATE is being flushed, where it is known of the slots the loop has
passed.  Three facts carry it: a response that was queued leaves its stream
answered or blocked (`QueueResponseHeld`), the connection's window only shrinks in
the loop, so that what was blocked in a slot before stays so
(`QueueResponseSpends`), and no other handler moves a stream nearer to its
response (`NoNearer`).  A SETTINGS frame that fails half way has raised some
windows already; the call then fails too, which ends the books.

### Server loop

Assumption: `ServerAssumption` (the sizes are natural numbers, there is at least
one client, descriptor and place in a batch).  **H2ServerProofs**:

| Theorem | Statement |
|---|---|
| `TypeCorrect` | `Spec => []TypeOK` |
| `TableCorrect` | `Spec => []FdTable`: clients, open descriptors and registrations correspond one to one, at every step |
| `InterestCorrect` | `Spec => []InterestSound`: when the loop waits, the interest fits the output |
| `CloseCorrect` | `Spec => CloseCause`: a client is closed only for its own end, error, or at exit |
| `EpollImplementsIo` | on epoll, `Spec => ImplementsIo`: H2Server refines H2Io |

All but the last hold on either back end.

* For the first two, `Inv == TypeOK /\ QueueInv /\ FdTable`.  `FdTable` is not
  inductive alone: `accept` attaches the head of the backlog without looking at
  what is attached already, so that no connection gets two descriptors rests on
  `QueueInv` (the backlog has no duplicates and nothing that is attached).
* For the next two, `LoopInv == ReportInv /\ HandInv /\ InterestInv` on top of
  `Inv`.  It is the argument about kqueue of section 3.  `ReportInv`: an event
  that is left in the batch and says `readable` or `closed` is not stale, and a
  write event that says `closed` is for a connection that was reset with output
  pending.  `HandInv`: the client in hand is not closed while its own read event
  is still to come.  `InterestInv`: interest fits output for every client but
  the one in hand.  The three need each other: that a write event with `closed`
  implies output follows from the interest it was watched with, and the interest
  is left as it is only for a `closed` that is not stale.
* For the refinement, `BatchInv`: the events that are left name each descriptor
  once, name the connection that is behind it now, and none names the client
  being served.  This is preserved because the loop closes only the client whose
  single event it has taken out of the batch, and a descriptor that is free was
  not in the batch.  It is where epoll differs from kqueue.  The refinement maps
  registrations to `files` and the batch to the pairs of descriptor and
  connection in `events`; each action is shown to be a step of H2Io or to leave
  its variables alone.

### io_uring

Assumption: `UringAssumption` (the sizes are positive).  Hypotheses: `NoWrap`,
fewer registrations are made than there are generations (2^30 in the code), and
for the last two `ServerUse`: descriptors are removed as server.c removes them
(`~CloseAny`) and there are at most `SavedCap`, and fewer than `CqEntries`, of
them.  In the code these are 128 clients and the listener against 256 and 512.
**H2UringProofs**:

| Theorem | Statement |
|---|---|
| `TypeCorrect` | `Spec => []TypeOK` |
| `TrackCorrect` | `Spec => []PollTracked`: a descriptor in use is active iff exactly one poll of its generation is outstanding |
| `UringImplementsIo` | `Spec => ImplementsIo`: H2Uring refines H2Io, with removals of any descriptor |
| `ServerCorrect` | `Spec => []ServerInv`: driven by server.c, no poll of an older generation is outstanding, and polls are cancelled only when it stops |
| `SavedCorrect` | under `ServerUse`, `Spec => []SavedFits` |
| `RoomCorrect` | under `ServerUse`, `Spec => []CqRoom` |

A poll is armed, or completed in the ring, or put aside by a removal, and the
kernel and the server move it between the three.  The invariant speaks of all
three at once, through the `user_data` (descriptor and generation) that is all
the code sees of a completion:

* `UniqueInv`: no two outstanding polls have the same `user_data`;
* `TimelyInv`: none is newer than its descriptor, and one of the present
  generation is for the present registration.  This is where `NoWrap` is used,
  when a number is registered again, and why an event carries its registration;
* `ActiveInv`: a descriptor in use is active iff its present `user_data` is among
  the outstanding ones.  `PollTracked`, which counts, is not inductive by itself:
  it says nothing about stale completions;
* `CancelInv`: at most one POLL_REMOVE or its answer is on its way, for the
  descriptor being removed, so that only completions of polls are put aside and
  the answer is recognised;
* `RegInv` and `PcInv`: the back end's table is the server's, and an event that
  is left in the batch is for a registered descriptor whose poll has ended.

While a removal drains, entries it has put aside are still in the ring (`head`);
`Rest` is the ring without them.  The refinement maps the batch to the empty set
while it is being collected: `CollectDone` is the abstract wait.  For the sizes,
`ServerInv` makes `user_data` injective in the descriptor, so there are no more
outstanding polls than descriptors, wherever they are; the ring holds besides
them the one answer and what `head` counts, which is in `saved` too.

### HPACK integers

Assumptions: `HpackIntAssumption`, `HpackCodecAssumption` (any base above 1, any
word, any prefixes and values within the word).  **H2HpackProofs**:

| Theorem | Statement |
|---|---|
| `DecodeCorrect` | `Spec => []DecodeExact`: what the decoder accepts is what the bytes stand for, and fits the word |
| `RejectsCorrect` | under `GroupsFit`, `Spec => RejectsOnly`: the decoder gives up only where the value exceeds the word or the groups do not end |
| `RoundTripCorrect` | under `GroupsSuffice`, `Spec => []RoundTrip`: it reads back whatever the encoder wrote |

The hypotheses relate the word to the number of groups: the last group still
counts in the word (`GroupsFit`, 128^4 <= UINT32_MAX) and one more would not
(`GroupsSuffice`, 128^5 > UINT32_MAX).  Lemma `CodeGroups` shows that the code's
128, 32 bits and five groups satisfy both; `codecs` evaluates an instance that
does.  `DecoderInv` ties `result` and `shift` to `sum` and `scale` as long as no
error occurred.  Its heart is `FitsBound`: the code's test of a group against the
shifted maximum, and of the sum, excludes every overflow.  For the round trip
`TripInv` keeps the quotients that the encoder divided down to: each byte written
is the low part of one of them, and what the decoder has read together with the
quotient it stands at makes up the value.

### HPACK blocks

Assumption: `BlockAssumption` (the groups of an integer have 7 bits; the
buffers of names and values are not empty; a path buffer is as large as a value buffer; the static
table and the literals that are encoded hold no NUL).  The block, the table and
the literals are arbitrary.  **H2BlockProofs**:

| Theorem | Statement |
|---|---|
| `InBoundsCorrect` | `BlockSpec => InBounds`: no offset leaves the block, and each turn takes a byte or returns |
| `ItemsSufficeCorrect` | `BlockSpec => []ItemsSuffice`: H2Hpack, given the instructions, returns what the bytes give |
| `PathAgreesCorrect` | `BlockSpec => []PathAgrees`: on a block that the complete decoder accepts the extractor finds the last `:path` |
| `LiteralRoundTripCorrect` | under `GroupsSuffice` and `FieldCap >= 1`, `BlockSpec => []LiteralRoundTrip`: an encoded literal decodes to itself or is refused for its length |

* The loop of `h2_hpack_decode_integer` is a recursive function of the number of
  its turns (`DecodeTurns`), and so is the encoder's (`Groups`).  The induction
  theorems of the library take an operator as a parameter and cannot be used; the
  proofs rest on induction over a set instead (`Induction`, from the least element
  of the complement), which also gives that the recursive functions exist
  (`Recursion`).
* `InBounds` rests on `IntegerInBounds`, and on `SkipReads`, `StringReads`,
  `NameReads` above it: what a decoder reports as used lies within the block and
  is at least one byte, whatever lengths the bytes claim.
* `PathAgrees` compares two loops that do not run in step: the extractor skips
  values that the complete decoder copies, and runs to its end first.  `WalkInv`
  says that there is a set of places (an offset, and the path found so far) that
  holds every place where the extractor stood, that it left each of them but the
  last by the turn it takes there, and that the decoder stands at one of them.
* `ItemsInv`: while the loop runs no instruction has failed, and the last path
  among the instructions is as long as the one copied.
* The round trip of a literal is followed through the stages of the decoder:
  a group (`GroupRead`), a length (`IntegerRead`), a text (`StringRead`), the
  field (`LiteralRead`); `LiteralInv` says that the decoder is before the field
  or behind it.

### Frames as bytes

Assumptions: `FrameBytesAssumption` (a byte has an even number of values, at
least 64; three bytes hold the largest frame; the parser has room for the settings
that the encoder writes), `CallsAssumption` (encoders are called with values of
their parameters' types) and `WiresAssumption` (a received frame has the length
its header says, which is when `feed` parses it).  Eight-bit bytes are an
instance, which TLC's integers do not reach.  **H2FrameProofs**:

| Theorem | Statement |
|---|---|
| `FrameRoundTripCorrect` | `FrameSpec => []FrameRoundTrip`: a parser reads back what the encoder of its type wrote |
| `PayloadSharedCorrect` | `FrameSpec => []PayloadShared`: fields, block and padding share the payload exactly |
| `FramesAgreeCorrect` | `FrameSpec => []FramesAgree`: H2Frame's verdict on a frame is the byte parser's |

The arithmetic is in the lemmas on numbers in network order: reading two, three,
four bytes or 31 bits inverts writing them.  A lemma per encoder shows that what
it writes is whole and has its header in front; one per parser that it returns
the call's arguments on such bytes.

### Model-checked only

Liveness, which is out of the prover's reach: `FeedReturns`, `OutputFlows`,
`AbandonedClosed`, `EndsClean`, `Delivered`, `RemoveReturns`.  Every invariant and
action property of the passing runs is the subject of a theorem;
`DeferredIsBlocked` under the hypothesis above.

## 5. How the parts fit together

* bytes to frames: H2FrameBytes agrees with H2Frame (`FramesAgree`, proved),
  H2HpackBlock with H2Hpack (`ItemsSuffice`, proved), so that H2Connection may speak of frames and
  instructions;
* connection to loop: H2Connection includes what server.c does with the result of
  `feed` and with `write`, for one client; H2Server takes any result of `feed`
  for many clients;
* loop to back end: H2Io is what H2Server needs.  On epoll it follows (proved);
  on io_uring the back end provides it (proved); on kqueue it
  does not hold and the loop gets by without it (`server_live`).

## 6. Not modelled

* `main.c`: option parsing and one call of `h2_server_run`.
* Start-up of `h2_server_run`: the listener, the ready file, the log lines.  They
  happen once, before the loop, and are its `Init`.
* io_uring: mapping the rings, finite timeouts (the server waits without one),
  descriptors of 4096 and above, a generation that wraps round within the life
  of one completion, and a POLL_REMOVE that fails with EALREADY.  For the last,
  see the hazard at io_uring.c:236.
* The 61 entries of the HPACK static table: data; the lookup and its bounds are
  modelled.
* `zcc`: a pure loop over the command line and a `main` that so far prints help,
  version or an error; its unit tests reach every path.
* The DOOM stubs, which keep almost no state; vendored and test-only sources.

Hazards without a property: an error of `accept` other than EAGAIN and EINTR ends
the server for every client (server.c:235; the model has the step, `AcceptFailed`,
and no document says what should happen); a peer that sends as fast as the server
reads keeps every other client waiting (server.c:196; the input of a model is
finite); a connection error with output pending leaves the client open after its
GOAWAY went out (server.c:212) and a frame larger than the input buffer never
completes (connection.c:581), where the models have the steps and no document
says what should happen; the three cases of the second table of section 3 at
connection.c:49, connection.c:201 and io_uring.c:482, which the models show and
the code does not avoid; and the failing removal above.

## 7. Plan

1. Done: frame, HPACK, stream, response and connection models; the byte level
   below them; the event loop on epoll and kqueue; io_uring; H2Io and its
   refinements; the proofs of section 4.
2. Proofs: the sizes of H2Uring with `CloseAny`.
3. `POLL_REMOVE` with EALREADY, and what server.c does after a failed
   `h2_io_remove`.
