# TLA+ models of thespis_impl_remote

This directory models the remote-actor layer of the repository: how frames are
put on a byte stream and taken off it, and how the `Peer` actor at each end of a
connection dispatches frames, answers calls, relays services to other peers and
shuts down. Everything is checked with TLC.

## The system

| Part | Source | What it does |
|---|---|---|
| Wire format | `src/src/bytes_format.rs` | A frame is a 16-byte service id, a 16-byte connection id (cid) and the payload. `TryFrom<Bytes>` refuses fewer than 32 bytes. |
| Codec | `src/src/multi_service/tokio_codec.rs` | Each frame goes on the stream behind a u64 length prefix. The encoder writes `item.len() + 8` and refuses items over `max_length`. The decoder waits for 40 bytes, reads the prefix, refuses a prefix over `max_length`, waits for the whole frame, then strips the prefix. |
| Peer | `src/src/peer.rs`, `src/src/peer/*.rs` | One actor per connection. It holds the sink (`outgoing`), its own address (`addr`), the listen handle, the local service tables, the relay tables (`relayed`, `relays`) and the oneshot senders of outstanding calls (`responses`). A spawned listen task turns the incoming stream into `Incoming` messages. At end of stream it sends `CloseConnection{remote: true}`. |
| Incoming dispatch | `src/src/peer/incoming.rs` | A frame is classified in this order:<br>1. null sid: a remote `ConnectionError`;<br>2. null cid: a send;<br>3. known cid: a response;<br>4. otherwise: a call.<br>Sends and calls go to the local service map, to a relay peer, or are answered with `UnknownService`. A relayed call runs in a spawned task that calls the relay peer and sends the answer back through the peer's own address. |
| Calls | `src/src/remote/peer.rs` | `Handler<Call>` registers a oneshot under the cid, then sends the frame. This older file holds the only `Handler<Call>` in the tree. |
| Close | `src/src/peer/close_connection.rs` | Emits `Closed` or `ClosedByRemote`, closes and drops the sink, drops `addr` and the listen handle, and clears every table. Dropping the oneshot senders cancels the callers still waiting. |
| Ids, errors, glue | `wire_format/unique_id.rs`, `peer/peer_err.rs`, `service_handler.rs` | Random ids, error formatting, address traits. |

How the parts interact:
- Peers only meet through the byte streams between them (two FIFO streams per connection).
- A relay connects two peers through actor messages: `relayed.call(...)` and `relay.send(...)`.
- Spawned tasks never touch a peer's state directly; they send messages to its address.

## Modules

### `WireCodec` (instantiated by `MCWireCodec`)

**What is modelled.** One writer encodes frames into a stream. The transport hands the reader any number of bytes at a time (`Deliver`), as TCP does. The reader runs `Decode` whenever bytes are buffered.

**Abstraction.**
- A frame is its identity plus its length.
- An encoded unit is `[frame, decl]`, where `decl` is the prefix the encoder wrote.
- Byte counts (`arrived`, `consumed`) are exact, because the size checks are what is under test.
- A unit also has a `size`, the bytes it really occupies. Units of this crate's encoder have `decl = size`. `WriteRogue` writes a unit from a remote that is not this encoder: a 32-byte header behind an arbitrary prefix from `RoguePrefixes`. With a prefix under 8 the decoder reaches `len -= 8` and panics (`panicked`).

**Correspondence to the code.**
- `Encode` is `Encoder::encode`.
- `Decode` is `Decoder::decode` together with `BytesFormat::try_from`. It has one disjunct per way `decode` returns `Err` or `Some`; `Ok(None)` is no step.

### `ByteCodec` (instantiated by `MCByteCodec`)

**What is modelled.** The same codec, with every byte kept. A frame is built by `BytesFormat::from` out of a `ServiceID`, a `ConnID` and a payload (`MakeFrame`). The ids are the byte strings of `unique_id.rs`:
- `Random(a, b)`: two u64 rng draws, little endian;
- `FromSeed(h)`: the 64-bit hash, then a zero u64;
- `Null`: sixteen zero bytes.

`IsNull` is `is_null`: all 16 bytes are zero.

The writer (`WriterFrame`) writes three kinds of frame:
- calls of one service under fresh conn ids;
- sends under the null conn id;
- error frames of `prep_error(cid_null, ..)` (`ErrorFrame`), which have a null service id.

A message's first byte is its index, so that frames stay distinct. The reading peer classifies each decoded frame as `Handler<Incoming>` does (`Kind`):
- a null sid is a remote `ConnectionError`;
- otherwise a null cid is a send;
- otherwise the frame is a call. The reader has no call outstanding, so no frame is a response.

The sid and cid conversions (`UniqueID::try_from`) cannot fail, so the `Deserialize` branches after `frame.service()` and `frame.conn_id()` are never taken.
- `Encode` writes the u64 prefix `item.len() + 8` with `LEBytes`.
- `Decode` reads it back with `ReadLE`, advances 8 bytes, splits the frame off (`SplitFrame`) and runs `TryFrom`.
- `Service`, `ConnId` and `Mesg` are the slices `0..16`, `16..32` and `32..` of `WireFormat`.
- `WriteRogue` writes a null-sid header behind an arbitrary prefix.
- The transport delivers one byte or everything in flight (`Chunks`). Single bytes already reach every split of the stream. Larger chunks would only add transitions between the same states, at ten times the cost.

**Refinement.** `ByteCodec` implements `WireCodec`. `WC == INSTANCE WireCodec WITH ...` maps the state as follows:
- the stream is cut into units with the sizes the writer recorded;
- a unit's `decl` is its prefix read back;
- a frame's identity is the first rng draw of its conn id, or, for a null conn id, its message's index; its length is its byte count;
- `consumed` is `arrived - Len(buf)`.

`WireCodecRefined` (`WC!Spec`) checks that every byte-level step is a step of the abstract codec. `FramesIntact` says that the i-th decoded frame has the service id, conn id and payload of the i-th unit written. `ClassifiedAsWritten` says that the reading peer classifies it as the kind it was written as. This composes the codec with the peer's dispatch: an offset or a null test that is off anywhere turns a call into a send or an error.

### `RemoteCall` (abstract)

**What it is.** What one remote call promises its caller, whatever lies in between. A call goes from idle to pending, or fails at once. Its request runs at most once (`runs`) and only after it was issued. An answer is final, and it is a success only if the request ran. Weak fairness on answering says that no pending call waits forever.

**Refinement.** `PeerNet` instantiates it as `RC`:
- `Calls` are the client calls;
- `callSt` maps each caller's oneshot receiver, with `AbstractCallSt`: none is idle, pending is pending, a response to the call's own request is ok, and an error or cancellation is failed;
- a response to *another* request maps to no abstract state, so such a step breaks the refinement;
- `runs` counts the times a service handler ran the request.

`RemoteCallRefined` (`RC!Spec`) is checked by the passing pair and relay runs. `RemoteCallSafe` (`RC!Init /\ [][RC!Next]_RC!vars`) is its safety half. It is checked where peers may crash, because crashes lose answers.

### `PeerNet` (instantiated by `MCPeerNetPair` and `MCPeerNetRelay`)

**Peer state.** Every field of `Peer` is a function of the peer:
- `outgoing`, `addr` and `listening` are the three `Option`s;
- `services`, `relayed`, `relays` and `responses` are the domains of the maps;
- `events` is what `pharos` sent to observers.

**Connections.** `wire[p]` holds the frames p's sink wrote that the remote's listen task has not read yet.

**Actions.** Each handler is one atomic action on the head of the mailbox, because an actor runs one message at a time.

| Action | Code |
|---|---|
| `Incoming` | `Handler<Incoming>`, with `RemoteConnErr`, `IncomingSend`, `IncomingCall`, `IncomingResponse` |
| `CloseConnection` | `Handler<CloseConnection>` |
| `SendMsg` | `Handler<MS>` / `send_msg` |
| `Call` | `Handler<Call>` |
| `RegisterRelay` | `register_relayed_services` |
| `Listen`, `ListenEnd` | the listen task |
| `ServiceTask` | a service-map future |
| `RelayCall`, `RelayCallLost`, `RelayReturn` | the two awaits of the relay task; `RelayCallLost` is the `expect` at `incoming.rs:478` panicking the task when the relay peer's mailbox is gone |
| `ListenCorrupt` | the listen task forwarding what a malformed stream yields: an `Err` item (`StreamErr`), or a null-sid frame whose error payload does not deserialize (`Garbled`) |
| `Panic` | the `unimplemented!()` in `remote_conn_err`, which crashes the actor |
| `ClientCall`, `ClientSend`, `ClientRegisterRelay`, `UserClose` | the users of a peer |

**Service map.** The service map is generated outside this repository. Its behaviour is modelled from the spec:
- a request with `Good` bytes runs the handler;
- `Bad` bytes fail to deserialize;
- `RegistryFaults` are the other failures `incoming.rs` handles (spawn failure, `Downcast`, `UnknownService`).

**Fault model.** `Corruptions[p]` says which malformed inputs p's stream may yield, each at most once:
- A `StreamErr` runs the `Err` branch of `Handler<Incoming>`. It reports `Deserialize`, sends the error frame and queues `CloseConnection`.
- A `Garbled` error frame crashes the peer (`Panic`). The actor and everything it owns are dropped:
  - the sink is dropped, so the remote sees end of stream;
  - the listen task is dropped;
  - waiting callers are cancelled;
  - the mailbox is dropped, so calls to the peer fail (`ClientCall` gives `sendErr`; a relay task's call panics the task; a relayed send gives `FailedToRelay`).
- `SinkErr` makes `out.close()` in `Handler<CloseConnection>` fail (`SinkCloseFails`). This can happen once the other side's listen task, its reading end, is gone. The handler has already sent `Closed`/`ClosedByRemote`; the `expect` at `close_connection.rs:57` then panics the actor, which `Unwind`s as above. `Panic` is `Unwind` without an event.

**Oneshot outcomes.** `outcome[<<p, cid>>]` is what the receiver of a call's oneshot sees:
- `pending`;
- `ok` (with the operation whose response it got);
- `err` (a remote `ConnectionError`);
- `canceled` (sender dropped);
- `sendErr` (the call failed).

## Runs

| Run | Expect | What it shows |
|---|---|---|
| `byte_codec` | pass | The byte-level codec refines `WireCodec` (`WireCodecRefined`). However the bytes are chunked, the decoder yields the written frames in order, with their ids and payloads intact (`FramesIntact`) and classified by the reading peer as written (`ClassifiedAsWritten`). Rogue prefixes are included; the decoder's panic is a step of both modules. |
| `codec_roundtrip` | violation | `EncodedFramesDecode` fails. A frame of 48 bytes is accepted by the encoder with `max_length` 48, gets the prefix 56, and the decoder refuses it. Nothing is consumed, so the stream is stuck on it. |
| `peer_pair` | pass | Two peers with every service-map failure, bad bytes, an unknown service and both ends closing at any time. |
| `peer_relay` | pass | The `relay_once` topology of `tests/relay.rs`: consumer `pc`, relay `pi`→`po`, provider `pp`. Consumer, relay and provider may close at any time. |
| `peer_close_twice` | violation | `CloseReportedOnce` fails. If an owner closes while the remote hangs up, both `CloseConnection`s run and observers see `Closed` and `ClosedByRemote`. |
| `peer_pair_corrupt` | pass | The pair with calls only, where either stream may yield a decode error. Every property of `peer_pair` still holds. |
| `peer_relay_garbled` | pass | The relay topology where the consumer and the relay peer `po` may receive a garbled error frame and crash. The sinks of the relay process (`pi`'s, `po`'s) may also fail to close once the other side is gone. `TypeOK`, `SilentAfterClose` and `RemoteCallSafe` hold: answers may be lost, but none is wrong or duplicated, and a crashed peer never writes again. This run fires the crash paths. |
| `codec_rogue_prefix` | violation | `NoDecoderPanic` fails. A remote prefix of 3 passes both checks of `decode`, and `len -= 8` underflows (`tokio_codec.rs:79`). |
| `peer_garbled_error` | violation | `NoPeerPanic` fails. An error frame whose payload does not deserialize reaches `unimplemented!()` (`incoming.rs:203`), although spec 4.2 says to treat it as corruption. |
| `peer_relay_panic` | violation | `CallsResolve` fails. The relay peer crashes with the consumer's relayed call still in its mailbox. `relayed.call` fails, the `expect` panics the relay task, and nothing answers the consumer, whose connection to the relay stays open. |
| `peer_relayed_send_lost` | violation | `RelayedSendNotDropped` fails. The provider's owner closes, so `pp`'s listen task ends and `po` closes its sink. A relayed send still reaches `po`'s mailbox, and `send_msg`'s error is discarded (`let _` at `peer.rs:366`). Nothing tells the consumer or `pi`. The handler that would forward relay events (`Handler<RelayEvent>`) is missing from `src/`. |
| `peer_send_after_close` | violation | `ArrivedSendsProcessed` fails. A send already in the provider's mailbox when its owner closes is refused as an unknown service, because the close cleared `services`. The `CloseConnection` doc comment promises such sends are still processed. |

Properties of the passing peer runs:
- **`CloseOnlyOnCorruption`:** a peer closes on its own only when its owner asked or after undeserializable bytes. Spawn and `Downcast` failures leave the connection open: `send_err` gets `close = false` (`incoming.rs:246/275/400/443`). The comments above those calls say "and close the connection"; the code agrees with spec 4.2, so the comments are wrong (a finding on `peer_pair`).
- **`SilentAfterClose`** (action property, relay runs): once `addr` is dropped, the peer writes no frame and spawns no task. The `CloseConnection` doc (`close_connection.rs:13`) says a call that arrives after the close is answered with an error. `incoming_call` returns at once instead (`incoming.rs:366`), and the sink is gone anyway. A finding on `peer_relay` records this; the remote caller is resolved only by its own close when the stream ends.
- **`CallsResolve`** (liveness): every issued call is eventually resolved, also when a connection on the way is lost.
- **`RemoteCallRefined`:** each caller sees the abstract `RemoteCall`: a call that succeeds got the response to its own request, and that request ran exactly once, across relays too.
- **`CorruptionCloses`** (liveness, pair runs only): a peer that reported `Error(Deserialize)` eventually closes its sink. The relay run has no undeserializable input, so there it would hold vacuously.
- **`TypeOK`.**

Each property of a passing run has a mutant in `PROJECT.json`: a plausible bug in the mapped definition that TLC catches. Examples are a swapped classification order, a close that keeps the sink, a close that does not cancel the callers, and a relay that reports a lost relay as success.

## Bounds

**Codec.**
- `max_length` 48. `WireCodec` uses payloads 0, 8, 16 and 20. `ByteCodec` writes calls with payloads 4, 16 and 20, plus a send and an error frame with payload 4. This gives frames well under the limit, a frame within 8 bytes of it, and one over it.
- 3 encode calls, so two frames can be split across chunks in every way. In `ByteCodec` the stream arrives byte by byte or all at once, so a prefix is split inside its 8 bytes too. Four writes took 401 s, which is over the run limit.
- `SidSeed` is 4660, so the hash is a multi-byte value whose little-endian order matters.

**Peers.**
- The pair run has 3 client operations: a good call, a bad send, and a call of a service the other side lacks.
- The relay run has a call and a send through the relay.
- Each owner may close once.
- Each malformed input may happen once per peer. Stream errors run in a separate pair run (`peer_pair_corrupt`), with calls only and no registry faults, because together with the full pair run they exceed five minutes. Garbled error frames run in the relay topology. There a crash of the relay peer meets a relayed call and a relayed send, and a crash of the consumer meets its own later call.
- Codec: `RoguePrefixes` {3, 20}. The prefix 3 is under 8. The prefix 20 is at least 8 but shorter than the 40-byte unit behind it. The decoder then takes a 12-byte frame, which `try_from` refuses with `Deserialize`, and reading stops there.

These bounds reach every branch of the handlers (every action and disjunct fires across the two runs). They also reach every order of close against in-flight frames, which is where the interesting cases lie. The tests use the same topologies.

## Fairness

Weak fairness applies to:
- each peer's handler step;
- each listen task;
- the set of service tasks;
- the set of relay tasks.

The executor polls every spawned task and every mailbox that has messages. Clients and owners get no fairness, because they act when they like.

Deadlock checking stays on for the peer runs. `Done` is the stuttering step taken once everything is idle and every user action has happened. The codec runs turn deadlock checking off because the writer is bounded and the reader then has nothing to do.

## Not modelled yet, and why

- **`Handler<RelayEvent>`.** It does not exist under `src/`, so the relay event stream cannot be modelled.
- **Codec composed with the peer.** The two modules are not composed. `PeerNet` takes the codec's outcome as an input: a decode error is a `StreamErr` item, which is what `WireCodec`'s `MessageSizeExceeded` and `Deserialize` steps hand to the listen task. The decoder's own panic is a separate run.
- **Observers.** Observers are user code. The model hands every event to an observer with an unbounded queue. In the code, `observe(queue_size)` gives a bounded channel, and every handler awaits `pharos.send`. A stalled observer would therefore block the peer. This is listed as a hazard.
- **ConnID collisions.** Ids are distinct model values. A collision of two random 128-bit ids would make `responses.insert` overwrite the first caller's sender. That is a 2^-128 event, so it is not enumerated.
- **The legacy `Peer` in `remote/peer.rs`.** Only its `Handler<Call>` is modelled, because no other `Handler<Call>` exists under `src/` (`peer.rs` declares `mod call`, but the file is missing). The rest of the file is a superseded prototype of `Peer`: it uses the old `await!` macro, and its `close_connection` module is also missing. `Handler<Incoming>` and the listen loop are replaced by `peer/incoming.rs` and `Peer::new`, which are modelled.
- **PeerErr, the examples and the tests.** `PeerErr` is formatting only: context strings and `remote_err`. The examples and tests are drivers. The tests' topologies are the MC instances.
- **`register_services` as an action.** The tests and examples call it on the `Peer` value before its mailbox starts, so it always runs before any handler. The model takes its result as the initial table (`RegisterServices`).
- **`PeerErr::remote_err`.** Nothing under `src/` calls it, and it only formats strings.

Candidates for later work:
- larger relay chains;
- composing `ByteCodec` with `PeerNet`, so that a garbled frame comes out of the decoder and is not just an input.
