# TLA+ models of surgemq's codec and persistence

This directory holds TLA+ models of the code in `src/`. TLC checks them.
`PROJECT.json` records three things:
- which definition models which source lines;
- every run, with its expected result;
- the mutants that show each checked property can fail.

## The system

There are two independent parts.

**Message codec** (`src/message/*.go`, `src/unnamed/part_002`, `part_003`):
- Each packet type implements:
  - `decode(src)` → `(n, err)`;
  - `preEncode` / `Encode(dst)` / `Send(ring buffer)`;
  - `size()`, the remaining length.
- Every packet starts with a fixed header: type/flags, then a 1–4 byte varint remaining length.
- A connection's sender encodes packets onto a byte stream, and its receiver decodes them from the front of the stream.
- The repository contains the code for PUBREL, PINGREQ, SUBACK and the older UNSUBACK, plus the CONNACK return codes. The header code (`header.go`) is not in the repository.

**Persistence** (`src/unnamed/part_000`) has two backends of the same provider interface. Many goroutines call the provider concurrently, and one or more may call `Shutdown`.
- **bolt**:
  - Every call first checks the `done` channel, then runs one bolt transaction (`View` / `Update`), which is atomic.
  - `Shutdown` takes `lock`, closes `done`, waits on `wgTx`, closes the db and sets `p.db.db = nil`.
- **mem**: the accessors only return sub-objects. `Shutdown` closes `done` with no lock.

## Modules

| module | models | state / actions |
|---|---|---|
| `StoreTypes` | provider arguments and results | requests per call, `(value, error)` replies, message records |
| `PersistenceStore` | the persistence contract (spec 4.6, 5) | abstract sessions/subscriptions/queues/retained; `Invoke`, `Complete`, `Abort`, `Close` |
| `BoltStore` | bolt backend, lines 1–713 | `done`, `db` (open/closed/nil), `lock`, the bucket tree (`sesRoot`, `sesBkt`, `subsBkt`, `msgBkt`, `retBkt`), one pc per caller and per shutter; one action per provider call, plus `TxOnClosedDb`, `TxOnNilDb` and the four Shutdown steps |
| `MemStore` | mem backend, lines 714–800 | `done`; `Accessor`, and Shutdown split at its select |
| `FixedHeader` | header framing (from the spec and `TestFixedHeaderFlags`) | pure operators: `HeaderDecode`, `HeaderEncode`, `HeaderSize`, recursive varint |
| `Codec` | PUBREL, PINGREQ, SUBACK, CONNACK | pure operators, one per Go method: `PubRelDecode`, `SubAckDecode(old, src)` (decode into a message whose return codes are `old`), `*Size`, `*PreEncode`, `PingReqEncode`/`Encode`, `SetPacketID`, `AddReturnCodes`; dispatcher `Decode` |
| `Channel` | what one direction of a connection promises (spec 1, 5) | abstract reliable FIFO: `queue`, `delivered`; `Put`, `Deliver`, weak fairness of `Deliver` |
| `CodecLink` | one direction of a connection | the sender's message object `obj`, `wire`, `sent`, `recv`, the receiver's reused SUBACK codes, `ext` (the bytes `to.ExternalBuf` holds, kept across Sends), `rx`; `New`, `SetId`, `AddCodes`, `Send`, `PingReqSend`, `EncodeAndWrite`, `Receive` |
| `UnSubAck` | UNSUBACK, older header API (`part_003`) | `dirty`, `dBuf`, `pid` (a byte slice), `ext`, `out`; `SetPacketID`, `Decode`, `Encode`, `Send`; `UnSubAckLen` is `Len()` |

How `BoltStore` corresponds to the code:
- A call is `Begin`: the `select` on `done`. That is followed by the operation's action, which is the whole `View`/`Update` body with its error mapping.
- If Shutdown has already closed the db, the call takes `TxOnClosedDb` instead; this returns `ErrDatabaseNotOpen` from bolt.
- If Shutdown has already set the db to `nil`, the call takes `TxOnNilDb` (a nil dereference).
- Shutdown's steps are the following, each split where another goroutine can interleave:
  1. the select;
  2. `close(done)`;
  3. `wgTx.Wait()` and `db.Close()`;
  4. the nil assignment.
- Bucket contents are abstracted:
  - Message records are the key sets `putMsg` writes.
  - Sequence-keyed buckets are sequences.
  - Topic names and payloads are model values.

`CodecLink` implements `Channel` under a refinement mapping:
- The channel's queue is the messages written (`sent`) after those decoded (`recv`); `delivered` is `recv`.
- `Send`, `PingReqSend` and a successful `EncodeAndWrite` are `Put`; a successful `Receive` is `Deliver`. Every other step, a decode error included, is a stutter.
- The fairness of `Deliver` is checked too, so a receiver stopped by a decode error with bytes still queued violates it.

`BoltStore` implements `PersistenceStore` under a refinement mapping:
- The bucket tree maps to abstract sessions, subscriptions and queues.
- `getMsgs` and `GetSubs` are applied to what is stored.
- A call still running when Shutdown starts may map to `Abort`.
- Only query results are compared. Mutator errors are checked by separate properties.

## Runs

| run | result | shows |
|---|---|---|
| `bolt_refinement` | pass | Two callers and two concurrent Shutdowns on the bolt backend refine the contract for PUBLISH messages (1.5M states). |
| `bolt_drain` | violation | `wgTx` is never `Add`-ed, so Shutdown closes the db under a running transaction. |
| `bolt_new_errors` | violation | `sessions.New` returns a session and nil error when its transaction failed. |
| `bolt_error_taxonomy` | violation | `bolt.ErrBucketNotFound` leaks out of `Subscriptions.Delete` / `Messages.Delete`. |
| `bolt_pubrel` | violation | A stored PUBREL loads back with packet ID 0. |
| `mem_shutdown` | violation | Two concurrent mem Shutdowns close `done` twice (panic). |
| `codec_roundtrip` | pass | `CodecLink` implements `Channel`: whatever the sender's New/SetPacketID/AddReturnCodes calls build, each decode hands over exactly the oldest message Send/Encode wrote (order, exact framing, both varint widths), and every written message is eventually decoded. |
| `codec_truncated` | violation | `[0x62,0x00]` panics in PUBREL decode. |
| `codec_framing` | violation | PUBREL decode ignores a longer declared remaining length. |
| `codec_reused_suback` | violation | SUBACK decode into a message that held more codes returns the stale extra codes and over-counts the bytes. |
| `unsuback_encodings` | pass | UNSUBACK `Encode` and `Send` write the same `Len()` bytes in every reachable state, and a dirty message's bytes decode back to its ID. |
| `codec_failure_code` | violation | A SUBACK with the 0x80 failure code, which the spec allows, is refused by both `AddReturnCodes` and decode. |

`PROJECT.json` explains each violation under "findings", and lists its mutants under "mutants".

Divergences found while modelling that have no run of their own are listed as hazards in `PROJECT.json`, with a note each:
- `PubRelMessage.decode` accepts packet ID 0.
- A failing `AddReturnCodes` has already appended the valid codes before the invalid one.
- UNSUBACK encodes an unset packet ID as 0 without error.

## Bounds

- **Bolt:**
  - 2 callers, each with at most `MaxCalls = 2` calls, and 2 shutters.
  - 1 session, 2 topics, 2 messages, and batches of length 1 and 2.
  - Two callers are enough for two transactions to race one Shutdown. A second shutter exercises the lock and the `ErrNotOpen` path.
  - Batches of 2 and two subscription maps that share a topic are needed for the ordering and override cases.
- **Codec:**
  - 6 sender calls on one message object, drawn from:
    - five constructors: PUBREL, PINGREQ, SUBACK and two CONNACKs;
    - packet IDs 0 (unset) and 258;
    - return-code lists `<<0,1,2>>`, 123 codes, and `<<1,0x80>>`, which fails halfway.
  - Two `AddReturnCodes` calls reach 124–126 codes, i.e. remaining lengths 126–128, on both sides of the one/two-byte varint boundary.
  - The reused-receiver run sends only SUBACKs, with 8 calls, so two SUBACKs of different lengths follow each other.
  - Each decode violation run uses a single crafted byte string from the peer.
- The failure-code run uses one crafted SUBACK from the peer and one `<<1, 0x80>>` list for the sender.
- **UNSUBACK:** 4 calls over two IDs, three inputs (two valid, one with bad flags) and buffers shorter than, equal to and longer than the 4-byte packet.

## Fairness

- `CodecLink` assumes weak fairness of `Receive`. A connection's read loop keeps decoding while bytes are buffered. `Channel` asks the same of `Deliver`, and the refinement checks it.
- The store's callers get no fairness: a goroutine may stop between calls, or never finish one.
- No liveness is checked for `impl.Shutdown`. `wgTx` is the constant 0 and transactions are atomic steps, so the only thing that could block a Shutdown is `impl.lock`. A "Shutdown returns" property would only restate the release in `ShutdownForget`.
- `ShutdownNotOpen` takes and releases the lock in one step, so its deferred `Unlock` is not a step of its own.
- `BoltStore` has no fairness; only safety is checked there.
- `MemStore` has no fairness; only safety is checked there.

## Properties left out

- `CodecLink` and `UnSubAck` carry no type invariant. Beyond bookkeeping, it could only say that bytes stay in 0..255, which Go's `[]byte` already guarantees.
- A store's message order across `Messages.Store` calls is not a property. Records are keyed by sequence position, not by bolt's 8-byte `NextSequence` keys, so that order holds by construction.
- `StoreRefinement` maps a call cut short by Shutdown to `Abort`. It therefore does not see the drain bug; `ShutdownDrainsTransactions` does.
- In `UnSubAck`, `Decode` takes no step on an input that would panic, and no input in the run is truncated.

## Not modelled (yet)

- The older header API that `part_003` is written against is not in the repository.
  - `SetPacketID` follows the spec: two big-endian bytes, and it marks the message dirty.
  - Whether `header.decode` records its source in `dBuf` is left as a nondeterministic choice.
  - No property depends on that choice.
- Decode keeps UNSUBACK's packet ID as a view of the receive buffer. The spec makes such views valid only while the buffer is, and `buffer.Type` is not in the repository, so reuse of that buffer is not modelled.
- `CodecLink` keeps the ExternalBuf contents across Sends: `Grown` for the length check and `make`, `Written` for `preEncode` over the buffer's prefix, and `Handed` for `ExternalBuf[:total]`. A buffer left longer by an earlier message keeps that message's tail, and `ChannelRefinement` shows it never reaches the wire. The mutant that hands over the whole buffer breaks it.
- How `buffer.Type.Send` treats the slice it is handed is not modelled. The model takes it to copy the slice onto the stream before returning; `buffer.Type` is not in the repository.
- The code is not in the repository for: `buffer.Type` (the transport), length-prefixed strings, and the other packet types.
- Logging strings (`ConnAckCode.Desc`/`Error`).

- `header.go` is not in the repository, so `FixedHeader` follows the spec. It is exercised through the codec runs (remaining lengths 0–128), not checked against the code.

## Bounds not extended

- Bolt with two sessions, even with a single Shutdown caller, passes 600k distinct states within a minute and is still growing. That does not fit the five-minute budget of a run.
- Symmetry over sessions would cut the state count. But under symmetry TLC may miss violations of temporal properties, and the refinement `StoreRefinement` is one.
- Sessions are independent buckets, and every transaction is one atomic step. So the one-session instance already covers each per-session interleaving. `Sessions.GetAll` over several sessions is left unchecked.
