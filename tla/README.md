# TLA+ models of TP-Flights-Optimizer-HA

This directory holds the formal models of the flight-analytics pipeline under
`src/`. It has TLA+ modules, TLC configurations, and TLAPS proofs. The system is
described in `spec.md`: clients upload two datasets over a framed TCP protocol
to a server, which feeds a replicated, broker-connected pipeline. Delivery is
at least once, and the pipeline makes processing effectively exactly once.

## 1. Inventory

### Components

| Component | Source | State | Operations |
|---|---|---|---|
| Client protocol connection | `src/client/protocol_connection.py` | `current_message`, `possible_duplicates`, `eofs_received`, `sending_messages`, `waiting_results`, the socket, `ack_queue` (an `mp.Queue`) | `__reconnect`, `__send_announce`, `__run` (take / resend), `__send`, `__receive_ack`, `__shutdown` |
| Client Receiver process (one per connection) | same file, `Receiver` | `running`, its socket buffer | `run`: puts ACKs on `ack_queue`, puts RESULTs on `results_queue`, and on error puts a DISCONNECTED entry and stops |
| Client (uploaders, results) | `src/client/client.py` | `send_queue` (maxsize 1), `results_queue` | starts the processes; terminates the connection once results are in |
| Server accept loop and tracker | `src/server/server.py` | a queue of sockets, `BoundedSemaphore(max_clients)`, `procs` | `run` (accept), `__client_handler_tracker`, `__worker`, `__stop` |
| Server session (ClientHandler) | not under `src/`; spec 4.3 | session per client_id | announce and preempt, forward-then-ACK, result drain |
| Client wire codecs | `src/commons/protocol.py` | none | `to_bytes` / `from_bytes` per frame type |
| Internal codecs | `src/commons/message.py` | none | PROTOCOL, PROTOCOL_RESULT, EOF, EOF_DISCOVERY, EOF_AGGREGATION, EOF_FINISH, EOF_RESULT |
| Log records | `src/commons/log_searcher.py` | none | `ProcessedMessage` encode / decode |
| Processors | `src/processors/*` | per-route tables | `dos_mas_rapidos.add_to_fastest` (two fastest per route), `max_avg`, the load-balancer hash; the `main.py` files only wire things together |
| Stage loop, duplicate catcher, EOF ring, log guardian, results listener | not under `src/`; spec 4.4–4.7 | log, catcher map, ring envelopes | the loop of 4.4 and the ring phases of 4.6 |

### Interactions

- **Client sender and Receivers.** They interact only through `ack_queue`. A new Receiver is started on every reconnect. Old Receivers are never stopped: they end only when their socket fails, and then they put a DISCONNECTED entry.
- **Client and server.** They interact through one TCP connection per attempt. The server forwards a message and then ACKs it. A newer ANNOUNCE for the same client preempts the older session.
- **Server tracker and workers.** The tracker and each worker process share the semaphore. The tracker inspects the workers with `is_alive()`.

### What makes the system hard

The hard cases are:

- reconnects while messages are in flight;
- stale entries from old Receivers;
- ACKs that are not matched to the message they acknowledge;
- duplicates created by resends;
- connections closed gracefully (FIN: unread data remains readable) versus reset (RST: everything in flight is lost);
- process-list cleanup racing with worker exit.

## 2. Modules

| Module | Models | Status |
|---|---|---|
| `ClientConnection` | the client sender, its Receivers and `ack_queue`, and the server side of the session (from spec 4.2 / 4.3) | core, checked |
| `MC_ClientConnection` | instance: one data message per type, three connection attempts | |
| `ClientConnectionProofs` | `TypeCorrect` | proved |
| `ClientOrderProofs` | `ForwardOrderHolds`, with its inductive invariant `OrderInv` | proved |
| `ClientDupsProofs` | `DuplicatesDeclaredHolds`, with its inductive invariant `DupInv`, and `DuplicateOnlyIfDeclaredHolds` | proved |
| `ServerTracker` | `Server.run` accept loop, `__client_handler_tracker`, `__worker` | checked |
| `MC_ServerTracker` | instance: `max_clients` = 2, three clients | |
| `ServerTrackerProofs` | `TrackerSafety` (type and semaphore accounting), `TrackerTypeCorrect` | proved |
| `DosMasRapidos` | `dos_mas_rapidos.py`: `process`, `add_to_fastest`, `convert_travel_duration`, `finish_processing` | checked |
| `MC_DosMasRapidos` | instance: two routes, four durations with a tie, three flights per route; the reference top-two | |
| `DosMasRapidosProofs` | `FastestCorrect` | proved |
| `MessageBytes` | the byte reader/writer of `commons.message_utils` (not under `src/`; from spec 6) | used by the codecs, TLC only |
| `ClientProtocolCodec` | every class of `protocol.py`: constructor, `to_bytes_impl`, `from_bytes`, the dispatch | checked |
| `MC_ClientProtocolCodec` | instance: boundary values of every field | |
| `InternalCodec` | every class of `message.py`, and `ProcessedMessage.to_bytes/from_bytes` of `log_searcher.py` | checked |
| `MC_InternalCodec` | instance: boundary values, lists of length 0 to 2 | |

### ClientConnection: state and actions

**State.** The sender's variables keep their names from the code: `current_message`, `possible_duplicates`, `eofs_received`, `sending_messages`. In addition:

- `spc` is the sender's position in the code: connect, announce, run, send, wait, results.
- `conn` numbers the connection attempts.
- Per connection, `open`, `announce` and `announce_ack` describe the socket, and `c2s` and `s2c` are its two byte streams.
- `rcv` holds the state of each connection's Receiver.
- `ack_queue` is the shared queue.
- `fwd` is the sequence of messages the server forwarded into the pipeline.
- `upl` counts what each uploader has produced.
- `retried` is the history of resends, kept with their types. Only properties read it.

**Data.** Messages are records of kind, type, id and dups. The uploader of each type produces ids 1..N followed by an EOF with id N+1; this comes from the spec, because `FileUploader` is not under `src/`.

**Sender actions** (`ProtocolConnection`):

- `Reconnect`: `__reconnect`.
- `SendAnnounce` / `AnnounceFailed`: the ANNOUNCE handshake.
  - On success, this includes the `ack_queue` drain and the Receiver start of lines 60-70.
  - On failure, the loop of lines 49-58 tries again.
- `TakeMessage` / `ResendMessage`: the two branches of `__run`, lines 89-101.
  - This includes attaching the (shared) `possible_duplicates` list to an EOF.
- `Send`: `__send`.
  - If the write succeeds, the sender waits for the ACK.
  - If the write fails, it reconnects. A write to a half-closed socket may also appear to succeed.
- `ReceiveAck`: `__receive_ack` together with the loop test of line 103.
- `StopSending`: leaving the send loop.
- `WaitResults`: the results-phase loop, lines 106-112.

**Receiver actions:** `ReceiverGetAck` and `ReceiverDisconnected`.

**Server and network actions:**

- `ServerAnnounce`: ANNOUNCE_ACK plus preemption of the older session.
- `ServerForward`: forward, then ACK.
- `ConnectionBreak`: FIN or RST.

**Stuttering actions.** `ResultsIdle` and `ReconnectLimit` are stutters. They mark the states where the code blocks, and where the bound on connection attempts is reached.

### ServerTracker: state and actions

- `accepted` and `queue` model the accept loop and the socket queue.
- `sema` is the semaphore.
- `procs` is the tracker's list of processes.
- `wstate` gives each worker's life: none, running (holds the semaphore), exiting (released it), dead (`is_alive()` is false).
- `tpc` is the tracker's position in its loop.

The actions follow the tracker's statements one by one. `TrackerCleanup` is one test of the `while not procs[0].is_alive()` loop, including the IndexError on an empty list. `WorkerRelease` is the `finally: sema.release()`, and `WorkerExit` is the process ending.

### DosMasRapidos: state and actions

- `trajectory[r]` is the dict entry of route `r` (`<<>>` while `r` is not a key); `order` is the dict's insertion order, which `finish_processing` iterates.
- `processed[r]` is the history of the flights of `r`, read only by properties; `output` is the `MULTIPLE` payload once `finish_processing` ran.
- A flight is a route and a duration; the duration is the `(days, hours, minutes)` triple the ISO-8601 regex captures, and `ConvertTravelDuration` is line 69's arithmetic.
- `Process(m)` is `process` with `add_to_fastest` inlined as `AddToFastest`, the trailing `fastest.sort` included (`SortByDuration`, stable as Python's sort is). `FinishProcessing` concatenates the kept lists in dict order (`Kept`).

### Codecs

`ClientProtocolCodec` and `InternalCodec` give each message class a record constructor, a `...ToBytes` operator for its `to_bytes_impl`, and a `...FromBytes` operator that threads a reader through the fields in the order the code reads them. The `Message.from_bytes` dispatch includes its error path (unknown type, and `MessageProtocolType`'s ValueError for protocol types outside {0, 1}) as the value `ParseError`. A three-step machine (`Serialize`, `Parse`, `Delivered`) carries one message, chosen among all of the instance's messages, across the wire.

Bytes are 0..255. `IntToBytes` is `int.to_bytes(n, "big")` by repeated division (so TLC's 32-bit integers never overflow on a u64 field that holds a value up to 2^31 − 1); `BytesToInt` is `int.from_bytes`. Strings are sequences of code points below 2048 with their one- and two-byte UTF-8 forms. `message_utils` is not under `src/`: `MessageBytes` models it from spec 6 and is marked spec-modelled in `PROJECT.json`. In particular `write_multiple_int(list, 9)` of `EOFAggregationMessage` is modelled as writing each `ProcessedMessage`'s `to_bytes(9)`, the only reading under which the code's own reader (`read_multiple_object(9, ..., ProcessedMessage)`) can parse it.

## 3. Runs

| Run | Config | Expect | Checks |
|---|---|---|---|
| client_connection_safety | `ClientConnection.cfg` | pass (about 87k states) | `TypeOK`, `DuplicatesDeclared`, `ForwardOrder`, `DuplicateOnlyIfDeclared` |
| client_ack_loss | `ClientConnectionLoss.cfg` | violation | `AckedImpliesForwarded` |
| client_eof_dups_type | `ClientConnectionDupType.cfg` | violation | `EOFDuplicatesOfOwnType` |
| server_tracker_accounting | `ServerTracker.cfg` | pass | `TypeOK`, `SemaphoreAccounting` |
| server_tracker_leak | `ServerTrackerLeak.cfg` | violation | `CleanupRemovesCompleted` |
| server_tracker_crash | `ServerTrackerCrash.cfg` | violation | `TrackerAlive` |
| client_connection_live | `ClientConnectionLive.cfg` | pass (about 87k states) | `WaitEnds` |
| client_spurious_reconnect | `ClientConnectionReconnect.cfg` | violation | `ReconnectOnlyOnError` |
| dos_mas_rapidos_top_two | `DosMasRapidos.cfg` | pass (about 29k states) | `TypeOK`, `KeptAreFastest`, `FastestMatchesReference` |
| client_protocol_codec | `ClientProtocolCodec.cfg` | pass | `TypeOK`, `RoundTrip`, `WireMatchesSpec` |
| internal_codec | `InternalCodec.cfg` | pass | `TypeOK`, `RoundTrip` |

### Client properties

- **`DuplicatesDeclared`.** Every data message the server forwarded twice before its type's EOF is listed in that EOF's `possible_duplicates`. This is the spec's reconciliation contract.
- **`DuplicateOnlyIfDeclared`** (action property). No step makes the server forward a second copy of a data message whose id is not yet in `possible_duplicates`. It relates the step's new frame to every earlier one, and it rests on `__run` appending `message_id` (line 99) before each resend. `ResendMessageUnmarked`, its mutant, drops that append.
- **`ForwardOrder`.** Per type, the server forwards ids in non-decreasing order. This is spec 5's ordering guarantee, and it depends on the server preempting stale sessions.
- **`AckedImpliesForwarded`.** A message the client no longer holds as current has been forwarded or is still in flight on an open connection. It is violated:
  1. An old Receiver's late DISCONNECTED kills the new connection.
  2. An ACK is then consumed by the wrong message.
  3. Finally the FLIGHT EOF is counted as acknowledged although it was lost when its connection broke.

  The root cause is that `__receive_ack` (line 131) does not compare `message_id`, and that Receivers are never terminated.
- **`EOFDuplicatesOfOwnType`.** Every id in an EOF's list was retried as a message of the same type. It is violated because `possible_duplicates` is shared by both types (line 99), while spec 4.2 calls it "the accumulated set of retried message_ids for that protocol_type".

- **`WaitEnds`** (liveness). Whenever the sender waits in `ack_queue.get()`, it eventually stops waiting: an ACK or a DISCONNECTED always arrives, whether the connection stays up, is reset or is closed with the frame unread. It rests on every Receiver reporting its socket's end.
- **`ReconnectOnlyOnError`.** The sender goes back to connecting only when the connection it uses has failed (spec 4.2). It is violated: a Receiver of an earlier connection, never stopped, puts its DISCONNECTED after the drain of line 66, and `__receive_ack` (line 128) takes it as the loss of the current, open connection. Repeated, this is a reconnect loop bounded here only by `MaxConn`.

### Tracker properties

- **`SemaphoreAccounting`.** `sema`, plus the running sessions, plus the acquisition the tracker holds before `start()`, always equals `max_clients`. It follows that at most `max_clients` sessions run, and that no release raises ValueError.
- **`TrackerAlive`.** The tracker never dies. It is violated: when the one started worker exits before the cleanup loop runs, the loop pops it and then reads `procs[0]` of an empty list (server.py:90). Every later client is then queued forever.

- **`CleanupRemovesCompleted`** (action property). When the cleanup loop `while not procs[0].is_alive(): procs.pop(0)` ends, no process left in `procs` has exited. This is what the comment above it ("cleanup completed processes", server.py:89) promises. It is violated: worker 2 exits while worker 1 still serves its client, and the loop stops at the live head and leaves worker 2 in the list. With a long first session such entries pile up without bound. The run is the tracker's resource leak; no bound on `Len(procs)` is stated, because during a release-then-exit window the list can briefly exceed `max_clients` without leaking.

### dos_mas_rapidos properties

- **`KeptAreFastest`.** For every route, the kept list holds min(2, n) of the n flights processed for it, sorted by duration, and no processed flight left out is strictly faster than a kept one. Comparing with `fastest[0]` instead of `fastest[1]` breaks it.
- **`FastestMatchesReference`.** The kept durations are exactly the first two of the sorted durations of all the route's flights (ties included). Leaving out the trailing sort breaks it.

Both properties read the kept lists; no property reads `output`, so `finish_processing` is modelled but not checked. Its model also leaves out the call on an empty dict, which returns an empty `MULTIPLE`: the guard `order # <<>>` keeps `output = <<>>` as the marker for "not finished".

### Codec properties

- **`RoundTrip`.** `from_bytes(to_bytes(m)) = m` for every message of the instance: every field in place, lists of length 0, 1 and 2, the processed-by records with both flags. Reading a list and then using the constructor's default, or reading `messages_sent` before `messages_received`, breaks it.
- **`WireMatchesSpec`.** The bytes `to_bytes` writes for a client/server message are exactly the frame body of spec 6, written independently in `SpecLayout`. A duplicate count written as a u64 breaks it.
- **`TypeOK`** of the codecs is not vacuous: the wire must be bytes and a parsed value a message of the instance, which a payload written or read without UTF-8 conversion violates.

### Bounds

**Client.** One data message per type is enough: a resend needs only one message, and with both types present the two EOFs and the shared duplicates list interact. Three connection attempts are enough for an old Receiver to interfere with a newer connection while a third one is used for recovery. The ack-loss trace needs all three.

**Tracker.** Three clients with two slots exhaust the semaphore and put a worker behind a live head in `procs`.

**dos_mas_rapidos.** Three flights per route reach the compare-and-replace branch with the new flight faster than both, between them and slower than both; P1D and PT24H make a tie across different `(days, hours)` triples, and two routes exercise the dict order of `finish_processing`.

**Codecs.** The field values sit at the byte boundaries: 0, 1, 255, 256 (low byte zero) and 2^31 − 1 (four non-zero bytes, the largest value TLC's integers hold); payloads include a two-byte UTF-8 character, so the encoded length differs from the string's. A field read at the wrong offset or width therefore yields a different value.

Every action and every disjunct is exercised by the passing runs. Each property of a passing run has a mutant in `PROJECT.json` that TLC catches.

### Deadlock and fairness

**Deadlock.** The tracker runs disable deadlock checking. The server really stops and waits once the bounded number of clients has arrived: it is blocked in `accept()` and `queue.get()`. In the client safety run and the other runs the terminal states are stutter steps, so deadlock is checked there. The liveness run disables it: deadlock freedom of the same model is already checked by client_connection_safety, and what the run asks is whether waits end.

**Fairness.** `LiveSpec` assumes weak fairness of every sender step, and of each connection's Receiver steps (`ReceiverGetAck(k)`, `ReceiverDisconnected(k)`) and server steps (`ServerAnnounce(k)`, `ServerForward(k)`). The sender, each Receiver and each ClientHandler are separate OS processes that block only on a queue or a socket, so a step that stays enabled is eventually taken. `ConnectionBreak` is the environment and gets no fairness: breaks may or may not happen.

## 4. Proofs

Seven theorems are proved, in five modules: `ClientConnectionProofs`, `ClientOrderProofs`, `ClientDupsProofs`, `ServerTrackerProofs` and `DosMasRapidosProofs`. Each safety theorem follows the same pattern. An inductive invariant `IInv` is found and checked with TLC as an invariant on a larger instance than the project's runs use (for the client: two flight batches, one airport batch, three connections, about 228k states). Then three facts are proved, `Init => IInv`, `IInv /\ [Next]_vars => IInv'` and `IInv => Inv`, and PTL combines them.

**`ClientConnectionProofs!TypeCorrect`: `Spec => []TypeOK`.** It holds for all `NFlight`, `NAirport` in Nat and `MaxConn` ≥ 1 (`ConstantsAssumption`). `TypeOK` is itself inductive once it records two facts:

- outside the connect state, `conn` is a valid connection;
- in the send and wait states, there is a current message.

Both are needed because the model writes `c2s[conn]` and appends `current_message`. The lemmas `TypeInit` and `TypeStep` are the first two of the three facts, and the later client proofs reuse them. `TypeStep` has one case per action, and splits the disjunctive actions (`Send`, `ConnectionBreak`, `ReceiveAck`).

**`ClientOrderProofs!ForwardOrderHolds`: `Spec => []ForwardOrder`.** `ForwardOrder` is not inductive. A state with an older frame still queued behind a newer forwarded one satisfies it, and then violates it after the next forward. The invariant `OrderInv` adds seven facts, each needed by some step:

- `AnnounceOnCurrent`: an unread ANNOUNCE is only on the sender's current connection.
- `AckAfterAnnounce`: an ANNOUNCE_ACK only follows a read ANNOUNCE.
- `Unopened`: connections above `conn` are untouched.

  Together these three give that when `ServerAnnounce(k)` preempts the other sessions, `k` is the sender's current connection.
- `SingleQueue`: at most one connection has unread frames. A connection other than the current one has them only while the sender is still connecting or announcing and has not read its ANNOUNCE_ACK. This is where the server's preemption matters: `ServerAnnounceNoPreempt`, its mutant, leaves two queues.
- `CurrentLatest`: the message in the send slot is the latest taken of its type.
- `Taken`: every frame's id is at most its uploader's count. With `CurrentLatest`, a `Send` appends an id no smaller than any frame of its type.
- `QueueOrder`: within the queue, frames of a type are in id order, and none is behind a forwarded one. This makes `ServerForward` keep `ForwardOrder`.

`Send` needs `current_message` to be a real message. The model states this as `NoMsgAssumption` (`NoMsg \notin AppMsg`, i.e. `None` is not a message), which TLC evaluates on every run of the module.

**`ClientDupsProofs!DuplicatesDeclaredHolds`: `Spec => []DuplicatesDeclared`.** The argument counts copies. A copy of `<<t, i>>` is a position in `fwd` or in a `c2s` queue holding it. `AtMostOnce(t, i)` says there is at most one such position, without using Cardinality. The invariant `DupInv` is `OrderInv` and:

- `SentOnce`: a data id not in `possible_duplicates` has at most one copy. Only `Send` makes a copy.
- `FreshUnsent`: about to send an id not in the list means it was just taken and has no copy. Every later send of the message follows a `ResendMessage`, which adds its id.
- `CurrentDups`: an EOF in the send slot carries the current list (WithDups).
- `KindsOK`: an EOF has id `N[t] + 1`. With `Taken` and `CurrentLatest`, this shows no data message of a type is sent once its EOF is queued.
- `EOFQueuedDeclared`: an unread EOF's list covers every id with more than one copy.
- `EOFFwdDeclared`: a forwarded EOF's list covers every id forwarded more than once before it.

The frame lemmas show that the steps which move or drop frames (`ServerForward`, `ServerAnnounce`, `ConnectionBreak`) never create a second copy:

- `DropKeepsOnce` compares positions before and after the step;
- `ForwardKeepsOnce` maps each new position to the one it came from, and that map is injective;
- `AppendKeepsOnce` covers `Send`.

`FramesKept` covers the steps that leave every frame in place and only add to `possible_duplicates` (`TakeMessage`, `ResendMessage` and the quiet steps). `AllEqualCard` turns "all copies before p are the same position" into the property's `Cardinality(...) >= 2`.

**`ClientDupsProofs!DuplicateOnlyIfDeclaredHolds`: `Spec => DuplicateOnlyIfDeclared`.** This is an action property, proved from `DupInv`. `FwdOnlyByServer` shows that only `ServerForward(k)` changes `fwd`. That step appends the head of `c2s[k]`. If a copy of the same data id is already in `fwd`, the id is both forwarded and queued, so `AtMostOnce` fails. `SentOnce` then puts the id in `possible_duplicates` (lemma `DupStepDeclared`).

**`ServerTrackerProofs!TrackerSafety`: `Spec => [](TypeOK /\ SemaphoreAccounting)`.** It holds for every `max_clients` ≥ 1 and every number of clients (`TrackerAssumption`). The inductive invariant adds two facts:

- `Counting`: every accepted socket is queued, held by the tracker, or started. Without it, `TrackerStart` could not be shown to stay within the worker range.
- `StartedPrefix`: exactly the first `started` workers have been created. Without it, the new worker could already be counted as running.

The cardinality steps use `FS_AddElement` and `FS_RemoveElement`. `TrackerTypeCorrect` states the type part on its own.

**`DosMasRapidosProofs!FastestCorrect`: `Spec => []KeptAreFastest`.** It holds for all routes, durations of natural components, and stream lengths (`DosMasRapidosAssumption`). The inductive invariant is `KeptAreFastest` plus the types of `trajectory` and `processed`. The core is `ProcessRoute`: for a kept list `T` and history `P` with `KeepsFastest(T, P)`, the list `process` stores satisfies `KeepsFastest` for `Append(P, m)`. It splits on `Len(T)` = 0, 1, 2, and in the full case on whether `m` beats `T[2]` and on the order the sort restores (lemmas `AddToFullList`, `AddToSingleton`, `RangeAppend`).

**Only model-checked.** These stay with TLC:

- the client properties the runs find violated, which hold of no inductive invariant;
- `DosMasRapidos!TypeOK`: its `output` conjunct needs `Kept[n] \in Seq(Flight)` for every `n`, an induction over the recursive function `Kept`;
- every liveness property (`WaitEnds`);
- `FastestMatchesReference` (its reference uses `SortSeq`) and the codec properties (the codecs are recursive over bytes);
- anything involving ENABLED;
- what recursive definitions compute for every input, since TLAPS cannot instantiate the library's induction theorems or handle RECURSIVE operators.

## 5. Not modelled (yet) and plan

Planned order for the coming work:

1. **Client results phase.** RESULT / RESULT_EOF handling in the Receiver, and `__shutdown`.
2. **More liveness.** The client eventually finishes uploading under fairness (today only each wait ending is checked).
3. **Stage loop, duplicate catcher and EOF ring** (spec 4.4–4.6, modelled from the spec because the code is not under `src/`), using the `InternalCodec` envelopes. An abstract "stage consumed the stream" specification is refined by the ring.
4. **`max_avg`** against its definition.

Not modelled at all:

- the load balancer's md5 hash, which is replaced by an arbitrary function where needed;
- `ProcessedMessage.from_str`, which parses lines the Logger (not under `src/`) writes;
- configuration parsing, logging, health checks and the processors' `main.py` wiring, which are I/O only.
