# A TLA+ model of the StereoCamera module

The StereoCamera module is a C++ service between camera SDKs and clients. It
asks an SDK over HTTPS to capture data types, receives the frames over ZeroMQ,
buffers them, and forwards them to ZeroMQ subscribers and to WebSocket clients.
This directory holds TLA+ modules of its parts, TLC configurations that check
them on small instances, and TLAPS proofs for every instance.
`PROJECT.json` maps each definition to the lines it models.

## The system

```
 clients --HTTPS--> AdminServer x2 --> ClientHandler --> SDKSlotManager --HTTPS--> camera SDK
                                                             |  dealer thread  <--ZMQ SUB--+
                                                             v
                                       DataBuffer #1 + DataPipeline (3 SPSC queues)
                                                             |  pub_loop thread
                                                             v
                               ZMQ PUB  +  DataBuffer #2  +  WSServer encode queues --> WebSocket clients
```

| Component | State | Operations | Threads |
|---|---|---|---|
| SDKSlotManager | per camera: subscriber_count, active_types, active_channels, capturing, dealer_thread; running_ | start_capture, stop_capture, force_stop_all_captures, start_all, stop_all, dealer_loop | API workers, main, one dealer per capturing camera |
| ClientHandler | a session per client: connected, active_types, camera_id | connect, disconnect, start, stop, status, parameters | API workers of both admin servers |
| DataBuffer (#1 of the dealers, #2 of the WebSocket side) | a ring of frames per (camera, type) | push, readers, create, remove, clear | dealers, workers / publisher, client loops |
| SPSCQueue | 16 cells, two positions, max_depth_ | try_push, pop, size | one producer, one consumer, observers |
| DataPipeline, DataPublisher | three queues, a condition variable, counters, ZMQ sockets | start, stop, notify, pub_loop, publish_shutdown | dealers, publisher, main |
| WSServer | clients with subscriptions and send queues, encode queues, encoded images | accept, client, send and encode loops, broadcast, push_encode, stop | one accept, one encode, two per client |
| AdminServer | pending connections, workers | accept, worker_loop, stop | one accept, N workers |
| CameraSDKClient | none (HTTP requests with a 10 s timeout) | init, connect, start, stop, parameters | callers |
| ConfigManager, ParameterManager | configuration and parameters | load, save, sync, set, get | main, workers |
| Vision, Calibration, DataStorage, LoopbackSubscriber | | not reached by the service | |
| main | g_running | startup, shutdown in a fixed order | main |

What is hard in this code: thread handles that move out of a slot and are
joined outside the mutex while a new capture may start; a subscriber count per
call beside a set of types; handlers that release the session mutex between
their steps; queues without locks; ring indices at the wrap; condition
variables notified without their mutex; joins under a mutex in the WebSocket
server; a shutdown in several stages while requests are still served. The
`hazards` of `PROJECT.json` list each at its line.

What makes each part correct:

- **SDKSlotManager**: count, flag, handle and dealer agree; no thread is leaked
  or joined twice; active types keep their channel and slot; stops and the
  shutdown return.
- **ClientHandler**: what a client asked for is captured until it stops, and
  nothing is captured when nobody is connected.
- **SPSCQueue**: no data race, a bounded FIFO that rejects the newest frame.
- **DataBuffer**: each slot holds the last frames, and the readers see them.
- **DataPublisher**: every accepted frame is published in the order of its
  queue, messages are whole, and stop returns.
- **WSServer**: a closed client is cleaned up and nothing it used is freed
  early; stop returns; each subscribed client gets the newest frame, and none
  twice or out of order.
- **AdminServer**: each connection is with one thread or in the queue, and is
  answered.
- **Configuration**: a restart finds the parameters that were saved last.
- **Shutdown**: the configuration is synced, main returns, and no thread is
  left that uses what main destroyed.

## Modules

`X <- Y` reads "X extends or instantiates Y".

| Module | Models |
|---|---|
| `SDKSlotManager` | `src/src/data/SDKSlotManager.cpp` |
| `ClientHandler <- SDKSlotManager` | `src/src/api/ClientHandler.cpp` on top of the slot manager |
| `RingIndex` | the index arithmetic of both rings, and the facts about it |
| `SPSCQueue <- RingIndex, DropNewestQueue` | `src/include/stereo_camera/data/SPSCQueue.h` |
| `DataBuffer <- RingIndex, LatestFrames` | `RingBuffer` and `DataBuffer` |
| `DataPublisher <- LossyFeed` | the pipeline between the dealer and the publisher, `src/src/data/DataPublisher.cpp` |
| `WSServer` | the threads and connections of `src/src/data/WSServer.cpp` |
| `WSStream <- LossyFeed` | what they send: encoding, subscriptions, deduplication, send queues |
| `AdminServer` | `src/src/api/AdminServer.cpp`, one instance of each variable per server |
| `Shutdown <- SDKSlotManager, AdminServer` | the service until `main` returns: API servers, slot manager, ZMQ context, `src/src/main.cpp` |
| `Configuration` | `ParameterManager` and the parameter file of `ConfigManager` |
| `DropNewestQueue`, `LatestFrames` | what the queue and the buffer promise, without indices |
| `LossyFeed` | what every stage from the dealer to a client promises of the frames |
| `MC...` | instances for TLC: the values of constants that a cfg cannot write |
| `...Proofs` | the theorems |

Definitions whose comment is "mutant" are plausible bugs, each beside the
definition it stands in for; no specification refers to them. `PROJECT.json`
lists which property each one breaks.

### SDKSlotManager

`start_capture`, and `stop_capture` up to its join, hold `mutex_` from their
first access to their last, HTTP requests included: `StartCapture` and
`StopCapture` are one step each. `JoinDealer` is the join after the mutex is
released; the handles a thread took and has not joined are in `joining`, and a
thread that waits in a join calls nothing else. `stop_all` is three steps of
the main thread, because it clears `running_` before it takes the mutex and
joins after it released it. `force_stop_all_captures` is modelled although
`main.cpp` no longer calls it.

A dealer reads `running_`, then takes the mutex to read `capturing`, then
polls and receives; each is a step. `DealerSetup` may find no endpoint it can
connect, and the dealer then ends. A received message may carry any types: the
ids are not compared with the channel or with `active_types`, and each bundle
creates its buffer slot. A handle is the identity of a thread, so a slot that
is restarted while its former dealer is still running has two dealers.

Data left out: payloads, timestamps, logging, the text of requests. The state
of the SDK is the set of types it streams (external); a request may fail
(`SdkOutcomes`), which the code only logs. `start_all` only sends requests and
sets `running_`, so `Init` is the state after it. The second `stop_all`, from
the destructor at the end of the process, is a step of `Shutdown`.

### ClientHandler

Each worker handles one request. The step that updates the session is one
action (`HandleStartCapture`, `HandleStopCapture`, `HandleDisconnect`), then
`SetCamera`, `SdkStart`, `SdkStop` and `Respond` follow, so requests of all
clients interleave between the steps as they do in the code. `Discipline` says
what clients send: `"any"` request at any time, or `"paired"`, a client that
has one request in flight and starts and stops its own types in turn. The code
does not enforce the pairing; `CountIsSubscribers`, `SubscribedTypesStream` and
`NoOrphanedCapture` say what it gives to clients that keep to it, the second
only to those that share no type (`shared_type` shows why). `SessionTypeOK` and
`TypesOnlyWhileConnected` hold whatever clients send: their theorems do not
assume the pairing, the run does. Init, Dispose, CheckStatus and the parameter
requests change no state of the module and are left out.

### AdminServer and Shutdown

Everything but the handlers is in `AdminServer`: one accept thread and a pool
of workers per server, with the queue between them. A handshake stays with the
accept thread, `SSL_accept` having no timeout, and a read with its worker: a
peer that falls silent (`FallsSilent`) holds its thread. A worker takes a
connection from the queue whether or not the server still runs, so the queue is
served after `stop` cleared `running`; what the accept thread queues after the
workers have left stays. A start that fails (`MayFail`) leaves a server without
threads, which `main` only logs.

`Shutdown` extends the slot manager, whose callers are the workers, and
instantiates `AdminServer`. A request is one of `Start`, `Stop`,
`OtherCommand`, or `RouteThrows`: a parameter request without a JSON body
throws out of `worker_loop` and ends the process. Which client asked, and the
session, are in `ClientHandler`. `main` goes through `phase`: it stops the
dealers, terminates the ZMQ context, which waits for every socket
(`OpenSockets`), syncs the configuration, stops the API servers one after the
other, and returns, which calls `stop_all` again from the destructor. The API
servers serve requests until their own stop, so a dealer may be started after
the first `stop_all`: one that opens its sockets before the context is
terminated leaves `zmq_ctx_destroy` waiting, one that comes later gets a NULL
socket. The stops of the WebSocket server and of the publisher come first;
`WSServer` and `DataPublisher` say when they return, and here they do.

### SPSCQueue

An action is one access to shared memory. A release store of a position and the
acquire load on the other side order the accesses to the cells, which is why
they may be interleaved in program order. A side is the only writer of its
position, so reading it and loading the other's position is one step. `item`,
`pushed`, `out`, `popped` are the argument and results of the calls.
Positions are naturals; 2^64 frames do not occur in the lifetime of a process.
The copying and the moving `try_push` differ only in what happens to the
argument. The refinement mapping `Queue` reads the cells between the two
positions; a frame being popped counts until `read_pos_` is stored, which is
when its place is free again.

### DataBuffer

Every operation holds the buffer's mutex, so each is a step. The number of
frames is the configured depth rounded up to a power of two
(`NextPowerOfTwo`): the default of 3 gives rings of 4. The refinement mapping
`Recent` reads the cells between the positions of each ring.

### DataPublisher

The dealer pushes, counts and notifies in three steps; `pub_loop` tests the
predicate of its wait, blocks, and is woken by a notification that finds it
blocked or by its timeout. A notification in between is lost, since `notify`
does not take `cv_mutex`. A queue is the sequence of its frames, which
`SPSCQueueProofs` justifies, and a frame is its number. `taken`, `wire`, `fed`
and
`before` are histories: what was popped, what each socket carried part by
part, what the callback got, and how much was popped before it was set.
`main` starts the publisher, sets the callback while `pub_loop` is running,
sends the shutdown notice and stops. During the assignment of the callback
`pub_loop` may find it empty, or set without a function to call, which ends the
process (`pub = "crashed"`). A spurious wakeup only tests again and is left
out; `pipeline->running` is never read. One camera is configured, so there is
one producer. The refinement mapping to `LossyFeed` takes what the dealer
received as produced, the frame between pop and callback as the one in hand,
and the last frame of `fed` as delivered.

### WSServer

Locks are variables here, because they are held across joins
(`clients_mutex_`) and across reads and writes on the network (`send_mutex`).
`accept` walks through `accept_loop`, `loop` and `send` through the two threads
of a connection, `main` through `broadcast` and `stop`; `cursor` is the
iterator of whoever holds `clients_mutex_`. Each call of the TLS library that
waits for the peer is a step of its own, between taking and releasing the
mutex it is made under: the handshake, the greeting, a frame read, a frame
sent, the write of the broadcast, the shutdown. `Users` are the threads in such
a call. The sockets have no timeouts, so a peer may fall silent in any of them
(`FallsSilent`), and the thread then stays there for ever. Otherwise a
handshake may fail and be tried again, a frame be a close or cut off, a send
fail. Reading a frame allocates the length it announces outside of any
`try`: the exception ends the process (`Crashed`).

What is sent is left out: whenever a send is possible there may be a frame.
Whether a client that leaves makes its report depends on the total of frames
modulo 500 and is a free choice. When `stop` has closed the listening socket,
`accept_loop` may use -1 in `FD_SET`, which ends a fortified build
(`accept = "crashed"`). `encode_loop` only waits with a timeout, so nothing of
it has to be known to join it.

### WSStream

One peer after the other is served, by a `client_loop` and a `send_loop` with
one entry per type in its send queue. `Feed` is the callback of the publisher:
a bundle goes into the ring of its type and, an image, into the encode queue.
The code takes a bundle for sent, or for encoded, when its address is that of
the last one; so a bundle here is a frame number and an address, and an
allocation takes a fresh address or one that a pointer still remembers and no
reference holds (`Allocated`). `lastSent` keeps, beside the address that the
code compares, the number of its frame as a history, and `wire` is the number
of the last frame of each type that the peer got. A peer subscribes to a topic,
to everything, or sends what is no JSON, which subscribes it to everything.
Frames without an image, which `encode_loop` takes and discards, are left out of
its queues; those of the 2D group take room in the queue of the images, so an
image may be refused however few of them are queued. `send_loop` looks at its
condition before it waits, so it may take one more item after the session was
closed (`waiting`). Payloads, frame ids and the reports are left out. The mapping to
`LossyFeed` takes `sending` as the frame in hand and `wire` as delivered, and a
new session as a new receiver. What the publisher's feed delivers is what this
one calls produced: it is the same callback.

### Configuration

One process after the other lives with one file. `Start` is the load of
`main`, `SaveOpen` the truncation that opening the stream does, `SaveWrite` and
`WriteFails` the write, whose failure nobody notices; `End` may come at any
step and is a crash while `process = "saving"`. `Edit` is a change of the file
by hand while the process is down. A value has a field per type, of which one
is written; an item of a type that is none leaves the type of its parameter
uninitialised. A parameter without a type is written without a value, and a
float that is not finite as `null`; `from_json` rejects both (`Lost`), which
hides all items after them. The service cannot get such a float into a
parameter, but `define` and `set` take any. `kept` is a history: what
was saved last while the file still says so. In the service only the load
defines parameters: `handle_set_parameter` sends a request to the SDK and does
not reach `ParameterManager`, although `data_module.md:92` has parameters
updated there. `Define` and `Set` model the class itself.

## Runs

| Run | Checks | Shows |
|---|---|---|
| `sdk_slots` | 5 invariants, 1 action property | the bookkeeping of a slot under all interleavings |
| `client_contract` | 5 invariants | what paired clients without a common type can rely on |
| `spsc_queue` | 2 invariants, 1 refinement | the queue is race free and a bounded drop-newest FIFO |
| `data_buffer` | 2 invariants, 1 refinement | the rings hold the last frames and the readers see them |
| `publisher` | 4 invariants, 2 liveness properties, 1 refinement | no accepted frame is lost, torn or out of order from the queues to the sockets and the callback; the pipeline is a lossy feed |
| `ws_server` | 2 invariants, 2 liveness properties | TLS sessions are used by one thread at a time and freed last, and what alone can hold up clean-up and stop |
| `ws_stream` | 2 invariants, 1 liveness property, 1 refinement | a peer gets the newest frame of what it subscribed to, none twice or out of order, and what address reuse costs |
| `shutdown` | 3 invariants, 3 liveness properties | connections have one owner and are answered; the shutdown syncs, ends and leaves no thread, and what alone can hold it up |
| `configuration` | 1 invariant, 1 action property | a restart finds what was saved last, and what alone can lose it |
| `dealer_restart` | violated: `ReleasedDealerStops` | a restart revives the dealer that is being joined |
| `shared_type` | violated: `SharedTypesKeepStreaming` | one client's stop ends a type for the others |
| `ws_cleanup` | violated: `DisconnectedErased` | a client's report and its clean-up wait for each other |

### Bounds

- `sdk_slots`: one camera (slots share only `running_` and the mutex), three
  types of which two share a channel, two workers and the main thread, two
  dealer identities, so one dealer can be waiting to be joined while its
  successor runs, and two subscribers, the smallest number with a partial stop.
  SDK requests may fail, which must not disturb the bookkeeping. 1.1 million
  states.
- `dealer_restart`: one type, requests may fail, no symmetry.
- `client_contract`: two clients, two workers, three dealers. `gui` asks for
  the default types, spelt out or as an empty list, `viewer` for a type on the
  channel of one of them. `MaxSubscribers = 3` is never reached by two clients.
- `spsc_queue`: capacity and depth 4, seven pushes: the write position passes
  the end of the ring, and the queue is full in every rotation of it that
  fits. The depth equal to the capacity is the tightest case. The 16 cells of
  the code are covered by the theorems.
- `data_buffer`: two slots of one camera, rings of four and six pushes into
  each before it is cleared, two distinguishable frames.

- `publisher`: two of the three channels (the drain loops are the same for each),
  queues of two frames and three frames in all: enough for a rejected frame, two frames of
  one queue in order, and frames of both queues in one round.
- `ws_server`: two connections, so that one is cleaned up while the other runs
  and the list becomes empty, and one is silent while the other is to be
  erased; a connection that comes back is a new one. About 356 000 states.
  `ws_cleanup` needs one.
- `ws_stream`: two images and three IMU samples into rings of one, encode queue
  of one: every push evicts or is refused, so addresses are reused, and three
  samples are one sent, one being sent and one waiting. About 260 000 states.
- `shutdown`: one camera and type, two servers with one worker and one
  connection each, so that one serves while the other stops; two dealers, one
  of them started during the shutdown; one subscriber, since a partial stop is
  the subject of `sdk_slots`; API 2 may fail to start. About 159 000 states.
- `configuration`: two parameters, so that one may hide the other in the file,
  of two types with one bit per field, that of the float being finite or not,
  and two combinations of the flags.

Dealer and worker identities are symmetric in the safety runs.
Deadlock is checked except where the process, or what it is fed, ends within
the model: in `publisher`, `ws_server`, `ws_cleanup`, `ws_stream` and
`shutdown`.

### Fairness

Only the runs with liveness properties assume fairness. For the slot manager
(`dealer_restart`, `shutdown`) it is weak fairness of what the operating system
schedules: each dealer's next step (its waits are bounded by 100 ms timeouts),
a join whose thread has ended, and the main thread once it is in `stop_all`.
The mutex is free infinitely often for the dealers because requests to the SDK
time out; it is not modelled as a lock, since the sections it protects are
single steps.

In `shutdown` the threads of the API servers and `main` are scheduled too, and
a peer that is not silent gets on with its handshake or request; nobody has to
connect, to ask for anything or to send the signal, and a silent peer may stay
so for ever. Its properties name what the code does not exclude, and each
exception is needed: `Silent`, a peer that holds a thread; `StopHangs`, a stop
whose dealer was revived; `CapturingAgain`, a capture started after `stop_all`
marked the slots, which `main` waits for in a join or in `zmq_ctx_destroy`.
In `ws_stream` the loops are scheduled and the peer reads; `Aliased` is the
exception there, a frame at the address of the one sent last.

In `publisher`, `pub_loop` and `main` are scheduled and timeouts expire; the
dealer owes nothing, not even the notification after a push. That a dealer which
is never slower than `pub_loop` starves the other queues and `stop` is excluded
by `MaxFrames`, not by the code.

In `ws_server` and `ws_cleanup` each thread is scheduled,
except that no thread need find a frame to read or to send, and nothing is
assumed of the peers. Strong fairness is that of `main` alone: it takes
`clients_mutex_` and the `send_mutex` of each client although `accept_loop` and
the loops keep taking them, and they sleep, or wait in `select`, between two
holds. The exceptions are `Hung`, the process has ended or a client's report meets
its own join, and `HeldBySilentPeer`, the thread that must act waits for a peer
that will not answer: `accept_loop` in a handshake, `main` in its broadcast to
that peer, or whichever of them closes the connection of that peer. `ws_cleanup`
shows that the first is needed; the second is, since without it TLC finds
`StopReturns` and `ClosedConnsErasedUnlessHung` violated by one connection. What
is left to the properties is that nothing else holds up the clean-up or the stop, a peer that is silent on a
connection of its own in particular.

## Proofs

All theorems hold for every value of the constants that satisfies the `ASSUME`s
of the modules; TLC evaluates these for the instances.

- `ServiceProofs`, the slot manager: `IndInv`, the conjunction of the types,
  `CapturingIffSubscribed`, `HandleIffCapturing`, `EveryDealerHasOneOwner` and
  `MainJoinsAfterMark`, is inductive. The conjuncts need one another: that a
  start finds the handle empty follows from the flag and the count, that a
  stop's dealer is in no other hands from the owners, and that `stop_all` may
  overwrite what the main thread is joining from `MainJoinsAfterMark`, which no
  other conjunct gives. `DealerLifecycle` is an action property from the same
  invariant. `ActiveTypesServed` is preserved by itself: a stop
  drops a channel only when no type of it is left active.
- `RingIndex` holds its own few: positions less than a capacity apart pick
  different cells (`CellsDistinct`), by the division theorem; and sequences as
  functions.
- `SPSCQueueProofs`: `IndInv` adds to the depth what the sides rely on between
  their accesses: published cells hold frames, a popper has found one, a
  publisher has written its cell. Freedom from races follows from
  `CellsDistinct`; `Refinement` maps `PushPublish`, a rejected `PushLoad` and
  `PopAdvance` to `Push`, `Drop` and `Pop` and every other step to a stutter.
- `DataBufferProofs`: `IndInv` is the types and `RingsOK`; that readers return
  the newest frames and that every operation is one of `LatestFrames` follow.
  The step that matters is `PushEvicts`: a push to a full ring is `Append` to
  the `Tail`.
- `ServiceProofs`, the two modules that extend the slot manager: both carry over
  its invariant. For `ClientHandler`: `SessionTypeOK` and
  `TypesOnlyWhileConnected` under any discipline; under `"paired"`, `PairedInv`
  adds to the slot manager's invariant that a client has one request at a time,
  that its session shows what the request will do and that both name all of its
  types or none; with these each step of a request changes the count and
  `Subscribed` alike. `StepOfOneClient` reduces a step of a worker to its
  client. If no type is shared (`NoTypeShared`), the active and the streaming
  types are those of the subscribed clients, which gives `SubscribersAreServed`;
  `NothingIsOrphaned` needs no such assumption. For `Shutdown`: `ServiceInv` is
  the invariant of the slot manager, that of `AdminServer` (`API!IndInv`) and
  how far `main` has got: that a worker which joins a dealer is in a request,
  that `main` has joined what it took, that the servers are stopped from the
  destructors on and so nothing is started after the second `stop_all`.
  `NothingLeftAtExit` follows.
- `DataPublisherProofs`: `IndInv` is six invariants, each on those before.
  `PubInv`, the types and that a frame in hand was taken; `OrderInv`, that what
  is on its way was numbered before the next frame; `CountInv`, that the
  counters of `check_status` add up: frames are counted as a set of
  (channel, number) pairs, so that one more frame is one more element
  (`OneMoreFrame`); `WireInv`, that a header ends the wire of a socket only
  while its payload is due, and that notices come after the service: a notice
  then never parts a message, because `main` and `pub_loop` take turns on
  `sockets_mutex_`; `CarryInv`, that, notices aside, the k-th part on a socket
  is the k-th part of the messages taken from its channel, but for the parts
  that are due; `FedInv` for the callback. `Refinement` maps a pop to `Take`
  and the call of the callback to `Deliver`, or to `Lose` while it is not set;
  a popped frame is newer than the last one fed because what was fed is a
  suffix of what was taken (`FirstInQueueIsNewer`).
- `WSServerProofs`: `IndInv` says who holds `clients_mutex_` across steps and
  that each `send_mutex` is held by the thread that is in a call under it
  (`SendMutexHeld`), that `accept_loop` has ended before `main` closes, that a
  connection is listed once and open until the listing thread frees it, and
  that `send_loop` is joined before `client_loop`. `FreedLast` is one of its
  conjuncts; that a TLS session has one user at a time (`OneUser`) follows from
  the owner of the `send_mutex` while the threads run, and from `NotStarted` and
  `ShuttingDown` before and after.
- `WSStreamProofs`: `FramesInOrder` is not inductive. What makes it so is the
  way of a frame: images reach `encode_loop` and leave it in the order of their
  numbers (`EncodeOrder`), the last one queued for a peer is never newer than
  what is shown, and only the same bundle has its number (`SentOrder`), and
  nothing on the way to the peer is newer than the last one queued
  (`PathOrder`). So a bundle at another address than the last one is newer,
  and the comparison of addresses never lets an old one through. A lemma about
  the recursive function `Others` says that taking a type out of a queue leaves
  the rest in order; it is an induction over the positions, by a well-founded
  minimum (`SetInduction`). `Refinement`: what is popped from a send queue was
  produced (`SentWasProduced`) and is newer than what the peer has.
- `ConfigurationProofs`: `FileKeeps` says what a file that was saved and not
  touched holds: one item for each parameter saved, with its type, flags and
  value, and none that stops a load. `WriteIndInv` is the step that matters: any
  order of the hash map has each parameter once (`OrderOfSet`, by cardinality).
  That a load gives each of them back (`FileGivesContent`) proves
  `RestartKeepsParameters`.

Every safety property that a passing run checks, and every refinement, is
proved; so are `DepthRespected` and `RingsOK`, which the runs leave to the
refinements that imply them. Only model-checked: the liveness properties, which are out of the
prover's reach, and the three runs that expect a violation. Counting goes
through sets and their cardinality, and recursive functions through
`SetInduction`, because the library's induction
theorems take an operator as a parameter, which the provers cannot instantiate.

## Findings

With a run:

1. `SDKSlotManager.cpp:200` (`dealer_restart`): a start between a stop and the
   dealer's next look at `capturing` leaves two dealers, both pushing to a
   single-producer queue and each with its own connection to the SDK, and the
   stop's join hanging.
2. `SDKSlotManager.cpp:150` (`shared_type`): a type two clients receive is
   stopped by the first of them to stop.
3. `WSServer.cpp:556` (`ws_cleanup`): a client that leaves when the number of
   frames sent is a multiple of 500 locks `clients_mutex_` to log it;
   `accept_loop`, or `stop`, holds that mutex while joining this very thread.
   The server then never accepts, cleans up or stops again.

Met while reading, without a run of their own:

- `SDKSlotManager.cpp:191`: captures stop per call, not per data type as
  `design.md:258` (C7) has it; `CapturingIffSubscribed` states what the code
  does.
- `ClientHandler.cpp:57`: a repeated start counts twice and a disconnect once,
  which leaves a capture for nobody; the clean-up that `main.cpp:133` describes
  is no longer there. `Discipline = "paired"` excludes it.
- `main.cpp:163`: a capture started during the shutdown keeps
  `zmq_ctx_destroy` waiting, and the configuration is not synced although
  `design.md:171` says so. `ConfigSynced` names this exception.
- `WSServer.cpp:128`: `broadcast` waits, with `clients_mutex_` held, for the
  `send_mutex` of each client, which is held while a frame is read or written
  without a timeout. A client that stops in the middle of a frame keeps `main`
  there: the shutdown that `main.cpp:153` begins never gets to `stop`,
  `stop_all` or `sync`. A peer that is silent in its handshake
  (`WSServer.cpp:205`) keeps `accept_loop` from erasing and accepting anybody,
  and `stop` from returning. `HeldBySilentPeer` names both.
- `WSServer.cpp:313`: the memory for a frame is allocated, at the length the
  frame announces, outside of a `try`: a refusal ends the process (`Crashed`).
- `DisparityMap.cpp:107`: the sign of the sub-pixel correction is the opposite
  of the parabola's minimum. This code is not called by the service.

## Not modelled

- `load_app_config` (`ConfigManager.cpp:61`) copies fields of `config.json` once
  at start. The integers of its API structures have no initialisers, so a file
  or a section that is missing leaves ports and worker counts undefined; the
  models take what is configured (depths, servers, workers) as constants.
- `CameraSDKClient`: its requests are steps of the slot manager that succeed or
  fail; the client keeps no state between them.
- `Vision` and `Calibration` are pixel and floating-point arithmetic, out of
  TLC's reach and not called by the service.
- `DataStorage` and `LoopbackSubscriber` are not part of the running service.
- TLS, HTTP, JSON and WebSocket framing, JPEG encoding, logging, the scripts and
  the stress tests.

The composition of all components in one module would multiply states that meet
only in a queue or a callback; the interfaces (queue frames, `Feed`, the calls
of `ClientHandler`) are the same on both sides instead.
