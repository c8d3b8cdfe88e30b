# A TLA+ model of Net Service Pump

Net Service Pump is a client and a server that keep a TCP connection to each
other through asio, exchange a handshake, and then send each other echo requests
about sixty times a second. This directory holds TLA+ modules of that program and
of the parts of asio it stands on, TLC configurations that check them on small
instances, and proofs for TLAPS.

The modules follow the code under `src/`; `PROJECT.json` names, for each
definition, the lines it stands for.

## 1. Inventory

| Component | Source | State | Operations |
|---|---|---|---|
| Wire format | `shared/socket_types.*`, `socket_packet.*` | none | encode a packet; decode a header, a CharEcho |
| Byte stream | `shared/bytestream.hpp` | a `stringstream`, its positions, its failbit | `<<`, `>>`, `buffer`, `count`, `clear` |
| Byte order | `shared/socket_utils.*` | the static `isLittleEndian` | `NetCheckLittleEndian`, `FlipEndian`, `CheckOpcode` |
| Connection | `shared/socket_connection.*` | socket, `connected`, `ready`, `out_data`, `send_buffer`, `recv_buffer`, `nextLen`, `recv_packet`, service handlers | `Tick`, `Send`, the read handlers, `handle_write` |
| Echo service | `shared/services/echo_service.*` | none | `HandlePacket` |
| Client | `client/*` | `pktcount`, the resolver's iterator | `Connect`, `handle_resolve`, `handle_connect`, `GenerateEchoRequest`, the main loop |
| Server | `server/*` | `clients` (raw pointers), acceptor, `pktcount` | `start_accept`, `handle_accept`, `start`, `~ServerConnection`, the main loop |
| asio: resolver | `asio/detail/impl/resolver_service_base.ipp`, `resolve_op.hpp` | a thread with an `io_service` of its own | `async_resolve`, `shutdown_service` |
| asio: io_service | `asio/detail/impl/task_io_service.ipp`, `posix_event.hpp` | the queue of operations, `outstanding_work_`, `stopped_`, the event threads wait for | `run`, `poll`, `post`, `stop`, `work` |
| asio: reactor | `asio/detail/impl/epoll_reactor.ipp` | the `descriptor_state`s with an operation queue each per kind; in the kernel, edges | register and deregister, `start_op`, `run`, `perform_io` |
| asio: async_write, async_read | `asio/impl/write.hpp`, `read.hpp` | how far a transfer has come | the chain of sends or receives |

How they interact:

* Both `main`s are one thread in a loop: `io.poll()`, then `Tick` and
  `GenerateEchoRequest` for every connection that is up, then 15 ms of sleep. All
  handlers run inside `poll()`. Concurrency is between the two processes, the
  kernels, *between the asynchronous operations of one connection*, which
  outlive the call that started them, and between the client's main thread and the
  resolver's.
* `Send` appends to `out_data`; `Tick` moves all of `out_data` into
  `send_buffer` and starts an `async_write` of it. An `async_write` is a chain of
  sends; between two links of the chain the main loop, and the next `Tick`, may run.
* The read side is a state machine driven by `nextLen`: handshake, header,
  body, header, ... Every handler that wants the connection to go on starts the
  next `async_read` itself.
* A `ServerConnection` is owned by the `shared_ptr`s bound into its pending
  handlers only; the server's list has raw pointers, and the destructor takes the
  object off the list.
* `isLittleEndian` is one static, shared by all connections of a process.
* The client's request to resolve is work for two `io_service`s at once; the
  operation crosses to the resolver's thread and comes back.
* The reactor is itself an operation in the `io_service`'s queue; whoever takes
  it runs `epoll_wait`. A `descriptor_state` with events is put in the same queue.

What is hard: overlapping writes and the lifetime of `send_buffer`; lengths that
are subtracted in `size_t`; handlers that return without starting the next read;
a stream whose failbit nothing clears; object lifetimes tied to outstanding
operations; a list that is walked, extended and shrunk by different parties; an
`io_service` that stops when it runs out of work, and the count it does so by;
exceptions that leave `poll()`; one flag for connections of different byte orders; edges
that are told once; descriptors and states that are used again while events of
their former owner are queued; wakeups that may be lost. `PROJECT.json` lists these
hazards with their lines and the properties that look at them.

What makes each part correct: packets arrive in order, once and unaltered
(connection, wire format); each request is answered with its own text (echo
service); endpoints are tried in order until one takes the connection (client); the
list is exactly the live connections, none is leaked, an accept is always
pending, a lost client goes away (server); numbers are read as they were meant (byte
order); the count of work is exact, no operation is lost or run twice, and no
wakeup or edge is missed (asio).

## 2. Modules

| Module | Models |
|---|---|
| `Packets` | the wire format in cells, as operators: encoding, what a received cell may decode to, the opcode check, the length arithmetic |
| `Connection` | one link: both Connection objects, both main loops, both kernels' buffers, the asio write and read operations |
| `PacketChannel` | abstract specification of a link: two FIFO channels of packets and an echo per delivered request |
| `Server` | the accept loop, the list, object lifetimes, the way out of `main` |
| `Endianness` | the handshake's verdict and the flag of one process with several connections |
| `Client` | resolving in the other thread, the connect loop, the client's `io_service` running out of work, the way out of `main` |
| `ByteStream` | the stream, as operators |
| `Codec` | one direction of a link byte by byte, through the streams it reuses |
| `IoService` | `task_io_service` with several threads |
| `Executor` | abstract specification of an `io_service` |
| `Reactor` | `epoll_reactor`, its `descriptor_state`s, the kernel's edges, one polling thread |
| `MCConnection`, `MCEndianness`, `MCClient`, `MCCodec` | constants, symmetry and constraints for TLC; the others are checked as they are |
| `ConnectionProofs`, `StreamProofs` | theorems about `Connection`, the second on top of the first: types; the stream of cells, then packets, echoes and the refinement |
| `CodecProofs`, `ServerProofs`, `EndiannessProofs`, `ClientProofs`, `ReactorProofs`, `IoServiceProofs` | theorems about the module of that name |

`Connection` extends `Packets` and refines `PacketChannel`; `Codec` extends
`ByteStream`; `IoService` refines `Executor`. The rest meet where one's
assumption is the other's property: `Client` and `Server` end where `Connection`
begins, and use a count of work that `IoService` and `Reactor` show to be exact.

Operators with a comment "defective variant" are not part of any
specification. Each changes the definition that follows it the way a bug would;
they are there to show that the properties notice.

### Packets and Connection

Length is counted in **cells**: a handshake is one cell, a header one cell, a
CharEcho body two (its `string_length`, its text). Cells are the smallest unit in
which a send or receive can be split, so all splits between the parts of a frame
occur and splits inside a header do not (the read side never looks at a part of
one: `transfer_exactly` hides them). A cell carries the packet it belongs to,
which is the opcode and the number in the text; numbers go up to `MaxRequests`, and 0 is
a text no endpoint wrote.

| Variable | In the code |
|---|---|
| `phase` | "poll": inside `io.poll()`; "tick": the rest of the loop; "exit": `main` has returned; "gone": the ServerConnection is destroyed |
| `stopped`, `connected`, `ready`, `nextLen`, `out_data`, `pktcount` | of the same name |
| `sock` | the socket is not yet up, open, closed |
| `write_q`, `posted` | `op_queue_[write_op]` of the descriptor; completions of writes waiting in the `io_service` |
| `net` | what one side has handed to its kernel and the other has not received |
| `rd`, `recv_buffer` | the outstanding `async_read`, by its handler, and what it has got so far |
| `recv_header`, `failed` | `recv_packet`'s header and the failbit of its stream |
| `sent`, `dispatched`, `overlapped` | history |

| Action | In the code |
|---|---|
| `Start` | `ServerConnection::start`; the success branch of `handle_connect` |
| `RunWrite` | `write_op::operator()`: the next send, or `handle_write` |
| `WriteReady` | the reactor performs a queued send |
| `ReadHandshake`, `ReadHeader`, `ReadMsg` | the three read handlers, with everything they call: `close`, `receive_next_packet`, `parse_packet`, `HandlePacket`, `Send` |
| `ReadPart` | `read_op`: bytes arrived, not enough |
| `ReadStall` | `handle_read_msg` with a full buffer that is not `nextLen` bytes |
| `Throw` | reading the text throws; the exception leaves `poll()` and `main` |
| `ReadFail` | any read handler after an error |
| `Destroy` | `~ServerConnection` when the last handler is gone |
| `EndPoll`, `MainTick` | `poll()` returns; the rest of the loop (`Tick`, `GenerateEchoRequest`) |
| `Cut` | the environment resets the connection |

Two places are undefined in the code and nondeterministic here. A send whose
buffer was freed transmits what was there or junk (`Fetched`). Bytes that are not a
header, or not a length, are read as any member of `GarbledSizes`, any tag and
opcode, or any outcome of reading the text (`HeadersRead`, `EchoReads`).

### PacketChannel

`sent`, `dispatched`, and a set of `faulty` directions, out of which anything may
come. `Connection` refines it with `faulty <- overlapped`: what an overlapping
write does to the stream is the one thing that separates the link from a reliable
channel.

### Server

`live` are the existing objects; an object lives while it is `accepting`, in
`reading`, or has `writes`. `Release` is the end of a handler: if the handler's
`shared_ptr` was the last, the destructor runs and takes the object off `clients`.
`TickNext` is one turn of the loop over the list. After an exception
`DestroyServer` and `DestroyIo` are the destruction of `main`'s locals, in
reverse order of declaration. Addresses are reused, as an allocator would.

### Endianness

Numbers are byte pairs written in the sender's order and read in `Native`, with
`FlipEndian` when the flag says so. A connection may end and another remote, of
either byte order, take its place.

### Client

`Connect` is two steps of `main` (start the thread, post the request), between
and after which the resolver's thread runs: `ThreadRun`, `ThreadTake`,
`ThreadResolve`, `ThreadReturn`. `work` and `threadWork` are the two
`io_service`s' `outstanding_work_`; `Handled(n)` is the end of a handler of `main`'s
that has started `n` operations, which takes its own off and stops the service
when none is left. `StartConnect` is `async_connect` with the next iterator bound into
its handler; whether the socket can be opened, and for which family it is open
already, decides with the endpoint's `up` what comes of it. `ep = End` is the
default-constructed iterator, which the code compares with.

The way out is by an exception only (`HandlerThrows`): `ShutdownResolver` and
`Join` are the destruction of the resolver service.

### ByteStream and Codec

A stream is its characters, two positions and the failbit. `Set` is `str()`, which
resets the positions and not the failbit; `Count` of a failed stream is -1 in
`size_t`; `Push` and `AfterPull` are `<<` and `>>` of a value of some width.

`Codec` follows a text from `Send` through `out_data`, the wire, `in_data` and
`recv_packet` to the service. `packet_size` has two digits of base `Base` for its
16 bits, and the subtraction is modulo `SizeMod`. `Taken` and `Arrived` are an
`async_read` of `n` bytes into a `recv_buffer` that may be smaller. `string_length`,
which is 64 bits wide, is one cell: it holds every length, and a misread one
never makes `HandlePacket` throw here; that case is `Throw` in `Connection`.

### IoService and Executor

What a thread does while it holds `mutex_` is split where it matters and atomic where
nobody can see the difference; `outstanding_work_` is changed outside the
mutex, as in the code. `pc` says where each thread is:

| `pc` | In the code |
|---|---|
| "enter", "idle" | before `run()`; between two calls of `poll()` |
| "lock", "loop" | waits for `mutex_`; holds it, at the head of the loop of `do_run_one`, `do_poll_one` |
| "wait" | in `wakeup_event_.wait` |
| "task", "reinsert" | in `task_->run`; in `~task_cleanup`, before the mutex |
| "polled" | `do_poll_one` after the task |
| "handler" | in a handler; `Continue` is a `post` from there, into the thread's private queue |
| "last", "flush" | in `~work_cleanup`: `stop()`; the private queue, before the mutex |
| "empty", "ask" | about to call `stop()`: from `run()` without work; from outside |

`counted` are operations that `work_started` has counted and no queue has yet;
`ready` those of them whose event the reactor has. `Runner`s call `run()` once,
`Poller`s `poll()` again and again, `Owner` holds the work object. NSP's own two
services are instances with one poller and no runner (main) and one runner (the
resolver's thread); the model has both and more.

`Executor` is what users rely on: an operation that has been counted runs at
most once, and the service stops only when asked, or when there is neither work
nor a work object. `Todo`, the refinement mapping, is what is counted, ready,
queued or private.

### Reactor

One thread polls and runs handlers. A handler, or `main` between two polls, may open and close
any socket and start any operation: `Open`, `Close`, `StartOp`, `StartOpClosed`. The
kernel's side is `Arrive` (data), `Drain` (room), and `edge`, epoll's ready list.

| Variable | In the code |
|---|---|
| `fd`, `data` | a socket's `socket_` and `reactor_data_` |
| `opq` | `op_queue_` of each `descriptor_state`, by kind |
| `out` | `registered_events_` has `EPOLLOUT` |
| `mask` | `task_result_`, the events the state is told; `EPOLLERR` and `EPOLLHUP` are not modelled |
| `queue`, `work`, `stopped` | of the `io_service` |
| `made` | history: socket, descriptor and kind each waiting operation was started with |

`Open` takes the lowest free descriptor, as POSIX demands, and any state of the
pool, so both are used again as soon as possible. `Close` leaves the state in the
`io_service`'s queue if it is there, as the code does. `StartOp`'s `speculative` is
the argument `start_op` is called with: true for reads and writes, false for connect
and accept. `RunTask` is `epoll_wait` and the queueing of the states it returns;
`RunState` is `perform_io` and, for the first operation that finishes, the call
of its handler. `out`, `mask` and `made` are reset where the code leaves a
value nobody reads any more.

## 3. Runs

| Run | Configuration | Instance | States | Shows |
|---|---|---|---|---|
| clean | `Clean.cfg` | kernel of 2 cells, 2 requests per side | 939,050 | `EchoIntegrity`, `HealthyLink`, `ImplementsChannel` while no write has overlapped |
| overlap | `Overlap.cfg` | kernel of 3 cells, 1 request per side | 1,098,550 | `TypeOK`, `InOrder`, `StreamIntact`, `ClosedIsFinal` while one direction has had no overlap |
| live | `Live.cfg` | as overlap, fair | 20,193 | `EchoAnswered`, `LostClientRemoved` |
| server | `Server.cfg` | 4 addresses, 3 arrivals, 2 writes, fair | 237,582 | `TypeOK`, `ListExact`, `Owned`, `AcceptOutstanding`, `LostRemoved` |
| endianness | `Endianness.cfg` | 3 connections, 3 packets | 35,208 | `TypeOK`, `ReadsRight` |
| client | `Client.cfg` | all answers of 1 to 3 endpoints of 2 families, 2 writes, fair | 7,244 | `TypeOK`, `TriedInOrder`, `WorkExact`, `StopJustified`, `ReachableIsReached`, `ExitCompletes` |
| codec | `Codec.cfg` | 9 texts, 3 sent, fair | 14,392 | `TypeOK`, `PrefixIntact`, `StaysReadable`, `FittingArrive` |
| ioservice | `IoService.cfg` | 2 runners, 1 poller, the owner, 2 operations, fair | 74,969 | `TypeOK`, `WorkExact`, `TaskOnce`, `ImplementsExecutor`, `QueuedRuns`, `StopEndsRuns` |
| reactor | `Reactor.cfg` | 2 sockets, descriptors, states and operations, fair | 580,552 | `TypeOK`, `WorkExact`, `OnePlace`, `QueuedOnce`, `Attached`, `NoMissedEdge`, `HandlersRun` |

Each of the remaining configurations has one property, which a comment or document
of the repository states and the code does not keep; section 6.

**Bounds.**
*Connection.* `MAX_PKT_LEN = 2` cells is one body, so a longer `nextLen` exceeds the
buffer. `SizeMod = 8` lets the subtraction wrap to a value above the buffer. The
garbled sizes are: below the header (wraps), exactly the header (no body), and one
cell of body (too short for a CharEcho); wrapping also supplies the too-long one.
`SndCap = 2` is less than a frame: no frame is ever sent in one piece. With 3, a
handshake and part of a frame, or one whole frame, fit, so that sends of whole and
of part frames both occur. One request per side gives up to two frames each way (its
request and its response); two requests let a response be batched with a request
and let a stalled write meet two later `Tick`s.
*Server.* An address is needed for each of three arrivals and one for the pending
accept; four are enough for that and few enough that an address is reused as soon
as its object is gone and another client comes.
*Client.* Three endpoints are a first, a middle and a last one; two families, of
which the host may have none, one or both, make a socket of the wrong family
possible; two writes are one outstanding while another starts.
*Codec.* With `Base = 4`, `packet_size` wraps at 16; `MAX_PKT_LEN = 5` is below that, and
`SizeMod = 64` above. The texts' packets are announced with: their true size, from an empty
text to one that fills `recv_buffer` to the last byte; one byte more than that; and sizes
that have wrapped to less than a header, to exactly a header, and to a body that fits. Three
texts put a bad one before, between and after good ones.
*IoService.* Two runners are a waiter and a worker, and with the poller three threads
contend; with two operations one can be queued while the other's handler posts or waits.
*Reactor.* Two of each: one descriptor, state or operation still busy with the old
socket while the other, or the same, is used by the new one.

The `MaxPackets`, `MaxArrivals`, `MaxWrites`, `MaxTexts` and `MaxRequests` bounds
stand for counters that the program does not limit.

**Constraints.** `NoOverlap` stops exploring once a write has overlapped. The
properties of run clean, and `EchoAnswered`, promise nothing after that; a state that
breaks the constraint is still checked, only its successors are not. In run
overlap, `OneSided` allows one direction's writes to overlap in any way.
`TypeOK` and `ClosedIsFinal` are proved for all behaviours as well.
`LostClientRemoved` is therefore checked only up to the first overlap.

**Deadlock** is checked in runs clean, ioservice and reactor. The other runs do without,
because the system may really stop there: a process ends by an exception (overlap, live,
server, client), or the packets or texts to be sent are used up (endianness, codec).

**Symmetry** (of connections) is used in run endianness, which checks invariants only.

**Fairness.** `FairSpec` of `Connection` has weak fairness for what a process does
by itself (completions waiting, destruction, the end of `poll()`, the loop): a thread that
is scheduled runs it. Socket events have strong fairness: between two polls the
process is in its loop, so an event is not continuously enabled as an action, but
the kernel keeps reporting it in every poll. Nothing is assumed of `Cut` or
`ReadPart`; a receive may come in any pieces as long as it gets on. In `Server` the main thread as a
whole is weakly fair, and the pending operations of a failed link complete; `Arrive` and
`Lose` are not fair, and a healthy connection's operations need never end. In
`Client` both threads are weakly fair, and the kernel decides each attempt in
the end (it times out). In `Codec` the sender's loop and the delivery of what is on the wire
are. In `IoService` a thread's own steps are strongly fair, since the mutex that most of
them wait for is taken again and again by others, which leave it free whenever they sleep
or run a handler; nobody has to call `poll()` or `stop()`, handlers return. In `Reactor`
the polling thread is weakly fair, nothing is assumed of the peers or of
what a handler starts.

## 4. What the properties say

* `EchoIntegrity`: of its requests an endpoint gets back the first ones, each once, in order, with its text.
* `HealthyLink`: without a reset and without overlap no header is bad, no read stalls, no exception ends a process, the client's `io_service` goes on.
* `ImplementsChannel`: the link refines `PacketChannel`.
* `InOrder`, `StreamIntact`: the direction whose writes do not overlap delivers a prefix of what was sent, and the bytes in kernels, operations and `out_data` are exactly the rest, even if the other direction is garbled.
* `ClosedIsFinal`: `handle_read_header` does not return after `sock.close()`; nothing comes of it.
* `EchoAnswered`, `LostClientRemoved`: all echoes come; a lost link's connection is destroyed.
* `ListExact`, `Owned`, `AcceptOutstanding`, `LostRemoved`: the server's list, ownership, the accept loop, clean-up.
* `ReadsRight`: with remotes that have all had one byte order a little-endian host reads all numbers right.
  It marks out what the scheme can do; beyond it lie remotes that disagree (`OwnVerdict`, which
  the code violates) and a big-endian host (section 6).
* `TriedInOrder`: no endpoint is skipped, repeated, or taken from beyond the list; `ReachableIsReached`: one that can be reached is.
* `StopJustified`: the client's `io_service`, which is never reset, does not stop while anything may still come of it.
* `ExitCompletes`: whatever the resolver's thread is doing, `main` gets past its join.
* `PrefixIntact`, `StaysReadable`, `FittingArrive`: texts that fit arrive as they were sent, the streams stay usable, and a text that does not fit damages nothing that was sent before it. What comes after it is lost or garbled.
* `WorkExact` (in `Client`, `IoService`, `Reactor`): `outstanding_work_` is the number of outstanding operations, at every moment and not only at the end.
* `TaskOnce`: the reactor is never lost and never run by two threads.
* `ImplementsExecutor`: the `io_service` refines `Executor`.
* `QueuedRuns`, `StopEndsRuns`: no wakeup is lost, neither an operation's nor `stop()`'s.
* `OnePlace`, `QueuedOnce`, `Attached`: an operation is queued once, a state is queued once (intrusive queues would be torn), and no operation is performed on the descriptor of another socket.
* `NoMissedEdge`, `HandlersRun`: an operation that could be performed is, and its handler called.

## 5. Theorems

TLAPS proves, for every value of the constants that satisfies the modules' named
assumptions:

* `ConnectionProofs!TypeCorrect`: `Spec => []TypeOK`. The type invariant is not
  inductive alone. `IInv` adds that an outstanding body read on an open socket has a
  header that passed the check (`GoodHeader`: otherwise the packet given to
  `HandlePacket` might have opcode 2), and that `nextLen` is 0 until the handshake is
  read (`FreshLen`: the read after the handshake is one for a header). One lemma
  per action, one step per variable it assigns.
* `ConnectionProofs!ClosedStaysSilent`: `Spec => ClosedIsFinal`, from the same
  invariant: no action of `c` with a closed socket appends to `net` or dispatches,
  and none reopens it.
* `EndiannessProofs!AgreeingRemotesReadRight`, `TypeCorrect`: `ReadsRight` and `TypeOK`. The
  invariant adds what is on the wire before a handshake is read (`Arrived`) and
  that the flag of a host whose remotes agree is their byte order from the first
  handshake on (`FlagRight`). Three lemmas about the byte operators carry it:
  a 16-bit number is two bytes, the magic number tells the order, and a right flag
  reads every number right.
* `StreamProofs!DispatchedInOrder`, `StreamConserved`, `LinkStaysHealthy`: `InOrder`, `StreamIntact` and
  `HealthyLink`. None of them is inductive, since none says where in the stream a cell is. The
  invariant `SInv` follows every cell by its position: `StreamCell(s, i)` is the i-th cell of the stream
  that the packets `s` make. `Flow` says, for a direction without overlap, that what the peer has
  consumed, the kernel's cells, the one unfinished write and `out_data` are consecutive
  sections of that stream and end where it ends (`Line`), and that the unfinished operation is the only
  one, wherever it waits (`Sole`). `Reader` says what the peer's state machine knows at its position:
  which packet is next, that `recv_buffer` has the cells before the position, that nothing has
  failed. A reader whose position is known knows which cell it is given, so a header is a header and its
  length the body's: `Reader` needs `Flow` to step, and `Flow` needs `Reader`, because the
  position moves with what the reader does. `Fresh` is the state before a connection is started. On a
  broken link only the kernel's part is still promised (`Front`).
  Every action becomes one of four moves in the stream: the end grows (`Send`), cells change section
  (`Tick`, a send), the front is consumed, nothing moves. The position arithmetic (a frame is
  three cells behind a handshake) is in lemmas about `StreamCell`, quotient and remainder by `FrameLen`.
  `LinkStaysHealthy` adds `Health`, which says of each process what `HealthyLink` says of a state, and that
  no end is closed.
* `StreamProofs!EchoesIntact`, `LinkImplementsChannel`: `EchoIntegrity` and the refinement of `PacketChannel`.
  The invariant adds that the n-th request of an endpoint carries the number n (`Asked`) and that
  it has answered what it was given, in order if it was given in order (`Answered`). Lemmas about
  `Count` say what a packet more adds and that a prefix counts no more than the whole. Every
  action is one of three packet steps: a request (`TickStep`), a delivery with its answer
  (`HandleStep`), or nothing, and each is a step of `PacketChannel` or a stutter; a delivery out of
  a faithful direction is the next packet by `Reader`.
* `CodecProofs!TypeCorrect`, `PrefixArrivesIntact`, `ReaderStaysInStep`: `TypeOK`, `PrefixIntact` and
  `StaysReadable`, for any base, capacity and width and any texts, those that do not fit included. `InStep` says
  that the bytes ahead of the receiver are the rest of what it is reading and then whole frames
  (`Frames`, a function from texts to what is left before each, in place of a recursion), and
  that no stream has failed. When it meets the first text that does not fit it is `Lost`: nothing is known of
  the bytes any more, and nothing needs to be, since the texts before it have been received. A frame is taken
  apart by `Split` (a sequence that is longer than the part in front begins with it) and `HeaderIs`: the two
  bytes of `packet_size` give the length back as long as it fits. `Good`, the number of texts before
  that first one, has no closed form; `GoodOf` states it and each step shows that it still does.
* `ServerProofs!TypeCorrect`, `ListIsExact`, `ExistingIsOwned`, `AlwaysAccepting`: for any
  number of clients. While the main loop runs (`Core`), the list is the set of existing objects,
  each once, those are the ones with an operation, and nothing remembers another: a new object may be
  put where an old one was. Lemmas say what pushing to, and erasing from, a list without repeats does.
* `ClientProofs!TypeCorrect`, `EndpointsInOrder`, `AccountExact`, `StopsWithReason`: for any list of
  endpoints. The invariant relates the thread's place to the request's (`Agrees`), counts the thread's
  work as `main`'s (`ThreadWorkExact`), and says that when the attempts have ended
  without success the iterator is at its end (`Exhausted`), from which `StopJustified` follows.
* `ReactorProofs!TypeCorrect`, `WorkIsExact`, `EachInOnePlace`, `NoStateQueuedTwice`, `NothingInherited`:
  for any number of sockets, descriptors, states and operations. `QueuedOnce` rests on the place of
  the task behind all the states in the queue (`TaskLast`): then none is left when the task
  gets to the front. `Attached` makes the state and kind an operation waits in unique, so that
  taking the finished or aborted ones out of one state takes them out of all (`Removal`); with
  `OnePlace` the set of busy operations (`Busy`) then changes by exactly one, or not at all,
  and `WorkExact` follows. The first part of the module is lemmas about sequences without repeats.
* `IoServiceProofs!ReactorInOnePlace`: `Spec => []TaskOnce`, for any number of threads. The invariant says
  it without counting (`Placed`), and that a thread that waits for the event is nowhere else (`Asleep`).
* `IoServiceProofs!TypeCorrect`, `WorkIsExact`, `ServiceKeepsPromise`: `TypeOK`, `WorkExact` and the refinement of
  `Executor`, for any number of threads and operations. `WorkExact` is not inductive: that a
  finished handler takes exactly one operation off needs every operation to be in one place only, among five kinds
  of place and all threads (`Apart`, `Distinct`). What a handler has posted is not in `work` until the
  handler ends, so the invariant counts the others (`Paid`), and knows of each thread that its
  private count is the length of its private queue while it runs a handler, and that this queue
  is empty outside a handler and the steps that put it back (`Accounts`). `WorkExact` follows by a
  bijection between what is counted privately and what is in the private queues of handlers.
  `Leaving` is what the refinement needs: a thread that is about to call `stop()` by itself found no
  work, and as nobody can add any then, there is none when it does. Of the actions only
  six are seen by `Executor`; the others are shown to leave `Todo` and `Running` alone (`Kept`).

`SInv`, `Numbered` and the invariants of `IoServiceProofs`, `WInv`, and of `CodecProofs` were checked by TLC on the
instances of runs overlap, clean, ioservice and codec before they were proved (`Frames` there as the
recursion it stands for). `WorkExact`, `EchoIntegrity` and `PacketChannel` count with
`Cardinality` and not with a fold, which the provers could not expand.

Only model-checked: liveness (`EchoAnswered`, `LostClientRemoved`, `LostRemoved`, `ReachableIsReached`,
`ExitCompletes`, `FittingArrive`, `QueuedRuns`, `StopEndsRuns`, `NoMissedEdge`, `HandlersRun`), for which the provers have no
rules. Every invariant, every action property and every refinement that a
passing run checks is proved.

## 6. Where comments and code disagree

| Run | Statement | Code |
|---|---|---|
| write_exclusion | `asio/write.hpp:376`: no other write until this one completes | `Tick` starts one every frame |
| corrupt_header | `socket_connection.cpp:92`: a corrupted header closes the socket | only the opcode is checked; a bad `packet_size` wedges the read loop |
| own_verdict | `socket_connection.cpp:71`: the handshake determines the endpoint's order | one static for all connections |

The first needs an `async_write` that cannot be completed within a frame, that is, a
peer or network slower than the sender for long enough to fill the kernel's buffers.

Four more observations have no run of their own:

* The buffer of an `async_write` must stay valid until it completes (`asio/write.hpp:385`); `Tick`
  reassigns `send_buffer` every frame. It happens exactly when `WriteExclusion` is violated;
  `Fetched` has what comes of it.
* `reset()` must precede the next `poll()` of a stopped `io_service` (`asio/io_service.hpp:408`);
  the client polls on without it (`Polling` in `Client`), so that nothing runs any more.
* After an exception the server's list is destroyed before the connections that erase themselves
  from it (`server.cpp:21`): `DestroyServer`, `DestroyIo`.
* `README.md:6` speaks of detecting a *different* byte order; the verdict is about the remote
  alone (`socket_utils.cpp:7`). A big-endian host therefore flips the numbers of remotes like
  itself and not those of others. No property catches this: `ReadsRight` presupposes a
  little-endian host.

## 7. Not modelled

* Names, ports, printing, timing: 15 ms is "the loop runs again".
* `RegisterService`, `RemoveService`: called in constructors, or nowhere.
* `operator<<` and `>>` between two `ByteStream`s, and `read`, `write` with a vector: nothing calls them.
* Splits of a header or a length in the middle, in `Connection`; `Codec` has bytes, and reads
  complete as a whole there.
* Of asio: `cancel`, `fork`, `run_one`, `poll_one`, `dispatch`, `reset`, timers, out-of-band
  data and other errors of a descriptor, an `epoll_ctl` that fails. Nothing in the program calls
  them or reacts to them. SSL, serial ports, signals, strands, other reactors and platforms.
* `IoService` and `Reactor` each leave out half of the other: there the reactor returns operations
  themselves, here one thread polls, without private queues, so every post is to the shared one. A
  `descriptor_state` in the queue of several threads is in neither. Spurious wakeups of a waiting
  thread and the interrupter's initial readiness are left out of `IoService`.

The implementation is 88 700 lines, of which 87 000 are asio as vendored, most of it templates
and platforms the program never compiles. NSP itself is modelled nearly line by line; of asio, the
parts in which the program's threads, queues and sockets meet. The share of all lines that
`PROJECT.json` maps is therefore small and cannot be large.

## 8. Plan

Done: sections 2 to 5. Left, in the order of use:

1. `IoService` and `Reactor` in one module, with `descriptor_state`s queued in front of several threads.
2. A composition of `Server` with several links, so that one connection's exception
   and the others' fate meet in one module.
