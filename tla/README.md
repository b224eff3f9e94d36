# A TLA+ verification of brickred-server

brickred is a C++03 library for game servers: an epoll reactor, a TCP service
on top of it, timers, byte buffers, queues between threads, an asynchronous
log, and parsers for HTTP and WebSocket. This directory holds TLA+ modules
that model its core, TLC configurations that check them on small instances,
and theorems that TLAPS proves for every instance. Paths below are relative to
`src/src/brickred/`.

## 1. The system

| Component | State | Operations | Interacts with |
|---|---|---|---|
| `IOService`, `IODevice` | epoll set, batch of events, `removed_io_devices_`, `quit_` | attach, detach, set callbacks, `loop`, `quit`, start and stop timers | calls the callbacks of devices and timers; owns a `TimerHeap` |
| `TimerHeap`, `Timestamp` | array heap of timers with positions, id map | add, remove, `checkTimeout`, next timeout | called by the loop; its callbacks add and remove timers |
| `TcpService`, `TcpConnection`, `TcpSocket` | `sockets_`, `connections_`, `contexts_`, two timer maps, statuses, buffers | listen, connect, asyncConnect, send, sendThenClose, close, contexts; handlers of the reactor | devices of the reactor, timers, callbacks of the application, which call back into it |
| `DynamicBuffer` | byte vector, read and write index | reserve, write, read, integers | read and write buffers of connections, log items |
| `ConcurrentQueue` | deque, mutex, two condition variables | push, pop and their non-blocking forms | threads |
| `MessageQueue`, `SelfPipe` | a `ConcurrentQueue` and a pipe | push, pop, yield, read callback | producer threads and one loop |
| `Thread` | started, done, joined flags | start, join, detach, destructor | the new thread's proxy |
| `LogCore`, `LogAsyncSink`, sinks | loggers, levels, queue and buffer pool, log thread | log, shut down | `ConcurrentQueue`, `Thread` |
| `SignalQueue` | a pipe of signal numbers | push, read callback | signal handlers and the loop |
| `HttpProtocol`, `WebSocketProtocol` | parser state over input in pieces | recv, send | buffers |
| codecs, random, strings, options, socket addresses | none that matters | pure functions, system calls | |

What is hard about it:

* **Reentrancy.** A handler calls the application, which may close any socket,
  the current one included, open new ones, send, or start and stop timers.
  What the handler read before the callback may be stale after it.
* **Address reuse.** epoll knows a device by its address. A callback may delete
  a device that still has an event in the batch, and a new device may get the
  same address.
* **Timers against events.** A connect may complete, fail, time out and be
  closed in the same batch; errors of `sendMessage` are told by a timer.
* **Partial results.** The kernel takes a part of a message; `EPOLL_CTL_ADD`
  fails and nobody looks; the pipe is full.
* **Threads.** Notifications of condition variables and of the pipe must not
  be lost; a buffer handed from thread to thread must have one owner; a thread is
  joined and detached by several others.
* **Streams.** HTTP messages and WebSocket frames arrive cut anywhere; a parser
  must wait for what is missing and for nothing else.
* **Arithmetic.** `size_t` wraps in `reserveWritableBytes`; timestamps are
  compared at two resolutions, and timeouts of 64 bits kept in 32; `snprintf` writes a
  NUL behind its text whether there is room or not.

`PROJECT.json` lists these hazards by line, with the properties that watch them.

What makes each component correct:

* reactor: an event reaches only the live device it was for, and never an
  empty callback;
* TCP service: its maps agree with each other and with the devices, timers
  and epoll interest; callbacks are about open sockets in the announced
  status; the life of a socket goes one way; connects resolve and errors are told;
* send path: every byte is sent once, in order; completion comes when all that was
  handed over is on the wire;
* timers: heap order and positions hold, timers fire in their millisecond, and one
  too long for an `int` delays no other;
* buffer: a byte queue, with reserved room that is really there;
* queues: bounded, first in first out, no lost wake-up, every message received;
* threads: a handle is released once, nobody sleeps in `join` for ever;
* log: messages whole and in order, everything written before the sink goes,
  sinks deleted once;
* protocols: what the peer sent is what the application gets, however it was
  cut; an error comes behind all of it; a close ends both ends;
* codecs: decoding undoes encoding; a digest depends on the bytes only.

## 2. The modules

| Module | Models | Notes |
|---|---|---|
| `IOService` | `io_service.cc`, `io_device.cc`, `TcpSocket::close` | state and steps of the loop; has no Next of its own |
| `TcpService` | `tcp_service.cc`, EXTENDS `IOService` | handlers, timer callbacks, calls of the application |
| `SocketLifecycle` | abstract | what `TcpService` promises its application |
| `TcpServiceProofs` | | theorems on `TcpService`, and that it implements `SocketLifecycle` |
| `SendPath` | `sendMessage`, `onSocketWrite` | one connection, byte by byte |
| `TimerHeap` | `timer_heap.cc`, `timestamp.cc`, the sleep of `loop` | |
| `TimerHeapProofs` | | theorems on `TimerHeap`, and an induction over the turns of its loops |
| `DynamicBuffer` | `dynamic_buffer.cc` | implements `ByteQueue` |
| `ByteQueue` | abstract | |
| `BufferProofs` | | theorems on `DynamicBuffer`, and that it implements `ByteQueue`; theorems on `SendPath` |
| `ConcurrentQueue` | `concurrent_queue.h`, `condition_variable.cc` | |
| `ConcurrentQueueProofs` | | theorems on `ConcurrentQueue` |
| `SignalQueue` | `signal_queue.cc` | a pipe of signal numbers |
| `MessageQueue` | `message_queue.h`, `self_pipe.cc` | composes `ConcurrentQueue` and `SignalQueue` (INSTANCE) with the pipe and a loop |
| `MessageQueueProofs` | | `MessageQueue` implements `ConcurrentQueue`, whose theorems carry over; its own |
| `Thread` | `thread.cc` | start, join, detach, the proxy |
| `LogAsyncSink` | `log_async_sink.cc`, `object_pool.h` | composes `ConcurrentQueue` and `Thread` (INSTANCE) with a program that logs |
| `LogAsyncSinkProofs` | | theorems on `Thread`, which `LogAsyncSink` implements, on `LogAsyncSink` and on `LogCore` |
| `LogCore` | `log_core.cc` | functions of its state, and properties over sequences of calls |
| `StringUtil` | `string_util.cc`: find and split | on sequences |
| `HttpProtocol` | `http_protocol.cc`, headers of `http_message.cc` | a peer, a stream and the parser |
| `HttpProofs` | | theorems on `HttpProtocol` |
| `Codec` | `codec/*.cc` | functions, checked against their inverse or a definition |
| `WebSocketProtocol` | `web_socket_protocol.cc` | a client and a server; `MCWebSocket` extends it and `Codec`, which gives the length of an encoded key |
| `WebSocketProofs` | | theorems on `WebSocketProtocol` |
| `MCQueues` | | joins `DynamicBuffer`, `ConcurrentQueue` and `SendPath` for one run: a behaviour moves one of the three, chosen at its start |
| other `MC*` | | instances for TLC: symmetry sets and value sets |

Definitions named `X_Something` are faulty variants of `X`. No specification
uses them; putting one in the place of `X` must violate the property it is
listed with in `PROJECT.json`.

### The reactor and the TCP service

One thread runs the loop, the handlers and the application, so a step is a
stretch of code between two points where another choice is made: which event
comes next, what the kernel answers, what the application calls. `pc` says
which function the thread is in; `frame` is the running callback of the
application with the socket it is about and the place it returns to. While
`pc = "app"` any call may be made, any number of times.

* `device_id[a]` is the id of the device at address `a`, 0 if none lives
  there; `attached`, `read_cb`, `write_cb` are its fields.
* `EpollWait` takes any set of ready devices with any of the bits epoll watches
  them for (`Watches`): for a device `EPOLL_CTL_ADD` refused, none, as its
  `setReadCallback` and `setWriteCallback` never reach epoll. `refused` is history.
  `EPOLL_CTL_DEL` is taken to succeed: it is asked for descriptors that were added and
  are still open. `Dispatch` takes one group of bits of one event in the order of
  the code (EPOLLOUT, EPOLLIN, EPOLLERR) and asks `checkIODeviceExist` each time.
  `ev_id` is history: the id of the device the event was for.
* `closeSocket` and destructors free the address, which `InsertSocket` may
  give to a new device at once.
* A handler's branches are actions of their own (`RecvFailed`, `RecvNothing`,
  `RecvData`, `RecvPeerClosed`); `AfterRecv` is the part of `onSocketRead` after
  `recv_message_cb_`.
* Timers are a set with callbacks; which are due, and in which order, is left
  open. `TimerHeap` has the order.
* Payloads are reduced to whether the write buffer is empty (`unsent`).

Contracts on the application, both visible in the modules: it does not close a
listening socket from inside the `new_conn_cb` of that socket (`MayClose`; the
handler would go on with a deleted object), and, only where `ClosesFailed` is
TRUE, it closes a socket whose failure it is told of, as all programs in
`src/test` do.

### The others

`SendPath` numbers the bytes of one connection, so that the wire shows which
bytes went out. `done` is the number of the last byte a completion callback has
vouched for; `lost` is history, the bytes a partial send leaves out (`NotCopied`). An
empty message takes the branch "all sent" also while older bytes wait (`SendEmpty`): its
callback runs, or the connection closes, at once.

`TimerHeap` keeps the array, the positions timers remember and the swap loops as
they are: `UpTurn` and `DownTurn` are one turn of a loop, `SiftUp` and `SiftDown` run them
as often as the array is long, since a turn that has met its `break` changes nothing. A unit of time is 1/`Res` of a millisecond. Callbacks take no time.
`ToInt` is the conversion of an `int64_t` to an `int`, in the sleep of the loop and in
`getTimeout`, with `INT_MAX` as a constant. When the result is negative `epoll_wait` has no limit.
A repeating timer whose timeout is not positive as an `int` is excluded: `checkTimeout` would never return.
Ids of dead timers are used again, which keeps the state space finite; the code's
64-bit counter does not repeat them.

`DynamicBuffer` computes sizes modulo 2^W and stores real bytes.

`ConcurrentQueue` has one action per stretch under the mutex. A woken thread
goes back to "push" or "pop" and must get the mutex and test again.
`pthread_cond_wait` may return on its own (`SpuriousWakeup`).

`MessageQueue` separates the two lines of `push`, the reads of the drain loop and
the callback. The callback pops until `pop` returns false, as `echo_server2.cc`
does, or pops at least once and calls `yield`. `received` is all that was popped of each
producer, in order. The same loop serves a
`SignalQueue`: a signal comes between any two of its steps.

`Thread` has one action per stretch under the mutex, as the queue has; `join` is
two waits with `pthread_join` outside the mutex. `LogAsyncSink` puts it and the queue
together in a program with the contract of the sink: main builds the sink, starts
threads that log, joins each of them (some after a detach, some joined by another
thread too) and destroys the sink. A message is a pair of a thread and a number, a
buffer holds the messages written into it and not yet read out.

`LogCore` is set up by one thread before others log, so its methods are functions from
one state to the next. `MCLog` evaluates its two properties on the state in which no
thread runs yet: over all sequences of four calls.

`HttpProtocol` has a peer that sends a few messages, then perhaps something else; any
number of bytes arrives at a time. The peer writes its messages with `writeMessage`, whose
`snprintf` needs a byte more than the text: a body that has just its room loses its last
byte to a NUL (`full`; the lines before it always have room to spare, as more is reserved for
them). Where that hides the end of a message, in chunks, the message is among what may follow
the others (`Spoilt`), and so are messages with a trailer (`WithTrailer`). A byte is CR, LF, a byte of a body, or a token for a
run of text that no handler looks into before its line is complete. An action is one
call of a status handler. `memcmp` behind the last chunk may look at bytes that have not
arrived: its answer is then left open (`CrlfAfter`). The bytes of bodies, the texts of
numbers (`Hex`, `Length`) and the messages peers send are constants; `HttpAssumption` says
of them that different numbers have different texts, that none is a line's end, and that a
message's headers announce its body (`WellFramed`). Bodies have no NUL of their own.

`WebSocketProtocol` has two ends and two streams, cut between any parts of a frame (head,
length, key, data), since the handler takes a part whole. Sizes at which the length's
encoding changes are constants. Lengths, masks and payloads are real, of bits in place
of bytes. `Room` is the longest payload that does not make the send buffer grow
after `mask_key` was taken; for longer ones the key read is any key (`KeyRead`).
Fragments and wrong frames are sent by the environment, as other implementations do. A
server may set its own `Sec-WebSocket-Accept` (`Answers`); the client compares it without
regard to case.

`Codec` has base64 and url byte by byte. A digest is the sequence of blocks its block
function was called with: buffering, padding and length are the code's, the mixing of a
block is left open, which makes different blocks give different digests.

## 3. The runs

| Run | Instance | Shows |
|---|---|---|
| `tcp_maps` | 2 sockets on 2 addresses, 1 timer, all calls, `EPOLL_CTL_ADD` may fail | maps, timers and interest agree (`MapsAgree`, `TimersAgree`, `WriteInterest`); no event reaches a wrong or dead device; callbacks are about open sockets |
| `tcp_live` | 2 sockets, 1 timer, failed sockets closed, fairness | `TcpService` implements `SocketLifecycle`; connects with a timeout resolve, send errors are told |
| `timers` | 4 timers, repeating ones, 2 units per millisecond, timeouts up to `INT_MAX` + 1 | positions (`HeapIndexed`); timers whose timeout an int holds fire in their millisecond (`OnTime`), none that is due is left behind (`NothingDueIsLeft`) |
| `timer_order` | 6 timers | **violation** of heap order (`MinHeap`) |
| `queues` | buffer: sizes 0 to 3, bytes 0 and 1; queue: 4 threads, 2 places; send path: messages of 0, 1, 2, 4 bytes, buffer of 2; fairness | byte queue, real room and bounded capacity (`CapacityIsRight`), integers; no lost notification (`NoLostNotification`), waiters are served; counting, completion, draining |
| `send_stream` | the send path | **violation**: the stream is garbled |
| `message_queue` | 2 producers of 2 messages, queue of 2, pipe of 2 bytes, 3 signals with room for 2, fairness | no message forgotten, order, delivery, signals handled |
| `async_log` | 2 threads of 2 messages, queue of 1, 4 buffers, one thread joins the other, fairness; sequences of 4 calls of `LogCore` | one owner per buffer, messages whole and in order, a clean end, joins; sinks deleted once, messages reach their sinks with the right text (`LogCoreFaithful`) |
| `log_size` | sequences of 2 calls | **violation**: a text of just the size is cut (`OnlyLargerIsCut`) |
| `http` | up to 2 messages of 6 kinds, bodies that fill the writer's buffer or not, 5 kinds of wrong input, spoilt messages and a trailer behind them, every cut | boundaries, bodies, errors, nothing left lying |
| `http_trailer` | 1 message | **violation**: a message with a trailer is refused (`TrailerIsRead`) |
| `web_socket` | payloads of every length class, fragments, wrong frames, 2 calls of the client and 1 of the server, fairness of the streams; codecs on inputs of up to 4 bytes, digests of up to 130 | messages intact, handshake, close, waiting, codecs (`CodecsFaithful`) |

Bounds. Two sockets suffice for one to be closed in its own callback with bits of its
event still to be dispatched and a new device to get its address before they are, and
for one to be closed in the callback of the other. One timer is given out per behaviour. The proofs remove
these bounds for the safety properties of all modules but `Codec`, and of `LogCore` for
who deletes a sink (section 5). Six timers are the fewest that break the heap's order: the hole and the last
element must lie in different subtrees. Four have every shape of a smaller heap, so
that firing, rescheduling and removal are all met. With `INT_MAX` at 1 a timeout of 2
is negative as an `int`, and the loop sleeps without limit.
The buffer instance reaches both branches of the size
computation and the wrap. A queue of two with four threads has two waiters and
two threads that take what they wait for; a pipe of two bytes is full while two
producers owe their byte. A queue of one lets a logger, and the destructor, wait for
room while the log thread holds a buffer; four buffers are one for every place a buffer
can be in. Two HTTP messages suffice for the end of one to be taken for the start of
the next. WebSocket messages are of 2 and 5 units, with the length's encoding changing
at 2 and at 5 and `Room` at 4, so that each longer encoding and a moved buffer occur;
fragments of 1 and control frames of 0 have the short encoding.
Three calls let both ends close at once with a message on the
way. Codec inputs have every length of a group; 130 bytes are two blocks and the cases
of the padding around them. A leaked sink takes four calls: a larger count, a
logger, a sink, a smaller count.

Fairness. The loop never stops of its own accord and callbacks return
(`WF` of loop and handlers, and of `Return`); calls of the application are not
owed. A timer that keeps running is due at some call of `checkTimeout`, since
time passes: `SF` of `FireTimer`. Where `ClosesFailed` is TRUE the application
closes the failed socket before its callback returns (`WF` of `CloseFailed`).
In `SendPath` a watched socket becomes
writable again. For the queues, a thread that asks for the mutex gets it;
spurious wakeups and new calls are not owed. In `MessageQueue` the loop's thread and
producers inside `push` go on. In `LogAsyncSink` every thread of the program goes on;
detaches and spurious wakeups are not owed, and logging may stop at any message. In
`WebSocketProtocol` bytes on the way arrive, and an application that was told of
them calls `recvMessage` (`WF` of `Deliver`); sends are not owed.

Deadlock is checked except in runs `queues` and `web_socket` (a closed connection
does nothing more) and `MessageQueue` (the bounded messages are all received;
`Delivered` says so).

## 4. Findings

1. **Timer heap** (`timer_heap.cc:242`). `minHeapErase` only moves the timer that
   fills the hole down. Removing a timer from the middle may require moving up; then
   the heap is out of order and later timers may be reported before earlier ones,
   which fire late. Run `timer_order`.
2. **Partial send** (`tcp_service.cc:778`). After `send` took a part, the rest is
   copied from the start of the message. The number of bytes is right
   (`BytesCounted` holds), the bytes are not. Run `send_stream`.

3. **Log size** (`log_core.cc:102`). `log_core.h:28` says that logs larger than the size are
   truncated. The size given to `vsnprintf` counts the NUL, so a log of exactly that size
   loses its last byte, and the NUL is passed on in its place. Run `log_size`.
4. **Trailer** (`http_protocol.cc:284`). What stands behind the last chunk must be CRLF, and a
   header line there is an error; the code that sets the status to read the "tailer header"
   (line 305) is reached only when there is none. Run `http_trailer`.

More places where the code does less than it could, found on the way. The properties
name them as their exceptions, and what they say of all the rest is checked and proved:

* **Cut after the last chunk** (`http_protocol.cc:284`). When the input ends behind
  the head of the last chunk, `memcmp` compares bytes that have not arrived. A proper
  message may be refused, and one with a trailer read. `ErrorComesAfterSent` excepts
  `CutAfterLastChunk`, `RetrievesWhatWasSent` the message with a trailer.
* **Body that fills the buffer** (`http_protocol.cc:458`). The last byte of the body becomes a
  NUL. `RetrievesWhatWasSent` says that this is what arrives (`Arrived`); a body in chunks
  loses its end, and with it the message (`Spoilt`).
* **Empty message** (`tcp_service.cc:765`, `785`). It completes, and `sendMessageThenClose`
  closes, while older bytes wait. `CompleteMeansSent` gives such a callback nothing to
  vouch for, and excepts the bytes that finding 2 loses.
* **Long timers** (`io_service.cc:167`). The loop may sleep without limit while it waits for a timer
  that is further away than an `int` of milliseconds. `OnTime` excepts those timers.
* **Refused devices** (`io_device.cc:65`). Bytes of a connection whose `EPOLL_CTL_ADD` failed
  are watched by nobody and stay. `WriteInterest` excepts them.
* **Fragment before a frame** (`web_socket_protocol.cc:456`). A fragment is reported as
  "more data"; a complete frame behind it in the buffer is read only when more bytes
  arrive. `WaitsForMissingParts` and `CloseAnswered` except `Stalled`.
* **Masking key** (`web_socket_protocol.cc:547`). The key is used through a pointer into
  a buffer that may have been reallocated. `MessagesIntact` is about messages up to
  `Room`.

Smaller ones, not in any property: a later `sendMessage` replaces the callback of an earlier one
whose bytes wait, so the close of a `sendMessageThenClose` may never come; signals the pipe
has no room for are lost; `snprintf` ends an HTTP body at a NUL; `SelfPipe::close` forgets
`fd1_`; `string_util::toLower` calls `toupper` (both sides of its one comparison do); a
control frame between fragments drops the fragments; a second `digest` without a `reset`
gives another value; a repeating timer of period 0 keeps `checkTimeout` busy for ever, and
a loop that pushes to its own full queue, or a `join` of a thread never started, waits for
ever; `quit` before `loop` is forgotten.

## 5. What is proved

Every theorem holds for every value of the constants that meets the assumptions named
in the module that declares them; TLC evaluates those on the runs. The assumptions say
what kind of thing a constant is (numbers, sets of messages, a limit that is not 0), with
two exceptions: `SizesAssumption` of `DynamicBuffer` and `HttpAssumption`.

| Module | Proved | Also checked by |
|---|---|---|
| `TcpServiceProofs` | `TypeOK`, `DispatchReachesLiveDevice`, `MapsAgree`, `TimersAgree`, `WriteInterest`, `CallbackAboutOpenSocket`, `ImplementsLifecycle` | `tcp_maps`, `tcp_live` (`TypeOK`: proved only) |
| `BufferProofs` | `CapacityIsRight`, `ImplementsQueue`, `IntRoundTrip`; `BytesCounted`, `CompleteMeansSent`, and `StreamIntact` without partial sends | `queues` |
| `ConcurrentQueueProofs` | `TypeOK`, `NoLostNotification` | `queues` |
| `MessageQueueProofs` | `NoMessageForgotten`, `ReceivedInOrder`; the results on `ConcurrentQueue` | `message_queue` |
| `TimerHeapProofs` | `HeapIndexed`; with at most five timers `OnTime`, `NothingDueIsLeft`; with any number, if holes fit, these and `MinHeap` | `timers` |
| `LogAsyncSinkProofs` | `HandleReleasedOnce`, `NoLostJoin`, `EndSeen`, `JoinStep`, `BufferHasOneOwner`, `WritesNextMessage`, `DestroyedClean`, `TypeOK`; `SinksDeletedOnce` of `LogCore` | `async_log` (`EndSeen`, `JoinStep`, `TypeOK`: proved only; `SinksDeletedOnce` is a part of `LogCoreFaithful`) |
| `HttpProofs` | `ErrorComesAfterSent`, `NothingLeftLying`; `RetrievesWhatWasSent` when nothing wrong follows, and its part about what was sent when it does | `http` |
| `WebSocketProofs` | `ClientBelievesServer`, `CloseIsLast`, `WaitsForMissingParts`, `MessagesIntact` | `web_socket` |

### TcpService

For all sets of addresses, numbers of sockets and timers, calls, and answers of
`EPOLL_CTL_ADD`. The invariants are not inductive one by one. `IInv` joins them with
what the loop keeps true between its steps:

* `LoopInv`: an event still in the batch is for the device that lives at its
  address or its address is in `removed_io_devices_` (`BatchIsCurrent`); outside
  dispatch the batch is empty; the handler that runs is one its device may have; the
  id that `onSocketRead` keeps is the one of its event;
* `MapInv`: `MapsAgree`, `TimerMapsAgree` and the rest, and that ids not given out
  yet are nowhere in use (`FreshIds`), and that a connect timer belongs to a
  connection that is not established (`ConnectTimer`).

The heart is `BatchIsCurrent`: `closeSocket` keeps it because a device that was
attached is put into `removed_io_devices_` before its address is free, and the set is
cleared only when the batch is empty. There is one lemma per action.

`LivesAreInOrder` shows, step by step, that the service implements `SocketLifecycle`
under the contract `ClosesFailed`, a constant the abstract specification needs: without
it a socket may fail twice. `LifeInv` adds to `IInv` that the running callback is
about the part of a life it announces (`FrameMatches`), that a socket with a connect
timer waits for its connect (`WaitsForConnect`), and which handler reads.

### SendPath

For any sizes of messages, 0 included, and any bound of the buffer. `CompletionIsTrue` needs
to know of each byte handed over where it is: on the wire, in the write buffer, or lost.
`IntactWithoutPartialSends` is
about the specification without the action in which `send` takes a part of a message:
then the stream is intact, so the copy of finding 2 is the only thing wrong with it.

### DynamicBuffer

`size_t` is modelled modulo 2^W, and `SizesAssumption` says that the largest request,
`MaxReadable` and two expansions fit: past that `reserveWritableBytes` really would
return with less room than was asked for, and a program would need that much memory to
get there. `NewSizeIsRight` shows, from there, what the computation of the new size
gives; the branches that compact, grow and shrink keep a buffer `Sound` (indices in
order, array of the right size) and its readable bytes what they were, which is the
refinement of `ByteQueue`.

`IntegersComeBack` shows that `readInt` gives what `writeInt` was given, for any width,
any number of values a byte has and wherever the indices are: the sum after the first
`k` bytes is the value without its last `Width - k` digits (`NextByte`, by induction
over the bytes), and it is found behind the bytes that waited, wherever `reserveWritableBytes`
moved them. The weights of the bytes are a recursive function, which `WeightsAre` unfolds.

### The queues

`ConcurrentQueue`, for every finite set of threads and every size: `NoLostNotification` is
`NoLostNotFull` and `NoLostNotEmpty`. They are inductive together: the number of awake
threads is compared with the number of places or items, so that a place taken by
`pushIfNotFull` is accounted for.

`MessageQueue`, for any finite set of producers and any size of queue, pipe and read: every
step is one of `ConcurrentQueue` or leaves the queue alone, so its theorems hold.
`NoMessageForgotten` needs besides where the loop is when it has taken the last byte out
of the pipe; `ReceivedInOrder`, that what a producer has pushed is what was received from
it, each once, followed by what it has in the queue.

### Thread and LogAsyncSink

For every number of loggers, joiners, buffers and messages. First the `Thread` objects, from
`ThreadSpec` alone: whichever threads start, join and detach them, and when. The invariant that carries `HandleReleasedOnce` and `NoLostJoin`
is `OneJoiner`: `join_started_` is the right to release the handle; who set it is the only
one between `pthread_join` and `joined_`, and the count of releases follows from where
it is. `WaitsInVain` adds that a thread in either wait waits for a flag that is not
set: `detach` may leave out the notification because it runs only when
`join_started_` is not set, and then nobody waits for `joined_`. `EndSeen` says that
`done_` is set when the function has returned, from which it follows that `join` returns
only then (`JoinStep`).

Every step of the program is a step of `Thread` or leaves its variables alone
(`StepIsThreadStep`), so `Spec` implements `ThreadSpec`, and these results hold of the
program. `SinkInv` is about the buffers: a buffer in use is in a
thread's hands, in the queue or in the pool, in one place and there once (`OneOwner`);
in the pool it is empty, on its way it holds one message (`Contents`); written, queued and
held, the messages of a thread are those it logged, in order (`Order`); and how far the
program has ended says who is still there (`Roles`, `Ending`). `DestroyedClean` takes all
of it, and of the threads that `join` returns at the end.

### LogCore

`SinksAreDeletedOnce` is `SinksDeletedOnce` for any number of loggers and call sequences of
any length, from `NULL` being no logger. What the calls keep true (`Tidy`) relates a core
to the set of the sinks it has taken: each of them is in one place, with one logger or
among the deleted ones, once, and nothing else is there. Every method keeps it (`Keeps`,
one lemma per method), with `addSink` adding a sink the set does not have;
`setMaxLoggerCount` and the destructor gather the sinks of several loggers (`Gathers`, by
induction over the loggers). The destructor leaves the deleted ones the only place.

### TimerHeap

For any number of timers, delays, repetitions and any clock. The two loops are recursive
functions of the turn. The library's induction takes an operator, which the provers cannot
instantiate, so the induction is over a set: `Least` takes the least number of a set from
the well-foundedness of `<`, `Induction` follows for any set of numbers, `Run` gives
a function that starts at one value and goes on by a step, and `SiftUp` and `SiftDown` are
the last values of such runs. `SiftUpEnds` and `SiftDownEnds` then say of any set that a
turn does not leave that the loop's result is in it and that its last turn met the `break`.

* `Loops` is such a set: the array holds the same timers, each once, the positions are
  right and nothing but the positions has changed. `TimersAreIndexed` follows, with
  `IndexInv` as the inductive invariant, for all heaps, in order or not.
* Order: while a timer moves up, the heap is in order but for it and its parent; while it
  moves down, but for it and its children, and in both cases its children are not before
  its parent. `minHeapErase` fills the hole with the last timer and goes down only: its
  loop starts in that set if that timer is not due before the parent of the hole
  (`HoleFits`). `OrderHoldsWhereHolesFit`: if every removal meets this, the heap is in
  order, and then none that is due is left behind and timers fire in their millisecond, but
  for those whose timeout no `int` holds. For the others it matters that the sleep is short
  enough although it is computed as an `int`: while such a timer runs, the next timeout is no
  further away than it, and so survives the conversion.
  The removals of `checkTimeout` are of the root, where it always holds.
* In an ordered heap of at most five timers every hole fits, hence `FewTimersAreOnTime` and
  `FewTimersAreNotLeft`. The bound is sharp: `timer_order` breaks the order with six.

### HttpProtocol

For any set of messages with any headers, lengths, numbers and sizes of chunks, any bytes
in the bodies (line ends too, no NUL), bodies that fill their writer's buffer or not, any
number of messages, every cut, and anything behind them. A message whose body got a NUL is
one of the same length with another body: the proofs are about the messages as they were
written (`stored`).
The assumption on messages is what a peer must do for its message to have a boundary: a
`Content-Length` that is the body's, or chunks that have none but 0, since the parser lets
the `Content-Length` win; and no chunk of size 0 before the last.

What the three properties say is about the ends of messages only, so none is inductive.
`HttpInv` says where the parser is in what the peer sends. `Within`: what has arrived and is
not read, followed by what is on the way (`buffer \o wire`), is what the peer sends from
some point on, and `status_`, `message_` and `chunk_buffer_` are what they must be there:
between messages (`AtStart`), behind a start line (`InHead`), before the empty line
(`AtEmptyLine`), before a body (`InLength`), before the j-th chunk with the ones before it
in `chunk_buffer_` (`InChunk`), behind a message (`Finished`), or the cut after the last
chunk (`Failed`). Or the parser is in the input behind the messages (`Beyond`). There is a lemma
per action.

Under it lie lemmas about the functions the handlers use. That `find` and `split`, which
are recursive functions, give the lines of a message follows by the induction of
`TimerHeapProofs`, over a set of positions; so does what the concatenation of
texts, chunks and messages begins with. The cuts come in with `Front`: if as many bytes have
arrived as a handler wants, those are the ones the peer sent, and else there is more to
come; so a handler that finds too few has reason to wait, which is `NothingLeftLying`.
That the parser is not `Beyond` before it has retrieved all messages gives
`ErrorComesAfterSent`.

`RetrievesWhatWasSent` is proved for `bad = <<>>`, since input the peer adds could spell
messages of its own; `SentComesFirst` is what holds regardless: the messages that
were sent come first, and the stream is at a boundary after each.

### WebSocketProtocol

For all payloads, masking keys, sizes at which the length's encoding changes, and numbers
of calls. What has arrived at an end and what is on the wire to it are taken together
(`In`), so that the cuts do not matter. Behind the handshake it is a `Stream`: where a
part is a head, the whole frame follows, and then a head or the end. `AllSteps` reduces
every action to one form, an end takes the first frame or nothing and puts frames on the way
to the other, and each invariant is proved from that form.

* `Handshakes`: which parts of the handshake are on their way in which statuses, and that
  the answer 101 was given to a proper key only and is for the key `answer` remembers; hence
  `ClientBelievesServer`.
* `Closing`: a close frame is the last one, and its sender has `close_frame_sent_`.
* `Received`: there is a count, for every part on its way, of the messages the application
  has when it has read that far (`Counts`), which a data frame and the second of two
  fragments raise by one, with the payload of the message counted; it begins with what
  was retrieved, `message_` and `last_op_code_` (`Front`) and ends with what was sent.
  `MaskTwice` shows that masking is its own inverse.

### Only model-checked

* Liveness: `ConnectResolves`, `SendErrorTold`, `Drains`, `WaitersAreServed`, `Delivered`,
  `SignalsHandled`, `Terminates`, `CloseAnswered`. TLAPS does not treat fairness.
* The codecs: the url decoder is a recursive operator and base64 works with the bits of a
  byte, both beyond the provers.
* `LogReachesSinks` of `LogCore`: it is about `SelectSeq`, with a filter as its operator.

## 6. Plan

Done: all components that carry state (section 2), and the safety of all of them
proved for every instance, but for the codecs and for whom a message of `LogCore` reaches.

Next: the bytes of the read side of `TcpService`, its destructor, `SelfPipe::close`;
`LogReachesSinks` for call sequences of any length.

## 7. Not modelled

* `Random`: 32-bit arithmetic over 624 words, out of TLC's reach.
* `SocketAddress`, `UdpSocket`, most of `TcpSocket`, `System`: wrappers of system calls;
  their failures are choices of the callers' actions.
* The sinks that write to files and to stderr, command lines, the rest of the string
  functions: text and I/O, no state that operations share.
* `Function`, `UniquePtr`, `class_util`, the forwarding methods of the pimpl classes: C++
  support.
* Of modelled classes: the destructors of `TcpService`, `IOService` and `Thread`, the bytes
  of the read side, `SelfPipe::open` and `close`, setters of buffer sizes.

`PROJECT.json` gives the reason for each.
