# A TLA+ development for fasto-common

fasto-common is a C++ library of building blocks for network services: threads
and synchronisation, an event loop on top of libev with clients, servers,
timers and child processes, protocols on top of the loop (JSON-RPC, HTTP,
HTTP/2, WebSocket), and many helpers (values, strings, URIs, compression,
hashes, files).  This directory holds TLA+ modules that model its concurrent
and re-entrant core, its protocols over byte streams and the ownership of its
values, the TLC configurations that check them on small instances,
and TLAPS proofs of the safety results for every instance.  Paths below are
relative to the root of the repository.

## The system

| Component | State | Operations | Hard behaviour | What makes it correct |
|---|---|---|---|---|
| `ThreadPool` (`src/threads/thread_pool.cpp`) | `workers_`, `tasks_`, `queue_mutex_`, `condition_`, `stop_` | `Post`, `Start`, `Stop`, `Restart`, `RunWork` | `stop_` written without the mutex; wakeups; Start/Stop/Restart in any order | FIFO, each task once, no front of an empty queue, nothing runs after `Stop` |
| `barrier` (`src/threads/barrier.cpp`) | `count_`, `generation_` (unsigned) | `Wait` | threads of two generations at once, spurious wakeups, wrap-around | nobody passes before everybody came; everybody passes |
| `threads::Event` (`src/threads/posix_event.cpp`) | `event_status`, `is_manual_reset` | `Set`, `Reset`, `Wait` | stolen wakeups, a time limit that races with `Set` | nobody sleeps while it is set; exactly one thread takes an auto-reset event |
| `ts_queue` (`include/common/threads/ts_queue.h`) | `queue_`, `stop_` | `Push`, `Pop`, `Clear`, `Stop` | notifications after the unlock, consumers that overtake a woken one | FIFO, no lost notification, `Stop` releases everybody |
| `LibEvLoop` (`src/libev/event_loop.cpp`, `event_async.cpp`, `event_timer.cpp`) | `custom_callbacks_`, `timers_`, two async watchers | `Exec`, `Stop`, `ExecInLoopThread`, `CreateTimer`, `RemoveTimer` | push and notify are two steps; batches; timers deleted in callbacks | no lost notification, FIFO, callbacks only for live timers, `Stop` ends `Exec` |
| `IoLoop`, `IoClient`, `TcpServer` (`src/libev/io_loop.cpp`, `io_client.cpp`, `tcp/tcp_server.cpp`) | `clients_`, `childs_`, `server_`, watchers | `RegisterClient`, `UnRegisterClient`, `CloseClient`, `ReadWrite`, `accept_cb`, `Stopped` | the observer calls back into the loop in the middle of every operation | registry and watchers agree; callbacks get live clients of this loop; `Stopped` closes all |
| Streams and frames (`src/libev/io_client.cpp`, `src/protocols/json_rpc/protocol_client.cpp`) | the loops of `Write` and `Read`, the length header | `Write`, `Read`, `WriteMessage`, `ReadCommand` | short writes and reads, failures in the middle of a frame, the size limit | messages arrive whole, once, in order |
| JSON-RPC (`src/protocols/json_rpc`, `include/common/protocols/json_rpc/protocol_client.h`) | `requests_queue_`, `id_` | `WriteRequest`, `WriteResponse`, `PopRequestByID`, `ParseJsonRPC` | answers late, twice, out of order, without an id, or to a request whose write failed | messages are read as meant; each answer finds its request, once |
| `IHttpClient`, `HttpChunkedDecoder` (`src/net/http_client.cpp`, `src/http`) | `last_request_`, the decoder's line and chunk | requests, `ReadResponse`, `FilterBuf` | an answer in pieces of any size, cut off at any byte; known and unknown length | the body that was sent; the pieces do not matter |
| `Value` and its containers (`src/value.cpp`) | trees of values | `Append`, `Insert`, `Remove`, `Clear`, `Swap`, `DeepCopy`, `Equals` | every call moves the ownership in its own way | one owner for each value, no leak, faithful copies |
| `EventThread`, `EventBus`, dispatchers (`include/common/threads/event_bus.h`) | `events_`, `stop_`, listeners | `PostEvent`, `Stop`, `Exec`, `Subscribe` | wait without a predicate; listeners called under a mutex | no front of an empty queue; no self-deadlock |
| `Thread`, `ThreadManager` (`include/common/threads/thread.h`) | `handle_`, `event_` | `Start`, `Join`, `IsRunning` | the thread runs before `Start` has set the event | `IsRunning` inside the thread |
| `LoopController` (`src/libev/loop_controller.cpp`) | `loop_` | `Exec`, `Stop` | `Stop` before or during `Exec` | a stop is not lost |
| HTTP/2, WebSocket (`src/http/http2.cpp`, `src/libev/http`, `src/libev/websocket`) | streams, header tables | parse, send, receive | two tables that have to stay equal | not modelled, see below |
| Everything else | see `PROJECT.json` | | | data conversion, system calls, user interface |

How they interact: `ExecInLoopThread` and `Stop` are the only operations of a
loop that other threads may call; both end in `ev_async_send`.  Everything else
runs in the loop thread and is asserted to (`CHECK(IsLoopThread())`).  libev
calls back into `LibEvLoop`, which calls its `EvLoopObserver` (`IoLoop`), which
calls its `IoLoopObserver` (the application), which may call the loop again
before the first call has returned.  JSON-RPC clients read and write through
`IoClient` when the observer is told that data is there.  `IHttpClient` is
used by one thread over a blocking socket.

## Modules

### `WorkQueue`: what a queue of work promises

The abstract specification: items are accepted, delivered in order and at most
once, and may be discarded together.  `ThreadPool`, `TsQueue`, `EventLoop` and
`IoStream` are shown to implement it, with `accepted` and `delivered` mapped to history
variables.

### `ThreadPool`

One action for each access to shared state.  `PostPush` and `PostNotify` are
the two halves of `Post`; `StopBegin`, `StopNotify`, `JoinWorker` and
`StopReturn` are `Stop`, and `Restart` when `restarting` is true; a worker goes
through `AcquireMutex`, `CheckCondition`, `Block`, `TestStop`, `PopTask` and
`FinishTask`.  The test of the loop condition and the call of `condition_.wait`
are separate steps because `Stop` can write `stop_` between them.  What the
standard library does with misuse is in the model: clearing a vector with a
joinable `std::thread` ends the program (`aborted`), joining twice throws.  One
owner thread calls `Start`, `Stop` and `Restart`.

What the model shows about the code: `Stop` can hang (a worker that evaluated
the condition before `stop_ = true` and waits after `notify_all` is never woken;
`StopReturnsOrSleeper` says that this is the only way), and a pool that was
stopped never runs a task again, since nothing resets `stop_`
(`NoRunAfterStop`, a part of `IInv`, covers the workers that `Restart` creates).

### `Barrier`

`BarrierWait` is `Wait` up to its first `cond_.wait`, `BarrierRecheck` a turn of
the loop, `BarrierSpurious` the condition variable's licence.  `count_` and
`generation_` wrap at `UIntMod`.  There is one thread for each place, as the
class is meant to be used; with more threads than places a wrapped generation
could be mistaken for the current one.

### `ThreadEvent`

`threads::Event` for both kinds of event.  Time is abstracted: a time limit may
run out at any moment (`TimeOut`), also between a `Set` and the moment the
woken thread has the mutex.

### `TsQueue`

`threads::ts_queue`.  All its state is used under `queue_mutex_`, so a step is
what a thread does between two releases of it: `Pop` up to its end or its first
wait, `Recheck` after a wakeup, and for `Push` and `Stop` the locked part and
the notification that follows.  `IsEmpty` changes nothing and is left out.
Written this way `Stop` cannot lose a wakeup as that of `ThreadPool` can
(`NoSleeperAfterStop`).

### `EventLoop`

`LibEvLoop` from before `Exec` to its end.  libev is external: `Poll` collects
an arbitrary set of expired timers and the async watchers that were sent,
the watchers are invoked in any order, and `ev_unloop` lets the iteration end.
A callback of the application creates a timer, removes one, calls `Stop` or does
nothing.  `RemoveTimer` and `HandleStop` delete the watcher without
`ev_timer_stop` (`src/libev/event_loop.cpp:153`), so libev can be left with a
freed watcher; when it comes to using one the model goes to `corrupt` and stops.
`TimersKnown` says that this is the only way there.
`ExecInLoopThread` on the loop's own thread calls the function at once
(`src/libev/event_loop.cpp:268`): such a function is a part of the callback that
asked for it, overtakes what is in the queue, and is no step of its own.
`Push` and `Notify` are the call from another thread.

### `IoLoop`

The loop thread's call stack is part of the state: an operation is cut where it
calls the observer, and what follows the call (`push_back`, `erase`) is an action
that runs when the observer has returned (`...Return`).  The observer may do
what the constants `AcceptedMay`, `ClosedMay`, `MovedMay`, `DataMay`, `BothMay`
(`DataReceived` when `DataReadyToWrite` follows), `ChildMay` and `PostedMay`
allow.  Child processes are objects of the same kind with a registry of their
own.  The constants are the contract the code needs, found by
lifting them one at a time:

* a client may not be closed or moved in `Accepted` (`push_back` comes later);
* other clients may not be closed in `Closed` while the loop stops (`Stopped`
  works on a copy of `clients_`), and a client not in its own `Closed`
  (`CloseClient` leaves `server_` set, so `Close` recurses); a child may not be
  unregistered there either, because its `Moved` may close a client of the copy;
* a client may not be registered again in its own `Moved`;
* with both events watched, a client may not be closed in `DataReceived`
  (the finding below).

Within it the registries stay right.  `Stopped` deletes the children without
stopping their watchers or emptying `childs_` (`src/libev/io_loop.cpp:338`): a
callback or a posted function of the last iteration that comes to one of them
ends in the phase `dangling`, and `LoopInv` shows that there is no other way to
a deleted object.  The functions that `custom_cb` may still
run after `stop_cb` in the last iteration are bounded by `MaxLate`.

### `IoStream`

One direction of a connection: `WriteMessage` frames a payload, the loop of
`IoClient::Write` puts it on the wire, the loop of `IoClient::Read` takes it off
in pieces, `ReadCommand` reads the header and then the payload.  A byte is the
pair of its message and its place in the frame, so a misplaced byte is visible;
a header made of the wrong bytes may hold any number.  Encoding is abstracted to
the size it produces.  The size of an encoded message is narrowed to 32 bits
before it is compared with the limit (`src/protocols/json_rpc/protocol_client.cpp:36`);
sizes from 2^32 on are left out, so that the conversion is the identity.  A failed call closes the client, as the observers in the
repository's tests do.

### `JsonRpc`

The two `ProtocolClient`s of a connection, either of which may call the other.
The codec is a set of operators: `MakeJsonRPCRequest` and `MakeJsonRPCResponse`
make an object, `ParseJsonRPC` reads it back, and a text is one of the seven kinds
the codec treats differently (empty, the word null, JSON in two layouts, JSON
with other characters behind it, plain, a quoted string).  `requests_queue_` maps an id to a call.  Owners answer what
they read in any order, perhaps twice, with the responses the library makes or
with those of another implementation; a write may fail although the peer got
the whole message.  The connection delivers whole messages in order, which is
what `IoStream` shows of the framing.

What the model shows: a null method, error message or result ends the reading
program (`json_object_get_string` gives a null pointer,
`src/protocols/json_rpc/json_rpc.cpp:93`, `:132` and `:153`), and an empty result
is written as a null one; `json_tokener_parse` reads the JSON at the front of a
text, so that the result `12 monkeys` arrives as `12`; the callback of a request
with the null id may get the answer to another request of the same end;
`MakeErrorInvalidRequest` answers under the null id, so the callback of the
request is never called.  `ReadAsMeant`, `CallbackOnce` and `RequestIsAnswered`
state these as their exceptions.

### `ChunkedDecoder` and `HttpClient`

`ChunkedDecoder` is `HttpChunkedDecoder` as operators on a record with the
fields of the class; `FilterBuf` works on digits, CR, LF, space, semicolon and
bytes that mean nothing.  `Filter` is its loop and `Turn` one turn of it.  The
module ends with what the decoder has to undo, the grammar of a chunked body:
the coded bytes fall into parts, each a line or the data of a chunk, that follow
one another as RFC 7230 says (`IsCoding`), with no line above `kMaxLineBufLen`.
A chunked response of the server carries its parts.  `HttpClient` extends it: a request, then `ReadResponse` with its three
ways of reading (until the server closes, a known length, a body that came with
the head), over a socket that returns what has arrived in any portion.  The
server answers, may close at any byte, and keeps the connection open as it
likes.  The caller disconnects after an error, as `PostHttpFile` does.  The end
of the stream before the head is a state of its own (`noerror`): the code an error from an errno that is not there, which fails a `CHECK`.

Two things are outside the model.  A response is as long as its
`Content-Length` says: the code relies on that, and one that is longer makes
`rest` wrap and is copied over the end of the buffer
(`src/net/http_client.cpp:427`).  `body.size()` is narrowed to `int` before
`FilterBuf` (`:403`), which is the identity for a body that fits in it.

### `Values`

A heap of values.  Each operation of `ArrayValue`, `SetValue`, `ZSetValue` and
`HashValue` that changes ownership is an action; `held` are the values the caller owns.
A new value may be put at any address that is not in use, as the allocator
pleases.  `Kids` are the values a container owns, `Reach` what its destructor
deletes: the least set with the value that is closed under `Kids`.
No container is below itself (`Grounded`), so `Equals` and the content of a
value are recursive functions on the addresses.
`DeepCopy` chooses the order in which a container of pointers is walked, since
the code orders by address or by bucket.  Integers have a width (`Word`), so
that an unsigned value kept in the signed member of the union is visible.  Of
the doubles there is the one that behaves unlike a number: a NaN is equal to
nothing, so that a copy of a value with one inside does not compare equal to it.
A getter is modelled for a value of its own type; `GetAsDouble` of an integer is
not.

## Runs

| Run | Shows |
|---|---|
| `pool` | `IInv` (order, no front of an empty queue, one sleeper, no run after `Stop`), `OneLateStart`, `PostedIsStarted`, `StopReturnsOrSleeper` and the refinement `QueueSpec`, with up to 3 workers and 2 tasks |
| `barrier` | `BInv`, `Rendezvous`, `AllGetThrough` with 4 threads |
| `event` | `EInv` (nobody sleeps while it is set, each setting is taken once), `SetIsSeen` with 3 threads |
| `evloop` | `IInv` (order, timers, no lost notification), `NotifiedRuns`, `StopEndsExec`, `QueueSpec` with 2 functions and 2 timers |
| `tsqueue` | `QInv` (nobody sleeps after `Stop`, no lost notification), `QueueSpec`, `StopReleases` with 3 consumers and 3 items |
| `ioloop` | `LoopInv` (registries and watchers, `Stopped` closes all it copied), `CallbackClientIsOurs`, `ClosedOnlyServed` with 3 clients and 2 children |
| `ioloop_readwrite` | violation: `DataReadyToWrite` for a deleted client |
| `frames` | `StreamInv` (both ends agree on the frames), `QueueSpec`, `SentIsReceived` with 3 messages |
| `shortwrite` | violation: `Write` sends the data again after a short write |
| `values` | `SingleOwner`, `CopyIsFaithful`, `OnlyOverwriteLeaks` with 6 addresses and 2 containers |
| `http` | `GoodBody`, `PiecesDontMatter`, `LengthReadReturns` with 3 requests and 6 kinds of answers |
| `rpc` | `ReadAsMeant`, `RpcInv` (ids, tables and answers on their way agree, a callback is called once with its own answer), `RequestIsAnswered` with 2 calls and 1 repeated answer |

One invariant of a run (`IInv`, `BInv`, `EInv`, `QInv`, `LoopInv`, `StreamInv`,
`RpcInv`) joins a module's types with what is inductive, so that the runs check
what the proofs use.  Each property of a passing run has a
mutant, an operator with `_` in its name and a comment that begins with
"Fault", which breaks it.

### Bounds

* Three workers and two tasks: a pop that races needs two workers, the lost
  wakeup one, a third shows that it does not spread.  The proofs lift both
  bounds.
* The barrier's threads meet more often than `UIntMod`, so `generation_` wraps
  in every run.
* Two timers: one that is deleted in the callback of the other, both expired in
  one iteration.
* Three consumers and three items: one that sleeps, one that is woken, and one
  that overtakes it.
* Three clients: the one that is called for, one closed from its callback, and
  one registered from the callback of that.  Two children: one whose callback
  runs and one that is forked or taken out meanwhile.
* `HeaderLen` is 2 so that a header can be torn, `MaxLen` 3 with sizes on both
  sides of the limit, `Word` stands for the range of `size_t`.
* `HeadBuf` is 5: a head of two bytes with a part of a body, exactly all of it,
  or the start of a longer one.  `Radix` is 2, so that a chunk size of two
  digits occurs; three requests on one connection let what one answer
  left in the client meet the next two.
* Two calls: two requests of one end, or one of each in opposite directions;
  a third adds no new way to meet in the table.
* Six addresses, four of them for values the caller creates, and two containers:
  a container in a container, two entries that change places in a copy, and a
  value that moves between containers.  Copies of nested containers do not fit
  in; `DeepCopy` treats each level alike.

### Fairness

Weak fairness of the steps of a thread that can run: the scheduler of the
operating system.  No fairness is assumed of the application (nobody must post,
start, stop, set an event) nor of spurious wakeups, time limits, timers or
failures.  In `pool` a task eventually returns.  In `evloop`
`ev_loop` returns from its wait when an async watcher was sent, which is what
libev documents.  In `barrier` the threads go on calling `Wait` until
`MaxRounds`, as the meeting requires.  In `frames` the loop reports readable
bytes until they are read.  In `http` a read returns when bytes or the end of
the stream are there, and the network delivers what the server sent; nothing
obliges the server to close.  In `rpc` the loop reads what arrives and an owner
answers each request it has read once, which is the owner's part of the
protocol; without it nothing could be said about callbacks.

Deadlock checking is off where the system may stop: a destroyed pool, a loop
that has ended, threads that are through, a closed connection.

## Findings

* `shortwrite`: `IoClient::Write` (`src/libev/io_client.cpp:84`) passes `data`
  and `size` in every turn, although its comments and `IoClient::Read` say that
  `bytes_left` is what remains.  After a short write the peer gets the beginning
  again, and the JSON-RPC reader is out of step.
* `ioloop_readwrite`: `IoLoop::ReadWrite` (`src/libev/io_loop.cpp:279`) calls
  `DataReadyToWrite` after a `DataReceived` in which the observer deleted the
  client, as the repository's own test observer does.

## Proofs

Each of the eight `...Proofs` modules proves the safety properties of its
component for all values of the constants, from the `ASSUME`s of the component
and, for `IoStream` and `IoLoop`, one hypothesis that the theorem states.  `SyncProofs` is about `TsQueue`, `Barrier` and `ThreadEvent`,
which have no name in common so that one module can extend all three.

* **ThreadPool.**  `IInv` joins the properties with `MutexHeld` (who is between
  lock and unlock), `JoinProgress` (the slots of `workers_` are joinable from
  the loop index on, or none is) and `LateStart` (the worker that is past its
  test when `stop_` is set uses up the only late start).  `OneLateStart` and
  `OneSleeper` are not inductive without `MutexHeld`; `NoRunAfterStop` needs
  `JoinProgress`.  `ImplementsWorkQueue` shows step simulation, with
  `QueueOrder` for the pop.
* **Barrier** (`SyncProofs`).  `Rendezvous` follows from `GenerationCount`: `count_` and the
  threads of the current generation add up to the threshold, and each thread's
  number of arrivals is `round` or `round + 1`.  The wrap needs only that two
  consecutive generations differ.
* **ThreadEvent** (`SyncProofs`).  The two properties with the types are inductive.
* **TsQueue** (`SyncProofs`).  The conjunction of its invariants, `QInv`, is inductive.
  `NoLostNotify` compares the length of the queue with the cardinalities of two
  sets of threads; each action moves at most one thread in or out of one of
  them, and the library's theorems on finite sets do the counting.
* **EventLoop.**  `NoLostNotify` needs `AsyncState` (when the watcher is active
  and when something can be pending).  `ImplementsWorkQueue` as for the pool.
* **JsonRpc.**  `CallbackOnce` is not inductive: a callback is called for what
  `PopRequestByID` finds under the id of an answer, so the id must still mean
  the call that was answered.  `RpcInv` adds `IdsAreFresh` (the numbers an end
  has given out are below its counter, and no two calls of it share one),
  `TableIsOurs` (an entry under a number is this end's own call of that number,
  without an answer) and `AnswersGoBack` (a request or an answer on the wire or
  waiting to be answered belongs to the end that asked, under the id it
  asked with).  The codec is proved on its own: `RequestReadBack` and
  `ResponseReadBack` say what `ParseJsonRPC` makes of what `MakeJsonRPC...`
  wrote, for every text; `ReadAsMeantHolds` rests on them.
* **IoStream**, with `~ShortWrites`: every `write` takes all it is given.  That
  is the hypothesis under which `IoClient::Write` is right; without it the run
  `shortwrite` refutes `WriteSendsTheData`.  `StreamInv` says of the bytes on
  the wire that they are the rest of one frame and then whole frames
  (`WireIsFrames`, each byte followed by its `After`), that the reader's buffer
  is the part before the next byte (`InStep`, `BufIsOfFrame`), and that what was
  received is a prefix of what was sent (`ReceivedInOrder`).  Stated by the
  place of each byte, it needs no induction over the frames.
  `ImplementsWorkQueue` is the refinement of `WorkQueue`.
* **IoLoop**, with `Contract`: the observer only registers in `Accepted` and
  `Closed`, and does not close or move a client in `DataReceived` when
  `DataReadyToWrite` is to follow.  The configuration of `ioloop` satisfies it;
  that of `ioloop_readwrite` does not, and is refuted.  The invariant goes over
  the call stack: `CallsAreSound` says what every unfinished call relies on when
  it goes on (`FrameIsSound`), that no two calls are about the same object and
  that `Stopped` is the outermost; `ObjectsAreSound` that an object no call is
  about is registered exactly while it is watched, and that a client is watched
  exactly while it is alive and ours; `StoppingIsSound` that
  each client that was registered when `Stopped` began is still in the copy and
  free, in a call of `CloseClient`, or closed once and deleted.  Every step is
  about one object (`OnlyTouches`), so the proof has one lemma for a call of the
  observer (`Push`), one for the end of a call (`Pop`), one for a return
  (`Drop`), and each action shows what these ask of it.  The registries are
  edited with `Erase`, a recursive function: `EraseElements` proves what it
  leaves by an induction over sets of numbers (`SetInduction`), which is itself
  proved from the pigeonhole principle of finite sets.

* **Values**, with `ValuesAssumption` (leaves are of the types that have a
  number, an unsigned one fits its width, and `Word` is positive).
  `SingleOwner` is inductive as it stands:
  no value is owned twice, by two containers or by a container and the caller,
  what is owned is live, and no container is below itself (`Grounded`).  The work is in `Reach`.  Being a least set it can
  be bounded by naming any closed set (`ReachLeast`), which gives that a
  container the caller can get at is not below itself or below an entry of its
  own (`NotBelowItself`), and that only the owner of a value points from outside
  to what is below it (`ReachPrivate`), so that a destructor leaves no dangling
  pointer behind.  Each operation is then a change of one container (`Given`,
  `Replaced`, `HandedOut`) or of what the caller holds (`Created`, `Dropped`).
  `OnlyOverwriteLeaks`, about the values a step leaves without an
  owner, is an action property over the same lemmas.
* **Copies** (`ValuesProofs`).  `Content` and `Equals` are recursive functions
  over trees of any depth.  That they are what their definitions say
  (`ContentUnfolds`, `EqualsUnfolds`) follows from `Grounded`: functions that
  obey the definition on a set of values with all their entries agree on it, and
  the union of these sets is the whole heap, since among the other values there
  would be one with all entries inside.  The same argument, on the values
  below the original whose copy differs, gives `CopiesAreFaithful`: the first of
  them has entries that were copied well, and `CopiedEntries` shows for each
  container that a copy in any order that the code may choose has the same
  entries.  For `Equals` the order has to be the same
  (`OrderIsIdentity`) and no leaf may be a NaN, which is why `CopyIsFaithful`
  asks for `Comparable`.
* **HttpClient**, with `ResponsesAssumption` (the server keeps to HTTP: a plain
  body is sent as it is, with its length or with none, a chunked one is coded
  as it should be, without a length) and `DecoderAssumption` (the digits are not
  among the other bytes).  `GoodBody` compares a result with the whole answer, so
  the invariant `HttpInv` has to say where in the answer the client is: the
  bytes that arrived and those still to be sent are, in this order, a slice of
  the answer (`Flow`), from its beginning while the head is not read (`Unread`),
  then from behind the bytes of the body so far, with `rest` as what is missing
  of the announced length (`Partly`).  `ResponsesAreGood` adds what a body of
  the answer means: plain bytes by `HttpInv` alone, chunked ones by
  `DecoderUndoes`, that the decoder makes of the beginning of a coded body the
  beginning of the body, and all of it of the whole.
* **ChunkedDecoder** (`HttpClientProofs`).  `Follow` says what the decoder
  remembers after the first `p` bytes of a coded body: in a line, the line up to
  there without a CR at the end, which is the case of a piece that ends between CR
  and LF; in a chunk, the bytes of it still to come; in both, that the output so
  far is the beginning of the body; after the last byte, the end and all of the
  body.  Each `Turn` leads from one such place to a later one (`TurnFollows`, with
  `DataTurn`, `PartialTurn` and `LineTurn` for its three cases), and the loop, by
  induction over the bytes that are left, to the end of the piece
  (`FilterFollows`).  That the recursive function `Filter` is what its definition
  says (`FilterUnfolds`) is proved too: every turn leaves fewer bytes
  (`TurnShortens`), so loops for ever longer pieces exist and agree.  Both
  inductions are instances of `SetInduction`.  `PiecesAreJoined` applies
  `FilterFollows` three times, once for each piece.

The proofs changed the models where they could not be reasoned about or were
not exact: the cases of `GetJsonRPCResponse` overlapped and are now in the order of
the code, the trees of `Values` are least sets in place of recursive operators
and its allocator is free in its choice, the decoder's loop has a turn of its
own and is compared with a grammar in place of an encoder for some bodies, and
the assumptions say what the code takes for granted (the ids of `NextRequestID` are strings that differ,
`NoClient` is no object).

TLC only:

* liveness (`PostedIsStarted`, `NotifiedRuns`, `RequestIsAnswered` and their
  like), which is out of reach of the prover.

Every invariant and every action property of the passing runs is a theorem.

## Not modelled

`PROJECT.json` lists every component.  The repository has 400 files of which
most are helpers without a protocol; a model of them would repeat the code.

* Tables and text: the Huffman tables of HTTP/2, the conversions of
  `convert2string.cpp`, `string_util.cpp`, the URL canonicalisation taken from
  Chromium, the header text of `http.cpp`, serializers, compression, hashes.
* Templates and wrappers: `Optional`, string pieces, smart pointers, files,
  sockets and addresses, system information, threads as such, the logger.
* Header compression and streams of HTTP/2: at this commit the inflater ends the
  program on literals without indexing and on names in Huffman code, the
  deflater's table has size 0, and most frames lead to `NOTREACHED`.  There is
  no working exchange for a model to be faithful to.
* `EventThread`, `EventBus` and the dispatcher: `StartEventThread` is private
  and has no caller, so no program can start the thread.
* `LoopController` forwards to the loop; a `Stop` before `Exec` has made the
  loop is lost, as one before `LibevAsync::Start` is in `EventLoop`.

Hazards met while reading that no model covers, beyond those of `PROJECT.json`:

* `thread_pool.cpp:65`: `InitWork` swaps `tasks_` without the mutex while
  another thread may be in `Post`; `:66`: a `uint16_t` counter for a `size_t`
  number of threads; `:63`: a second `Start` with joinable workers ends the
  program (a state of the model, `aborted`).
* `barrier.cpp:26`: `barrier(0)` wraps `count_` at the first `Wait`.
* `io_loop.cpp:238`: `FindExistLoopByPredicate` returns a loop after the lock is
  gone.
* `event_bus.h:99`: a wait without a predicate; `event_dispatcher.cpp:96`:
  listeners called with a non-recursive mutex held; `thread.h:95`: the thread
  may run before `Start` has set the event.
* `value.cpp:974`: `ZSetValue::Insert(k, k)` and containers put into themselves;
  `:378`: `GetAsDouble` of a large unsigned value is negative.
* `http_chunked_decoder.cpp:148`: the limit on a line holds only for lines that
  come in pieces.
* `http_client.cpp:334`: a short write of a request counts as sent; `:345`:
  `last_request_` survives `Disconnect`; `:410`: a buffer is not freed; `:427`:
  an answer longer than its announced length makes `rest` wrap (excluded by
  `ResponsesAssumption`).
* `protocol_client.h:108`: `requests_queue_` outlives the connection; `:64`: the
  entry is stored after the write, which matters only off the loop's thread;
  `json_rpc.cpp:257`: a response with neither error nor message ends the program.
* `http2.cpp:1275`, `:1213` and `http2_client.cpp:308`: the empty table of the
  deflater, an entry deleted while it is in the table, the first stream with
  headers taken for every answer.
* `loop_controller.cpp:65`: see above.

## Plan

1. The contract of `IoLoop` weakened: `closeOther` in `Accepted` and `Closed`
   outside `Stopped`, which needs the phase in what the observer may do.
2. The global list of loops with the end of a loop; the inotify table; the
   double-checked locking of `TSSingleton`; bandwidth
   estimation as a pure algorithm.
