# Verification of json-rpc

TLA+ modules, TLC configurations and TLAPS proofs for the two RPC servers of
this repository, the client that talks to them, and what lies in between.
Paths below are relative to the repository.

## The system

| component | state it keeps | operations | interacts by |
|---|---|---|---|
| `SockServer` (`src/json-rpc/sockserver.cpp`, `include/json-rpc/server/sockserver.hpp`) | `_connections` (pool of `_pool_size`), `_stop`, `_mutex`; per `Connection`: `_client_sock`, `_connected`, `_mutex`, a thread | `start`, `stop`, `loop` (accept and evict), `ConnectionThread::run`, `Connection::shutdown` | a loop thread, one thread per connection, the owner's thread; joins while holding `_mutex` |
| `PollServer` (`src/json-rpc/pollserver.cpp`, `include/json-rpc/server/pollserver.hpp`) | `_channels`, `_stop`, thread pool; per `Channel`: `_busy`, `_alive`, `_write_buffer` (request), `_read_buffer` (reply), `_send_mutex`, `_read_cond` | `start`, `stop`, `loop`, `_handle_request`, `Channel::read/write/send/close/clear_msg` | loop thread and workers share Channels, mostly without locks; the owner walks `_channels` in `stop` |
| `PollManager` (same files) | two `fd_set`s, two sets mirroring them, `_highest` | `watch`, `unwatch`, `poll` | workers watch while the loop thread polls a copy |
| `SockClient` (`src/json-rpc/sockclient.cpp`) | one socket, `_sock` | `send_and_response`, `reconnect` | a stream of size-prefixed messages |
| `AbstractClient` (`include/json-rpc/client/client.hpp`) | none | `call` with retries, `_parse_response` | SOCKET_CLOSED makes it reconnect and send again |
| `Proto`, `errors.hpp` | error codes | build and parse requests, responses, errors | exceptions become error replies |
| `JsonRPCService` (`include/json-rpc/server/service.hpp`) | table of handlers | `reg`, `on_request` | called by both servers |
| buffers (`include/json-rpc/buffer.hpp`) | array, size, position | `read`, `write`, `ready` | framing of messages |
| `ServerConnector` (`include/json-rpc/server/sconn.hpp`) | listening socket | `_listen` | before any thread exists |
| stubgen (`src/stubgen/`, `include/stubgen/`) | class and service definitions | generates client and server stubs | offline; what it generated runs in client and server |

What is hard here: a connection may be evicted at any point of a request; a
client may leave at any point of a call; descriptor numbers are reused the
moment they are closed, and are closed more than once; `PollServer` shares
Channels between the loop thread and the workers with three different, partly
missing, disciplines; `stop()` runs against all of it. The client tries again
after a failure without knowing what became of the first try, over replies that
carry no number; the server may have died and come back with another stub. A
message may be cut anywhere by the network, and the readers look for its end in
different ways.

What makes each part correct: a call runs at most once and is resent only if it
did not run (both servers); the pool bounds what runs and a running thread owns
its socket (SockServer); each message is handled once, the map of Channels, the
fd_sets and the replies in progress agree, and a chunk goes to the client it
is for (PollServer); `select` looks at exactly what is watched (PollManager); who
waits is answered; a call
runs at most once over all its tries and its caller is told what happened
(client); arguments reach the parameters they were given for (stubs); messages
arrive whole and in order, and no buffer overflows (framing).

## Modules

| module | models |
|---|---|
| `Wire` | descriptors of the process (lowest free number, `close` of a number by whoever), a stream each way per connection, and a `SockClient` at the far end: sends a request whole or in two writes, reads a reply (or the frame behind it as well, `ClientRecvTooMuch`), fails, closes |
| `CallContract` | the abstract specification of one attempt on one connection: a call is executed at most once, refused only if it was not, and one whose caller has left may still run once, with its outcome lost |
| `SockServer` | the loop thread (`LoopTop`, `Accept`, `EvictBegin` .. `EvictDelete`, `Push`, `Start`), `ConnectionThread::run` (`While`, `ReadSize`, `ReadBody`, `Handle`, `Respond`, `After`, `Catch`), `stop()` and `~SockServer` (`StopBegin` .. `JoinLoop`) |
| `PollManager` | `watch`, `unwatch`; `PollServer` instantiates it |
| `PollServer` | `poll()` (`Snapshot`, `Select`), the reading half of the loop (`Accept` .. `DropChannel`; `ReadAlone` and `ReadAstray` when a size comes without its text), its writing half (`WriteMore`, `UnwatchWrite`), a worker (`Take` .. `Unlock`; `HandleGarbage` for a message nobody sent), `stop()` |
| `MCPollServer` | symmetry of the workers |
| `StubGen` | descriptions, the codes of methods (hash, `int`, absolute value), serialization of arguments, results and class members in the order of their names, wrappers and their registration |
| `Dispatch` | both `Proto::build_request`, `AbstractService::on_request`, the frame a message is answered with |
| `RpcClient` | `AbstractClient::call` (`MakeCall`, the `catch`es in `RecvError` and `TryAgain`), `SockClient` (`Connect`, `ConnectFails`, `Send...`, `Recv...`), and any server that keeps `CallContract` |
| `MCRpcClient` | the descriptions: the client's; a service of the same; one that names a parameter otherwise and lacks a method; one with another member and type; one with two methods of one code |
| `MessageQueue` | the abstract specification of framing, with the one text that may be wrong |
| `Framing` | the buffers, the sender's loop and the two kinds of reader on the four links (client and `Connection`, client and `Channel`, each way) |
| `WireProofs` | lemmas about streams and descriptors, for both servers |
| `SockServerProofs`, `SockContractProofs` | theorems about `SockServer`: types, pool, descriptors and what `stop()` leaves behind; the calls, the contract and that nothing brings it down |
| `PollManagerProofs`, `PollServerProofs`, `PollContractProofs` | theorems about `PollManager` and `PollServer`: types, Channels, jobs and descriptors; the calls, the contract and the watch for writing |
| `FramingProofs`, `RpcClientProofs` | theorems about `Framing`; about `RpcClient` and the stubs it calls with |

`SockServer` and `PollServer` EXTEND `Wire`, and each instantiates
`CallContract` with a refinement mapping (`CallPhase`, by `PhaseOf` of `Wire`)
from the state of a connection to what its caller may conclude from it. So the two servers are
checked against the same promise, and `RpcClient` builds on that promise instead
of on a server: its server steps are joined with the steps of an instance of
`CallContract` per connection, so that what is checked of the client holds with
either server as far as `KeepsContract` was checked. `Framing` justifies the
frames that the other modules pass around: it shows when a stream of bytes
amounts to a queue of messages, and `LostOnlyWhen` lists when it does not.

How the state corresponds to the code. Connections are numbered in the order of
`accept()`; a number stands for the socket, the `Connection` or `Channel` made
for it and the client at its far end. `fdOf[c]` is the number the object keeps
(`_client_sock`, `_sock`), `owner[f]` who has the descriptor open in the kernel;
the two disagree after a `close()`, and `Holds(c)` says that they agree. `thr`,
`loop.pc`, `work[w].pc` and `main.pc` are program counters; one action is one
stretch of code between two points at which another thread can matter.
`crash` records how the process died or met undefined behaviour (SIGPIPE and
`LOG(FATAL)`: `write`; a size of -1 handed to a buffer: `badalloc`, `memcpy`;
a freed object or iterator: `freed`; a null Channel: `null`; `front()` of an
empty list: `empty`; two joins of one thread: `doublejoin`; `accept()`:
`accept`). `stray` stands for a chunk written into the stream of another
connection, which the process survives and the model does not follow. Nothing
happens after any of them, so that a refinement of `CallContract` is a statement
about the steps up to there.

Abstractions. A request is two units, its size and its rest, the rest being
represented by its kind: valid, not JSON, unknown method, wrong parameters; a
size nobody accepts is a kind of its own. For a `Channel` the unit "size" is the
four bytes and at least one byte of the text that came with them; that the four
bytes are alone when the `Channel` reads is possible with `SizeAlone`.
A reply is one frame for its reader,
and in `PollServer` a number of chunks for its writer. A `write` to a client
that has closed is accepted once and answered with a reset; the next one kills.
A read of a number that its connection no longer holds is an error, whoever
else may have the number by then; so is a write by `SockServer`. What a worker does
with a Channel that was deleted is the crash `freed`, and what comes of a chunk that
goes to another connection is left open (`stray`). In `Wire` and in the servers no
read is interrupted by a signal. A message of garbage is whatever the array held:
nothing, no JSON, or a request that was read before.

In `RpcClient` a connection is served as either server does it; what the server
wrote before it died may be lost or be cut (`part`). The first write after the
server's close is taken and answered with a reset at once. `tried` is not
counted beyond `MaxTry + 2`. A read that fails on a connection that is alive (a
signal interrupts it and there is no `SA_RESTART`, or a size comes in parts) may
happen in any call (`RecvInterrupted`): the code then sends the request again behind
the first, may have it run twice, and takes what comes for the answer. The model
leaves the client there (`astray`), so that every property of `RpcClient` is about
calls up to the first such read. `JCONER` (JSON and the
serializers) is not part of the repository: `Fits` says of it what the generated
code relies on.

In `StubGen` names of parameters and members are numbers, since only their order
matters, and a value is represented by the path of names it was given under. In
`Framing` a byte is its place in the stream, so that a text is right when it is
the interval of its message; a text a `Channel` makes up is of zeros, the place of
no byte. After the stream is lost (`verdict`) nothing more happens, and a text handed
on at that moment counts. The text that is handed on is taken to be the whole array filled,
though the code ends it at the first zero byte.

## Runs

| run | module, bounds | checks |
|---|---|---|
| `sock_core` | `SockServer` with fairness, 3 connections, 1 call each, pool of 2, 3 descriptors, clients that leave between calls or when stuck, results and errors | `TypeOK`, `LiveThreadsBounded`, `ThreadOwnsSocket`, `UnansweredNotExecuted`, `NoCrash`, `StuckOnlyByEviction`, `EvictionEnds`, `WaitEnds` |
| `sock_faults` | `SockServer`, 3 connections, 2 calls each, pool of 1, 2 descriptors, clients that leave in the middle of a request, while served or when stuck, `accept()` that fails, `stop()` and `~SockServer` | `DestroyedQuiet`, `KeepsContract` (until `stop()`) |
| `poll_core` | `PollServer`, 2 connections, 2 calls each, 2 workers, replies of 1 or 2 chunks, clients that die anywhere, no size alone | `ChannelsMatchPoll`, `WriteWatchExact`, `HighestCoversSets`, `WritesReachOwn`, refinement `KeepsContract` |
| `poll_alone` | `PollServer`, 2 connections, 1 call each, 2 workers, 1 descriptor, foreign descriptors, replies of 1 or 2 chunks, results and errors, clients that die during a call, sizes that may be alone | `TypeOK`, `QueuedOnce` |
| `poll_live` | `PollServer` with fairness and `stop()`, 2 connections, 1 call each, 2 workers, replies of 1 or 2 chunks, clients that stay | `LockedIsOpen`, `WaitEnds`, `StopEnds` |
| `rpc` | `RpcClient` with fairness, 2 calls, 3 connections, 1 death of the server, 4 descriptions, `MAX_TRY` of 1, SIGPIPE kills | `TypeOK`, `InStep`, `AtMostOnce`, `OutcomeTrue`, `ErrorsJustified`, `BoundByName`, `CallEnds` |
| `framing` | `Framing` with fairness, 3 messages of 1, 3 or 8 bytes, chunks of 3, sizes of 2, sockets that hold 6 | `TypeOK`, `BufferHolds`, `LostOnlyWhen`, refinement `KeepsOrder`, `Delivered` |

The bounds. Three connections over a pool of two are needed for an eviction
that leaves a neighbour in the pool and for a number to be reused; with two and
a pool of one every connection is evicted by the next. In `sock_faults` three
connections have two numbers, so that an eviction hands on a number while `stop()`
walks the pool. One call is enough in `sock_core` for a client to read its result
and the end of its connection as one frame; the second exception of `WaitEnds`, a
call after an error reply, needs two and is met by `sock_error_reuse`. Two calls on one
connection are needed for a second request to meet what the first one left
(`_busy`, the mutex, the stream), two workers for two Channels to be handled at
once, and two chunks for a reply to pass from a worker to the loop thread. As
many descriptors as connections let a number be reused and, in `sock_faults` and
`poll_alone`, run out. `poll_core` leaves out calls that are answered with an error, which
multiply its states and differ only in that nothing runs; `poll_alone` has them.
`sock_faults` leaves them out too, and `sock_core` has them. In `poll_live` one call
per client and two chunks are enough for `stop()` to meet a reply in the hands of
a worker, in those of the loop thread, and between the two.
`MaxStops` = 2 is `stop()` followed by the destructor. Deadlock is not
checked: when the bounded clients have made their calls, or the process has
crashed, nothing remains to be done. In `rpc` two calls are needed for one to
meet what the other left, and three connections for a call that is refused
twice; that no more connections are accepted stands for a server that refuses
the rest. With `MAX_TRY` = 1 the count reaches its limit and passes it within two
tries. In `framing` a message is shorter than, equal to and longer than a chunk,
a `WRONBuffer` grows (8 > 3), and a `Channel` finds its socket full (8 + 2 > 6).

Fairness. Each thread of the server takes its next step when it can, for threads
are scheduled by the kernel; `Accept` has none, since no client need come; a
client that has begun a request sends the rest and reads its reply; nobody need
begin a call, leave, or call `stop()`. A `stop()` that has begun goes on. In
`RpcClient` the client's thread and whatever serves a connection take their
steps; nobody need evict, die or restart, and no read need fail on a live
connection. In `Framing` writer, network and reader do.

Five runs end in a counterexample, because the code does not do what a comment
of the repository says:

* `sock_client_dies` (`ClientCloseDetected`): a client that closes while its
  request is being served resets the connection; the next `read` fails, that is
  reported as a bad message, and writing that report kills the server.
* `sock_error_reuse` (`ErrorEndsConnection`): after an error reply the thread
  ends, but the socket stays open and pooled; the client's next call waits for
  ever.
* `poll_job_keeps` (`JobKeepsChannel`): `_handle_request` clears `_busy` before
  it handles the message; a client that leaves then has its Channel deleted
  under the worker.
* `poll_half_dies` (`ClientCloseNoticed`): a client that closes in the middle of
  a message is never noticed.
* `client_gives_up` (`GivesUpInTime`): `MAX_TRY` is looked at after the loop, which
  a failing try does not leave. A call that finds no host leaves the closed
  number in `_sock`; the next one writes to it for ever.

The other weak places of the code show up in the models when a constant is
changed, or as an exception named in a property, and limit what the passing runs
claim:

* `SockServer`: `EvictionEnds` fails with `ClosePoints = {"half"}`, since `_recv`
  does not stop at end of file in the middle of a message. A client that reads its
  result together with the SOCKET_CLOSED of an eviction never returns: `WaitEnds`
  names it, and `StuckOnlyByEviction` says that it takes an eviction and a call that
  was executed. It names also the client that calls again after an error reply
  (`sock_error_reuse`). `stop()` alone closes the pool before the loop thread, which
  may add one connection more (this is why `DestroyedQuiet` is about the destructor).
  That window also hurts the contract: a connection accepted before `stop()` cleared
  the pool, closed by it, and pushed afterwards keeps a number that the next one
  gets, and its eviction closes that number under the other's running thread. The
  second `close()` of an eviction takes a descriptor the process opened in between
  (`AppOpens`). Hence `KeepsContract` says nothing from `stop()` on, and neither the runs
  nor the theorems about it have foreign descriptors: the contract is false with
  either. And it says nothing of how the process ends: an `accept()` that failed, a list
  walked by two threads and a `read` that failed in the middle of a message end it
  (`crash`), which is no step of the contract.
* `PollServer`: with a client that leaves during its call, the notification of
  `clear_msg` can come between the test of `_busy` and the wait, and `close()`
  can wait for a `_send_mutex` only the loop thread itself would release; with
  replies of two chunks `stop()` can wait for ever, because `select` fails on the
  descriptors it has closed and the reply in progress is never finished. Clients
  stay in `poll_live`, which does not meet the first two; `StopEnds` names the third
  (`Unfinished`) and says that `stop()` waits for ever in no other case. `WaitEnds` ends
  at `stop()`, which closes Channels under their clients. With two calls
  per client the second unlock in `send` can release the lock of another worker;
  `stop()` can then close the descriptor, the loop thread accept a client on the same
  number, and the chunk go to that client, which reads a result for a call it never
  made. And a request that is queued when `stop()` closes its Channel is still
  executed after its client has seen the connection fail and may have sent it
  elsewhere. So nothing is claimed of what clients get once `stop()` is called;
  until then `WritesReachOwn` says that no chunk goes astray. When a `Channel` finds a
  size and nothing behind it, the second `read` of the same call is -1, the buffer takes
  that for a message beyond its room and is full at once: a message nobody sent is
  queued and answered, and the stream is out of step. The contract is claimed
  without it (`SizeAlone = FALSE`), and what `poll_alone` claims with it is that what
  is handed on has one job.
* `RpcClient`: a read that fails on a live connection ends what is claimed (see
  above). `CallEnds` names what a call may hang in: a dead connection that is tried
  again and again, a connection nobody reads after an error, a result read together
  with the SOCKET_CLOSED after it, and a call without a result that is answered with
  an error, which is sent again on new connections for ever.
* `Dispatch`: where the two descriptions differ only in names, a call binds its
  arguments to other parameters without an error, and a method that shares its
  code with a later one is never reached; `Agreed` leaves both out of
  `BoundByName`.
* `Framing`: the stream is lost when a size arrives in part, when it arrives at a
  `Channel` without a byte of its message, when a frame follows another before it
  has been read, and when a `Channel` finds its socket full (`LostOnlyWhen`). In the
  second case a text that nobody sent is handed on; `MessageQueue` allows for one such
  text, the last (`Garble`).

## Theorems

Proved by TLAPS, for all values of the constants that satisfy the named
assumptions (`WireAssumption`, `SockServerAssumption`, `PollServerAssumption`,
`FramingAssumption`, `RpcAssumption`; of `PollManager` that descriptors are natural
numbers). They give the constants their types, and `FramingAssumption` the bounds
below which no `int` wraps; any further hypothesis of a theorem is listed with it.

* `PollManagerProofs!HighestCovers`: `_highest` is the largest watched
  descriptor or 0. Inductive once `Mirrored` is added: `_highest` is computed
  from the sets, `select` is given the fd_sets, and the two are the same.
* `SockServerProofs!TypeCorrect`, `TypesHold`: `TypeOK`. It is not inductive
  by itself. That a thread handles a kind of request needs the streams to be
  framed (`StreamFramed`: no two sizes in a row, a size at the end only while the
  client is sending, a thread in the body finds the rest); that the pool holds
  connections needs what the loop thread has in hand (`LoopHasConns`) and that
  connections to come are untouched (`NotYet`).
* `SockServerProofs!PoolBound`: `LiveThreadsBounded`. The strengthening
  (`PoolInv`) says that whatever is pushed finds room, that every running thread
  belongs to a connection in the list, and that the connection about to be popped
  is the head and has no running thread. The bound on threads then follows from
  the length of the list.
* `SockServerProofs!SocketOwned`: `ThreadOwnsSocket`, assuming `~AppOpens`
  (without it the theorem is false, see above). `FdsOpen` says which connections
  hold their descriptor (`Pooled`), and that between the two `close()`s of an
  eviction the number is free; the order of the list (`Ordered`) is needed to know
  that the connection that was closed is not in the list a second time.
* `SockServerProofs!StoppedQuiet`: `DestroyedQuiet`, with no hypothesis. No step of
  anybody revives a connection that was shut down (`ShutStays`), so it is enough to
  say who was: every connection that has left the list (`LeftQuiet`), those that the
  walk of `stop()` has passed (`WalkQuiet`), and the one that the loop thread was about
  to pop when `stop()` emptied the list (`OldShut`). The first `stop()` may leave one that
  is pushed behind its walk. The second begins after the loop thread was joined
  (`StopsOnce`), so that nothing is pushed any more and its walk passes all there is.
* `SockContractProofs!CallsInOrder`, `GivenUpUnexecuted`, `ContractKept`: until `stop()`
  and with `~AppOpens`, `UnansweredNotExecuted` holds and every step is one of
  `CallContract` or none. The invariant (`CallInv`) relates for each connection four
  things that are updated at different times by different threads: the client's
  books (`Books`), what is under way to it (`Written`: a result only as the first
  frame, nothing after an error but by a thread that is done), what was run and is
  still to be written (`Pending`), and the request still to be read (`Reading`: one
  at most, and it is the one waited for). It is inductive only because a running
  thread's descriptor is its own (`SocketOwned`): a thread whose socket another
  `close()` took fails to write the result of a call it has run, and its client
  sends the call again. Both hypotheses are needed. With `AppOpens` TLC refutes the
  contract with 3 connections, 3 descriptors and a pool of 1; with `stop()`, see the
  weak places above.
* `SockContractProofs!NeverCrashes`: `NoCrash` until `stop()`, with `~AppOpens`,
  `~AcceptMayFail`, `"waiting" \notin ClosePoints` and `MaxFd > PoolSize`. That `accept()`
  finds a descriptor (`FreeLeft`) is a matter of counting: those that are open belong
  to different connections of the list (`PoolOwns`), which is no longer than the pool,
  and what was accepted keeps a number (`Numbered`). A thread writes only where it may
  because of what a client that left between calls leaves behind (`Left`: its end, or a
  size without the rest) and because errors are written to clients that wait
  (`Complains`); both rest on `CallInv`. Each of the four hypotheses is needed: with
  any one dropped TLC finds a crash with 3 connections and a pool of 2, by a
  descriptor another `close()` took, by an `accept()` whose result -1 is served, by an
  error or a result written to a client that has left, and, with as many descriptors
  as places, by the first connection beyond them, which is accepted before the oldest
  is evicted.
* `PollServerProofs!TypeCorrect`, `HighestCovers`, `MessagesOnce`: `TypeOK`,
  `HighestCoversSets`, `QueuedOnce`, also while `stop()` runs and with sizes that
  are alone. The invariant (`Base`) has four parts. `TypeInv`: a type depends on who
  may hold a Channel and on the streams being framed, for what a worker takes out of
  one is a request only if it was read whole, and garbage otherwise. `MapInv`: the
  Channel the loop thread has in hand is the one in the map, and none that was
  deleted is. `JobInv`: a request in a Channel is there because one job for it is
  queued or with a worker that has not taken it (`JobCount` counts them). `WatchInv`
  is the invariant of `PollManagerProofs`, whose lemmas about `watch` and `unwatch`
  it cites.
* `PollServerProofs!MapMatches`: `ChannelsMatchPoll`, until `stop()`. It is
  inductive on top of `Base`: what is out of step is the Channel being closed, and
  its number cannot be given to another before the map and the sets are
  mended, since the loop thread that mends them is the one that accepts.
* `PollServerProofs!NumbersOwned`, `LockedOpen`: a Channel that is alive holds its
  descriptor, and `LockedIsOpen`, also while `stop()` runs (it speaks of a mutex that is
  held, and so not of a reply whose mutex was released by somebody else). The strengthening
  (`OpenInv`) says that whoever is about to close a Channel, the loop thread or
  `stop()`, closes the number of that one, and that a worker past the test of `_alive`
  keeps `_send_mutex`, for which `close()` waits.
* `PollServerProofs!OwnStreams`: `WritesReachOwn`. A Channel whose number is another's
  has been deleted (`OwnMapped`, on top of `Base`, `OpenInv` and `ChannelsMatchPoll`):
  the loop thread drops what it closes before it accepts again, and touching a
  deleted Channel is a crash of its own. It ends at `stop()`, which closes Channels
  and does not delete them.
* `PollContractProofs!CallsInOrder`: `CallInv`, until `stop()` and with `~SizeAlone`. Where
  `SockServer` has one thread per connection, a request here passes from the stream to
  the Channel, to the queue, to a worker, to the loop thread that writes the rest of
  the reply. `CallInv` says that it is at one of these places at most, and what the
  books of its client say there; whoever writes does so on the connection the reply
  is for (`NumbersOwned`).
* `PollContractProofs!ClosedWhenOver`, `WritesWatched`, `ContractKept`: `WriteWatchExact`
  and the refinement of `CallContract`, until `stop()` and with `~SizeAlone`. What is said
  of closing is `ClosesOver`. `ReadInv` says that what
  `select` reported as readable still has something to read when its turn comes,
  though other Channels were closed since: a Channel is
  closed because its client left or sent what nobody accepts, never with a call
  under way. `DescInv` ties numbers, map and owners together for the round in
  progress, and `WriteInv` the set of descriptors watched for writing to the
  chunks left (`left`) and to who is writing them.
* `FramingProofs!Typed`, `BuffersHold`, `Refines`: `TypeOK`, `BufferHolds`, and the
  refinement of `MessageQueue`, with no hypothesis. The invariant (`IInv`) says that
  the messages fill the stream (`Contiguous`), that what is written and still to be
  written ends where the last of them does (`SenderInStep`), and that the reader
  stands at the end of a message, or holds exactly what it has taken of the next one
  (`ReaderInStep`); the last two only while the stream is not lost. The text a
  reader has is extended chunk by chunk (`IntervalGrows`), so that when the count
  equals the size it is the message (`WholeText`), and the step is `Receive` of the
  queue; the text made of a size alone is handed on in the step that loses the
  stream, which is `Garble`. That no sum of a position and a chunk wraps
  (`FramingAssumption`) is needed for `SizedWRONBuffer`.
* `FramingProofs!LostHow`: `LostOnlyWhen`. Added to `IInv` is `InTurn`: who sends only in
  answer is at most one message ahead of its reader. With it a byte that arrives
  behind a message belongs to another (`PastTheEnd`), so that only what a
  `SockServer` sends can be read past its end, and a `Channel` fails to read only
  where its size came alone (`ChannelLoses`).
* `RpcClientProofs!Typed`, `AlwaysInStep`, `RunsOnce`, `ToldTheTruth`:
  `TypeOK`, `InStep`, `AtMostOnce`, `OutcomeTrue`, all up to the first read that fails on a
  live connection. One invariant (`IInv`) carries all four.
  A connection the client does not hold has nothing under
  way (`Elsewhere`), one to come is untouched (`Unopened`). On the present one there is
  at most one thing in hand: the request, its execution, or its answer (`InHand`),
  and behind an answer at most a last word (`Behind`). A client that waits is in
  one of two states (`Waiting`): its call has not run, and what it can still get is an
  error or a run (`NotRun`), or it has run, and what it can get is the result or
  nothing (`HasRun`). `RanOnce` bounds the runs of all calls made, `Retries` says
  that a try that failed left a dead connection, which is why it is not run again,
  `Between` and `Told` carry what callers know over to the calls after. Nothing is used of
  the descriptions here: what a call is answered with enters as one of the frames
  of `AnswerTo`.
* `RpcClientProofs!StubsFit`: what `Agreed` promises of two descriptions, for any
  number of methods and classes nested to any depth. The leaves of a value
  are told apart by their places in the arrays (`LeavesApart`), by induction over the
  depth: members of one class differ in `Rank`, and no place is the beginning of
  another. So an argument can be bound only to the leaf of its own name
  (`BoundToItself`). That the table of handlers has the method under its code
  (`OwnHandler`) is an induction over the calls of `reg`: a later one with another code
  leaves it there (`WrappersRegistered`).
* `RpcClientProofs!JustErrors`, `BoundAsNamed`: `ErrorsJustified`, `BoundByName`. `RInv` is
  added to `IInv`: a service that has never died is the one that refused the
  call, whether its caller has read so (`Refused`) or not yet (`Refusing`), and what
  cannot be read comes from the service that ran the call (`Unread`). With
  `StubsFit` none of this can befall a call the descriptions agree about.

`RpcAssumption` asks of the descriptions that they compile and are what the
generator holds in memory (`Described`): methods in a list, parameters and members
in a `std::map` each, finitely many. The inductions of `StubsFit` have a set for
their hypothesis and a function for their step (`UpToInduction`, `Recursion`), since
an operator as a parameter is what the provers cannot instantiate.

The two refinements of `CallContract` end at `stop()`. `KeepsContract` of `SockServer`
says so itself; that of `PollServer` is proved under the hypothesis
`[](main.pc = "running")`, satisfied by every behaviour in which the owner does not call
`stop()`. Clients may do whatever `Wire` lets them, the process may crash. `WireProofs`
holds the lemmas that do not depend on the server.

Only model-checked:

* `StuckOnlyByEviction`, which no theorem states.
* Liveness, which is out of the prover's reach, as is ENABLED: `EvictionEnds`,
  `WaitEnds`, `StopEnds`, `CallEnds`, `Delivered`.
* The five counterexamples.

## Not modelled

`ServerConnector`, `util.hpp`, build files: no behaviour that interleaves with
anything. Contents of bytes: the terminating zero that `c_str()` of a
`WRONBuffer` lacks, the zero that `Channel::write` puts behind a full chunk, JSON
text, `fd_set`s as memory. A method that throws. Reads of the servers interrupted
by signals, and what a client does after one of its own was. What becomes of a
chunk that went to another connection after `stop()`.
`HRDONBuffer` and `reset()`, which nobody calls. A `start()` after `stop()`; the
destructor of `PollServer` while its loop runs. The wording of generated files.

## Plan

Done: all modules above; every invariant and refinement of the passing runs but
`StuckOnlyByEviction` is stated by a theorem. What is left: to follow a chunk into the
stream of another connection, in both servers, and say what a client can still rely
on after `stop()`; and to follow a client past a read that failed on a live
connection, with the message it sent twice under way.
