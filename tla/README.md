# SockSrvClient in TLA+

A verification project for the request/response transport in `src/dev/common`: a client
(`SocketClient`) sends a request to a server (`SocketServer`) over a TCP or `AF_UNIX` stream
socket and waits, with a deadline, for the answer of a handler that the application gave to the
server. The modules model the protocol of client and server, the exchange of frames byte by byte,
the server's life, the file of an `AF_UNIX` server, the prefix of a frame and the Serializer; TLC
checks them on small instances, and TLAPS proves their safety and the refinements of four abstract
specifications for every value of the constants.

## 1. The system

All paths are below `src/dev/common`. "SSC" is `src/SockServerClient.cpp`.

| Component | State | Operations | Where | Model |
|---|---|---|---|---|
| `SocketClient` | `m_sock`, `m_port`, `m_conn_type` | `Connect`, `Close`, `Transaction`, `Sync` | SSC 946-1255 | `SockTransaction` |
| Shell of a connection | its socket, a `transaction_t`, its `conn_state_t` | the stages of `Shell`, `ShellClose` | SSC 678-942 | `SockTransaction` |
| Service thread | `server_sock`, `err_cnt_start` | `Service`, `StartClient` | SSC 531-623 | `ServerLifecycle`, coarser in `SockTransaction`; `Service` |
| `TransportServer` | `m_access_controller`, `m_stop`, `m_instance_active`, `m_server_thread`, `m_clients`, `m_ev_handler` | `Start`, `Stop`, `SetHandler` | `src/HidTransportInt.cpp` 91-109, SSC 625-676 | `ServerLifecycle`, `ServerReentry` |
| `transaction_t` | buffers, commands, times | `start`, `reset`, `expiration_set`, `checkpoint_set` | `src/HidTransportInt.cpp` 8-87 | `SockTransaction` without the times, `FrameExchange` with the deadline |
| Prefix of a frame | six 32-bit words | `SetParams`, `SetTimeout`, `GetParams`, `Valid`, `ExpirationTime...` | `include/StreamPrefix.h` | `StreamPrefix` |
| Frame I/O | the socket's mode, a deadline | `frame_tx`, `frame_rx`, `frame_wait`, `get_timeval` | SSC 329-514 | `FrameIO`, `FrameExchange`; what a call comes to, in `SockTransaction` |
| Socket count | `g_sockets_cnt` | `socket_open`, `socket_accept`, `socket_close` | SSC 28, 117-286 | `SockTransaction`, `ServerLifecycle` |
| File of an `AF_UNIX` socket | its name in the file system | `socket_bind`, the end of `Service` | SSC 166-214, 545-622 | `SocketFile` |
| Serializer | storage, offset, state | `StoreFix/Var/Cnt`, `LoadFix/Var/Cnt`, `Reset`, `ExportStatus`, `ImportStatus` | `include/Serializer.h` | `Serializer` |
| OS layer | none | blocking mode, error codes, close | `src/SockServerClientOsTools.cpp` | its effects, in `FrameIO` and `SocketFile` |

How they interact:

- An application thread calls the client; the client's thread is the caller's. Its only partner
  is the stream.
- `Start` takes `m_access_controller`, creates the service thread and polls `m_instance_active`
  until the thread has a listening socket. The service accepts, and starts one shell per
  connection with `std::async`; the future goes to `m_clients`.
- A shell waits in periods of one second for a request, looks at `m_stop` between them, reads
  prefix and payload with the deadline in the prefix, calls the handler, and sends the answer. On
  any failure it says `CMD_ERROR`, unless the client has closed, and closes.
- `Stop` takes the mutex, sets `m_stop`, joins the service and gets every future.
- `Transaction` closes its socket on a failure and, if the failure was a reset (`CONN_ERR_TX`,
  `CONN_ERR_RX`), first tries the whole exchange once more on a new connection. `Sync` does neither.

What is hard about it: the client's deadline passes while the shell still runs the handler, so
that answers come too late; a request may be executed by two shells at a time; a frame may be
taken for another because only its check word is looked at; failures arise at every socket
operation and each stage skips itself when an earlier one failed; three kinds of thread share
flags, a list and a count. `PROJECT.json` lists every such place ("hazards") with the properties
that watch it.

What makes each part correct:

- client: a `true` comes with the own, whole answer; between calls the kept connection is in step;
  a call returns; no descriptor is lost;
- shell: a request is executed once per sending; nothing follows an error report; it ends after
  `m_stop`;
- frames: each direction of a connection delivers whole frames in order until it breaks; a send
  fails only when the peer has left; a receive ends at its deadline;
- server: `Start` and `Stop` return; `Stop` leaves nothing behind; the list is never shared; a
  running service thread is never replaced; a handler may call the server;
- file: a server that is alone gets its file, also after a kill, and leaves none;
- Serializer: values come out as they went in, or the reader fails for good;
- prefix: what was written is read, a deadline never grows, damage to a word is seen.

## 2. The modules

`SockTransaction` is one client, the shells, and as much of the service as they need (accepting,
closing the listening socket, `Start` and `Stop`). Its actions carry the names of the functions
they stand for. The client's program counter `cpc` and a shell's `spc[c]` name the stage that
comes next; a stage is one action and contains one socket operation. Where `frame_rx` is called
through its wrapper, the wrapper (`FrameRxEntry`, `ShellRxEntry`) is a step of its own, because
it may find the deadline passed before the first `recv`.

- *Frames.* A unit is a prefix or a payload, sent and received whole. Its `id` is the number of
  the client's call it belongs to: the code of a ping, and for a request the data whose answer is
  awaited. A handler's answer carries the identity of the data it was given.
- *Connections.* A connection is a pair of queues `up`, `down`; `copen` holds the client's open
  descriptors, `spc[c]` says whether the server's is open. A send to a side that has closed is
  lost or fails; a receive may find a reset whether data is waiting or not.
- *Sends.* A send step is the return of `frame_tx`, which blocks without a deadline (SSC 371, 396).
  `ClientHeld` and `ShellHeld` say when the caller may still be waiting: its peer lives and does not
  receive, and the unit is a payload or finds others on its way. The step is possible then, as the
  buffers may be large enough, but the fairness does not promise it.
- *Time.* A receive may time out wherever the code compares the clock with its deadline. On Linux
  that is only the wrapper: `EAGAIN` equals `EWOULDBLOCK`, so the loop at SSC 458 goes on for ever.
- *Failures.* `Faults` names which of them happen: a failing `select()`, an allocation that throws,
  a handler that throws. A reset, a refused connection, `Stop` at any point and the lack of
  descriptors are always possible. `select()` in `frame_rx` is reached only on Windows.
- *History.* `attempts` and `execs` count, `tainted` marks connections that the code may have put
  out of step in the two ways of section 4; only the `got # NoPrefix` choice of a failing `select`
  reads data that stays from an earlier attempt. `attempts` is also what tells the code's first
  `TransactionInt` from its second.

`Init` is a client that called `Connect` once, so that it has a port, and is closed; the server is
not started.

`ServerLifecycle` has the application's threads, the mutex, the service thread and the shells
behind the futures. A thread is joinable while `thread` is not `"none"`. `died` records that the
service ended with `m_stop` clear. When `std::terminate` is called, `terminated` says why and no
action is possible. With no thread to be had, `StartMe` returns false, also over a thread that
is still joinable: the constructor throws (SSC 640) before the assignment terminates.

`ServerReentry` extends it with handlers that call `SetHandler`, `Start` or `Stop` of the server that
runs them: `hpc[s]` is where the handler of shell `s` is in such a call. The mutex may then belong to
a shell. Its `Start` and `Stop` are the `StartMe` and `StopMe` of the other module, step for step, and
`ListNotShared` is about both kinds of callers. A handler that calls `Stop` waits for its own shell and keeps the mutex: nobody goes on,
which the code does not prevent. The run over it therefore does not check for deadlock, and its
properties say what still holds: a call of `SetHandler` or `Start` returns unless a `Stop` is in
progress.

`FrameIO` has the frame functions as loops over `send`, `recv` and `select`. An end of a connection is a
record of what its function is doing (`io`), the result (`state`), the mode of the socket, the frame
going out with the bytes sent, the buffer coming in, and the time left. A byte is a frame and a place
in it, so that bytes of different frames can be told apart. `send` takes any part that fits, `recv`
gives any part that has arrived. On Linux an empty socket makes the loop call `recv` again, which
changes nothing, so `Recv` has no step for it. A receive that gives up inside a frame, or a `select`
that fails, puts its end into `broken`.

`FrameExchange` puts the client's calls and the shell on top, in the order in which `Transaction`,
`Sync` and `Shell` call the frame functions, on one connection. Compared with `SockTransaction`, whose
frames are whole, it has partial transfers, sends that block on a full buffer and deadlines inside a
frame; it has no retry, no second connection and no service. With the fault `HANDLER` a handler throws. `Delay` stands for the
client's timeout, for `COMM_TIMEOUT`, and for the timeout in the prefix that becomes the shell's
deadline. `FrameChannel` is what the two directions promise: `Requests` and `Replies` map the history
variable `flight`, the frames given to `frame_tx` that the other end has not taken, to its queue. A
frame taken by `frame_rx` is the one its bytes spell (`FrameIn`), never a look at `flight`.
A prefix fits the buffer of a socket (`SizesAssumption`): the smallest buffers hold thousands of bytes,
a prefix has 24.

`RemoteCall` is what client and server promise the application: a call sends its request once or
twice, the handler runs at most once per sending and maybe after the call has failed, an answer needs
an execution. `Remote` in `SockTransaction` maps `Phase`, `attempts` and `execs` to it.

`Service` is what `Start`, `Stop`, the service thread and the shells promise together: one service at a
time. A service begins to listen, and the stop flag is lowered, only when every shell of the service
before it is gone; a shell begins no request once it is told to stop. `ServerLifecycle` (with or without
handlers that call) obtains this from a mutex, a join and a list of futures: `Seen` maps a shell's program
counter to what it is doing, `OneServiceAtATime` is the property. `SockTransaction`, whose service is
coarser, takes the promise for granted: its `Start` waits for every shell. That `ServerLifecycle`
implements `Service` is what allows it to.

`SocketFile` has server processes on one `AF_UNIX` path, one action per system call: `unlink`, `bind` and
`listen`, the close and the last `unlink`. `Kill` may come at any point and leaves the file. `alone`
marks a server that has had no other one beside it since its `Start`.

`Serializer` has the storage, an object that writes and one that reads, with every store and load as
an operator on them. `Base` is the number of values of a byte (256 in the code), which sets where a
length needs one, two or four bytes. `store` grows the storage at its end and writes at `m_offset`,
as the code does; with the fault `ALLOC` the growth fails and the item is left cut off in the storage
(the code copies the rest behind it, which is undefined and not modelled); with
`REUSE` a writer is `Reset` and keeps its storage. `stored`
and `loaded` are what the application stored and the reader took since the writer began, `stale` how
much the storage held then, and `astray` that the reader is behind the items, or was in the midst of them
when the writer began again. `TypedQueue` is what the pair promises: the items come out in order and
by their type, and over a storage in use they are followed by a tail of which nothing is promised.

`StreamPrefix` has the operations of the prefix as operators over words modulo `M`, and a small
machine that writes prefixes, over older ones too, sets timeouts, sends, and alters words.

`MCSockTransaction`, `MCServerReentry` and `MCSerializer` give TLC its sets. Operators marked "Seeded
fault" are plausible mistakes in the definition that follows them; each property is violated when
one of them takes the place of that definition ("mutants" in `PROJECT.json`). No specification uses
them.

## 3. The runs

| Run | Bounds | What it shows |
|---|---|---|
| `txn` | 2 connections, 2 transactions, Windows, `ALLOC`, `HANDLER` | `ReplyIsOwn`, `IdleIsQuiet`, `ExecsBounded`, `ErrorIsLast`, `NoLeakedHandle`, `SocketsAccounted`, `TypeOK`; `CallsAreRemote`: implements `RemoteCall` |
| `sync` | 1 connection, 3 calls of either kind, Windows, `SELECT`, `HANDLER`, handlers that may never return | `ReplyIsOwn` and `IdleIsQuiet` next to failed pings and failing `select()`; every call returns unless it is held in a send on a connection out of step (`CallReturns`) |
| `linux` | 1 connection, 2 calls, Linux, fair handlers | calls return; after `Stop` service and shells end |
| `frames` | prefixes of 2 bytes, payloads of 0 or 4, room for 3, 2 calls, 2 ticks, Windows, `SELECT`, `HANDLER` | `FramesAreWhole`: both directions implement `FrameChannel`; `TxFailsOnlyWhenLeft`, `HeldOnlyOutOfStep`; a receive ends even if the server is silent (`RxReturns`); with a server that runs, calls return and `Stop` ends the shell |
| `lifecycle` | 2 threads, 2 futures, 1 error allowed, 3 possible, all faults, handlers that call the server | the list, the futures, the count and the flag are handled safely; `std::terminate` by assignment only after the service died; which `Start`, `Stop` and handler's calls return; `OneServiceAtATime`: implements `Service` |
| `file` | 2 servers, 1 error allowed, 1 possible, kills at any point | `FileIsOwn`, `StartsOverStaleFile` |
| `serializer` | bytes of 2 values, 2 items out of 12, 5 types asked, one `Reset` of the writer, `ALLOC`, `REUSE` | `KeepsTheQueue`: implements `TypedQueue`; `ImportMeansAll`, `ReuseIsNoticed` |
| `words` | words of 3 values, timeouts from -4 to 4, 2 words altered | round trip, deadlines, damage |
| `error`, `stale`, `partial`, `handler` | as the run that fits | each refutes one statement, see section 4 |

Why the bounds are enough. Two connections are what a retry needs: the one given up, whose shell
may still run, and the new one. With a single connection the retry finds no descriptor free until
the old shell has closed, which adds the failure of `socket()`. Two calls are what staleness
needs; the third in `sync` lets a connection get out of step, be replaced, and be used. The bound
on calls, `MaxOps`, also bounds the queues, as a call puts at most two units in flight per attempt.
In `lifecycle` one error more than allowed makes the service give up; two futures let one end
while the other runs. Words of three values tell a word from its neighbours and let two changes
make up for each other; four is the first timeout above a word that does not wrap to zero.
In `frames` a payload is larger than the buffer, and buffer and prefix are not multiples of each
other, so that a frame is split everywhere; two ticks let a deadline pass before, inside and after a
frame, and a wait of the last tick is none (`get_timeval`). Two calls are what leaves the answer of
one for the next. With bytes of two values the lengths 0, 1, 2 and 4 lie on both sides of every
boundary between the widths; two items show what a second store does to the first, and a writer is
`Reset` once (`Reuse`). In `file` one failure more would make the service give up, which is the subject of
`lifecycle`. Connections are interchangeable and `txn`, which has no liveness, is checked up to symmetry.

Fairness. `FairSpec` of `SockTransaction` is weak fairness of each thread: the client's calls in
progress, the service's end, each accept, each shell, each handler. A system scheduler gives
that, and nothing more is asked: no fairness on calls, on `Stop` or on faults; a failing `select()`
in particular is excluded from what the client can count on (`NoSelectFailure`). A step held in a
send (`ClientHeld`, `ShellHeld`) is not owed either.
`HungHandlerSpec` drops the handlers, which belong to the application. On Windows a timeout is
what ends the wait for a hung handler: the receive step of the client stays enabled by it, as the
real loop wakes up when `select()` returns at the deadline. `StopCompletes` needs handlers that
return. `SilentServerSpec` of `FrameExchange` has the client's thread and the clock only; `CallReturns` and
`StopEndsShell` add the shell's thread in their premise (`ServerRuns`). `ReentryFairSpec` is weak fairness
of each thread, and strong fairness for a handler that waits for the mutex: with weak fairness alone
two application threads could pass the mutex to each other for ever. `StartReturns` excuses a service
that ended by itself: `StartMe` then polls for ever at SSC 642 with the mutex held. `FairSpec` of
`SocketFile` is weak fairness of each service thread; nobody owes a `Start`, a `Stop` or a `Kill`.

`HeldOnlyOutOfStep`, `CallReturns` and `StopEndsShell` of `FrameExchange` excuse a connection that is out of
step (`late`, `broken`), and have to: a `Sync` answered late leaves the client one answer ahead, and if
the next request and the shell's answer both fill their buffers, client and shell wait in `send()`
for each other. Sends have no deadline (SSC 371), so this lasts. `CallReturns` of `SockTransaction`
excuses the same: a client held for ever in a send on a `tainted` connection, and nothing else.
Without the excuse TLC finds this very trace, a `Sync` that gives up and two `Transaction` calls with
payloads, and a second one in which `select()` fails in place of the `Sync`.

## 4. Where the code and its statements part

Four runs end in a counterexample.

- `error`: a `CMD_ERROR` prefix is accepted as an answer (SSC 1053-1060): `Transaction` returns true
  and the code handed back is a `conn_state_t`. The test asserts the handler's code (`main.cpp:90`).
- `stale`: a failed `Sync` keeps its socket (SSC 1235), and the next `Transaction` takes the late
  `PING_RESPONSE` for its answer.
- `partial`: a failing `select()` (SSC 480) leaves `CONN_OK`, and a frame that is not whole is
  handed back as whole (`main.cpp:89` asserts the handler's data).
- `handler`: `m_ev_handler` is read without the mutex (SSC 760) that is there to "Prevent concurrent
  access from threads" (`HidTransportInt.h:110`).

Three more are visible in the models without a run of their own. A timeout is cut to 32 bits
(`StreamPrefix.h:176`; the layout at 160 has 64), one whose low word is zero counts as none, and a
negative one becomes a long one: `TsSet`. `ExpirationNotLonger` is about the timeouts that are not
negative. On Linux a receive from a peer that falls silent without closing never ends (SSC 458):
`Recv`, and `RxReturns` holds on Windows only. A store after `Reset` overwrites the start of the storage
and leaves zeros at its end (`Serializer.h:530`, "Extend storage" at line 94): `store` and `Reuse`.
`ReuseIsNoticed` says that a reader which takes just the new items is told by `ImportStatus`. One that
reads on may find no fault: the bytes that were left may look like items.

`ReplyIsOwn` and `IdleIsQuiet` state what is left: outside connections that `Sync` or `select()` put
out of step, a `true` means the own whole answer or a bare `CMD_ERROR`.

## 5. What is proved

Each theorem holds for every value of the constants that the named assumptions of its module
allow: any number of connections, calls and faults, any size of a word.

- `SockTransactionProofs!TypeCorrect`: `Spec => []TypeOK`. `TypeOK` alone is not inductive: a stage
  that receives reads `down[m_sock]`, so the invariant adds `SockHeld`, that the client has a socket
  wherever it receives. The proof has a lemma per helper and a step per action.
- `SockTransactionProofs!NoHandleLeaks`, `NothingAfterError` and `SocketsCounted`: `NoLeakedHandle`,
  `ErrorIsLast` and `SocketsAccounted`. The first is inductive with the types. The second also needs that
  no shell has an `ERROR` prefix in `out` (`OutIsNoError`) and that the client's descriptor is open: a
  shell that has said `CMD_ERROR` only closes. The third needs that the set of served connections is
  finite, which is part of the invariant, so `Conns` may be infinite.
- `SockTransactionInStep!ReplyOwn` and `IdleQuiet`: `ReplyIsOwn` and `IdleIsQuiet`. Neither is inductive:
  what the client reads depends on what the shell has yet to write. The invariant `InStep` gives, for
  the client's connection while it is not `tainted`, what goes with each stage of the client:
  nothing under way (`Quiet`) between calls; while it waits, one of `NotRead`, `HalfRead`, `Executing`,
  `Answering`, `Answered` and `Failed`, each with the exact content of both queues; after the prefix of the
  answer, the payload or a shell about to send it (`HalfAnswered`); at the end `Quiet` again and the
  answer its own. The proof takes each of these through a step of the connection's shell, then
  through the steps of other shells and of the service, which change nothing of it, then through
  each step of the client.
- `SockTransactionRemote!HandlerNotRepeated`: `ExecsBounded`. The invariant adds to `execs[o]` the
  connections that still carry request `o` (in `up`, or in a shell that has read it and not started the
  handler) and the sending that the client is about to make; together they never exceed
  `attempts[o]`. It needs that a connection carries a request once (`CarriedOnce`), and for that
  that a retry has a connection of its own and that a new call was never sent (`Unsent`).
- `SockTransactionRemote!ImplementsRemoteCall`: `Spec => CallsAreRemote`. It rests on the invariants `InStep`
  and `ExecsBounded`: an execution stays below the sendings of its call, and a call that is answered
  has been executed. Every action is taken to the action of `RemoteCall` it implements, or to a stutter.
- `ServerLifecycleProofs!ServesInTurn`: `OneServiceAtATime`, the refinement of `Service`, for `Spec` and
  for `ReentrySpec`. It needs more than `Control`. A server without a service thread has no shell in its list, unless
  somebody in `StopMe` is getting it (`Drained`), and a service has none before its first socket (`Fresh`).
  As the list holds every shell that was started, no shell is left when a service begins to listen or
  when `StartMe` lowers `m_stop`. A service that listens has forgotten its earlier failures
  (`Errorless`), so it goes down only when it is told to or when `accept` fails more often than allowed
  (`ToldOrDied`). With handlers that call, a handler in `StopMe` may be the one that waits for the shells, its
  own among them, so that the list is never emptied (`HandlerGets`).
- `FrameExchangeProofs`, for any sizes of prefix, payloads and buffer within `SizesAssumption`, any
  delay and either platform. Each frame function and each system call has a lemma on the record of
  an end, from which the steps of client and shell follow. Three invariants build on each other:
  - `Inv`, for `TypeCorrect` (`TypeOK` with the bounds of both loops) and `TxFailureMeansLeft`
    (`TxFailsOnlyWhenLeft`). It adds `Sending`: an end inside `frame_tx` has a frame to send and a
    socket in blocking mode.
  - `FlowInv`, for `FramesArriveWhole` (`FramesAreWhole`, the refinement of `FrameChannel` in both
    directions). `Flow`: the bytes an end has yet to read, which are those in its buffer, those on
    the wire and the rest of the frame that its peer is sending, are the frames of `flight` laid
    out one after another (`Laid`), prefixes and payloads in turn (`InTurn`), and the last of them
    announces the payload that the peer has yet to send. That alone is not inductive: what an end asks
    for has to be what comes next. `Steady` says so: an end that receives wants the size that the
    frame it took last announces, and is in the loop that its stage began.
  - `LockInv`, for `HeldOutOfStep` (`HeldOnlyOutOfStep`). `Lockstep` adds that client and shell take
    turns: while no call has failed and the connection is in step, the shell reads only while the client
    waits for its answer, a request is under way only while no answer is, and what is on its way
    behind a prefix is that prefix's payload. With both ends held in `send()`, both directions would have
    a frame under way, which `TakingTurns` excludes; a `CMD_ERROR`, the one frame sent out of
    turn, is alone in its direction and fits the buffer, hence the assumption.
- `ServerLifecycleProofs!TypeCorrect`, `NothingLeft`, `AssignsToTheDead` and `ActiveServed`: the four
  invariants of `ServerLifecycle`, each for `Spec` and for `ReentrySpec`, where handlers call the server;
  and `NotShared`, `ListNotShared` for `ReentrySpec`. `Control` is inductive: who is in a call owns the mutex
  (`Excluded`); a service that is not active yet is awaited by a `Start` (`Awaited`); `m_stop` is set over a
  thread that is not joined only while a `Stop` joins it (`StopWaits`), so a thread that has ended
  and is not being joined has died (`EndedOrDied`); the list holds every shell that was started
  (`Futures`). On it rests the count (`Counted`), with one socket between `accept` and `StartClient`.
  The two specifications share the steps: `Control(j)` has `j` for "a handler joins the service", which
  is `FALSE` without handlers that call, and `HandlerOwns` says that the handler inside a call owns
  the mutex. `NotShared` adds to it that a handler past its join has no service thread left
  (`HandlerJoined`). The proof uses that `Shells` is finite.
- `SocketFileProofs!TypeCorrect` and `OwnFile`: `TypeOK` and `FileIsOwn`, for any number of servers.
  `FileIsOwn` is not inductive: the invariant says of a server that is alone that every other one is
  down (`OthersDown`), and that the file is its own from `bind` to the close and gone from the first
  `unlink` to the `bind` and after the last one (`Owned`).
- `SerializerProofs!TypeCorrect`, `ImportIsComplete`, `ReuseNoticed` and `IsATypedQueue`: the three
  invariants of `Serializer` and `KeepsTheQueue`, the refinement of `TypedQueue`, for every `Base`
  above 1 and any items whose lengths and counters can be stored (`ItemsAssumption`: below `Base`^4, 4 GB
  in the code). `ItemsPlaced` is the heart of the invariant: there are places at which the items stored
  lie in the storage, one behind the other (`Sits`: the code of the type, the length in as many bytes as its
  class has, the value); a writer that has not failed is behind the last one, a reader that is not
  astray is at item `loaded + 1`; behind the items is nothing, the start of an item that was cut
  off (`CutOff`), or, over a storage in use, at least `stale` bytes. Lemmas say that a length is given back by the
  bytes of its class (`LowBytes`, `Number`), which holds only below each limit, what a store adds
  and what a load makes of it.
- `StreamPrefixProofs!TypeCorrect`, `RoundTripHolds`, `ExpirationHolds` and `OneWordDamageHolds`: the four
  properties of `StreamPrefix`, for words of any size. They rest on lemmas on subtraction modulo `M`.

## 6. Only model-checked, or not modelled

Only model-checked:

- all liveness (`CallReturns`, `RxReturns`, `StopCompletes`, `StopEndsShell`, `StartReturns`,
  `StopReturnsOrCrossed`, `HandlerCallReturns`, `StartsOverStaleFile`), which is out of the prover's reach
  with its fairness;
- what the four runs with a counterexample refute.

Every invariant and every refinement that a passing run checks is stated by a theorem. A theorem is about the
module's variables and its own `Spec`: the fair specifications of the runs imply it.

Not modelled, and why:

- the Serializer's lengths of 2^32 and more: they are stored modulo 2^32 without a report
  (`Serializer.h:242`), and `ItemsAssumption` keeps the items below; one object used for stores and
  for loads, which share its offset (`Serializer.h:138`); the memory behind a storage that could not
  grow, to which `store` copies all the same (529); the error text, which no operation returns;
- logging, checkpoints, `to_string` helpers: they change nothing that the protocol reads;
- `FD_SETSIZE`, `SIGPIPE` and the system clock: properties of the process, listed as hazards. On
  Linux the model stands for a process that ignores `SIGPIPE`;
- two servers on one TCP port: the second fails to bind, which `ServerLifecycle` has as a failure;
- `socket_set_nodelay`, `WSAStartup` and the choice of the address: nothing reads what they set;
- the demos and the test programs, which were read for what they expect.

## 7. Plan

Done, in this order: `SockTransaction` (the protocol, first because everything else serves it),
`ServerLifecycle`, `StreamPrefix` and their proofs; `FrameIO` and `FrameExchange` with `FrameChannel`;
`RemoteCall` and its refinement; `ServerReentry`; `SocketFile`; `Serializer` with `TypedQueue`; `Service`; the proofs of the four refinements
(`RemoteCall`, `FrameChannel`, `TypedQueue`, `Service`) and of every invariant that a run checks.

To come:

1. Lemmas that serve several of the proofs, stated once: the layout of pieces in a sequence, which
   `FrameExchangeProofs` (`Laid`) and `SerializerProofs` (`Placed`) have each in their own form.
2. `FrameExchange` over more than one connection, so that a retry meets partial transfers.
