# EasyEvent in TLA+

EasyEvent is a small C++ network library in the style of muduo: one `EventLoop`
per thread, `poll(2)` underneath, and TCP and UDP servers on top. This directory
holds TLA+ models of it, translated from the sources (`src/base`, `src/net`), the
TLC configurations that check them, and proofs of their invariants and refinements
for TLAPS.
`PROJECT.json` maps every definition to the lines it models.

## 1. The system

| component | state it keeps | operations | who calls it |
|---|---|---|---|
| `EventLoop` | `_quit`, `_callingPendingFunctors`, `_pendingFunctors` under `_mtx`, an eventfd, `_activeChannels` | `startLoop`, `quitLoop`, `runInLoop`, `queueInLoop`, `updateChannel`, `removeChannel` | its own thread; other threads for quit, run and queue |
| `EventLoopThread`, `Thread` | the pointer `_loop` under `_mutex` and `_cond`; a pthread | `startLoop`, destructor, `threadFunc` | an owner thread |
| `EventLoopThreadPool` | `_started`, `_numThreads`, `_loops`, `_next` | `setThreadNum`, `start`, `getNextLoop`, destructor | the base loop's thread; both servers have one and start none |
| `Poller`, `Channel` | `_pollfds`, `_channelMap`; per channel `_fd`, `_events`, `_revents`, `_index` | enable and disable calls, `updateChannel`, `removeChannel`, `poll`, `handleEvent` | the loop's thread |
| `Buffer` | a vector, two indexes, `_isFull` | `append`, `readFd`, `retrieve…`, `writeFd` | `TcpConnection`, user callbacks |
| `TcpConnection` | `_state`, its channel, an input and an output `Buffer`; owned by `shared_ptr`s | `send`, `shutdown`, `connectEstablished`, `connectDestroyed`, the four handlers | its loop; any thread for `send` and `shutdown` |
| `TcpServer`, `Acceptor` | `_connMap`, `_listenning` | `start`, `newConnection`, `removeConnection…`, `listen`, `handleNewConnection` | its loop; any thread for `start` |
| `UdpServer`, `UdpHandler` | a blocking socket, its channel, `_listenning` | `start`, `listen`, `handleNewConnection`, `newConnection`, `handleReceiveMessage`, `sendMessage` | its loop; any thread for `start` |
| `Socket`, `CapsuledAddr`, `FileDescriptor`, `Timestamp` | none of interest | wrappers of one system call | everybody |

How they interact: a thread hands a functor to a loop by pushing it under a mutex
and writing the eventfd. The loop polls, runs the callbacks of the channels that
are ready, swaps the functor vector out and runs it. Channels call back into the
`TcpConnection`, `Acceptor` or `UdpHandler` that owns them, which call user code,
which may call everything again. `shared_ptr`s bound into functors keep a
connection alive.

What is hard:

* *interleaving*: a push or a `_quit` between the loop's look at the queue and
  its `poll(2)`; the hand-over of a stack object between threads; a `send` in
  another thread while the loop closes the connection; two calls of `start`;
* *order*: functors across batches, bytes across partial writes, a shutdown
  against the writes before it, callbacks of one report against each other;
* *stale state*: raw channel pointers in `_activeChannels`, indexes after a swap,
  descriptors that are reused, the negated descriptor of a quiet channel, `_isFull`,
  a raw `this` in a functor, a datagram that was reported and is gone;
* *failure*: partial writes, a peer that closes or resets at any moment, a failing
  `accept(2)`, `abort()` and assertions as the only handling of errors;
* *liveness*: everything handed over runs, a shutdown happens, a closed connection
  is destroyed, a quit ends the loop, a datagram comes to the user.

What makes each component correct:

* `EventLoop`: functors run once, in order, and without a delay; a quit is seen;
* `EventLoopThread`: the loop it returns is constructed, `startLoop` and `join` return;
* `EventLoopThreadPool`: the loops take turns, and the destructor waits only for a loop
  that runs and that nobody told to quit;
* `Poller`, `Channel`: array, map and indexes agree; what is dispatched is registered
  and wanted;
* `Buffer`: bytes come out as they went in (refuted for appends to a ring that has to
  wrap, or that was full and was partly retrieved);
* `TcpConnection`: output keeps its order (until such an append to its output buffer,
  which `send` makes behind a partial write), nothing is cut off by a shutdown (refuted
  across threads), a shutdown and a close are carried out;
* `TcpServer`, `Acceptor`: a connection is in the map while it is up, closed once,
  and freed only when nothing can reach it (refuted for calls of other threads);
* `UdpServer`, `UdpHandler`: each datagram comes to the user once and in order, and
  `recvfrom` blocks the loop only if the kernel took back what poll reported.

`PROJECT.json` lists these as hazards, each with its line and the properties that
watch it, or a note on why none does.

## 2. The modules

```
 FunctorQueue <--implements-- EventLoop <--extends-- EventLoopThread --implements--> LoopThread
                                  ^                                                      ^
                                  +------extends---- UdpServer                           |
                                                                EventLoopThreadPool --extends
 ByteQueue <--implements-- Buffer <-- MCBuffer
                             |
                             +---extends--> Ring <--extends-- TcpConnection
 Registry <--implements-- Poller <-- MCPoller
 Registry <--uses as allowed-- TcpServer --implements--> Sessions
                               TcpServer --extends--> TcpConnection
```

`EventLoop`, `EventLoopThread`, `EventLoopThreadPool`, `Poller`, `Buffer`,
`TcpServer` and `UdpServer` each have a module `…Proofs` that extends them; so has
`Ring`, whose lemmas `BufferProofs` and `TcpServerProofs` both use.

Definitions whose comment begins with "Slip:" are plausible mistakes: each stands
beside the definition it is a variant of, no specification uses it, and
`PROJECT.json` ("mutants") says which property it would break.

**FunctorQueue** is what `EventLoop.h:32` promises: a FIFO queue of functors, each
run once, with `runInLoop` of the loop's own thread going ahead of it.

**EventLoop** models one loop, its thread and the threads that call it. A step is
a stretch of code that touches shared state once: the locked push, the write of
`_quit`, the write of the eventfd, the test of `_quit`, the return of `poll(2)`,
the locked swap, the run of one functor. `queueInLoop` and `quitLoop` of another
thread are therefore two steps each (`ClientQueues` or `ClientQuits`, then
`Wakeup`), and everything else may come between. `_quit` is a `std::atomic<bool>`: a
step reads or writes it whole. The eventfd's counter is kept as
"readable or not". `early` remembers the functors the loop's own thread queued
outside `startLoop`: the code writes no eventfd for those.

**EventLoopThread** extends it with the owner of the thread and `threadFunc`. The
condition variable has waiters that sleep, a notify and spurious wakeups. The
pointer goes to several threads. Rules for callers: no call of the loop *begins*
once the destructor runs or the loop is destroyed (a call that began may *end*
later), and the destructor runs only after `startLoop`: without it, `join` of a
thread that was never started fails the assertion at `Thread.cpp:34`.

**LoopThread** is what the owner of several such threads sees of each: not started,
constructing its loop, published, looping, done, and whether it was told to quit.
It includes that `startLoop` of the loop forgets an earlier quit. EventLoopThread
implements it.

**EventLoopThreadPool** is the pool over any number of threads of LoopThread. Its
members are called from the base loop's thread only (the assertions see to it for
`start` and `getNextLoop`), `start` once. The destructor joins the threads in
order; users, not the pool, quit the loops. A loop of `start` is two steps,
`StartThread` and `ThreadStarted`, since the threads run meanwhile. No code of the
library starts a pool: `README.md:22` of the repository says that UDP is
multi-threaded, and `testWrite.cpp:67` calls `setThreadNum`, but
neither server calls `start`, so `getNextLoop` returns their own loop. This is
why TcpServer and UdpServer are modelled with one loop.

**Poller** models `Poller` and `Channel` together: the array, the map, each
channel's index and interest, and the dispatch with its four tests in the order
of `handleEvent`. `poll(2)` reports any set of conditions that was asked for, and
hang-ups and errors unasked. Three rules for callers, which every caller in the
library keeps: `enableReading` is the first call on a channel and made once;
`removeChannel` comes after `disableAll` and from a queued functor; a removed
channel is not used again. (A late `send` breaks the third one, see
`TcpConnection.cpp:177` among the hazards: TcpServer models it as the failing
assertion it is.) A channel that is disabled and then asks for something again
keeps its negated descriptor (`Poller.cpp:74`). One caller does that: a `send` between
`handleClose`, which leaves `_state` as it is, and `connectDestroyed`. It is what
keeps the connection from being closed a second time, and Registry says so.

**Registry** is the Poller as the owners of channels see it: a channel is new,
watched, quiet or removed, asks for something, and is reported or not. It states
both sides: what the Poller does for them (a quiet channel is not reported,
whatever it asks for), and what they do for the Poller (a channel asks for nothing
when it is removed, is quiet then, and no report is being handled). Poller implements
it; TcpServer, whose `chan`, `events` and `todo` are the same three things, implements
it with its connections as the owners (`UsesRegistry`). So what TcpServer takes the
Poller for is what the Poller is.

**Ring** is `Buffer.h`: a record with the vector and its indexes, and one operator per
member function. The values of the bytes are kept, because the wrap-around copy and the
reset of `_isFull` are about them. `Overruns` names the appends the class is not up
to: those on which the assertion of `makeSpace` fails (`SpaceFails`), and those that
have to go round the end of the vector behind a retrieve. All of them need a
`_startIndex` other than 0.

**ByteQueue** is what a buffer promises, and **Buffer** one ring and its user. Two
specifications: `Spec` makes every append but those that overrun the ring, so also
many behind partial writes, and there the ring is a queue. `FreeSpec` appends at any
time, as the class allows and `send` does, and there the ring fails.

**TcpConnection** holds the variables of the connections and what the member
functions that run in the loop do to them: `sendInLoop`, `shutDownInLoop`,
`disableAll`, and the end of `handleWrite`. The output buffer of each connection is
a Ring, with its defects: `sendInLoop` may end the process in `makeSpace`, and it may
append the wrong bytes. **TcpServer** adds the loop, the server, the user and the other
threads. The loop is what EventLoop promises (reports, then the batch of functors), so
that model need not be repeated. A connection is in `overrun` from the first append on
that its ring was not up to. What the properties then still say of it is everything but
the order of its bytes and what the process ends on: `InOrder`, `EndsOnlyOnReset`
and `ShutdownCompletes` make an exception of it, the life cycle properties do not.
Abstractions:

* `_state` is a plain enum that several threads read and write without a lock. That
  is a data race; the model takes the outcomes of word-sized loads and stores, with
  any interleaving of the test in `send` and `shutdown`, the write in `shutdown` and
  the loop's own accesses;
* `state`, `chan` and `events` are `_state`, the Poller's view of the channel and
  `_events`. `chan` is "quiet" from `disableAll` on: its descriptor is negated;
* a message has one of a few lengths, its bytes are numbered in the order they were sent,
  and a write takes any number of them (0 is `EWOULDBLOCK`). Behind an overrun
  `wire` is not continued, since what is written is no longer what was sent; `writeFd` of
  a ring that is wrapped and counts as full may read behind the vector (`Peek`);
* `start` of another thread is its test of `_listenning` and then the queued `listen`;
* a read takes all there is; the input buffer is the user's business;
* `shared_ptr`s: the map, the functors of both vectors, the argument of a callback,
  what the application keeps, and what a thread in a call uses (`Alive`);
* the user has set a `writeCompleteCallback`;
* `abort()` and failing assertions (the build without `NDEBUG`) end the process:
  `aborted` names the connection. With `NDEBUG` the `::shutdown` at
  `TcpConnection.cpp:187`, which is inside an assertion, would not be called at all;
* a functor on a connection nobody holds any more (a raw `this`,
  `TcpConnection.cpp:51`, `:60`) is undefined behaviour; the model ends there;
* Linux reports POLLIN with every hang-up; the model also allows the hang-up alone,
  the case `Channel.cpp:45` is written for.

**Sessions** is a TcpServer seen from above by the user's callbacks and from below
by the peers. A session is opened by one callback and ended by one; between its close
and its end no message comes; one callback runs at a time; messages are given and
their bytes are taken by the socket (`Backlog` is what is given and not taken),
the user is told when the backlog was emptied, perhaps more than once; the writing
side of an open session is shut only without a backlog. There is no queue, no
batch, no channel, no `shared_ptr` and no other thread in it. TcpServer implements
it with `life` read off `chan` and the callback that runs, `sent` the length of
`wire`, `due` the connections with a queued `writeCompleteCallback`, and `spoilt` the
overrun ones. A session gets spoilt only once some of its bytes were taken; the bytes and
the end of the stream of a spoilt session are not promised (`Strays`), its callbacks
are. (A message
given in a call of `send` that is still queued in the loop is not given yet: that a
shutdown may overtake it is `tcp_cut_off`.)

**UdpServer** extends EventLoop with the datagram socket, the kernel and the
handler. `handleNewConnection` is three steps, since user code runs in two
callbacks and `recvfrom` waits between them: while it waits (`handlerPc =
"receiving"` with an empty socket) no other step of the loop's thread is possible.
The kernel may discard a datagram it had reported (a bad checksum, no memory), which is
how a blocking `recvfrom` comes to wait. `start` of another thread is its test of
`_listenning` and then a queued `listen`, so that `listen` may be queued twice; the
second repeats `enableReading` and nothing else. `sendMessage` changes nothing
that is kept; it is for the loop's thread only (`EventLoopThreadPool.cpp:37`). What a
datagram says is not modelled; the handler hands the callback `BUFFLEN` bytes
instead of the count of `recvfrom` (`UdpHandler.cpp:54`).

## 3. The runs

| run | instance | shows |
|---|---|---|
| `event_loop` | 2 threads, 3 functors, 1 I/O channel | no lost wakeup (`NoLostWakeup`), no lost quit (`QuitIsSeen`), refinement of FunctorQueue, functors run without help from I/O or the timeout, those queued before `startLoop` run by the timeout, a quit ends the loop |
| `event_loop_thread` | owner, 1 more thread, 2 functors | the hand-over of the pointer, refinement of LoopThread, `startLoop` returns, functors handed over before the loop runs are run, a loop that sees its quit lets `join` return |
| `thread_pool` | up to 3 threads, 2 returns of each loop | the loops take turns, the destructor returns or waits for a loop that runs and that nobody told to quit since |
| `poller` | 4 channels on 3 descriptors, reports of at most 2 channels | array, map and indexes agree both ways, whatever was swapped; refinement of Registry: only channels that ask for something and were never disabled are reported, and none is removed that is still to be handled |
| `buffer` | bytes 0 and 1, messages of 1 to 3 bytes, initial size 3, size at most 7 | while no append overruns the ring: refinement of ByteQueue, also through appends behind partial writes, and that writing out empties the buffer |
| `tcp_connection` | 1 connection, 1 more thread, 2 messages of 3 bytes, a ring of initially 3 bytes, 2 calls of `start` at a time | a connection is closed and destroyed once and not freed while its channel is registered or has tests to come; POLLOUT follows the backlog, channels are used as Registry allows, a peer's close is seen through; until the ring is overrun, the bytes are in order without a gap, the process ends only on a reset or when a call of another thread comes too late, the server is what Sessions promises, and a shutdown happens |
| `udp_server` | 1 more thread, 3 datagrams, 1 `listen` and 1 other functor | datagrams once and in order, `recvfrom` waits only on the kernel's account, a `start` of another thread takes effect, the loop serves the rest unless it is blocked for ever |
| `thread_quit_lost` | violation | a `quitLoop` between publication and `startLoop` is forgotten; `join` hangs |
| `thread_dead_wakeup` | violation | the eventfd is written after the loop was destroyed |
| `buffer_append` | violation | an append to a ring that wraps, or that was full, does not add its bytes |
| `tcp_cut_off` | violation | `send` then `shutdown` in another thread: SHUT_WR may overtake the send |
| `tcp_raw_this` | violation | a send or shutdown queued by another thread outlives the connection |

*`buffer_append` in detail.* TLC finds the shortest case, the second copy of
`writeAfterEnd`, which ends at `data+secondPart` (`Buffer.h:158`). There is a second
cause that stays when that line is repaired: `retrieve` resets `_isFull` only when
the indexes meet (`Buffer.h:92`), so a ring that was full and was partly
retrieved still counts as full, and the assertion of `makeSpace` (`Buffer.h:148`)
fails at the next append.

Connections meet both, with one thread and an open peer. A message of 20 bytes waits
whole in the output buffer, whose vector it fills; the socket takes 5 bytes of it, and
`_isFull` stays set. The next `send` appends behind the rest (`TcpConnection.cpp:175`),
and the process ends in `makeSpace`. Or the room is in front of the rest: then the copy at
`Buffer.h:158` stores too few bytes, and the peer gets others than were sent. So the order
of the output, and that only a reset ends the process, hold until such an append and no
longer. `tcp_connection` runs into both cases: its ring of three bytes is filled by one
message, partly written, and appended to. That is why `InOrder`, `EndsOnlyOnReset` and
`ImplementsSessions` speak of connections outside `overrun`. Appends behind a partial
write that the ring is up to (it grows, or there is room behind the rest) are in the run
as well, and are in order.

*`tcp_cut_off` in detail.* Some output is waiting. The other thread calls `send`
(queued) and `shutdown`, which sets `kDisconnecting` at once. `handleWrite`, in the
same round, empties the buffer, sees `kDisconnecting` and shuts the writing
side. The queued send then runs, its `write(2)` fails with EPIPE, and the process
aborts. This is also why `EndsOnlyOnReset` exempts connections another thread
called, once their writing side is shut or they were taken down (a late `send` finds
the channel removed): up to then, they end the process no more than others do. The
run uses `KeepingSpec`, an application whose callbacks only keep the connection and
leave all sending to one thread, so that what overtakes is not another sender.

*`tcp_raw_this` in detail.* The application keeps the connection and another thread
calls `send` or `shutdown` on it, which binds a plain `this`. The peer closes,
`connectDestroyed` runs, the application lets go; the functor is still queued and
nobody holds the connection.

A related remark without a run: the comment at `EventLoopThread.cpp:19` says that
the destructor need not quit the loop. It has to: a loop nobody quits is never
left, and `join` waits for ever. `JoinCompletes` and `DestroyIsDone` say what does
hold: of the pool, that its destructor returns unless one of its loops runs, and
nobody told it to quit since it does (a quit that came earlier is forgotten, see
`thread_quit_lost`).

**Bounds, and why they are enough.** Functors are single calls, so three of them give a
batch, one that runs and one pushed meanwhile. Four channels are needed for a removal
from the middle of the array while the last entry is negated, two on one descriptor for
its reuse; reports of two channels have a first, handled, and a second, waiting.
`MaxActive` bounds nothing else. The two on one descriptor differ in nothing but their
name, which `MCSymmetry` uses. `MaxSize` lets the buffer grow twice from its initial 3.
In TcpServer, `Kept`, `MaxBytes` and `MaxStarts` are bounds: a send is made while fewer
than `MaxBytes` bytes were given or are on their way, so there are two messages, one
behind the backlog of the other; messages as long as the initial ring make it full, wrap
and grow; two calls of `start` may both queue a `listen`. One connection is enough for
TLC: connections share the loop, the functor vector and the map, and what they do to
each other there is covered by the theorems, which hold for any number (a second
connection takes the run past the time that a run should take). For the liveness
properties, another connection only adds steps of a loop that is fair. In UdpServer,
three datagrams are one in the user's hands, one reported and one behind it; `Listens`
bounds the calls of `start` that other threads make and `MaxDatagrams` the arrivals. In
the pool, three loops tell a turn from an exchange of two, and `MaxCalls` is two rounds.
The history variables (`ran`, `wire`, `accepted`, `shared`, `came`, `discarded`,
`handed`, `reported`, `calls`…) are bounded by these. Peers may send as often as they
like; what is unread is one flag.

**Fairness.** The scheduler runs each thread that can run and callbacks return (WF of
the loop's steps and of a started call of a client); `poll(2)` returns once the
eventfd is readable (WF of `PollIsWoken`). The 5 s timeout, I/O, calls, quits and
user actions are never assumed, with one exception: `TimeoutRunsEarly` says that *if*
the timeout ends polls fairly, the functors nobody wrote the eventfd for are run;
the assumption is the left side of that property, not part of the specification.
`event_loop_thread` adds WF of the owner inside `startLoop` and `join` and of
`threadFunc`. `thread_pool` assumes WF of the pool's thread inside `start` and the
destructor and of each thread's own steps, but of no call and no quit. `buffer`
assumes WF of `WriteOut`: the socket takes something time and again.
`tcp_connection` assumes SF of a `poll` that reports a socket writable: a peer that
stops reading for good is outside what `ShutdownCompletes` promises, and no code
handles it. `udp_server` adds that `poll(2)` and `recvfrom` return when a datagram is
there. No datagram has to arrive, so a `recvfrom` called in vain may wait for ever:
`ServesItsLoop` exempts exactly that, and `WaitsOnlyForDiscarded` says when it happens.

**CHECK_DEADLOCK FALSE** is set where the system may stop: after `join` returned
(EventLoopThread), after the pool's destructor (EventLoopThreadPool), and after
`abort()` or a failed assertion (TcpServer).

## 4. The proofs

TLAPS checks these for all values of the constants, from the constants' named
assumptions alone (`ChannelAssumption`, `OwnerAssumption`, `FdAssumption`,
`RingAssumption`, `BufferAssumption`, `LengthAssumption`, `ConnAssumption`,
`UdpAssumption`, `PoolAssumption`). The bounds are constants, too: the theorems hold for
any number of functors, sends, calls and datagrams.

*EventLoopProofs.* `TypeCorrect`; then `WakeupsAreNotLost` and `QuitIsNotLost` from the
invariant `WakeupInv`. `NoLostWakeup` speaks of `loopPc = "poll"` only and is not
inductive: the functor may have been pushed while the loop was at its head or ran
functors. `WakeupInv` asks for a wakeup at every place from the swap on to
`poll(2)` (`WakeupDue`); it does not ask for it in "events", "callback" and "swap",
where the eventfd may have been read but the swap still comes. `QuitIsSeen` is
inductive with it: `_quit` set before the loop's test is seen there, and after it a
`Wakeup` is due. `LoopImplementsQueue` is the refinement with
`queue <- functors \o pendingFunctors`: the swap is a stutter, since it happens with
an empty `functors`.

*EventLoopThreadProofs.* `ThreadInv` is `ThreadTypeOK`, `PointerIsLive` and `LeftIsQuit`
(a loop that was left was told to quit, which LoopThread's `Leaves` asks for).
`ThreadImplementsPromise` maps the thread's places and the loop's to a phase; the
wait, the notify and the loop's rounds are stutters.

`ThreadLoopIsWoken` and `ThreadLoopImplementsQueue` carry EventLoop's promises over to a
loop on a thread's stack. That is no matter of course: the thread has a step EventLoop
has not, the wakeup of a late call that goes astray (`WakesNobody`), so that
EventLoop's `WakeupInv` holds until the loop is destroyed (`WokenWhileThere`) and
not beyond, while the queue stays a queue for good.

*EventLoopThreadPoolProofs.* `PoolTypeCorrect` needs that the k-th loop is that of the
k-th thread (`LoopsInv`). `LoopsTakeTurns` follows from `TurnInv`: the loops before
`_next` were returned exactly once more than those from it on; the wrap of `_next` makes
all of them equal again.

*PollerProofs.* One inductive invariant, `PollerInv`, the conjunction of `TypeOK`,
`EntriesMatch`, `NothingIsLeftBehind`, `QuietIsSkipped` and `DispatchIsSafe`. They
need each other: the swap of `removeChannel` re-indexes through the map
(`EntriesMatch`) the channel of the last entry, which has to be there
(`NothingIsLeftBehind`); the dispatch is safe because reports are of registered
channels and nothing is removed while some are left. `AddKeeps`, `ChangeKeeps`,
`RemoveKeeps`, `PollKeeps` and `StageKeeps` are its steps. `ReportsMatchInterest` is the
action property, with `QuietIsSkipped`: a descriptor that is not negated asks for
something. `RegistryIsConsistent` is the half of the registry that goes from the
channels to the array, `RegistryIsClean` the other. `QuietIsSkipped`,
`DispatchIsSafe` and `ReportsAreWanted` are theorems without a run of their own: the run
checks the refinement, of which the first two are parts.

`PollerImplementsRegistry` maps a channel to "watched" or "quiet" by the sign of the
descriptor in its entry, so the swap of `removeChannel`, which moves another channel's
entry, has to be a stutter for that other channel: `WhereIs` finds the entry through
the index, and `AddsWell`, `ChangesWell`, `RemovesWell`, `PollsWell` and `HandlesWell`
show each operation to be a step of Registry. What poll(2) reports is watched because
`fillActiveChannels` looks up a descriptor that is not negated, and `EntriesMatch` leads
from there to the one channel it can be.

*RingProofs* and *BufferProofs.* A ring is `Unwrapped` when `_startIndex` is at most the
end of the content, which is `_endIndex`, or the end of the vector when the content
reaches it. `ContentFacts`, `RetrieveFacts`, `WriteOutFacts`, `WriteFacts` and
`AppendedFacts` say what each operator does to such a ring: an append that does not
overrun it leaves it unwrapped, with the data behind the content; growing writes the
content and then the data, both without a wrap. `OverrunFacts` is the other side: only a
ring with `_startIndex` off 0 is overrun. `PeekTypes`, `RetrieveTypes` and `AppendedTypes`
hold of wrapped rings, too. `BufferTypeCorrect` and `RingImplementsQueue` follow for
`Spec`, from the invariant `BufferInv`.

*TcpServerProofs.* The life of a connection is `LifeInv`, five named parts: `LoopInv`
(what runs in which stage, and that the vector being run holds what its functors are
bound to), `NamedInv` (who is named is a connection that was accepted), `StateInv`
(`_state` against the channel), `ReportInv` (tests to come are of registered channels,
and the tests that may close a connection of watched ones) and `QueueInv` (a connection
is in the map while it is watched, and one `connectDestroyed` is queued while it is
quiet). `ClosesOnce` and `WatchedLives` follow: a quiet channel has its `shared_ptr` in
the functor, a watched one in the map. `OutInv` says when POLLOUT is asked for, hence
`BacklogWatched`. `OrderInv` says of every connection outside `overrun` that its ring is
unwrapped, begins at 0 until something was written, and that what its socket took,
followed by the content of the ring, counts from 1 to what was accepted; hence
`WritesInOrder`. `GaveOrder` and `TookOrder` are its two steps, on the lemmas of
RingProofs. `AloneInv` adds that a connection no other thread called has no queued send
or shutdown and is not written after SHUT_WR: with it, and with `FreedIsRemoved` (a
functor that finds its connection freed finds the channel removed, by `WatchedLive`),
`EndsOnReset` goes through every assertion, `abort` and failing write there is; the
assertion of `makeSpace` and an undefined copy put the connection into `overrun`
(`SendEnds`).

Two refinements stand on top of those invariants.
`ConnectionsUseRegistry` needs `ReadsInv` (`WatchedIsRead`): a watched channel asks to
read at all times, so that taking back POLLOUT never leaves it asking for nothing, which
would negate its descriptor and deafen the connection. That the callback of
`connectDestroyed` cannot re-enable the channel before `removeChannel` is `StateInv`:
`_state` is kDisconnected by then. `ServerImplementsSessions` has one lemma for each
kind of step: `WritesWell`, `GivesWell` and `ShutsWell` for the output, where
`OrderInv` turns the length of the content of the ring into the backlog (`BacklogIs`),
`Stray` takes what is done to an overrun one, and
the cases of `ServedStep` for the life of a session. `UnseenFrame` collects the steps
that neither the user nor a peer can see: polls, swaps, queued calls, kept and
dropped pointers. That `Shuts` keeps to an empty backlog while the session is open is
`OutInv`, and that a `Receives` never comes after a `Closes` is `ReportInv`.

*UdpServerProofs.* `UdpInv` is `UdpTypeOK`, `OrderInv` and `WaitInv`. `OrderInv`:
what the user got, followed by what is in the socket, ascends, and with the discarded
it is all that came; hence `DatagramsInOrder`. `WaitInv`: the datagram reported is still
in the socket or discarded from the report until `recvfrom`, because nobody else reads
the socket and the channel is in `_activeChannels` once; hence `WaitsForKernelOnly`.
`UdpServerRunsInLoop` says that the server, with its three-step handler and its
blocking `recvfrom`, is user code to EventLoop: each of its steps is one of EventLoop's
or leaves the loop alone. `UdpLoopKeepsPromises` draws the conclusion: no lost
wakeup, no lost quit, and the queue.

*Only model-checked*: liveness everywhere, since fairness is out of the prover's reach:
`FunctorsRun`, `TimeoutRunsEarly`, `QuitStopsLoop`, `StartLoopReturns`,
`HandedOverRuns`, `JoinCompletes`, `Drains`, `ShutdownCompletes`, `PeerCloseEndsIt`,
`DatagramsAreHanded`, `StartTakesEffect`, `ServesItsLoop` and `DestroyIsDone`. Every
invariant, action property and refinement that a passing run checks is also a theorem.

## 5. Not modelled

* `setThreadNum` of the servers, which has no effect, and their destructors, which
  destroy a server together with the program in every use;
* `sendMessage` of UdpServer: `sendto` and a callback, no state;
* `Thread`'s detaching destructor, which EventLoopThread never reaches, and the
  setters of callbacks;
* `EWOULDBLOCK` after POLLOUT (`TcpConnection.cpp:111`), a read that leaves something
  behind, POLLNVAL, failing system calls that only log, and a `recvfrom` that fails, on
  which the assertion at `UdpHandler.cpp:49` would end the process;
* `Socket`, `CapsuledAddr`, `FileDescriptor` and `Timestamp`: wrappers of single calls,
  pure I/O or conversions.

## 6. The plan

Order, most important first; all but the last are done.

1. EventLoop with FunctorQueue, its proofs; EventLoopThread over it.
2. Poller with Channel, its proofs.
3. Buffer with ByteQueue.
4. TcpConnection and TcpServer with Acceptor, over the promises of 1 to 3.
5. UdpServer with UdpHandler over EventLoop, and its proofs; EventLoopThreadPool over
   LoopThread, and its proofs.
6. Proofs about TcpServer: the life of a connection, the order of its output.
7. Proofs about EventLoopThread, and the refinement of LoopThread.
8. Ring, shared by Buffer and TcpConnection; the proof that Buffer's `Spec` implements
   ByteQueue, and the order of a connection's output on the same lemmas.
9. Registry between Poller and TcpServer, Sessions above TcpServer, and the proofs of
   the three refinements; EventLoop's promises in EventLoopThread and UdpServer.
10. Left: a TcpServer with several loops, should the library ever start its pool.
