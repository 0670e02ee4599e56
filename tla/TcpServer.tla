----------------------------- MODULE TcpServer ------------------------------
(***************************************************************************)
(* net/TcpServer.cpp, net/Acceptor.cpp and, on top of TcpConnection, what  *)
(* calls a connection: how connections are accepted, read, written, shut   *)
(* down, closed and freed in the one loop they all run in (no code starts  *)
(* the server's thread pool, so getNextLoop always returns that loop), and *)
(* the calls other threads may make: start, send and shutdown.             *)
(*                                                                         *)
(* The loop is what EventLoop promises: reports are handled, then the      *)
(* batch of queued functors runs.  A step is what the loop's thread does   *)
(* between two points where user code or another thread can show.          *)
(***************************************************************************)
EXTENDS TcpConnection, FiniteSets, Functions

CONSTANTS
    NoConn,         \* no connection
    Clients,        \* the threads other than the loop's
    Kept,           \* bound: the connections the application may keep
    MaxBytes,       \* bound: send only while a connection was given fewer
    MaxStarts       \* bound: the calls of start at a time

ASSUME ConnAssumption == NoConn \notin Conns /\ Kept \subseteq Conns

VARIABLES
    stage,          \* the loop's thread: in "poll", "events" or "functors"
    accepting,      \* the listening socket is among what poll(2) reported
    todo,           \* the tests of handleEvent still to come, per connection
    self,           \* the connection in handleEvent or in a callback, or NoConn
    callback,       \* the user callback that runs, or "none"
    batch,          \* what is left to run of the vector swapped out of it
    batchHolds,     \* the connections that vector holds a shared_ptr to
    listening,      \* _acceptor's _listenning
    connMap,        \* _connMap
    held,           \* the connections the application keeps a shared_ptr to
    clientPc,       \* where a client's call is, see ClientPcs
    shared          \* the connections another thread called (history)

loopVars == <<stage, accepting, todo, self, callback>>
queueVars == <<pending, batch, batchHolds>>
serverVars == <<listening, connMap>>
appVars == <<held, clientPc, shared>>

vars == <<loopVars, queueVars, serverVars, connVars, appVars, aborted>>

Tests == {"close", "error", "read", "write"}

Callbacks == {"none", "up", "message", "complete", "down"}

\* In which order handleEvent makes its tests.
Before(t) == CASE t = "close" -> {}
               [] t = "error" -> {"close"}
               [] t = "read" -> {"close", "error"}
               [] t = "write" -> {"close", "error", "read"}

\* Slip: connectDestroyed is bound to a plain this.
SharedOpsButDestroy == {"complete"}

\* The functors that are bound to a shared_ptr; send and shutdown bind this.
SharedOps == {"destroy", "complete"}

Holds(functors) == {f.conn : f \in {g \in Range(functors) : g.op \in SharedOps}}

ClientPcs == [op : {"idle", "listen"}, conn : {NoConn}]
    \cup [op : {"send", "shutdown", "queue"}, conn : Conns]

Idle == [op |-> "idle", conn |-> NoConn]

\* Somebody holds a shared_ptr to the connection.
Alive(c) ==
    \/ c \in connMap \cup held \cup batchHolds \cup Holds(pending)
    \/ callback # "none" /\ self = c
    \/ \E k \in Clients : clientPc[k].conn = c

\* What the loop is still to run, in order.
Queue == batch \o pending

\* The calls of other threads that are on their way to be carried out.
Underway(functor) ==
    Cardinality({i \in DOMAIN Queue : Queue[i] = functor})
    + Cardinality({k \in Clients : clientPc[k] = functor})

Longest == CHOOSE n \in Lengths : \A m \in Lengths : m <= n

MayStart == Underway(Functor("listen", NoConn)) < MaxStarts

MaySend(c) == accepted[c] + Longest * Underway(Functor("send", c)) < MaxBytes

Init ==
    /\ stage = "functors"
    /\ accepting = FALSE
    /\ todo = [c \in Conns |-> {}]
    /\ self = NoConn
    /\ callback = "none"
    /\ ConnInit
    /\ batch = <<>>
    /\ batchHolds = {}
    /\ listening = FALSE
    /\ connMap = {}
    /\ held = {}
    /\ clientPc = [k \in Clients |-> Idle]
    /\ shared = {}

-----------------------------------------------------------------------------
(* The close of a connection, from whichever test of handleEvent.          *)

\* Slip: the channel is left as it is.
HandleCloseStillWatching(c) ==
    /\ connMap' = connMap \ {c}
    /\ pending' = Append(pending, Functor("destroy", c))
    /\ UNCHANGED <<chanVars, aborted>>

\* Slip: nobody is told that the connection is closed.
HandleCloseSilently(c) ==
    /\ DisableAll(c)
    /\ UNCHANGED <<connMap, pending, aborted>>

\* handleClose, and what it calls at once: removeConnection and
\* removeConnectionInLoop, with their assertions.
HandleClose(c) ==
    \/ /\ state[c] \in {"kConnected", "kDisconnecting"} /\ c \in connMap
       /\ DisableAll(c)
       /\ connMap' = connMap \ {c}
       /\ pending' = Append(pending, Functor("destroy", c))
       /\ UNCHANGED aborted
    \/ /\ state[c] \notin {"kConnected", "kDisconnecting"} \/ c \notin connMap
       /\ aborted' = {c}
       /\ UNCHANGED <<chanVars, connMap, pending>>

-----------------------------------------------------------------------------
(* The loop: poll(2).                                                      *)

\* What poll(2) may report of a channel, as the tests of handleEvent it will pass.
\* The level-triggered conditions are all reported; a full socket buffer may or may
\* not have room again; some systems report a hang-up alone.
Reports(c, t) ==
    /\ t # {} => chan[c] = "watched"
    /\ "close" \in t => HungUp(c)
    /\ chan[c] = "watched" =>
         ("read" \in t <=> /\ "close" \notin t
                           /\ "in" \in events[c]
                           /\ unread[c] \/ peer[c] # "open")
    /\ "write" \in t => "out" \in events[c]
    /\ "error" \in t => peer[c] = "reset"

Poll ==
    /\ Up
    /\ stage = "poll"
    /\ stage' = "events"
    /\ \E t \in [Conns -> SUBSET Tests] :
         /\ \A c \in Conns : Reports(c, t[c])
         /\ todo' = t
    /\ accepting' \in {FALSE, listening}
    /\ UNCHANGED <<queueVars, self, callback, serverVars, connVars, appVars,
                   aborted>>

-----------------------------------------------------------------------------
(* The loop: handleEvent of the channels reported.  The listening socket's *)
(* channel was added first and comes first.                                *)

\* Acceptor::handleNewConnection and TcpServer::newConnection, on to the user's
\* callback in connectEstablished.
AcceptConn(c) ==
    /\ Up
    /\ accepting /\ callback = "none"
    /\ state[c] = "kConnecting"
    /\ accepting' = FALSE
    /\ connMap' = connMap \cup {c}
    /\ state' = [state EXCEPT ![c] = "kConnected"]
    /\ chan' = [chan EXCEPT ![c] = "watched"]
    /\ events' = [events EXCEPT ![c] = {"in"}]
    /\ callback' = "up"
    /\ self' = c
    /\ UNCHANGED <<queueVars, stage, todo, listening, sockVars, wrShut,
                   outVars, appVars, aborted>>

\* accept(2) fails: nothing is done about it.
AcceptFails ==
    /\ Up
    /\ accepting
    /\ accepting' = FALSE
    /\ UNCHANGED <<queueVars, stage, todo, self, callback, serverVars,
                   connVars, appVars, aborted>>

\* It is the turn of test t of a connection.
Turn(c, t) ==
    /\ Up
    /\ stage = "events" /\ ~accepting
    /\ callback = "none"
    /\ self \in {NoConn, c}
    /\ t \in todo[c]
    /\ todo[c] \cap Before(t) = {}

\* The test is done with, and the connection if no other is left.
Handled(c, t) ==
    /\ todo' = [todo EXCEPT ![c] = @ \ {t}]
    /\ self' = IF todo'[c] = {} THEN NoConn ELSE c
    /\ UNCHANGED <<stage, accepting, callback>>

Close(c) ==
    /\ Turn(c, "close")
    /\ HandleClose(c)
    /\ Handled(c, "close")
    /\ UNCHANGED <<batch, batchHolds, listening, state, sockVars, wrShut,
                   outVars, appVars>>

\* handleError: abort().  So does a read of a connection that was reset.
HandleError(c) ==
    /\ Turn(c, "error") \/ (Turn(c, "read") /\ peer[c] = "reset")
    /\ aborted' = {c}
    /\ UNCHANGED <<loopVars, queueVars, serverVars, connVars, appVars>>

\* handleRead, n > 0: all there is, handed to the user's callback.
ReadMessage(c) ==
    /\ Turn(c, "read")
    /\ unread[c]
    /\ unread' = [unread EXCEPT ![c] = FALSE]
    /\ todo' = [todo EXCEPT ![c] = @ \ {"read"}]
    /\ self' = c
    /\ callback' = "message"
    /\ UNCHANGED <<queueVars, stage, accepting, serverVars, state, chanVars,
                   peer, wrShut, outVars, appVars, aborted>>

\* handleRead, n = 0: the peer closed.
ReadEnd(c) ==
    /\ Turn(c, "read")
    /\ peer[c] = "closed"
    /\ ~unread[c]
    /\ HandleClose(c)
    /\ Handled(c, "read")
    /\ UNCHANGED <<batch, batchHolds, listening, state, sockVars, wrShut,
                   outVars, appVars>>

\* handleWrite: the socket takes some of what waits; the rest stays.  The -1 of
\* writeFd is taken for a size, and fails the assertion of retrieve.
HandleWrite(c) ==
    /\ Turn(c, "write")
    /\ Handled(c, "write")
    /\ \/ /\ "out" \notin events[c]
          /\ UNCHANGED <<outVars, events, pending, wrShut, aborted>>
       \/ /\ "out" \in events[c]
          /\ IsEmpty(out[c]) \/ WriteFails(c)
          /\ aborted' = {c}
          /\ UNCHANGED <<outVars, events, pending, wrShut>>
       \/ /\ "out" \in events[c]
          /\ ~IsEmpty(out[c]) /\ ~WriteFails(c)
          /\ \E n \in 1 .. Contiguous(out[c]) :
               /\ Takes(c, Peek(out[c], n))
               /\ out' = [out EXCEPT ![c] = Retrieve(@, n)]
               /\ \/ IsEmpty(out'[c]) /\ Drained(c)
                  \/ /\ ~IsEmpty(out'[c])
                     /\ UNCHANGED <<events, pending, wrShut, aborted>>
          /\ UNCHANGED <<accepted, overrun>>
    /\ UNCHANGED <<batch, batchHolds, serverVars, state, chan, sockVars,
                   appVars>>

\* The callbacks of newConnection and of a message return; the one of
\* connectDestroyed returns to removeChannel and its assertion (Poller.cpp:88).
CallbackReturns ==
    /\ Up
    /\ callback # "none"
    /\ callback' = "none"
    /\ self' = IF callback = "message" /\ todo[self] # {} THEN self ELSE NoConn
    /\ IF callback # "down" THEN UNCHANGED <<chan, aborted>>
       ELSE IF events[self] = {} THEN
         /\ chan' = [chan EXCEPT ![self] = "removed"]
         /\ UNCHANGED aborted
       ELSE aborted' = {self} /\ UNCHANGED chan
    /\ UNCHANGED <<queueVars, stage, accepting, todo, serverVars, state,
                   events, sockVars, wrShut, outVars, appVars>>

-----------------------------------------------------------------------------
(* The loop: doPendingFunctors.                                            *)

\* Slip: functors run while reports are still to be handled.
SwapEarly ==
    /\ Up
    /\ stage = "events" /\ ~accepting
    /\ callback = "none"
    /\ stage' = "functors"
    /\ batch' = pending
    /\ batchHolds' = Holds(pending)
    /\ pending' = <<>>
    /\ UNCHANGED <<accepting, todo, self, callback, serverVars, connVars,
                   appVars, aborted>>

\* The end of the dispatch, and the swap.
SwapFunctors ==
    /\ Up
    /\ stage = "events" /\ ~accepting
    /\ callback = "none"
    /\ \A c \in Conns : todo[c] = {}
    /\ stage' = "functors"
    /\ batch' = pending
    /\ batchHolds' = Holds(pending)
    /\ pending' = <<>>
    /\ UNCHANGED <<accepting, todo, self, callback, serverVars, connVars,
                   appVars, aborted>>

\* A functor op of connection c is run.
Runs(op, c) ==
    /\ Up
    /\ stage = "functors"
    /\ callback = "none"
    /\ batch # <<>>
    /\ Head(batch) = Functor(op, c)
    /\ batch' = Tail(batch)
    /\ UNCHANGED batchHolds

\* connectDestroyed, up to the user's callback.
ConnectDestroyed(c) ==
    /\ Runs("destroy", c)
    /\ \/ /\ state[c] \in {"kConnected", "kDisconnecting"}
          /\ state' = [state EXCEPT ![c] = "kDisconnected"]
          /\ DisableAll(c)
          /\ callback' = "down"
          /\ self' = c
          /\ UNCHANGED aborted
       \/ /\ state[c] \notin {"kConnected", "kDisconnecting"}
          /\ aborted' = {c}
          /\ UNCHANGED <<state, chanVars, callback, self>>
    /\ UNCHANGED <<stage, accepting, todo, pending, serverVars, sockVars,
                   wrShut, outVars, appVars>>

\* The user's writeCompleteCallback.
WriteComplete(c) ==
    /\ Runs("complete", c)
    /\ callback' = "complete"
    /\ self' = c
    /\ UNCHANGED <<stage, accepting, todo, pending, serverVars, connVars,
                   appVars, aborted>>

\* sendInLoop and shutDownInLoop, asked for by another thread.  On a connection
\* that is no more, the process is taken to end.
RunSend(c) ==
    /\ Runs("send", c)
    /\ \/ Alive(c) /\ SendInLoop(c)
       \/ /\ ~Alive(c)
          /\ aborted' = {c}
          /\ UNCHANGED <<outVars, events, pending>>
    /\ UNCHANGED <<loopVars, serverVars, state, chan, sockVars, wrShut,
                   appVars>>

RunShutdown(c) ==
    /\ Runs("shutdown", c)
    /\ \/ Alive(c) /\ ShutDownInLoop(c, events[c])
       \/ ~Alive(c) /\ aborted' = {c} /\ UNCHANGED wrShut
    /\ UNCHANGED <<loopVars, pending, serverVars, state, chanVars, sockVars,
                   outVars, appVars>>

RunListen ==
    /\ Runs("listen", NoConn)
    /\ listening' = TRUE
    /\ UNCHANGED <<loopVars, pending, connMap, connVars, appVars, aborted>>

\* The batch is destroyed, and with it what its functors hold.
FunctorsDone ==
    /\ Up
    /\ stage = "functors"
    /\ callback = "none"
    /\ batch = <<>>
    /\ stage' = "poll"
    /\ batchHolds' = {}
    /\ UNCHANGED <<accepting, todo, self, callback, pending, batch, serverVars,
                   connVars, appVars, aborted>>

-----------------------------------------------------------------------------
(* User code in the loop's thread: a callback, or a functor of its own.    *)

InUserCode == Up /\ (callback # "none" \/ stage = "functors")

\* The connections it can name.
InHand == held \cup (IF callback = "none" THEN {} ELSE {self})

\* start(), and Acceptor::listen.
Start ==
    /\ InUserCode
    /\ ~listening
    /\ MayStart
    /\ listening' = TRUE
    /\ UNCHANGED <<loopVars, queueVars, connMap, connVars, appVars, aborted>>

\* It keeps the shared_ptr a callback was given.
Keep(c) ==
    /\ Up
    /\ callback # "none" /\ self = c
    /\ c \in Kept
    /\ held' = held \cup {c}
    /\ UNCHANGED <<loopVars, queueVars, serverVars, connVars, clientPc, shared,
                   aborted>>

\* send, in the loop's thread.
Send(c) ==
    /\ InUserCode /\ c \in InHand
    /\ state[c] = "kConnected"
    /\ MaySend(c)
    /\ SendInLoop(c)
    /\ UNCHANGED <<loopVars, batch, batchHolds, serverVars, state, chan,
                   sockVars, wrShut, appVars>>

\* shutdown, in the loop's thread.
Shutdown(c) ==
    /\ InUserCode /\ c \in InHand
    /\ state[c] = "kConnected"
    /\ state' = [state EXCEPT ![c] = "kDisconnecting"]
    /\ ShutDownInLoop(c, events[c])
    /\ UNCHANGED <<loopVars, queueVars, serverVars, chanVars, sockVars,
                   outVars, appVars>>

-----------------------------------------------------------------------------
(* Other threads, on the connections the application keeps.                *)

\* start(): the test of _listenning.
ClientStarts(k) ==
    /\ Up
    /\ clientPc[k] = Idle
    /\ ~listening
    /\ MayStart
    /\ clientPc' = [clientPc EXCEPT ![k] = Functor("listen", NoConn)]
    /\ UNCHANGED <<loopVars, queueVars, serverVars, connVars, held, shared,
                   aborted>>

\* start(): listen is queued, though it may be queued already, or done.
ClientListens(k) ==
    /\ Up
    /\ clientPc[k] = Functor("listen", NoConn)
    /\ pending' = Append(pending, Functor("listen", NoConn))
    /\ clientPc' = [clientPc EXCEPT ![k] = Idle]
    /\ UNCHANGED <<loopVars, batch, batchHolds, serverVars, connVars, held,
                   shared, aborted>>

\* send and shutdown: the test of _state.
ClientTests(k, op, c) ==
    /\ Up
    /\ clientPc[k] = Idle
    /\ c \in held
    /\ state[c] = "kConnected"
    /\ op = "send" => MaySend(c)
    /\ clientPc' = [clientPc EXCEPT ![k] = Functor(op, c)]
    /\ shared' = shared \cup {c}
    /\ UNCHANGED <<loopVars, queueVars, serverVars, connVars, held, aborted>>

\* shutdown: setState(kDisconnecting).
ClientSetsState(k, c) ==
    /\ Up
    /\ clientPc[k] = Functor("shutdown", c)
    /\ state' = [state EXCEPT ![c] = "kDisconnecting"]
    /\ clientPc' = [clientPc EXCEPT ![k] = Functor("queue", c)]
    /\ UNCHANGED <<loopVars, queueVars, serverVars, chanVars, sockVars, wrShut,
                   outVars, held, shared, aborted>>

\* send and shutdown: sendInLoop or shutDownInLoop is queued.
ClientQueues(k, c) ==
    /\ Up
    /\ \/ /\ clientPc[k] = Functor("send", c)
          /\ pending' = Append(pending, Functor("send", c))
       \/ /\ clientPc[k] = Functor("queue", c)
          /\ pending' = Append(pending, Functor("shutdown", c))
    /\ clientPc' = [clientPc EXCEPT ![k] = Idle]
    /\ UNCHANGED <<loopVars, batch, batchHolds, serverVars, connVars, held,
                   shared, aborted>>

\* The application lets go of its shared_ptr, in whatever thread.
Drop(c) ==
    /\ Up
    /\ c \in held
    /\ held' = held \ {c}
    /\ UNCHANGED <<loopVars, queueVars, serverVars, connVars, clientPc, shared,
                   aborted>>

-----------------------------------------------------------------------------
(* The peers.                                                              *)

PeerSends(c) ==
    /\ Up
    /\ state[c] # "kConnecting" /\ peer[c] = "open"
    /\ unread' = [unread EXCEPT ![c] = TRUE]
    /\ UNCHANGED <<loopVars, queueVars, serverVars, state, chanVars, peer,
                   wrShut, outVars, appVars, aborted>>

PeerLeaves(c, how) ==
    /\ Up
    /\ state[c] # "kConnecting"
    /\ peer[c] = "open" \/ (peer[c] = "closed" /\ how = "reset")
    /\ peer' = [peer EXCEPT ![c] = how]
    /\ UNCHANGED <<loopVars, queueVars, serverVars, state, chanVars, unread,
                   wrShut, outVars, appVars, aborted>>

-----------------------------------------------------------------------------

LoopStep ==
    \/ Poll \/ AcceptFails \/ CallbackReturns
    \/ SwapFunctors \/ RunListen \/ FunctorsDone
    \/ \E c \in Conns :
         \/ AcceptConn(c)
         \/ Close(c) \/ HandleError(c)
         \/ ReadMessage(c) \/ ReadEnd(c) \/ HandleWrite(c)
         \/ ConnectDestroyed(c) \/ WriteComplete(c)
         \/ RunSend(c) \/ RunShutdown(c)

UserStep ==
    \/ Start
    \/ \E c \in Conns : Keep(c) \/ Send(c) \/ Shutdown(c)

ClientStep(k) ==
    \/ ClientStarts(k) \/ ClientListens(k)
    \/ \E c \in Conns :
         \/ \E op \in {"send", "shutdown"} : ClientTests(k, op, c)
         \/ ClientSetsState(k, c) \/ ClientQueues(k, c)

PeerStep ==
    \E c \in Conns :
        PeerSends(c) \/ (\E how \in {"closed", "reset"} : PeerLeaves(c, how))

Next ==
    \/ LoopStep
    \/ UserStep
    \/ \E k \in Clients : ClientStep(k)
    \/ \E c \in Conns : Drop(c)
    \/ PeerStep

Spec == Init /\ [][Next]_vars

(***************************************************************************)
(* The scheduler runs the loop's thread and a thread that is in a call,    *)
(* callbacks return, poll(2) reports what is ready, and a peer that does   *)
(* not read for a while reads again: the socket of a connection that waits *)
(* for it has room time and again.  Nobody has to call anything, and no    *)
(* peer has to send or to close.                                           *)
(***************************************************************************)
Fairness ==
    /\ WF_vars(LoopStep)
    /\ \A c \in Conns : SF_vars(Poll /\ "write" \in todo'[c])
    /\ \A k \in Clients :
         WF_vars(\/ ClientListens(k)
                 \/ \E c \in Conns : ClientSetsState(k, c) \/ ClientQueues(k, c))

FairSpec == Spec /\ Fairness

\* An application whose callbacks only keep the connection: another thread does
\* all the sending and the shutdown.
KeepingNext ==
    \/ LoopStep
    \/ Start
    \/ \E c \in Conns : Keep(c)
    \/ \E k \in Clients : ClientStep(k)
    \/ PeerStep

KeepingSpec == Init /\ [][KeepingNext]_vars

-----------------------------------------------------------------------------
(* Properties.                                                             *)

Functors == [op : {"destroy", "complete", "send", "shutdown"}, conn : Conns]
    \cup {Functor("listen", NoConn)}

LoopTypeOK ==
    /\ stage \in {"poll", "events", "functors"}
    /\ accepting \in BOOLEAN
    /\ todo \in [Conns -> SUBSET Tests]
    /\ self \in Conns \cup {NoConn}
    /\ callback \in Callbacks
    /\ callback # "none" => self # NoConn
    /\ stage # "events" => ~accepting /\ todo = [c \in Conns |-> {}]

QueueTypeOK ==
    /\ pending \in Seq(Functors)
    /\ batch \in Seq(Functors)
    /\ batchHolds \subseteq Conns

UserTypeOK ==
    /\ listening \in BOOLEAN
    /\ connMap \subseteq Conns
    /\ held \subseteq Conns
    /\ clientPc \in [Clients -> ClientPcs]
    /\ shared \subseteq Conns

TypeOK == LoopTypeOK /\ QueueTypeOK /\ UserTypeOK /\ ConnTypeOK

\* The Poller and the dispatch use a connection's channel by its address: while
\* it is registered, or a test of handleEvent is to come, somebody holds a
\* shared_ptr to the connection.
WatchedIsAlive ==
    \A c \in Conns :
        chan[c] \in {"watched", "quiet"} \/ todo[c] # {} => Alive(c)

\* A connection is closed once: it is in _connMap exactly while it is watched,
\* and from handleClose on one connectDestroyed is queued, until it runs.
ClosedOnce ==
    \A c \in Conns :
        LET destroy == Functor("destroy", c)
            destroying == callback = "down" /\ self = c
        IN  /\ c \in connMap <=> chan[c] = "watched"
            /\ destroy \in Range(Queue) <=> chan[c] = "quiet" /\ ~destroying
            /\ \A i, j \in DOMAIN Queue :
                 Queue[i] = destroy /\ Queue[j] = destroy => i = j

\* What waits to be written is asked for, and nothing is asked for in vain.
BacklogIsWatched ==
    \A c \in Conns :
        chan[c] = "watched" => ("out" \in events[c] <=> ~IsEmpty(out[c]))

\* The socket takes the bytes in the order sendInLoop was given them, without a
\* gap, however writes are cut and the ring grows, until an append overruns the
\* ring: then what the peer gets is not what was sent (AppendsFollow of Buffer).
InOrder ==
    \A c \in Conns \ overrun :
        wire[c] \o Content(out[c]) = [i \in 1 .. accepted[c] |-> i]

\* The process ends only on account of a peer that reset, of an output buffer that
\* was overrun, or of a call from another thread that is carried out too late, when
\* the writing side is shut already or the connection was taken down: no other
\* assertion of TcpConnection, TcpServer or the Poller fails, and no other write does.
EndsOnlyOnReset ==
    \A c \in aborted :
        \/ peer[c] = "reset"
        \/ c \in overrun
        \/ c \in shared /\ (wrShut[c] \/ chan[c] = "removed")

\* What the Poller knows of a channel, and the channels it reported.
Asked(c) == IF chan[c] = "removed" THEN {} ELSE events[c]

Reported == {c \in Conns : todo[c] # {}}

\* The connections use their channels as the Poller has its users do: nothing is
\* removed that asks for something or while a report is handled, the end of a
\* connection does not come to a channel that was removed, and what a late send
\* asks for on a disabled one is taken back before the removal.  A channel that
\* was removed asks for nothing: the send that would have it do so is what
\* EndsOnlyOnReset is about.
Uses == INSTANCE Registry WITH
    Channels <- Conns,
    events <- [c \in Conns |-> Asked(c)],
    reported <- Reported

UsesRegistry == Uses!Spec

\* What the user sees of a connection, the one a callback is for, how much was
\* written, and those it is to be told of that everything is.
Life(c) ==
    IF chan[c] = "new" THEN "none"
    ELSE IF chan[c] = "watched" THEN "open"
    ELSE IF chan[c] = "quiet" /\ ~(callback = "down" /\ self = c) THEN "closing"
    ELSE "down"

User == IF callback = "none" THEN NoConn ELSE self

Sent(c) == Len(wire[c])

Due == {c \in Conns : Functor("complete", c) \in Range(Queue)}

\* To its user and to the peers the server is what Sessions promises: one callback
\* opens a connection and one ends it, with no message after the close, whatever
\* is queued and reported meanwhile, and the stream ends behind what was sent, as
\* long as the output buffer is not overrun.
Served == INSTANCE Sessions WITH
    life <- [c \in Conns |-> Life(c)],
    user <- User,
    given <- accepted,
    sent <- [c \in Conns |-> Sent(c)],
    shut <- wrShut,
    due <- Due,
    spoilt <- overrun

ImplementsSessions == Served!Spec

\* A shutdown is carried out: once what was sent before is written, the writing
\* side is shut, unless the connection is closed first or its ring was overrun.
ShutdownCompletes ==
    \A c \in Conns :
        state[c] = "kDisconnecting" ~>
            wrShut[c] \/ chan[c] # "watched" \/ c \in overrun \/ aborted # {}

\* A connection whose peer closes is taken down to the last: connectDestroyed
\* runs, which tells the user, and the channel leaves the Poller.
PeerCloseEndsIt ==
    \A c \in Conns :
        peer[c] = "closed" ~> chan[c] = "removed" \/ aborted # {}

\* send and shutdown "may be called across threads" (TcpConnection.h:53): what
\* was sent before the shutdown is written before the writing side is shut.
\* Refuted: shutdown sets _state at once, and handleWrite acts on it ahead of
\* the sends that are still queued.
NothingIsCutOff ==
    \A c \in Conns :
        wrShut[c] => IsEmpty(out[c]) /\ Functor("send", c) \notin Range(Queue)

\* They are safe because the TcpConnection outlives them: it "makes sure that
\* connfd is not closed while a request is handled" (TcpConnection.h:23).
\* Refuted: they bind a plain this, so the functor may outlive the connection.
CallsFindConnection ==
    \A f \in Range(Queue) : f.op \in {"send", "shutdown"} => Alive(f.conn)

=============================================================================
