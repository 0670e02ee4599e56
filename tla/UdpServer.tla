------------------------------ MODULE UdpServer ------------------------------
(***************************************************************************)
(* net/UdpServer.cpp and net/UdpHandler.cpp: a datagram socket, its channel *)
(* and the EventLoop they run in.  No code starts the server's thread pool, *)
(* so getNextLoop returns that loop, and the functors of newConnection run  *)
(* at once, inside the callback of the channel.                             *)
(*                                                                          *)
(* The socket blocks: recvfrom waits, and the whole loop with it, when the  *)
(* kernel discarded the datagram that poll(2) reported.                     *)
(*                                                                          *)
(* A datagram is the number of its arrival.  sendMessage changes nothing    *)
(* that the server keeps: it calls sendto, and then user code.              *)
(***************************************************************************)
EXTENDS EventLoop, Naturals, FiniteSets, SequencesExt

CONSTANTS
    AcceptChannel,  \* _acceptChannel
    Listens,        \* the functors bound to UdpHandler::listen
    MaxDatagrams    \* bound: the datagrams that arrive

ASSUME UdpAssumption ==
    /\ AcceptChannel \in IoChannels
    /\ Listens \subseteq Functors
    /\ MaxDatagrams \in Nat

VARIABLES
    handlerPc,      \* where handleNewConnection is, see HandlerPcs
    listening,      \* _listenning; _acceptChannel is enabled with it
    starting,       \* the clients in start(), past the test of _listenning
    arrived,        \* the datagrams in the socket's queue
    came,           \* how many datagrams arrived (history)
    discarded,      \* the datagrams the kernel took back (history)
    handed,         \* the datagrams handed to _msgRecvCB, in order (history)
    reported        \* the datagram poll(2) last reported the socket for
                    \* (history)

socketVars == <<arrived, came, discarded>>
handlerVars == <<handlerPc, handed>>
startVars == <<listening, starting>>

udpVars == <<vars, handlerVars, startVars, socketVars, reported>>

\* "none": not in handleNewConnection; "connected": in _connCB; "receiving": in
\* recvfrom; "message": in _msgRecvCB.
HandlerPcs == {"none", "connected", "receiving", "message"}

UdpInit ==
    /\ Init
    /\ handlerPc = "none"
    /\ listening = FALSE
    /\ starting = {}
    /\ arrived = <<>>
    /\ came = 0
    /\ discarded = {}
    /\ handed = <<>>
    /\ reported = 0

-----------------------------------------------------------------------------
(* The network and the kernel.                                             *)

\* The socket is bound from the beginning: datagrams arrive before listen, too.
DatagramArrives ==
    /\ came < MaxDatagrams
    /\ came' = came + 1
    /\ arrived' = Append(arrived, came')
    /\ UNCHANGED <<vars, handlerVars, startVars, discarded, reported>>

\* A checksum is found to be wrong, or the kernel is short of memory.
KernelDiscards ==
    /\ \E i \in DOMAIN arrived :
         /\ discarded' = discarded \cup {arrived[i]}
         /\ arrived' = RemoveAt(arrived, i)
    /\ UNCHANGED <<vars, handlerVars, startVars, came, reported>>

\* Level-triggered, once the channel is enabled.
Readable == listening /\ arrived # <<>>

Polls ==
    /\ PollIsWoken \/ PollSeesIo \/ PollTimesOut
    /\ AcceptChannel \in activeChannels' <=> Readable
    /\ reported' = IF Readable THEN Head(arrived) ELSE reported
    /\ UNCHANGED <<handlerVars, startVars, socketVars>>

-----------------------------------------------------------------------------
(* The loop's thread.                                                      *)

\* The loop as EventLoop has it.  The callback of _acceptChannel is
\* handleNewConnection, which calls newConnection, which runs _connCB.  A functor
\* bound to UdpHandler::listen sets _listenning and enables the channel.
LoopRunsOn ==
    /\ handlerPc = "none"
    /\ LoopStep
    /\ handlerPc' = IF AcceptChannel \in activeChannels \ activeChannels'
                    THEN "connected" ELSE "none"
    /\ listening' = (listening \/ Range(ran') \cap Listens # {})
    /\ UNCHANGED <<starting, handed, socketVars, reported>>

\* Slip: newConnection does not call handleReceiveMessage.
ConnectionIgnored ==
    /\ handlerPc = "connected"
    /\ handlerPc' = "none"
    /\ UserCodeReturns
    /\ UNCHANGED <<handed, startVars, socketVars, reported>>

\* _connCB returns, and newConnection calls handleReceiveMessage.
ConnectionHandled ==
    /\ handlerPc = "connected"
    /\ handlerPc' = "receiving"
    /\ UNCHANGED <<vars, handed, startVars, socketVars, reported>>

\* Slip: the datagram stays in the socket.
ReceivePeeks ==
    /\ handlerPc = "receiving"
    /\ arrived # <<>>
    /\ handed' = Append(handed, Head(arrived))
    /\ handlerPc' = "message"
    /\ UNCHANGED <<vars, startVars, socketVars, reported>>

\* recvfrom returns, and _msgRecvCB is called.
ReceiveMessage ==
    /\ handlerPc = "receiving"
    /\ arrived # <<>>
    /\ handed' = Append(handed, Head(arrived))
    /\ arrived' = Tail(arrived)
    /\ handlerPc' = "message"
    /\ UNCHANGED <<vars, startVars, came, discarded, reported>>

\* Slip: the socket is read until nothing is left, as if it did not block.
MessageHandledReadsOn ==
    /\ handlerPc = "message"
    /\ handlerPc' = "receiving"
    /\ UNCHANGED <<vars, handed, startVars, socketVars, reported>>

\* Slip: the callback returns as if it had not been the handler's.
MessageHandledStays ==
    /\ handlerPc = "message"
    /\ UserCodeReturns
    /\ UNCHANGED <<handlerVars, startVars, socketVars, reported>>

\* _msgRecvCB returns, and handleNewConnection with it.
MessageHandled ==
    /\ handlerPc = "message"
    /\ handlerPc' = "none"
    /\ UserCodeReturns
    /\ UNCHANGED <<handed, startVars, socketVars, reported>>

\* User code, in a callback of the server or elsewhere, uses the loop.
UserCalls ==
    /\ handlerPc # "receiving"
    /\ \/ \E f \in Functors \ Listens : LoopRuns(f) \/ LoopQueues(f)
       \/ LoopQuits
    /\ UNCHANGED <<handlerVars, startVars, socketVars, reported>>

\* start(): listen is called at once.
Start ==
    /\ InUserCode /\ handlerPc # "receiving"
    /\ ~listening
    /\ listening' = TRUE
    /\ UNCHANGED <<vars, handlerVars, starting, socketVars, reported>>

LoopStarts ==
    /\ StartLoop
    /\ UNCHANGED <<handlerVars, startVars, socketVars, reported>>

-----------------------------------------------------------------------------
(* Other threads.  sendMessage is not for them: the assertion of            *)
(* getNextLoop, EventLoopThreadPool.cpp:37, ends the process.               *)

ClientUsesLoop(c) ==
    /\ \/ /\ c \notin starting
          /\ \/ \E f \in Functors \ Listens : ClientQueues(c, f)
             \/ ClientQuits(c)
       \/ Wakeup(c)
    /\ UNCHANGED <<handlerVars, startVars, socketVars, reported>>

\* start(): the test of _listenning.  The calls are bounded by Listens.
ClientStarts(c) ==
    /\ clientPc[c] = "ready"
    /\ ~listening
    /\ Cardinality(starting) < Cardinality({f \in Listens : Fresh(f)})
    /\ starting' = starting \cup {c}
    /\ UNCHANGED <<vars, handlerVars, listening, socketVars, reported>>

\* Slip: listen is pushed, and the loop is not woken.
ClientListensSilently(c) ==
    /\ c \in starting
    /\ \E f \in Listens :
         Fresh(f) /\ pendingFunctors' = Append(pendingFunctors, f)
    /\ starting' = starting \ {c}
    /\ UNCHANGED <<loopVars, history, clientPc, quit, wakeupReadable,
                   handlerVars, listening, socketVars, reported>>

\* start(): listen is queued, by then perhaps for the second time.
ClientListens(c) ==
    /\ c \in starting
    /\ \E f \in Listens : ClientQueues(c, f)
    /\ starting' = starting \ {c}
    /\ UNCHANGED <<handlerVars, listening, socketVars, reported>>

-----------------------------------------------------------------------------

UdpNext ==
    \/ DatagramArrives \/ KernelDiscards
    \/ Polls \/ LoopRunsOn \/ LoopStarts
    \/ ConnectionHandled \/ ReceiveMessage \/ MessageHandled
    \/ UserCalls \/ Start
    \/ \E c \in Clients :
         ClientUsesLoop(c) \/ ClientStarts(c) \/ ClientListens(c)

UdpSpec == UdpInit /\ [][UdpNext]_udpVars

\* EventLoop's fairness; poll(2) and recvfrom return when there is a datagram.
\* No datagram has to arrive, and nobody has to call anything.
UdpFairness ==
    /\ WF_udpVars(LoopRunsOn)
    /\ WF_udpVars(Polls /\ (wakeupReadable \/ Readable))
    /\ WF_udpVars(ConnectionHandled \/ ReceiveMessage \/ MessageHandled)
    /\ \A c \in Clients :
         WF_udpVars(ClientListens(c)) /\ WF_udpVars(ClientUsesLoop(c) /\ Wakeup(c))

FairUdpSpec == UdpSpec /\ UdpFairness

-----------------------------------------------------------------------------
(* Properties.                                                             *)

\* The types, and handleNewConnection runs inside a callback of the loop only.
UdpTypeOK ==
    /\ TypeOK
    /\ handlerPc \in HandlerPcs
    /\ listening \in BOOLEAN
    /\ starting \subseteq Clients
    /\ arrived \in Seq(Nat)
    /\ came \in Nat
    /\ discarded \subseteq Nat
    /\ handed \in Seq(Nat)
    /\ reported \in Nat
    /\ handlerPc # "none" => loopPc = "callback"

\* A recvfrom that waits was not called in vain: a datagram is there, or the
\* kernel took back the very one that poll(2) reported.  So the loop blocks in
\* UdpHandler.cpp:48 only on the kernel's account.
WaitsOnlyForDiscarded ==
    handlerPc = "receiving" => arrived # <<>> \/ reported \in discarded

\* Each datagram that arrived is in one place: with the user, in the socket or
\* discarded; the user got them in the order of their arrival, none twice.
HandedInOrder ==
    LET kept == handed \o arrived
    IN  /\ \A i, j \in DOMAIN kept : i < j => kept[i] < kept[j]
        /\ 1 .. came = Range(kept) \cup discarded
        /\ Range(kept) \cap discarded = {}

\* A datagram in the socket of a server that listens comes to the user, one
\* after the other, unless the kernel discards it or the loop is left.
DatagramsAreHanded ==
    \A d \in 1 .. MaxDatagrams :
        listening /\ d \in Range(arrived) ~>
            d \in Range(handed) \cup discarded \/ ~Looping

\* "Thread safe" (UdpServer.cpp:49): a start() of another thread takes effect on
\* a loop that runs, without help from a datagram or the timeout of poll(2).
StartTakesEffect == starting # {} ~> listening \/ ~Looping

\* What is handed to the loop runs and a quit ends it, unless the loop waits in
\* recvfrom for ever.
ServesItsLoop ==
    \/ <>[](handlerPc = "receiving")
    \/ /\ \A f \in Functors :
            Looping /\ f \in Announced ~> f \in Range(ran) \/ ~Looping
       /\ Looping /\ quit ~> ~Looping

=============================================================================
