----------------------------- MODULE EventLoop ------------------------------
(***************************************************************************)
(* net/EventLoop.cpp: one EventLoop, the thread that runs startLoop(), and *)
(* the threads that hold a pointer to it and call runInLoop, queueInLoop   *)
(* and quitLoop.                                                           *)
(*                                                                         *)
(* A step is a stretch of code that touches shared state once: the locked  *)
(* push, the write of _quit, the write of the eventfd, the test of _quit,  *)
(* the return of poll(2), the locked swap.  The calls the loop's own       *)
(* thread makes are one step each, because no other thread reads the       *)
(* eventfd or _callingPendingFunctors.                                     *)
(*                                                                         *)
(* Data kept: _pendingFunctors, the vector swapped out of it, and whether  *)
(* the eventfd's counter is above zero.  Each functor stands for one call. *)
(***************************************************************************)
EXTENDS Sequences, Functions

CONSTANTS
    Clients,        \* the threads other than the loop's that use the loop
    Functors,       \* the callbacks handed over, one element per call
    IoChannels,     \* the loop's channels, other than _wakeupChannel
    WakeupChannel   \* _wakeupChannel

ASSUME ChannelAssumption == WakeupChannel \notin IoChannels

VARIABLES
    loopPc,                 \* where the loop's thread is, see LoopPcs
    clientPc,               \* "wake": pushed or set _quit, wakeup() is next
    quit,                   \* _quit
    callingPendingFunctors, \* _callingPendingFunctors
    pendingFunctors,        \* _pendingFunctors
    functors,               \* the vector swapped out: what is left of it to run
    wakeupReadable,         \* the counter behind _wakeupFd is above zero
    activeChannels,         \* _activeChannels not yet handled
    ran,                    \* the functors run so far, in order (history)
    early                   \* queued by the loop's thread while idle (history)

\* Written by the loop's thread alone; shared with the clients; history.
loopVars == <<loopPc, callingPendingFunctors, functors, activeChannels>>
sharedVars == <<clientPc, quit, pendingFunctors, wakeupReadable>>
history == <<ran, early>>

vars == <<loopVars, sharedVars, history>>

(***************************************************************************)
(* "idle": outside startLoop (before it, or after it returned);            *)
(* "head": at while(!_quit); "poll": inside poll(2); "events": between two *)
(* channels; "callback": in the user code of a channel; "swap": in         *)
(* doPendingFunctors, before the lock; "functors": between two functors;   *)
(* "functor": in a functor's body.                                         *)
(***************************************************************************)
LoopPcs == {"idle", "head", "poll", "events", "callback",
            "swap", "functors", "functor"}

InDoPending == {"swap", "functors", "functor"}

\* Where the loop's thread runs code that may call the loop.
InUserCode == loopPc \in {"idle", "callback", "functor"}

Looping == loopPc # "idle"      \* _looping

Fresh(f) == f \notin Range(pendingFunctors) \cup Range(functors) \cup Range(ran)

Init ==
    /\ loopPc = "idle"
    /\ clientPc = [c \in Clients |-> "ready"]
    /\ quit = FALSE
    /\ callingPendingFunctors = FALSE
    /\ pendingFunctors = <<>>
    /\ functors = <<>>
    /\ wakeupReadable = FALSE
    /\ activeChannels = {}
    /\ ran = <<>>
    /\ early = {}

-----------------------------------------------------------------------------
(* Calls from other threads.                                               *)

\* queueInLoop, and runInLoop, which calls it: the push under _mtx.
ClientQueues(c, f) ==
    /\ clientPc[c] = "ready"
    /\ Fresh(f)
    /\ pendingFunctors' = Append(pendingFunctors, f)
    /\ clientPc' = [clientPc EXCEPT ![c] = "wake"]
    /\ UNCHANGED <<loopVars, history, quit, wakeupReadable>>

\* Slip: quitLoop sets _quit and wakes nobody.
ClientQuitsSilently(c) ==
    /\ clientPc[c] = "ready"
    /\ quit' = TRUE
    /\ UNCHANGED <<loopVars, history, clientPc, pendingFunctors,
                   wakeupReadable>>

\* quitLoop: the write of _quit.
ClientQuits(c) ==
    /\ clientPc[c] = "ready"
    /\ quit' = TRUE
    /\ clientPc' = [clientPc EXCEPT ![c] = "wake"]
    /\ UNCHANGED <<loopVars, history, pendingFunctors, wakeupReadable>>

\* wakeup(): the write of the eventfd that ends queueInLoop and quitLoop.
Wakeup(c) ==
    /\ clientPc[c] = "wake"
    /\ wakeupReadable' = TRUE
    /\ clientPc' = [clientPc EXCEPT ![c] = "ready"]
    /\ UNCHANGED <<loopVars, history, quit, pendingFunctors>>

-----------------------------------------------------------------------------
(* Calls from the loop's own thread, in user code.                         *)

\* runInLoop: the functor runs at once.
LoopRuns(f) ==
    /\ InUserCode
    /\ Fresh(f)
    /\ ran' = Append(ran, f)
    /\ UNCHANGED <<loopVars, sharedVars, early>>

\* Slip: queueInLoop tests isInLoopThread() alone.
LoopNeverWakes == FALSE

\* queueInLoop by the loop's thread: the next poll(2) is only a step away while
\* callbacks run, but the batch has been swapped out once functors run.
LoopMustWake == callingPendingFunctors

\* queueInLoop: the push, and wakeup() if need be.
LoopQueues(f) ==
    /\ InUserCode
    /\ Fresh(f)
    /\ pendingFunctors' = Append(pendingFunctors, f)
    /\ wakeupReadable' = (wakeupReadable \/ LoopMustWake)
    /\ early' = IF Looping THEN early ELSE early \cup {f}
    /\ UNCHANGED <<loopVars, clientPc, quit, ran>>

\* quitLoop: no wakeup, the loop's thread is awake.
LoopQuits ==
    /\ InUserCode
    /\ quit' = TRUE
    /\ UNCHANGED <<loopVars, history, clientPc, pendingFunctors,
                   wakeupReadable>>

\* A callback or a functor returns.
UserCodeReturns ==
    /\ \/ loopPc = "callback" /\ loopPc' = "events"
       \/ loopPc = "functor" /\ loopPc' = "functors"
    /\ UNCHANGED <<sharedVars, history, callingPendingFunctors, functors,
                   activeChannels>>

-----------------------------------------------------------------------------
(* startLoop().                                                            *)

\* _looping = true; _quit = false.
StartLoop ==
    /\ ~Looping
    /\ loopPc' = "head"
    /\ quit' = FALSE
    /\ UNCHANGED <<history, clientPc, callingPendingFunctors,
                   pendingFunctors, functors, wakeupReadable, activeChannels>>

\* while(!_quit): into poll, or out of the loop.
LoopHead ==
    /\ loopPc = "head"
    /\ loopPc' = IF quit THEN "idle" ELSE "poll"
    /\ UNCHANGED <<sharedVars, history, callingPendingFunctors, functors,
                   activeChannels>>

\* poll(2) returns every ready channel, or none at the end of kPollTimeMs.
PollReturns(io) ==
    /\ loopPc = "poll"
    /\ loopPc' = "events"
    /\ activeChannels' = io \cup {ch \in {WakeupChannel} : wakeupReadable}
    /\ UNCHANGED <<sharedVars, history, callingPendingFunctors, functors>>

PollIsWoken == wakeupReadable /\ \E io \in SUBSET IoChannels : PollReturns(io)

PollSeesIo ==
    ~wakeupReadable /\ \E io \in SUBSET IoChannels \ {{}} : PollReturns(io)

\* Slip: a round without an active channel skips the functors.
PollTimesOutAgain ==
    /\ loopPc = "poll" /\ ~wakeupReadable
    /\ loopPc' = "head"
    /\ UNCHANGED <<sharedVars, history, callingPendingFunctors, functors,
                   activeChannels>>

PollTimesOut == ~wakeupReadable /\ PollReturns({})

\* _wakeupChannel was registered first and is handled first; its callback reads
\* the eventfd, which resets the counter.
HandleRead ==
    /\ loopPc = "events"
    /\ WakeupChannel \in activeChannels
    /\ wakeupReadable' = FALSE
    /\ activeChannels' = activeChannels \ {WakeupChannel}
    /\ UNCHANGED <<history, loopPc, clientPc, quit, callingPendingFunctors,
                   pendingFunctors, functors>>

\* The other channels run user code.
HandleIo(ch) ==
    /\ loopPc = "events"
    /\ ch \in activeChannels
    /\ WakeupChannel \notin activeChannels
    /\ loopPc' = "callback"
    /\ activeChannels' = activeChannels \ {ch}
    /\ UNCHANGED <<sharedVars, history, callingPendingFunctors, functors>>

\* doPendingFunctors, up to the lock.
EventsDone ==
    /\ loopPc = "events"
    /\ activeChannels = {}
    /\ loopPc' = "swap"
    /\ callingPendingFunctors' = TRUE
    /\ UNCHANGED <<sharedVars, history, functors, activeChannels>>

\* Slip: the batch is copied, and _pendingFunctors keeps it.
CopyFunctors ==
    /\ loopPc = "swap"
    /\ loopPc' = "functors"
    /\ functors' = pendingFunctors
    /\ UNCHANGED <<sharedVars, history, callingPendingFunctors,
                   activeChannels>>

\* functors.swap(_pendingFunctors), under _mtx.
SwapFunctors ==
    /\ loopPc = "swap"
    /\ loopPc' = "functors"
    /\ functors' = pendingFunctors
    /\ pendingFunctors' = <<>>
    /\ UNCHANGED <<history, clientPc, quit, callingPendingFunctors,
                   wakeupReadable, activeChannels>>

\* functors[i]()
RunFunctor ==
    /\ loopPc = "functors"
    /\ functors # <<>>
    /\ loopPc' = "functor"
    /\ ran' = Append(ran, Head(functors))
    /\ functors' = Tail(functors)
    /\ UNCHANGED <<sharedVars, callingPendingFunctors, activeChannels, early>>

\* Slip: the flag is not reset.
FunctorsDoneStillCalling ==
    /\ loopPc = "functors"
    /\ functors = <<>>
    /\ loopPc' = "head"
    /\ UNCHANGED <<sharedVars, history, callingPendingFunctors, functors,
                   activeChannels>>

\* Slip: the eventfd is drained once the batch has run.
FunctorsDoneDrains ==
    /\ loopPc = "functors"
    /\ functors = <<>>
    /\ loopPc' = "head"
    /\ callingPendingFunctors' = FALSE
    /\ wakeupReadable' = FALSE
    /\ UNCHANGED <<history, clientPc, quit, pendingFunctors, functors,
                   activeChannels>>

\* _callingPendingFunctors = false, and round to the head of the loop.
FunctorsDone ==
    /\ loopPc = "functors"
    /\ functors = <<>>
    /\ loopPc' = "head"
    /\ callingPendingFunctors' = FALSE
    /\ UNCHANGED <<sharedVars, history, functors, activeChannels>>

-----------------------------------------------------------------------------

ClientStep(c) ==
    \/ \E f \in Functors : ClientQueues(c, f)
    \/ ClientQuits(c)
    \/ Wakeup(c)

UserCode ==
    \/ \E f \in Functors : LoopRuns(f) \/ LoopQueues(f)
    \/ LoopQuits

\* What the loop's thread does by itself while it is not blocked in poll(2).
LoopStep ==
    \/ LoopHead
    \/ HandleRead
    \/ \E ch \in IoChannels : HandleIo(ch)
    \/ UserCodeReturns
    \/ EventsDone
    \/ SwapFunctors
    \/ RunFunctor
    \/ FunctorsDone

Next ==
    \/ \E c \in Clients : ClientStep(c)
    \/ UserCode
    \/ StartLoop
    \/ PollIsWoken \/ PollSeesIo \/ PollTimesOut
    \/ LoopStep

Spec == Init /\ [][Next]_vars

(***************************************************************************)
(* The scheduler runs every thread that can run, poll(2) returns when the  *)
(* eventfd is readable, and callbacks return.  Nobody has to call the loop *)
(* or start it, no I/O has to arrive, and the 5 s timeout of poll is not   *)
(* relied on.                                                              *)
(***************************************************************************)
Fairness ==
    /\ WF_vars(LoopStep)
    /\ WF_vars(PollIsWoken)
    /\ \A c \in Clients : WF_vars(Wakeup(c))

FairSpec == Spec /\ Fairness

-----------------------------------------------------------------------------
(* Properties.                                                             *)

\* The types, the empty batch outside doPendingFunctors, and the flag
\* _callingPendingFunctors, which queueInLoop trusts, true exactly inside it.
TypeOK ==
    /\ loopPc \in LoopPcs
    /\ clientPc \in [Clients -> {"ready", "wake"}]
    /\ quit \in BOOLEAN
    /\ callingPendingFunctors \in BOOLEAN
    /\ pendingFunctors \in Seq(Functors)
    /\ functors \in Seq(Functors)
    /\ wakeupReadable \in BOOLEAN
    /\ activeChannels \subseteq IoChannels \cup {WakeupChannel}
    /\ ran \in Seq(Functors)
    /\ early \subseteq Functors
    /\ callingPendingFunctors <=> loopPc \in InDoPending
    /\ loopPc \notin {"functors", "functor"} => functors = <<>>
    /\ loopPc \notin {"events", "callback"} => activeChannels = {}

\* A thread that is waiting in poll(2), or will be, is about to be woken.
WakeupComes == wakeupReadable \/ \E c \in Clients : clientPc[c] = "wake"

\* The functors the loop is to be woken for: all but the ones its own thread
\* queued before startLoop, or after it returned.
Announced == Range(pendingFunctors) \ early

\* The loop never sleeps in poll(2) over a functor that was handed to it while
\* it ran, or by another thread: the eventfd is readable, or the thread that
\* pushed the functor is about to write it (queueInLoop, EventLoop.cpp:99-108).
NoLostWakeup == loopPc = "poll" /\ Announced # {} => WakeupComes

\* Nor does it sleep over a quitLoop: _quit is seen before poll(2), or the
\* caller is about to write the eventfd (quitLoop, EventLoop.cpp:83-88).
QuitIsSeen == loopPc = "poll" /\ quit => WakeupComes

\* Batches, locks and wakeups keep FunctorQueue's promise: every functor runs
\* at most once and in the order the functors were pushed, whoever pushed them.
Queue == INSTANCE FunctorQueue WITH queue <- functors \o pendingFunctors

ImplementsQueue == Queue!Spec

\* A functor handed to a loop that runs is run, unless the loop is told to quit
\* first, and not only once some I/O or the 5 s timeout ends poll(2).
FunctorsRun ==
    \A f \in Functors :
        Looping /\ f \in Announced ~> f \in Range(ran) \/ ~Looping

\* The functors its own thread queued before startLoop are not announced: what
\* runs them, when no I/O comes, is the timeout of poll(2), and it does.
TimeoutRunsEarly ==
    WF_vars(PollTimesOut) =>
        \A f \in Functors :
            Looping /\ f \in early /\ f \in Range(pendingFunctors) ~>
                f \in Range(ran) \/ ~Looping

\* A loop that runs when _quit is set returns from startLoop.
QuitStopsLoop == Looping /\ quit ~> ~Looping

=============================================================================
