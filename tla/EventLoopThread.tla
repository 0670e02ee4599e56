--------------------------- MODULE EventLoopThread --------------------------
(***************************************************************************)
(* net/EventLoopThread.cpp: the owner's startLoop and destructor, and      *)
(* threadFunc, the thread that holds an EventLoop on its stack.  The loop  *)
(* is EventLoop, run by that thread and called by the owner, and by the    *)
(* threads the owner gave the pointer to.                                  *)
(*                                                                         *)
(* The mutex is held for one step at a time: by the owner to test the      *)
(* condition and go to sleep, by the thread to publish and notify.         *)
(***************************************************************************)
EXTENDS EventLoop

CONSTANT Owner      \* the client that owns the EventLoopThread

ASSUME OwnerAssumption == Owner \in Clients

VARIABLES
    ownerPc,        \* where the owner is, see OwnerPcs
    threadPc,       \* where threadFunc is, see ThreadPcs
    quitCalled      \* some client called quitLoop (history)

threadVars == <<ownerPc, threadPc, quitCalled>>

allVars == <<vars, threadVars>>

\* "new": constructed; "started": in startLoop, before a test of _loop;
\* "waiting": asleep on _cond; "running": startLoop returned; "joining": in the
\* destructor; "joined": the destructor returned.
OwnerPcs == {"new", "started", "waiting", "running", "joining", "joined"}

\* "none": not started; "constructing": before the lock; "published": _loop is
\* set; "looping": called loop.startLoop(); "done": the loop is destroyed.
ThreadPcs == {"none", "constructing", "published", "looping", "done"}

ThreadInit ==
    /\ Init
    /\ ownerPc = "new"
    /\ threadPc = "none"
    /\ quitCalled = FALSE

-----------------------------------------------------------------------------
(* The owner.                                                              *)

\* startLoop, _thread.start()
OwnerStarts ==
    /\ ownerPc = "new"
    /\ ownerPc' = "started"
    /\ threadPc' = "constructing"
    /\ UNCHANGED <<vars, quitCalled>>

\* Slip: the wait has no condition, it ends when it is woken.
AnyWakeupWillDo == threadPc # "none"

\* _loop != NULL
LoopIsSet == threadPc \in {"published", "looping", "done"}

\* Slip: the owner goes to sleep without a look at _loop.
OwnerSleepsFirst ==
    /\ ownerPc = "started"
    /\ ownerPc' = "waiting"
    /\ UNCHANGED <<vars, threadPc, quitCalled>>

\* _cond.wait, when it holds the lock: to sleep, or out of startLoop.
OwnerTests ==
    /\ ownerPc = "started"
    /\ ownerPc' = IF LoopIsSet THEN "running" ELSE "waiting"
    /\ UNCHANGED <<vars, threadPc, quitCalled>>

\* A condition variable may wake its waiter for no reason.
SpuriousWakeup ==
    /\ ownerPc = "waiting"
    /\ ownerPc' = "started"
    /\ UNCHANGED <<vars, threadPc, quitCalled>>

\* The destructor, once the owner's own calls of the loop returned.
OwnerDestroys ==
    /\ ownerPc = "running"
    /\ clientPc[Owner] = "ready"
    /\ ownerPc' = "joining"
    /\ UNCHANGED <<vars, threadPc, quitCalled>>

\* _thread.join()
OwnerJoins ==
    /\ ownerPc = "joining"
    /\ threadPc = "done"
    /\ ownerPc' = "joined"
    /\ UNCHANGED <<vars, threadPc, quitCalled>>

-----------------------------------------------------------------------------
(* threadFunc.                                                             *)

\* EventLoop loop; then, under the lock, _loop = &loop and notify_one.
ThreadPublishes ==
    /\ threadPc = "constructing"
    /\ threadPc' = "published"
    /\ ownerPc' = IF ownerPc = "waiting" THEN "started" ELSE ownerPc
    /\ UNCHANGED <<vars, quitCalled>>

\* Slip: the loop goes out of scope with the lock.
ThreadDropsLoop ==
    /\ threadPc = "published"
    /\ threadPc' = "done"
    /\ UNCHANGED <<vars, ownerPc, quitCalled>>

\* loop.startLoop()
ThreadStartsLoop ==
    /\ threadPc = "published"
    /\ StartLoop
    /\ threadPc' = "looping"
    /\ UNCHANGED <<ownerPc, quitCalled>>

\* Slip: the loop is destroyed as soon as it is told to quit.
ThreadAbandonsLoop ==
    /\ threadPc = "looping"
    /\ quit
    /\ threadPc' = "done"
    /\ UNCHANGED <<vars, ownerPc, quitCalled>>

\* startLoop returned, ~EventLoop.  _loop keeps pointing at it.
ThreadDestroysLoop ==
    /\ threadPc = "looping"
    /\ ~Looping
    /\ threadPc' = "done"
    /\ UNCHANGED <<vars, ownerPc, quitCalled>>

-----------------------------------------------------------------------------
(* The loop: its thread is threadFunc's, its clients have the pointer      *)
(* startLoop returned.  No call is begun on a loop already destroyed, or   *)
(* once the destructor runs: that would be the caller's mistake.  A call   *)
(* begun before may still end after the loop is gone.                      *)

HasPointer == ownerPc = "running" /\ threadPc # "done"

ClientCalls(c) ==
    /\ HasPointer
    /\ \/ (\E f \in Functors : ClientQueues(c, f)) /\ UNCHANGED quitCalled
       \/ ClientQuits(c) /\ quitCalled' = TRUE
    /\ UNCHANGED <<ownerPc, threadPc>>

\* The last step of a call.  On a destroyed loop the eventfd is closed: the
\* write fails, and only the assertion at EventLoop.cpp:133 would tell.
ClientWakes(c) ==
    /\ \/ threadPc # "done" /\ Wakeup(c)
       \/ /\ threadPc = "done"
          /\ clientPc[c] = "wake"
          /\ clientPc' = [clientPc EXCEPT ![c] = "ready"]
          /\ UNCHANGED <<loopVars, history, quit, pendingFunctors,
                         wakeupReadable>>
    /\ UNCHANGED threadVars

PollStep == PollIsWoken \/ PollSeesIo \/ PollTimesOut

LoopRunsOn ==
    /\ threadPc = "looping"
    /\ LoopStep \/ PollStep \/ (Looping /\ UserCode)
    /\ UNCHANGED threadVars

ThreadNext ==
    \/ OwnerStarts \/ OwnerTests \/ SpuriousWakeup
    \/ OwnerDestroys \/ OwnerJoins
    \/ ThreadPublishes \/ ThreadStartsLoop \/ ThreadDestroysLoop
    \/ \E c \in Clients : ClientCalls(c) \/ ClientWakes(c)
    \/ LoopRunsOn

ThreadSpec == ThreadInit /\ [][ThreadNext]_allVars

\* EventLoop's fairness, and the scheduler runs the owner inside startLoop and
\* join, and the thread: nobody has to start, quit or destroy the thing.
ThreadFairness ==
    /\ WF_allVars(OwnerTests)
    /\ WF_allVars(OwnerJoins)
    /\ WF_allVars(ThreadPublishes \/ ThreadStartsLoop \/ ThreadDestroysLoop)
    /\ WF_allVars(LoopRunsOn /\ LoopStep)
    /\ WF_allVars(LoopRunsOn /\ PollIsWoken)
    /\ \A c \in Clients : WF_allVars(ClientWakes(c))

FairThreadSpec == ThreadSpec /\ ThreadFairness

-----------------------------------------------------------------------------
(* Properties.                                                             *)

\* The types, and the stack discipline of threadFunc: the loop runs only
\* between its publication and its destruction (the assertion of ~EventLoop,
\* EventLoop.cpp:58).
ThreadTypeOK ==
    /\ TypeOK
    /\ ownerPc \in OwnerPcs
    /\ threadPc \in ThreadPcs
    /\ quitCalled \in BOOLEAN
    /\ Looping => threadPc = "looping"
    /\ ownerPc = "new" <=> threadPc = "none"

\* startLoop returns only once the loop is constructed, even when the wait is
\* woken for no reason (EventLoopThread.cpp:23).
PointerIsLive ==
    ownerPc \in {"running", "joining", "joined"} =>
        threadPc \notin {"none", "constructing"}

\* startLoop returns: the notification is not lost, whether the thread
\* publishes before or after the owner goes to sleep.
StartLoopReturns == ownerPc = "started" ~> ownerPc = "running"

\* What a client hands over is run, even when it was handed over before the
\* thread entered startLoop, unless somebody stops the loop.
HandedOverRuns ==
    \A f \in Functors :
        f \in Announced ~> f \in Range(ran) \/ quit \/ threadPc = "done"

\* The destructor returns once the loop sees that it has to quit.
JoinCompletes ==
    ownerPc = "joining" /\ Looping /\ quit ~> ownerPc = "joined"

\* The thread keeps LoopThread's promise: it comes to an end only after its loop
\* ran and was told to quit while it did.
Promise == INSTANCE LoopThread WITH
    Threads <- {Owner},
    phase <- [t \in {Owner} |-> threadPc],
    quit <- [t \in {Owner} |-> quit]

ImplementsLoopThread == Promise!Spec

\* What test6.cpp:24-28 relies on: after quitLoop, the destructor returns.
\* Refuted: startLoop clears a _quit set between publication and startLoop.
QuitThenJoin == ownerPc = "joining" /\ quitCalled ~> ownerPc = "joined"

\* The assertion of wakeup() (EventLoop.cpp:133): the write succeeds, so the
\* loop is still there when a call from another thread comes to it.  Refuted:
\* the loop may see _quit and be destroyed between the two halves of the call.
WakeupFindsLoop == \A c \in Clients : clientPc[c] = "wake" => threadPc # "done"

=============================================================================
