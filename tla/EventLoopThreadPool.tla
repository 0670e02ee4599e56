------------------------- MODULE EventLoopThreadPool -------------------------
(***************************************************************************)
(* net/EventLoopThreadPool.cpp, over the threads of LoopThread: the thread *)
(* of the base loop sets the number of threads, starts the pool, asks for  *)
(* loops and destroys the pool; users quit the loops they were given.      *)
(*                                                                         *)
(* start is called once, as its assertion demands.                         *)
(***************************************************************************)
EXTENDS LoopThread, Naturals, Sequences, Functions

CONSTANTS
    MaxThreads,     \* the greatest argument of setThreadNum
    MaxCalls        \* bound: how often getNextLoop returns the same loop

ASSUME PoolAssumption ==
    MaxThreads \in Nat /\ MaxCalls \in Nat /\ Threads = 1 .. MaxThreads

VARIABLES
    poolPc,         \* the base loop's thread, see PoolPcs
    started,        \* _started
    numThreads,     \* _numThreads
    loops,          \* _loops: the k-th is the loop of the k-th thread
    next,           \* _next
    joined,         \* how many threads the destructor has joined
    calls           \* how often each loop was returned (history)

callVars == <<next, calls>>
poolVars == <<poolPc, started, numThreads, loops, joined, callVars>>

allVars == <<loopThreadVars, poolVars>>

\* "user": in code that may call the pool; "starting": in start(), between two
\* threads; "waiting": in startLoop() of a thread; "destroying": in the
\* destructor; "destroyed": it returned.
PoolPcs == {"user", "starting", "waiting", "destroying", "destroyed"}

PoolInit ==
    /\ Init
    /\ poolPc = "user"
    /\ started = FALSE
    /\ numThreads = 0
    /\ loops = <<>>
    /\ next = 0
    /\ joined = 0
    /\ calls = [t \in Threads |-> 0]

\* The thread made last, or to be made next.
Newest == Len(loops) + 1

-----------------------------------------------------------------------------
(* The thread of the base loop.                                            *)

SetThreadNum(n) ==
    /\ poolPc = "user"
    /\ numThreads' = n
    /\ UNCHANGED <<loopThreadVars, poolPc, started, loops, joined, callVars>>

Start ==
    /\ poolPc = "user"
    /\ ~started
    /\ started' = TRUE
    /\ poolPc' = "starting"
    /\ UNCHANGED <<loopThreadVars, numThreads, loops, joined, callVars>>

\* One round of start(), up to startLoop.
StartThread ==
    /\ poolPc = "starting"
    /\ Len(loops) < numThreads
    /\ Starts(Newest)
    /\ poolPc' = "waiting"
    /\ UNCHANGED <<started, numThreads, loops, joined, callVars>>

\* startLoop returns the loop.
ThreadStarted ==
    /\ poolPc = "waiting"
    /\ phase[Newest] \notin {"none", "constructing"}
    /\ loops' = Append(loops, Newest)
    /\ poolPc' = "starting"
    /\ UNCHANGED <<loopThreadVars, started, numThreads, joined, callVars>>

StartReturns ==
    /\ poolPc = "starting"
    /\ Len(loops) = numThreads
    /\ poolPc' = "user"
    /\ UNCHANGED <<loopThreadVars, started, numThreads, loops, joined,
                   callVars>>

\* Slip: the last loop is left out.
FollowingButLast == IF next + 2 >= Len(loops) THEN 0 ELSE next + 1

\* Slip: _next is not reset.
FollowingOn == next + 1

\* _next, after _next++ and the test for the end.
Following == IF next + 1 >= Len(loops) THEN 0 ELSE next + 1

\* getNextLoop.  While the pool has no loops it returns the base loop, and
\* changes nothing.
GetNextLoop ==
    /\ poolPc = "user"
    /\ loops # <<>>
    /\ calls[loops[next + 1]] < MaxCalls
    /\ calls' = [calls EXCEPT ![loops[next + 1]] = @ + 1]
    /\ next' = Following
    /\ UNCHANGED <<loopThreadVars, poolPc, started, numThreads, loops, joined>>

\* The destructor destroys _threads, in order; each is joined.
Destroy ==
    /\ poolPc = "user"
    /\ poolPc' = "destroying"
    /\ UNCHANGED <<loopThreadVars, started, numThreads, loops, joined,
                   callVars>>

Join ==
    /\ poolPc = "destroying"
    /\ joined < Len(loops)
    /\ phase[joined + 1] = "done"
    /\ joined' = joined + 1
    /\ UNCHANGED <<loopThreadVars, poolPc, started, numThreads, loops,
                   callVars>>

\* Slip: the threads are counted by what setThreadNum said last.
DestroyReturnsByNumber ==
    /\ poolPc = "destroying"
    /\ joined = numThreads
    /\ poolPc' = "destroyed"
    /\ UNCHANGED <<loopThreadVars, started, numThreads, loops, joined,
                   callVars>>

DestroyReturns ==
    /\ poolPc = "destroying"
    /\ joined = Len(loops)
    /\ poolPc' = "destroyed"
    /\ UNCHANGED <<loopThreadVars, started, numThreads, loops, joined,
                   callVars>>

-----------------------------------------------------------------------------
(* The other threads.                                                      *)

ThreadRuns(t) == Runs(t) /\ UNCHANGED poolVars

\* Somebody who was given a loop quits it; the pool itself never does.
UserQuits(t) ==
    /\ calls[t] > 0
    /\ IsToldToQuit(t)
    /\ UNCHANGED poolVars

PoolStep ==
    \/ StartThread \/ ThreadStarted \/ StartReturns
    \/ Join \/ DestroyReturns

PoolNext ==
    \/ \E n \in 0 .. MaxThreads : SetThreadNum(n)
    \/ Start \/ GetNextLoop \/ Destroy
    \/ PoolStep
    \/ \E t \in Threads : ThreadRuns(t) \/ UserQuits(t)

PoolSpec == PoolInit /\ [][PoolNext]_allVars

\* The scheduler runs every thread.  Nobody has to quit a loop, or to start or
\* destroy the pool.
PoolFairness ==
    /\ WF_allVars(PoolStep)
    /\ \A t \in Threads : WF_allVars(ThreadRuns(t))

FairPoolSpec == PoolSpec /\ PoolFairness

-----------------------------------------------------------------------------
(* Properties.                                                             *)

\* The types; no index of getNextLoop or of the destructor is out of range.
PoolTypeOK ==
    /\ phase \in [Threads -> Phases]
    /\ quit \in [Threads -> BOOLEAN]
    /\ poolPc \in PoolPcs
    /\ started \in BOOLEAN
    /\ numThreads \in 0 .. MaxThreads
    /\ loops \in Seq(Threads)
    /\ next \in Nat
    /\ joined \in 0 .. Len(loops)
    /\ calls \in [Threads -> Nat]
    /\ loops # <<>> => next \in 0 .. Len(loops) - 1

\* The loops take turns, from the first one on: none is ever two calls ahead of
\* another (getNextLoop, EventLoopThreadPool.cpp:36-47).
TakesTurns ==
    \A j, k \in DOMAIN loops :
        j < k => calls[loops[j]] - calls[loops[k]] \in {0, 1}

\* The destructor returns, or it waits for ever for a loop that runs and that
\* nobody told to quit, or only before it ran: the pool does not see to that
\* (EventLoopThreadPool.cpp:16).  Nothing else keeps it.
DestroyIsDone ==
    \/ poolPc = "destroying" ~> poolPc = "destroyed"
    \/ <>[](\E t \in Range(loops) : phase[t] = "looping" /\ ~quit[t])

=============================================================================
