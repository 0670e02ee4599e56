----------------------------- MODULE LoopThread ------------------------------
(***************************************************************************)
(* What EventLoopThread promises of the threads made with it, as far as an *)
(* owner of several can see: when a thread has a loop, whether the loop    *)
(* was told to quit, and when it is gone.  EventLoopThread implements this *)
(* module, EventLoopThreadPool uses it.                                    *)
(***************************************************************************)
CONSTANT Threads

VARIABLES
    phase,          \* where the threads are, see Phases
    quit            \* _quit of their loops

loopThreadVars == <<phase, quit>>

\* "none": not started; "constructing": it has no loop yet; "published": its
\* address is known; "looping": it runs; "done": the thread is over.
Phases == {"none", "constructing", "published", "looping", "done"}

Init ==
    /\ phase = [t \in Threads |-> "none"]
    /\ quit = [t \in Threads |-> FALSE]

Moves(t, from, to) ==
    /\ phase[t] = from
    /\ phase' = [phase EXCEPT ![t] = to]

Starts(t) == Moves(t, "none", "constructing") /\ UNCHANGED quit

Publishes(t) == Moves(t, "constructing", "published") /\ UNCHANGED quit

\* startLoop, which forgets what it was told before.
Enters(t) ==
    /\ Moves(t, "published", "looping")
    /\ quit' = [quit EXCEPT ![t] = FALSE]

IsToldToQuit(t) ==
    /\ phase[t] \in {"published", "looping"}
    /\ quit' = [quit EXCEPT ![t] = TRUE]
    /\ UNCHANGED phase

\* A loop that nobody tells to quit is never left.
Leaves(t) == quit[t] /\ Moves(t, "looping", "done") /\ UNCHANGED quit

Runs(t) == Publishes(t) \/ Enters(t) \/ Leaves(t)

Next == \E t \in Threads : Starts(t) \/ IsToldToQuit(t) \/ Runs(t)

Spec == Init /\ [][Next]_loopThreadVars

=============================================================================
