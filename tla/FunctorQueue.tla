---------------------------- MODULE FunctorQueue ----------------------------
(***************************************************************************)
(* What EventLoop promises of the callbacks handed to it (EventLoop.h:32,  *)
(* "may be called safely across threads"): a functor that is queued runs   *)
(* once, after every functor queued before it; a functor handed over with  *)
(* runInLoop by the loop's own thread runs at once, ahead of the queue.    *)
(* Nothing is said of threads, locks, the eventfd or batches: EventLoop    *)
(* has those, and implements this module.                                  *)
(***************************************************************************)
EXTENDS Sequences, Functions

CONSTANT Functors   \* one element per callback handed over

VARIABLES
    queue,          \* handed over and not yet run, oldest first
    ran             \* run, in the order they ran

queueVars == <<queue, ran>>

Fresh(f) == f \notin Range(queue) \cup Range(ran)

Init == queue = <<>> /\ ran = <<>>

Queue(f) ==
    /\ Fresh(f)
    /\ queue' = Append(queue, f)
    /\ UNCHANGED ran

RunQueued ==
    /\ queue # <<>>
    /\ ran' = Append(ran, Head(queue))
    /\ queue' = Tail(queue)

RunDirect(f) ==
    /\ Fresh(f)
    /\ ran' = Append(ran, f)
    /\ UNCHANGED queue

Next ==
    \/ \E f \in Functors : Queue(f) \/ RunDirect(f)
    \/ RunQueued

Spec == Init /\ [][Next]_queueVars

=============================================================================
