----------------------------- MODULE ByteQueue ------------------------------
(***************************************************************************)
(* What a Buffer promises: a queue of bytes.  What is taken, all of it or  *)
(* part of it, is the oldest of what was appended, in order and unchanged. *)
(***************************************************************************)
EXTENDS Integers, Sequences

CONSTANT Messages   \* what one call may append

VARIABLES
    queue,          \* appended and not taken
    taken           \* what the last call took

queueVars == <<queue, taken>>

Init == queue = <<>> /\ taken = <<>>

Put(message) ==
    /\ queue' = queue \o message
    /\ taken' = <<>>

Take(n) ==
    /\ taken' = SubSeq(queue, 1, n)
    /\ queue' = SubSeq(queue, n + 1, Len(queue))

Next ==
    \/ \E message \in Messages : Put(message)
    \/ \E n \in 0 .. Len(queue) : Take(n)

Spec == Init /\ [][Next]_queueVars

=============================================================================
