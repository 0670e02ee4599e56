--------------------------- MODULE TcpConnection ----------------------------
(***************************************************************************)
(* net/TcpConnection.cpp: what the connections of a server are made of,    *)
(* and what the member functions that run in the loop's thread do to them. *)
(* TcpServer says when they are called, and by whom.                       *)
(*                                                                         *)
(* The output buffer is the ring of Buffer.h, with what it does to appends *)
(* it is not up to.  A functor queued in the loop is the name of the       *)
(* function bound and the connection.  abort(), and an assertion that      *)
(* fails, end the process.                                                 *)
(***************************************************************************)
EXTENDS Ring

CONSTANTS
    Conns,          \* the connections, in whatever order they are accepted
    Lengths         \* how long a message may be

ASSUME LengthAssumption == Lengths \subseteq Nat \ {0}

VARIABLES
    state,          \* _state; kConnecting also before the connection exists
    chan,           \* the channel: "new", "watched", "quiet" (disableAll was
                    \* called: poll(2) skips it from then on) or "removed"
    events,         \* its _events
    out,            \* _outputBuffer, of bytes numbered in the order they were sent
    peer,           \* what the peer did: "open", "closed" (FIN) or "reset"
    unread,         \* the socket has something to read
    wrShut,         \* shutdown(fd, SHUT_WR) was done
    wire,           \* the bytes the socket took, up to an overrun (history)
    accepted,       \* how many bytes sendInLoop was given (history)
    overrun,        \* the connections with an append their ring was not up to
                    \* (history)
    pending,        \* _pendingFunctors of the loop
    aborted         \* the connection on whose account the process ended, if any

chanVars == <<chan, events>>
sockVars == <<peer, unread>>
outVars == <<out, wire, accepted, overrun>>
connVars == <<state, chanVars, sockVars, wrShut, outVars>>

States == {"kConnecting", "kConnected", "kDisconnecting", "kDisconnected"}

ConnInit ==
    /\ state = [c \in Conns |-> "kConnecting"]
    /\ chan = [c \in Conns |-> "new"]
    /\ events = [c \in Conns |-> {}]
    /\ out = [c \in Conns |-> NewBuffer]
    /\ peer = [c \in Conns |-> "open"]
    /\ unread = [c \in Conns |-> FALSE]
    /\ wrShut = [c \in Conns |-> FALSE]
    /\ wire = [c \in Conns |-> <<>>]
    /\ accepted = [c \in Conns |-> 0]
    /\ overrun = {}
    /\ pending = <<>>
    /\ aborted = {}

\* The process has not ended.
Up == aborted = {}

Functor(op, c) == [op |-> op, conn |-> c]

\* What a connection is given next.
Message(c, len) == [i \in 1 .. len |-> accepted[c] + i]

-----------------------------------------------------------------------------
\* write(2) fails for good: the peer reset, or the writing side is shut.
WriteFails(c) == peer[c] = "reset" \/ wrShut[c]

\* Both directions are closed, or the peer reset.
HungUp(c) == peer[c] = "reset" \/ (peer[c] = "closed" /\ wrShut[c])

\* enableWriting, with the assertion of updateChannel (Poller.cpp:65).
EnableWriting(c) ==
    /\ events' = [events EXCEPT ![c] = @ \cup {"out"}]
    /\ aborted' = IF chan[c] = "removed" THEN {c} ELSE {}

\* Slip: sendInLoop always tries the socket first.
DirectAlways(c) == TRUE

\* Nothing waits to be written: sendInLoop may try the socket first.
Direct(c) == "out" \notin events[c] /\ IsEmpty(out[c])

\* The socket takes some bytes.  What it is handed from a ring that was overrun is
\* not looked at.
Takes(c, bytes) ==
    wire' = IF c \in overrun THEN wire ELSE [wire EXCEPT ![c] = @ \o bytes]

\* What the socket did not take is appended to the output buffer, and POLLOUT is
\* asked for, unless the append ends the process.
QueueRest(c, rest) ==
    \/ /\ ~SpaceFails(out[c], Len(rest))
       /\ out' = [out EXCEPT ![c] = Appended(@, rest)]
       /\ overrun' = IF Overruns(out[c], Len(rest)) THEN overrun \cup {c} ELSE overrun
       /\ EnableWriting(c)
    \/ /\ SpaceFails(out[c], Len(rest)) \/ CopyIsUndefined(out[c], Len(rest))
       /\ overrun' = overrun \cup {c}
       /\ aborted' = {c}
       /\ UNCHANGED <<out, events>>

\* sendInLoop: n bytes of the message are taken by the socket, if it is tried,
\* and the rest is queued.
SendInLoop(c) ==
    \/ /\ Direct(c) /\ WriteFails(c)
       /\ aborted' = {c}
       /\ UNCHANGED <<outVars, events, pending>>
    \/ /\ ~(Direct(c) /\ WriteFails(c))
       /\ \E len \in Lengths : \E n \in IF Direct(c) THEN 0 .. len ELSE {0} :
            LET message == Message(c, len)
            IN  /\ Takes(c, SubSeq(message, 1, n))
                /\ accepted' = [accepted EXCEPT ![c] = @ + len]
                /\ \/ /\ n = len
                      /\ pending' = Append(pending, Functor("complete", c))
                      /\ UNCHANGED <<out, overrun, events, aborted>>
                   \/ /\ n < len
                      /\ QueueRest(c, SubSeq(message, n + 1, len))
                      /\ UNCHANGED pending

\* Slip: shutDownInLoop does not look at what waits to be written.
ShutDownAtOnce(c, evts) ==
    /\ peer[c] # "reset"
    /\ wrShut' = [wrShut EXCEPT ![c] = TRUE]
    /\ UNCHANGED aborted

\* shutDownInLoop, the channel's events being evts: not while something waits to
\* be written.  Its assertion fails when the connection is gone.
ShutDownInLoop(c, evts) ==
    \/ "out" \in evts /\ UNCHANGED <<wrShut, aborted>>
    \/ /\ "out" \notin evts
       /\ peer[c] # "reset"
       /\ wrShut' = [wrShut EXCEPT ![c] = TRUE]
       /\ UNCHANGED aborted
    \/ /\ "out" \notin evts
       /\ HungUp(c)
       /\ aborted' = {c}
       /\ UNCHANGED wrShut

\* disableAll, and the negated descriptor in the Poller.
DisableAll(c) ==
    /\ events' = [events EXCEPT ![c] = {}]
    /\ chan' = [chan EXCEPT ![c] = "quiet"]

\* Slip: the shutdown that waited for the write is forgotten.
DrainedForgets(c) ==
    /\ events' = [events EXCEPT ![c] = @ \ {"out"}]
    /\ pending' = Append(pending, Functor("complete", c))
    /\ UNCHANGED <<wrShut, aborted>>

\* Slip: the channel keeps asking to write.
DrainedStillWriting(c) ==
    /\ pending' = Append(pending, Functor("complete", c))
    /\ UNCHANGED <<events, wrShut, aborted>>

\* What follows the write that empties the output buffer.
Drained(c) ==
    /\ events' = [events EXCEPT ![c] = @ \ {"out"}]
    /\ pending' = Append(pending, Functor("complete", c))
    /\ IF state[c] = "kDisconnecting" THEN ShutDownInLoop(c, events'[c])
       ELSE UNCHANGED <<wrShut, aborted>>

-----------------------------------------------------------------------------

ConnTypeOK ==
    /\ state \in [Conns -> States]
    /\ chan \in [Conns -> {"new", "watched", "quiet", "removed"}]
    /\ events \in [Conns -> SUBSET {"in", "out"}]
    /\ DOMAIN out = Conns
    /\ \A c \in Conns : IsRing(out[c], Nat)
    /\ peer \in [Conns -> {"open", "closed", "reset"}]
    /\ unread \in [Conns -> BOOLEAN]
    /\ wrShut \in [Conns -> BOOLEAN]
    /\ wire \in [Conns -> Seq(Nat)]
    /\ accepted \in [Conns -> Nat]
    /\ overrun \subseteq Conns
    /\ aborted \subseteq Conns

=============================================================================
