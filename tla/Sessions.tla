------------------------------ MODULE Sessions ------------------------------
(***************************************************************************)
(* What a TcpServer promises of its connections, seen from above by the    *)
(* user's callbacks, and from below by the peer: a session is opened by    *)
(* one callback and ended by one, no message comes after the close, one    *)
(* callback runs at a time, the peer gets all the bytes that were given    *)
(* before the end of the stream unless the session is closed, and the user *)
(* is told that they were written when they were.  Of the bytes and of the *)
(* end of the stream nothing is promised once the session is spoilt, as it *)
(* may be after some of the bytes were taken.  TcpServer implements this   *)
(* module.                                                                 *)
(***************************************************************************)
EXTENDS Integers

CONSTANTS
    Conns,
    NoConn,         \* no connection
    Lengths         \* how long a message may be

VARIABLES
    life,           \* "none", "open", "closing" (it was closed, and the user
                    \* is not told yet) or "down"
    callback,       \* the user's callback that runs, or "none"
    user,           \* the connection it is given, or NoConn
    given,          \* how many bytes there are to write
    sent,           \* how many of them the socket took
    shut,           \* the writing side was shut
    due,            \* the connections whose user is to be told that all is
                    \* written
    spoilt          \* the connections whose output went wrong

sessionVars == <<life, callback, user, given, sent, shut, due, spoilt>>

Init ==
    /\ life = [c \in Conns |-> "none"]
    /\ callback = "none"
    /\ user = NoConn
    /\ given = [c \in Conns |-> 0]
    /\ sent = [c \in Conns |-> 0]
    /\ shut = [c \in Conns |-> FALSE]
    /\ due = {}
    /\ spoilt = {}

Backlog(c) == given[c] - sent[c]

\* A session goes on to the next part of its life, or stays where it is.
Goes(c, from, to) == life[c] = from /\ life' = [life EXCEPT ![c] = to]

Calls(c, name) ==
    /\ callback = "none"
    /\ callback' = name
    /\ user' = c
    /\ UNCHANGED <<given, sent, shut, spoilt>>

Opens(c) == Goes(c, "none", "open") /\ Calls(c, "up") /\ UNCHANGED due

Receives(c) == Goes(c, "open", "open") /\ Calls(c, "message") /\ UNCHANGED due

\* It may be owed more than once.
Completes(c) ==
    /\ c \in due
    /\ Calls(c, "complete")
    /\ due' \in {due, due \ {c}}
    /\ UNCHANGED life

Closes(c) ==
    /\ Goes(c, "open", "closing")
    /\ callback = "none"
    /\ UNCHANGED <<callback, user, given, sent, shut, due, spoilt>>

Ends(c) == Goes(c, "closing", "down") /\ Calls(c, "down") /\ UNCHANGED due

Returns ==
    /\ callback # "none"
    /\ callback' = "none"
    /\ user' = NoConn
    /\ UNCHANGED <<life, given, sent, shut, due, spoilt>>

\* Who empties the backlog owes the user a callback.
Owes(c) == due' = IF Backlog(c)' = 0 THEN due \cup {c} ELSE due

\* A message more: the socket is tried at once if nothing waits.
Gives(c) ==
    /\ life[c] # "none"
    /\ \E n \in Lengths :
         /\ given' = [given EXCEPT ![c] = @ + n]
         /\ \/ UNCHANGED sent
            \/ /\ Backlog(c) = 0 /\ ~shut[c]
               /\ \E m \in 1 .. n : sent' = [sent EXCEPT ![c] = @ + m]
    /\ Owes(c)
    /\ UNCHANGED <<life, callback, user, shut, spoilt>>

\* Some of what waits is taken; a shutdown may wait for the last of it.
Writes(c) ==
    /\ life[c] # "none"
    /\ ~shut[c]
    /\ \E n \in 1 .. Backlog(c) : sent' = [sent EXCEPT ![c] = @ + n]
    /\ Owes(c)
    /\ \/ UNCHANGED shut
       \/ Backlog(c)' = 0 /\ shut' = [shut EXCEPT ![c] = TRUE]
    /\ UNCHANGED <<life, callback, user, given, spoilt>>

\* An open session is not shut while something waits.
Shuts(c) ==
    /\ life[c] # "none"
    /\ life[c] = "open" => Backlog(c) = 0
    /\ shut' = [shut EXCEPT ![c] = TRUE]
    /\ UNCHANGED <<life, callback, user, given, sent, due, spoilt>>

\* A session whose output is or goes wrong: only that it is the one concerned, and
\* that no callback comes of it, is promised.
Strays(c) ==
    /\ c \in spoilt \/ sent[c] > 0
    /\ spoilt' = spoilt \cup {c}
    /\ given' = [given EXCEPT ![c] = given'[c]]
    /\ sent' = [sent EXCEPT ![c] = sent'[c]]
    /\ shut' = [shut EXCEPT ![c] = shut'[c]]
    /\ due' \in {due, due \cup {c}}
    /\ UNCHANGED <<life, callback, user>>

Next ==
    \/ Returns
    \/ \E c \in Conns :
         \/ Opens(c) \/ Receives(c) \/ Completes(c) \/ Closes(c) \/ Ends(c)
         \/ Gives(c) \/ Writes(c) \/ Shuts(c) \/ Strays(c)

Spec == Init /\ [][Next]_sessionVars

=============================================================================
