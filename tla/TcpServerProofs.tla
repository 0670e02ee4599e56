--------------------------- MODULE TcpServerProofs ---------------------------
(***************************************************************************)
(* Proofs about TcpServer, for any set of connections and of clients, any  *)
(* lengths and number of messages and any initial size of the ring: its    *)
(* types, that the loop never uses a connection nobody holds, that a       *)
(* connection is closed once, that what is written is in order until the   *)
(* ring is overrun, what the process may end on, and that the server keeps *)
(* to Registry and is to its user what Sessions promises.                  *)
(***************************************************************************)
EXTENDS TcpServer, RingProofs

-----------------------------------------------------------------------------
(* Types.                                                                  *)

\* A functor of a connection has the type of one.
LEMMA FunctorType ==
    ASSUME NEW c \in Conns,
           NEW op \in {"destroy", "complete", "send", "shutdown"}
    PROVE  Functor(op, c) \in Functors
BY DEF Functor, Functors

\* What a connection or start queues leaves a queue of functors.
LEMMA QueueType ==
    ASSUME QueueTypeOK
    PROVE  /\ \A c \in Conns :
                \A op \in {"destroy", "complete", "send", "shutdown"} :
                    Append(pending, Functor(op, c)) \in Seq(Functors)
           /\ Append(pending, Functor("listen", NoConn)) \in Seq(Functors)
<1>1. ASSUME NEW f \in Functors
      PROVE  Append(pending, f) \in Seq(Functors)
  BY AppendProperties DEF QueueTypeOK
<1> QED BY <1>1 DEF Functors, Functor

\* The initial state has its types.
LEMMA TypeInit == Init => TypeOK
<1> SUFFICES ASSUME Init
             PROVE  TypeOK
  OBVIOUS
<1> USE DEF Init
<1>1. LoopTypeOK
  BY DEF LoopTypeOK, Callbacks
<1>2. QueueTypeOK
  BY EmptySeq DEF QueueTypeOK, ConnInit
<1>3. UserTypeOK
  BY DEF UserTypeOK, ClientPcs, Idle
<1>4. ConnTypeOK
  BY EmptySeq, NewFacts DEF ConnTypeOK, ConnInit, States, Unwrapped
<1> QED BY <1>1, <1>2, <1>3, <1>4 DEF TypeOK

\* A shared_ptr in the queue is one to a connection.
LEMMA HoldsType ==
    ASSUME NEW q \in Seq(Functors)
    PROVE  Holds(q) \subseteq Conns
<1>1. \A f \in Range(q) : f \in Functors
  BY DEF Range
<1>2. \A f \in Functors : f.op \in SharedOps => f.conn \in Conns
  BY DEF Functors, Functor, SharedOps
<1> QED BY <1>1, <1>2 DEF Holds

\* The types of what a connection asks poll(2) for, and of a message.
LEMMA AskTypes ==
    ASSUME ConnTypeOK, NEW c \in Conns, NEW e \in SUBSET {"in", "out"}
    PROVE  [events EXCEPT ![c] = e] \in [Conns -> SUBSET {"in", "out"}]
BY DEF ConnTypeOK

\* A message, and the two parts the socket cuts it into.
LEMMA MessageType ==
    ASSUME ConnTypeOK, NEW c \in Conns, NEW len \in Lengths, NEW n \in 0 .. len
    PROVE  LET message == Message(c, len)
               taken == SubSeq(message, 1, n)
               rest == SubSeq(message, n + 1, len)
           IN  /\ len \in Nat \ {0}
               /\ message \in Seq(Nat) /\ Len(message) = len
               /\ taken \in Seq(Nat) /\ Len(taken) = n
               /\ rest \in Seq(Nat) /\ Len(rest) = len - n
               /\ n < len => rest # <<>>
               /\ taken \o rest = message
<1> DEFINE message == Message(c, len)
           taken == SubSeq(message, 1, n)
           rest == SubSeq(message, n + 1, len)
<1>1. len \in Nat \ {0} /\ n \in Nat /\ n <= len /\ accepted[c] \in Nat
  BY LengthAssumption DEF ConnTypeOK
<1>2. message \in Seq(Nat) /\ Len(message) = len
  <2>1. \A i \in 1 .. len : accepted[c] + i \in Nat
    BY <1>1
  <2> QED BY <1>1, <2>1, IsASeq DEF Message
<1> HIDE DEF message
<1>3. \A i \in 1 .. len : message[i] \in Nat
  BY <1>2, ElementOfSeq
<1>4. taken \in Seq(Nat) /\ Len(taken) = n
  <2>1. \A i \in 1 .. n : message[i] \in Nat
    BY <1>1, <1>3
  <2> QED BY <1>1, <2>1, SubSeqProperties
<1>5. rest \in Seq(Nat) /\ Len(rest) = len - n
  <2>1. \A i \in n + 1 .. len : message[i] \in Nat
    BY <1>1, <1>3
  <2>2. n + 1 \in Int /\ (n + 1 <= len => len - (n + 1) + 1 = len - n)
        /\ (~(n + 1 <= len) => len - n = 0)
    BY <1>1
  <2> QED BY <1>1, <2>1, <2>2, SubSeqProperties
<1>6. taken \o rest = SubSeq(message, 1, len)
  <2>1. 1 \in 1 .. Len(message) + 1 /\ n \in 1 - 1 .. Len(message)
        /\ Len(message) \in n .. Len(message)
    BY <1>1, <1>2
  <2> QED BY <1>2, <2>1, ConcatAdjacentSubSeq
<1>7. SubSeq(message, 1, len) = message
  BY <1>2, SubSeqFull
<1>8. n < len => rest # <<>>
  <2> HIDE DEF rest
  <2> QED BY <1>1, <1>5, EmptySeq
<1> QED BY <1>1, <1>2, <1>4, <1>5, <1>6, <1>7, <1>8 DEF message

\* One ring for another.
LEMMA OutTypes ==
    ASSUME ConnTypeOK, NEW c \in Conns, NEW b, IsRing(b, Nat),
           out' = [out EXCEPT ![c] = b]
    PROVE  /\ DOMAIN out' = Conns /\ \A d \in Conns : IsRing(out'[d], Nat)
           /\ out'[c] = b /\ \A d \in Conns \ {c} : out'[d] = out[d]
BY DEF ConnTypeOK

\* What the socket takes is added to what it took, or not looked at.
LEMMA TakesTypes ==
    ASSUME ConnTypeOK, NEW c \in Conns, NEW bytes \in Seq(Nat), Takes(c, bytes)
    PROVE  /\ wire' \in [Conns -> Seq(Nat)]
           /\ \A d \in Conns \ {c} : wire'[d] = wire[d]
           /\ c \in overrun => wire' = wire
           /\ c \notin overrun => wire'[c] = wire[c] \o bytes
<1>1. wire[c] \o bytes \in Seq(Nat)
  BY ConcatProperties DEF ConnTypeOK
<1> QED BY <1>1 DEF ConnTypeOK, Takes

\* sendInLoop gives n bytes of a message to the socket, if it tries, and appends
\* the rest to the output buffer, or ends the process over that.
Gave(c, len, n) ==
    LET rest == SubSeq(Message(c, len), n + 1, len)
    IN  /\ n > 0 => Direct(c) /\ ~wrShut[c]
        /\ Takes(c, SubSeq(Message(c, len), 1, n))
        /\ accepted' = [accepted EXCEPT ![c] = @ + len]
        /\ \/ /\ n = len
              /\ pending' = Append(pending, Functor("complete", c))
              /\ UNCHANGED <<out, overrun, events, aborted>>
           \/ /\ n < len
              /\ out' = [out EXCEPT ![c] = Appended(@, rest)]
              /\ overrun' = IF Overruns(out[c], Len(rest)) THEN overrun \cup {c}
                            ELSE overrun
              /\ events' = [events EXCEPT ![c] = @ \cup {"out"}]
              /\ aborted' \in {{}, {c}}
              /\ UNCHANGED pending
           \/ /\ n < len
              /\ \/ SpaceFails(out[c], Len(rest))
                 \/ CopyIsUndefined(out[c], Len(rest))
              /\ overrun' = overrun \cup {c}
              /\ aborted' = {c}
              /\ UNCHANGED <<out, events, pending>>

\* sendInLoop does nothing of the kind only if the write fails.
LEMMA SendStep ==
    ASSUME TypeOK, NEW c \in Conns, SendInLoop(c)
    PROVE  \/ UNCHANGED <<outVars, events, pending>> /\ aborted' = {c}
           \/ \E len \in Lengths : \E n \in 0 .. len : Gave(c, len, n)
<1>1. CASE Direct(c) /\ WriteFails(c)
  BY <1>1 DEF SendInLoop
<1>2. CASE ~(Direct(c) /\ WriteFails(c))
  <2> DEFINE Rest(len, n) == SubSeq(Message(c, len), n + 1, len)
             Sends(len, n) ==
               /\ Takes(c, SubSeq(Message(c, len), 1, n))
               /\ accepted' = [accepted EXCEPT ![c] = @ + len]
               /\ \/ /\ n = len
                     /\ pending' = Append(pending, Functor("complete", c))
                     /\ UNCHANGED <<out, overrun, events, aborted>>
                  \/ /\ n < len
                     /\ QueueRest(c, Rest(len, n))
                     /\ UNCHANGED pending
  <2>1. PICK len \in Lengths :
          \E n \in (IF Direct(c) THEN 0 .. len ELSE {0}) : Sends(len, n)
    BY <1>2 DEF SendInLoop
  <2>2. PICK n \in (IF Direct(c) THEN 0 .. len ELSE {0}) : Sends(len, n)
    BY <2>1
  <2>3. len \in Nat \ {0} /\ n \in 0 .. len /\ (n > 0 => Direct(c) /\ ~wrShut[c])
    BY <1>2, <2>2, LengthAssumption DEF WriteFails
  <2> DEFINE rest == Rest(len, n)
  <2>4. QueueRest(c, rest) =>
          \/ /\ out' = [out EXCEPT ![c] = Appended(@, rest)]
             /\ overrun' = IF Overruns(out[c], Len(rest)) THEN overrun \cup {c}
                           ELSE overrun
             /\ events' = [events EXCEPT ![c] = @ \cup {"out"}]
             /\ aborted' \in {{}, {c}}
          \/ /\ \/ SpaceFails(out[c], Len(rest))
                \/ CopyIsUndefined(out[c], Len(rest))
             /\ overrun' = overrun \cup {c}
             /\ aborted' = {c}
             /\ UNCHANGED <<out, events>>
    <3> HIDE DEF rest
    <3> QED BY DEF QueueRest, EnableWriting
  <2> QED BY <2>2, <2>3, <2>4, Zenon DEF Gave
<1> QED BY <1>1, <1>2

\* sendInLoop keeps the types of the output.
LEMMA SendTypes ==
    ASSUME TypeOK, NEW c \in Conns, SendInLoop(c)
    PROVE  /\ DOMAIN out' = Conns /\ \A d \in Conns : IsRing(out'[d], Nat)
           /\ wire' \in [Conns -> Seq(Nat)]
           /\ accepted' \in [Conns -> Nat]
           /\ overrun' \subseteq Conns
           /\ events' \in [Conns -> SUBSET {"in", "out"}]
           /\ pending' \in Seq(Functors)
           /\ aborted' \subseteq Conns
<1>1. CASE UNCHANGED <<outVars, events, pending>> /\ aborted' = {c}
  BY <1>1 DEF TypeOK, ConnTypeOK, QueueTypeOK, outVars
<1>2. ASSUME NEW len \in Lengths, NEW n \in 0 .. len, Gave(c, len, n)
      PROVE  /\ DOMAIN out' = Conns /\ \A d \in Conns : IsRing(out'[d], Nat)
             /\ wire' \in [Conns -> Seq(Nat)]
             /\ accepted' \in [Conns -> Nat]
             /\ overrun' \subseteq Conns
             /\ events' \in [Conns -> SUBSET {"in", "out"}]
             /\ pending' \in Seq(Functors)
             /\ aborted' \subseteq Conns
  <2> DEFINE rest == SubSeq(Message(c, len), n + 1, len)
             taken == SubSeq(Message(c, len), 1, n)
  <2>1. /\ taken \in Seq(Nat) /\ rest \in Seq(Nat) /\ (n < len => rest # <<>>)
        /\ len \in Nat
    BY MessageType DEF TypeOK
  <2>2. wire' \in [Conns -> Seq(Nat)]
    BY <1>2, <2>1, TakesTypes DEF Gave, TypeOK
  <2>3. accepted' \in [Conns -> Nat]
    BY <1>2, <2>1 DEF Gave, TypeOK, ConnTypeOK
  <2>4. pending' \in Seq(Functors)
    BY <1>2, QueueType DEF Gave, TypeOK, QueueTypeOK
  <2>5. events' \in [Conns -> SUBSET {"in", "out"}]
    <3>1. ConnTypeOK /\ events \in [Conns -> SUBSET {"in", "out"}]
      BY DEF TypeOK, ConnTypeOK
    <3>2. UNCHANGED events \/ events' = [events EXCEPT ![c] = @ \cup {"out"}]
      BY <1>2, Zenon DEF Gave
    <3>3. events[c] \cup {"out"} \in SUBSET {"in", "out"}
      BY <3>1
    <3> HIDE DEF rest, taken
    <3> QED BY <3>1, <3>2, <3>3, AskTypes
  <2>6. overrun' \subseteq Conns /\ aborted' \subseteq Conns
    BY <1>2 DEF Gave, TypeOK, ConnTypeOK
  <2>7. DOMAIN out' = Conns /\ \A d \in Conns : IsRing(out'[d], Nat)
    <3>1. CASE UNCHANGED out
      BY <3>1 DEF TypeOK, ConnTypeOK
    <3>2. CASE n < len /\ out' = [out EXCEPT ![c] = Appended(@, rest)]
      <4> DEFINE more == Appended(out[c], rest)
      <4>1. IsRing(out[c], Nat) /\ 0 \in Nat
        BY DEF TypeOK, ConnTypeOK
      <4>2. IsRing(more, Nat)
        BY <2>1, <3>2, <4>1, AppendedTypes
      <4>3. out' = [out EXCEPT ![c] = more]
        BY <3>2
      <4> HIDE DEF more
      <4> QED BY <4>2, <4>3, OutTypes DEF TypeOK
    <3> QED BY <1>2, <3>1, <3>2 DEF Gave
  <2> QED BY <2>2, <2>3, <2>4, <2>5, <2>6, <2>7
<1> QED BY <1>1, <1>2, SendStep

\* handleWrite: the socket takes n bytes of the buffer, and if they are the last,
\* the channel stops asking, the callback is queued, and a shutdown that waited is
\* carried out.
Took(c, n) ==
    /\ ~IsEmpty(out[c]) /\ ~wrShut[c]
    /\ Takes(c, Peek(out[c], n))
    /\ out' = [out EXCEPT ![c] = Retrieve(@, n)]
    /\ UNCHANGED <<accepted, overrun>>
    /\ IsEmpty(out'[c]) =>
         /\ events' = [events EXCEPT ![c] = @ \ {"out"}]
         /\ pending' = Append(pending, Functor("complete", c))
         /\ wrShut' \in {wrShut, [wrShut EXCEPT ![c] = TRUE]}
    /\ ~IsEmpty(out'[c]) => UNCHANGED <<events, pending, wrShut>>

\* handleWrite does nothing of the kind if nothing is asked for, or the write fails.
LEMMA WriteStep ==
    ASSUME NEW c \in Conns, HandleWrite(c)
    PROVE  \/ UNCHANGED <<outVars, events, pending, wrShut>>
           \/ \E n \in 1 .. Contiguous(out[c]) : Took(c, n)
<1>1. CASE UNCHANGED <<outVars, events, pending, wrShut>>
  BY <1>1
<1>2. CASE ~UNCHANGED <<outVars, events, pending, wrShut>>
  <2>1. /\ UNCHANGED <<accepted, overrun>>
        /\ ~IsEmpty(out[c]) /\ ~wrShut[c]
    BY <1>2 DEF HandleWrite, WriteFails
  <2>2. PICK n \in 1 .. Contiguous(out[c]) :
          /\ Takes(c, Peek(out[c], n))
          /\ out' = [out EXCEPT ![c] = Retrieve(@, n)]
          /\ \/ IsEmpty(out'[c]) /\ Drained(c)
             \/ ~IsEmpty(out'[c]) /\ UNCHANGED <<events, pending, wrShut, aborted>>
    BY <1>2 DEF HandleWrite
  <2>3. /\ IsEmpty(out'[c]) =>
             /\ events' = [events EXCEPT ![c] = @ \ {"out"}]
             /\ pending' = Append(pending, Functor("complete", c))
             /\ wrShut' \in {wrShut, [wrShut EXCEPT ![c] = TRUE]}
        /\ ~IsEmpty(out'[c]) => UNCHANGED <<events, pending, wrShut>>
    BY <2>2 DEF Drained, ShutDownInLoop
  <2> QED BY <2>1, <2>2, <2>3 DEF Took
<1> QED BY <1>1, <1>2

\* Both change one connection.
LEMMA SendOnlyOne ==
    ASSUME TypeOK, NEW c \in Conns, SendInLoop(c)
    PROVE  \A d \in Conns \ {c} :
             /\ out'[d] = out[d] /\ events'[d] = events[d]
             /\ wire'[d] = wire[d] /\ accepted'[d] = accepted[d]
             /\ d \in overrun' <=> d \in overrun
<1>1. CASE UNCHANGED <<outVars, events, pending>>
  BY <1>1 DEF outVars
<1>2. ASSUME NEW len \in Lengths, NEW n \in 0 .. len, Gave(c, len, n),
             NEW d \in Conns \ {c}
      PROVE  /\ out'[d] = out[d] /\ events'[d] = events[d]
             /\ wire'[d] = wire[d] /\ accepted'[d] = accepted[d]
             /\ d \in overrun' <=> d \in overrun
  BY <1>2 DEF Gave, Takes, TypeOK, ConnTypeOK
<1> QED BY <1>1, <1>2, SendStep

LEMMA WriteOnlyOne ==
    ASSUME TypeOK, NEW c \in Conns, HandleWrite(c)
    PROVE  /\ \A d \in Conns \ {c} :
                /\ out'[d] = out[d] /\ events'[d] = events[d]
                /\ wire'[d] = wire[d] /\ wrShut'[d] = wrShut[d]
           /\ UNCHANGED <<accepted, overrun>>
<1>1. CASE UNCHANGED <<outVars, events, pending, wrShut>>
  BY <1>1 DEF outVars
<1>2. ASSUME NEW n \in 1 .. Contiguous(out[c]), Took(c, n)
      PROVE  /\ \A d \in Conns \ {c} :
                  /\ out'[d] = out[d] /\ events'[d] = events[d]
                  /\ wire'[d] = wire[d] /\ wrShut'[d] = wrShut[d]
             /\ UNCHANGED <<accepted, overrun>>
  BY <1>2 DEF Took, Takes, TypeOK, ConnTypeOK
<1> QED BY <1>1, <1>2, WriteStep

\* The steps of poll(2) and of handleEvent keep the types.
LEMMA TypeEvents ==
    ASSUME TypeOK,
           \/ Poll \/ AcceptFails \/ CallbackReturns
           \/ \E c \in Conns :
                \/ AcceptConn(c) \/ Close(c) \/ HandleError(c)
                \/ ReadMessage(c) \/ ReadEnd(c) \/ HandleWrite(c)
    PROVE  TypeOK'
<1> USE DEF TypeOK, LoopTypeOK, QueueTypeOK, UserTypeOK, ConnTypeOK, loopVars,
            queueVars, serverVars, chanVars, sockVars, outVars, connVars,
            appVars, Turn
<1>1. CASE Poll
  BY <1>1 DEF Poll
<1>2. CASE AcceptFails
  BY <1>2 DEF AcceptFails
<1>3. CASE CallbackReturns
  <2>1. self' \in {self, NoConn} /\ callback' = "none"
        /\ UNCHANGED <<queueVars, stage, accepting, todo, serverVars, appVars>>
    BY <1>3 DEF CallbackReturns
  <2>3. LoopTypeOK' /\ QueueTypeOK' /\ UserTypeOK'
    <3>1. callback' \in Callbacks
      BY <2>1 DEF Callbacks
    <3>2. self' \in Conns \cup {NoConn}
      BY <2>1
    <3> QED BY <2>1, <3>1, <3>2
  <2>2. /\ chan' \in [Conns -> {"new", "watched", "quiet", "removed"}]
        /\ aborted' \subseteq Conns
    <3>1. self \in Conns
      BY <1>3 DEF CallbackReturns
    <3>2. \/ UNCHANGED <<chan, aborted>>
          \/ chan' = [chan EXCEPT ![self] = "removed"] /\ UNCHANGED aborted
          \/ UNCHANGED chan /\ aborted' = {self}
      BY <1>3 DEF CallbackReturns
    <3> QED BY <3>1, <3>2
  <2> QED BY <1>3, <2>2, <2>3 DEF CallbackReturns
<1>4. ASSUME NEW c \in Conns, AcceptConn(c)
      PROVE  TypeOK'
  BY <1>4, ConnAssumption DEF AcceptConn, Callbacks, States
<1>5. ASSUME NEW c \in Conns, HandleClose(c)
      PROVE  /\ connMap' \subseteq Conns
             /\ pending' \in Seq(Functors)
             /\ chan' \in [Conns -> {"new", "watched", "quiet", "removed"}]
             /\ events' \in [Conns -> SUBSET {"in", "out"}]
             /\ aborted' \subseteq Conns
  <2>1. pending' \in Seq(Functors)
    <3>1. UNCHANGED pending \/ pending' = Append(pending, Functor("destroy", c))
      BY <1>5 DEF HandleClose
    <3>2. Append(pending, Functor("destroy", c)) \in Seq(Functors)
      BY QueueType
    <3> QED BY <3>1, <3>2
  <2>2. events' \in [Conns -> SUBSET {"in", "out"}]
    BY <1>5, AskTypes DEF HandleClose, DisableAll
  <2>3. connMap' \subseteq Conns /\ aborted' \subseteq Conns
    BY <1>5 DEF HandleClose
  <2>4. chan' \in [Conns -> {"new", "watched", "quiet", "removed"}]
    BY <1>5 DEF HandleClose, DisableAll
  <2> QED BY <2>1, <2>2, <2>3, <2>4
<1>6. ASSUME NEW c \in Conns, NEW t \in Tests, Handled(c, t),
             stage = "events", callback = "none"
      PROVE  LoopTypeOK'
  BY <1>6 DEF Handled
<1>7. ASSUME NEW c \in Conns, Close(c)
      PROVE  TypeOK'
  BY <1>5, <1>6, <1>7 DEF Close, Tests
<1>8. ASSUME NEW c \in Conns, HandleError(c)
      PROVE  TypeOK'
  BY <1>8 DEF HandleError
<1>9. ASSUME NEW c \in Conns, ReadMessage(c)
      PROVE  TypeOK'
  BY <1>9, ConnAssumption DEF ReadMessage, Callbacks
<1>10. ASSUME NEW c \in Conns, ReadEnd(c)
       PROVE  TypeOK'
  BY <1>5, <1>6, <1>10 DEF ReadEnd, Tests
<1>11. ASSUME NEW c \in Conns, HandleWrite(c)
       PROVE  TypeOK'
  <2>1. LoopTypeOK'
    BY <1>6, <1>11 DEF HandleWrite, Tests
  <2>2. ASSUME NEW n \in 1 .. Contiguous(out[c]), Took(c, n)
        PROVE  /\ DOMAIN out' = Conns /\ \A d \in Conns : IsRing(out'[d], Nat)
               /\ wire' \in [Conns -> Seq(Nat)]
    <3> DEFINE b == Retrieve(out[c], n)
    <3>1. IsRing(out[c], Nat) /\ 0 \in Nat /\ n \in Nat
          /\ n \in 0 .. BufferSize(out[c])
      <4>1. Contiguous(out[c]) \in 0 .. BufferSize(out[c])
            /\ BufferSize(out[c]) \in Nat
        BY PeekTypes, SizeFacts
      <4> QED BY <4>1
    <3>2. Peek(out[c], n) \in Seq(Nat)
      BY <3>1, PeekTypes
    <3>3. IsRing(b, Nat) /\ out' = [out EXCEPT ![c] = b]
      BY <2>2, <3>1, RetrieveTypes DEF Took
    <3> HIDE DEF b
    <3>4. DOMAIN out' = Conns /\ \A d \in Conns : IsRing(out'[d], Nat)
      BY <3>3, OutTypes
    <3>5. wire' \in [Conns -> Seq(Nat)]
      BY <2>2, <3>2, TakesTypes DEF Took
    <3> QED BY <3>4, <3>5
  <2>3. ASSUME Drained(c)
        PROVE  /\ events' \in [Conns -> SUBSET {"in", "out"}]
               /\ pending' \in Seq(Functors)
               /\ wrShut' \in [Conns -> BOOLEAN]
               /\ aborted' \subseteq Conns
    <3>1. events' \in [Conns -> SUBSET {"in", "out"}]
      BY <2>3, AskTypes DEF Drained
    <3>2. pending' \in Seq(Functors)
      BY <2>3, QueueType DEF Drained
    <3>3. CASE UNCHANGED <<wrShut, aborted>>
      BY <3>1, <3>2, <3>3
    <3>4. CASE ShutDownInLoop(c, events'[c])
      BY <3>1, <3>2, <3>4 DEF ShutDownInLoop
    <3> QED BY <2>3, <3>3, <3>4 DEF Drained
  <2>4. /\ DOMAIN out' = Conns /\ \A d \in Conns : IsRing(out'[d], Nat)
        /\ wire' \in [Conns -> Seq(Nat)]
        /\ UNCHANGED <<accepted, overrun>>
    <3>1. UNCHANGED outVars \/ \E n \in 1 .. Contiguous(out[c]) : Took(c, n)
      BY <1>11, WriteStep
    <3>2. ASSUME NEW n \in 1 .. Contiguous(out[c]), Took(c, n)
          PROVE  UNCHANGED <<accepted, overrun>>
      BY <3>2 DEF Took
    <3> QED BY <2>2, <3>1, <3>2
  <2>5. /\ events' \in [Conns -> SUBSET {"in", "out"}]
        /\ pending' \in Seq(Functors)
        /\ wrShut' \in [Conns -> BOOLEAN]
        /\ aborted' \subseteq Conns
    <3>1. CASE UNCHANGED <<events, pending, wrShut, aborted>>
      BY <3>1
    <3>2. CASE UNCHANGED <<events, pending, wrShut>> /\ aborted' = {c}
      BY <3>2
    <3> QED BY <1>11, <2>3, <3>1, <3>2 DEF HandleWrite
  <2> QED BY <1>11, <2>1, <2>4, <2>5 DEF HandleWrite
<1> QED
  BY <1>1, <1>2, <1>3, <1>4, <1>7, <1>8, <1>9, <1>10, <1>11

\* So do those of doPendingFunctors.
LEMMA TypeFunctors ==
    ASSUME TypeOK,
           \/ SwapFunctors \/ RunListen \/ FunctorsDone
           \/ \E c \in Conns :
                \/ ConnectDestroyed(c) \/ WriteComplete(c)
                \/ RunSend(c) \/ RunShutdown(c)
    PROVE  TypeOK'
<1> USE DEF TypeOK, LoopTypeOK, QueueTypeOK, UserTypeOK, ConnTypeOK, loopVars,
            queueVars, serverVars, chanVars, sockVars, outVars, connVars,
            appVars
<1>1. CASE SwapFunctors
  BY <1>1, EmptySeq, HoldsType DEF SwapFunctors
<1>2. ASSUME NEW op, NEW c, Runs(op, c)
      PROVE  batch' \in Seq(Functors) /\ batchHolds' \subseteq Conns
  BY <1>2, HeadTailProperties DEF Runs
<1>3. CASE RunListen
  BY <1>2, <1>3 DEF RunListen
<1>4. CASE FunctorsDone
  BY <1>4 DEF FunctorsDone
<1>5. ASSUME NEW c \in Conns, ConnectDestroyed(c)
      PROVE  TypeOK'
  <2>1. events' \in [Conns -> SUBSET {"in", "out"}]
    BY <1>5, AskTypes DEF ConnectDestroyed, DisableAll
  <2>2. batch' \in Seq(Functors) /\ batchHolds' \subseteq Conns
    BY <1>2, <1>5 DEF ConnectDestroyed
  <2>3. LoopTypeOK'
    <3>1. /\ UNCHANGED <<stage, accepting, todo>>
          /\ \/ callback' = "down" /\ self' = c
             \/ UNCHANGED <<callback, self>>
      BY <1>5 DEF ConnectDestroyed
    <3>2. c # NoConn /\ "down" \in Callbacks
      BY ConnAssumption DEF Callbacks
    <3>3. LoopTypeOK
      OBVIOUS
    <3> HIDE DEF TypeOK, QueueTypeOK, UserTypeOK, ConnTypeOK
    <3> QED BY <3>1, <3>2, <3>3
  <2>4. state' \in [Conns -> States]
    <3>1. \/ state' = [state EXCEPT ![c] = "kDisconnected"]
          \/ UNCHANGED state
      BY <1>5 DEF ConnectDestroyed
    <3>2. state \in [Conns -> States] /\ "kDisconnected" \in States
      BY DEF States
    <3> HIDE DEF TypeOK, LoopTypeOK, QueueTypeOK, UserTypeOK, ConnTypeOK
    <3> QED BY <3>1, <3>2
  <2>5. /\ chan' \in [Conns -> {"new", "watched", "quiet", "removed"}]
        /\ aborted' \subseteq Conns
    <3>1. /\ \/ chan' = [chan EXCEPT ![c] = "quiet"]
             \/ UNCHANGED chan
          /\ UNCHANGED aborted \/ aborted' = {c}
      <4> HIDE DEF TypeOK, LoopTypeOK, QueueTypeOK, UserTypeOK, ConnTypeOK
      <4> QED BY <1>5 DEF ConnectDestroyed, DisableAll
    <3>2. /\ chan \in [Conns -> {"new", "watched", "quiet", "removed"}]
          /\ aborted \subseteq Conns
      OBVIOUS
    <3> HIDE DEF TypeOK, LoopTypeOK, QueueTypeOK, UserTypeOK, ConnTypeOK
    <3> QED BY <3>1, <3>2
  <2>6. /\ UNCHANGED <<pending, serverVars, sockVars, wrShut, outVars>>
        /\ UNCHANGED appVars
    BY <1>5 DEF ConnectDestroyed
  <2>7. QueueTypeOK' /\ UserTypeOK'
    BY <2>2, <2>6
  <2>8. ConnTypeOK'
    BY <2>1, <2>4, <2>5, <2>6
  <2> QED BY <2>3, <2>7, <2>8
<1>6. ASSUME NEW c \in Conns, WriteComplete(c)
      PROVE  TypeOK'
  BY <1>2, <1>6, ConnAssumption DEF WriteComplete, Callbacks
<1>7. ASSUME NEW c \in Conns, RunSend(c)
      PROVE  TypeOK'
  BY <1>2, <1>7, SendTypes DEF RunSend
<1>8. ASSUME NEW c \in Conns, RunShutdown(c)
      PROVE  TypeOK'
  <2>1. batch' \in Seq(Functors) /\ batchHolds' \subseteq Conns
    BY <1>2, <1>8 DEF RunShutdown
  <2>2. wrShut' \in [Conns -> BOOLEAN] /\ aborted' \subseteq Conns
    <3>1. /\ UNCHANGED wrShut \/ wrShut' = [wrShut EXCEPT ![c] = TRUE]
          /\ UNCHANGED aborted \/ aborted' = {c}
      <4> HIDE DEF TypeOK, LoopTypeOK, QueueTypeOK, UserTypeOK, ConnTypeOK
      <4> QED BY <1>8 DEF RunShutdown, ShutDownInLoop
    <3>2. wrShut \in [Conns -> BOOLEAN] /\ aborted \subseteq Conns
      OBVIOUS
    <3> HIDE DEF TypeOK, LoopTypeOK, QueueTypeOK, UserTypeOK, ConnTypeOK
    <3> QED BY <3>1, <3>2
  <2>3. /\ UNCHANGED <<loopVars, pending, serverVars, state, chanVars>>
        /\ UNCHANGED <<sockVars, outVars, appVars>>
    BY <1>8 DEF RunShutdown
  <2>4. LoopTypeOK' /\ QueueTypeOK' /\ UserTypeOK'
    BY <2>1, <2>3
  <2>5. ConnTypeOK'
    BY <2>2, <2>3
  <2> QED BY <2>4, <2>5
<1> QED
  BY <1>1, <1>3, <1>4, <1>5, <1>6, <1>7, <1>8

\* So do user code in the loop's thread, the other threads and the peers.
LEMMA TypeOthers ==
    ASSUME TypeOK,
           \/ UserStep \/ PeerStep
           \/ \E k \in Clients : ClientStep(k)
           \/ \E c \in Conns : Drop(c)
    PROVE  TypeOK'
<1> USE DEF TypeOK, LoopTypeOK, QueueTypeOK, UserTypeOK, ConnTypeOK, loopVars,
            queueVars, serverVars, chanVars, sockVars, outVars, connVars,
            appVars
<1>1. CASE Start
  BY <1>1 DEF Start
<1>2. ASSUME NEW c \in Conns, Keep(c)
      PROVE  TypeOK'
  BY <1>2 DEF Keep
<1>3. ASSUME NEW c \in Conns, Send(c)
      PROVE  TypeOK'
  BY <1>3, SendTypes DEF Send
<1>4. ASSUME NEW c \in Conns, Shutdown(c)
      PROVE  TypeOK'
  BY <1>4 DEF Shutdown, ShutDownInLoop, States
<1>5. ASSUME NEW c \in Conns, Drop(c)
      PROVE  TypeOK'
  BY <1>5 DEF Drop
<1>6. ASSUME NEW c \in Conns, PeerSends(c)
      PROVE  TypeOK'
  BY <1>6 DEF PeerSends
<1>7. ASSUME NEW c \in Conns, NEW how \in {"closed", "reset"}, PeerLeaves(c, how)
      PROVE  TypeOK'
  BY <1>7 DEF PeerLeaves
<1>8. ASSUME NEW k \in Clients, ClientStarts(k)
      PROVE  TypeOK'
  <2>1. Functor("listen", NoConn) \in ClientPcs
    BY DEF Functor, ClientPcs
  <2> QED BY <1>8, <2>1 DEF ClientStarts
<1>9. ASSUME NEW c \in Conns, NEW op \in {"send", "shutdown", "queue"}
      PROVE  Functor(op, c) \in ClientPcs
  BY DEF Functor, ClientPcs
<1>10. Idle \in ClientPcs
  BY DEF Idle, ClientPcs
<1>11. ASSUME NEW k \in Clients, NEW op \in {"send", "shutdown"},
              NEW c \in Conns, ClientTests(k, op, c)
       PROVE  TypeOK'
  BY <1>9, <1>11 DEF ClientTests
<1>12. ASSUME NEW k \in Clients, NEW c \in Conns, ClientSetsState(k, c)
       PROVE  TypeOK'
  BY <1>9, <1>12 DEF ClientSetsState, States
<1>13. ASSUME NEW k \in Clients, NEW c \in Conns, ClientQueues(k, c)
       PROVE  TypeOK'
  <2>1. pending' \in Seq(Functors)
    <3>1. \E op \in {"send", "shutdown"} :
            pending' = Append(pending, Functor(op, c))
      BY <1>13 DEF ClientQueues
    <3>2. PICK f \in Functors : pending' = Append(pending, f)
      BY <3>1, FunctorType
    <3> QED BY <3>2, AppendProperties
  <2>2. clientPc' \in [Clients -> ClientPcs]
    BY <1>10, <1>13 DEF ClientQueues
  <2> QED
    BY <1>13, <2>1, <2>2 DEF ClientQueues
<1>14. ASSUME NEW k \in Clients, ClientListens(k)
       PROVE  TypeOK'
  BY <1>10, <1>14, QueueType DEF ClientListens
<1> HIDE DEF TypeOK, LoopTypeOK, QueueTypeOK, UserTypeOK, ConnTypeOK, loopVars,
             queueVars, serverVars, chanVars, sockVars, outVars, connVars,
             appVars
<1> QED
  BY <1>1, <1>2, <1>3, <1>4, <1>5, <1>6, <1>7, <1>8, <1>11, <1>12, <1>13, <1>14
     DEF UserStep, PeerStep, ClientStep

\* Every step keeps the types.
LEMMA TypeStep == TypeOK /\ [Next]_vars => TypeOK'
<1>1. CASE Next
  BY <1>1, TypeEvents, TypeFunctors, TypeOthers DEF Next, LoopStep
<1>2. CASE UNCHANGED vars
  BY <1>2 DEF TypeOK, LoopTypeOK, QueueTypeOK, UserTypeOK, ConnTypeOK, vars,
              loopVars, queueVars, serverVars, chanVars, sockVars, outVars,
              connVars, appVars
<1> QED BY <1>1, <1>2

\* The variables of the server and of its connections keep their types.
THEOREM TypeCorrect == Spec => []TypeOK
BY TypeInit, TypeStep, PTL DEF Spec

-----------------------------------------------------------------------------
(* The queue.                                                              *)

\* f is at most once in the sequence.
OnceIn(s, f) == \A i, j \in DOMAIN s : s[i] = f /\ s[j] = f => i = j

\* What appending does to the range of a sequence, and to what occurs once.
LEMMA AppendFacts ==
    ASSUME NEW S, NEW s \in Seq(S), NEW e \in S
    PROVE  /\ Range(Append(s, e)) = Range(s) \cup {e}
           /\ \A f : OnceIn(s, f) /\ (f = e => f \notin Range(s))
                       => OnceIn(Append(s, e), f)
<1> DEFINE t == Append(s, e)
<1>1. /\ Len(s) \in Nat
      /\ t \in Seq(S)
      /\ Len(t) = Len(s) + 1
      /\ \A i \in 1 .. Len(s) : t[i] = s[i]
      /\ t[Len(s) + 1] = e
  BY AppendProperties, LenProperties
<1>2. DOMAIN s = 1 .. Len(s) /\ DOMAIN t = 1 .. Len(s) + 1
  BY <1>1, LenProperties
<1> HIDE DEF t
<1>3. Range(t) = Range(s) \cup {e}
  BY <1>1, <1>2 DEF Range
<1>4. ASSUME NEW f, OnceIn(s, f), f = e => f \notin Range(s)
      PROVE  OnceIn(t, f)
  BY <1>1, <1>2, <1>4 DEF OnceIn, Range
<1> QED BY <1>3, <1>4 DEF t

\* What taking the head off does to them.
LEMMA TailFacts ==
    ASSUME NEW S, NEW s \in Seq(S), s # <<>>
    PROVE  /\ Range(s) = {Head(s)} \cup Range(Tail(s))
           /\ \A f : OnceIn(s, f) => OnceIn(Tail(s), f)
           /\ OnceIn(s, Head(s)) => Head(s) \notin Range(Tail(s))
<1> DEFINE t == Tail(s)
<1>1. /\ Len(s) \in Nat \ {0}
      /\ t \in Seq(S)
      /\ Len(t) = Len(s) - 1
      /\ \A i \in 1 .. Len(t) : t[i] = s[i + 1]
      /\ Head(s) = s[1]
  BY HeadTailProperties, LenProperties, EmptySeq
<1>2. DOMAIN s = 1 .. Len(s) /\ DOMAIN t = 1 .. Len(s) - 1
  BY <1>1, LenProperties
<1> HIDE DEF t
<1>3. ASSUME NEW i \in 1 .. Len(s), i # 1
      PROVE  i - 1 \in DOMAIN t /\ t[i - 1] = s[i]
  <2>1. i - 1 \in 1 .. Len(t) /\ (i - 1) + 1 = i
    BY <1>1, <1>3
  <2> QED BY <1>1, <1>2, <2>1
<1>4. ASSUME NEW i \in DOMAIN t
      PROVE  i + 1 \in DOMAIN s /\ i + 1 # 1 /\ t[i] = s[i + 1]
  BY <1>1, <1>2
<1>5. Range(s) = {Head(s)} \cup Range(t)
  <2>1. ASSUME NEW i \in DOMAIN s
        PROVE  s[i] \in {Head(s)} \cup Range(t)
    BY <1>1, <1>2, <1>3 DEF Range
  <2>2. ASSUME NEW i \in DOMAIN t
        PROVE  t[i] \in Range(s)
    BY <1>4 DEF Range
  <2>3. Head(s) \in Range(s)
    BY <1>1, <1>2 DEF Range
  <2> QED BY <2>1, <2>2, <2>3 DEF Range
<1>6. ASSUME NEW f, OnceIn(s, f)
      PROVE  OnceIn(t, f) /\ (f = Head(s) => f \notin Range(t))
  <2>1. ASSUME NEW i \in DOMAIN t, NEW k \in DOMAIN t, t[i] = f, t[k] = f
        PROVE  i = k
    <3>1. i + 1 = k + 1
      BY <1>4, <1>6, <2>1 DEF OnceIn
    <3> QED BY <1>2, <3>1
  <2>2. ASSUME f = Head(s), NEW i \in DOMAIN t, t[i] = f
        PROVE  FALSE
    <3>1. 1 \in DOMAIN s /\ s[1] = f
      BY <1>1, <1>2, <2>2
    <3> QED BY <1>4, <1>6, <2>2, <3>1 DEF OnceIn
  <2> QED BY <2>1, <2>2 DEF OnceIn, Range
<1> QED BY <1>5, <1>6 DEF t

\* The first of two sequences gives the head of their concatenation.
LEMMA HeadTailOfConcat ==
    ASSUME NEW S, NEW s \in Seq(S), NEW t \in Seq(S), s # <<>>
    PROVE  /\ s \o t # <<>> /\ Head(s \o t) = Head(s)
           /\ Tail(s \o t) = Tail(s) \o t
<1> DEFINE st == s \o t
           u == Tail(s) \o t
<1>1. /\ Len(s) \in Nat \ {0} /\ Len(t) \in Nat
      /\ Tail(s) \in Seq(S) /\ Len(Tail(s)) = Len(s) - 1
      /\ \A i \in 1 .. Len(s) - 1 : Tail(s)[i] = s[i + 1]
  BY HeadTailProperties, LenProperties, EmptySeq
<1>2. /\ st \in Seq(S) /\ Len(st) = Len(s) + Len(t)
      /\ \A i \in 1 .. Len(s) + Len(t) :
           st[i] = IF i <= Len(s) THEN s[i] ELSE t[i - Len(s)]
  BY ConcatProperties
<1>3. /\ u \in Seq(S) /\ Len(u) = Len(s) - 1 + Len(t)
      /\ \A i \in 1 .. Len(s) - 1 + Len(t) :
           u[i] = IF i <= Len(s) - 1 THEN Tail(s)[i] ELSE t[i - (Len(s) - 1)]
  BY <1>1, ConcatProperties
<1> HIDE DEF st, u
<1>4. st # <<>>
  BY <1>1, <1>2, EmptySeq
<1>5. /\ Tail(st) \in Seq(S) /\ Len(Tail(st)) = Len(s) - 1 + Len(t)
      /\ \A i \in 1 .. Len(s) - 1 + Len(t) : Tail(st)[i] = st[i + 1]
  BY <1>1, <1>2, <1>4, HeadTailProperties
<1>6. ASSUME NEW i \in 1 .. Len(s) - 1 + Len(t)
      PROVE  Tail(st)[i] = u[i]
  <2>1. /\ i + 1 \in 1 .. Len(s) + Len(t)
        /\ i + 1 <= Len(s) <=> i <= Len(s) - 1
        /\ i <= Len(s) - 1 => i \in 1 .. Len(s) - 1
        /\ (i + 1) - Len(s) = i - (Len(s) - 1)
    BY <1>1
  <2>2. Tail(st)[i] = IF i + 1 <= Len(s) THEN s[i + 1] ELSE t[(i + 1) - Len(s)]
    BY <1>2, <1>5, <2>1
  <2> QED BY <1>1, <1>3, <2>1, <2>2
<1>7. Tail(st) = u
  BY <1>3, <1>5, <1>6, SeqEqual
<1>8. Head(st) = Head(s)
  BY <1>1, <1>2
<1> QED BY <1>4, <1>7, <1>8 DEF st, u

\* What queueing a functor, running one, and the swap do to the queue.
LEMMA QueueOps ==
    ASSUME QueueTypeOK
    PROVE  /\ Queue \in Seq(Functors)
           /\ \A f \in Functors : batch \o Append(pending, f) = Append(Queue, f)
           /\ batch # <<>> =>
                /\ Queue # <<>> /\ Head(Queue) = Head(batch)
                /\ Tail(batch) \o pending = Tail(Queue)
                /\ \A f \in Functors :
                     Tail(batch) \o Append(pending, f) = Append(Tail(Queue), f)
           /\ batch = <<>> => Queue = pending /\ pending \o <<>> = Queue
<1> USE DEF QueueTypeOK, Queue
<1>1. Queue \in Seq(Functors)
  BY ConcatProperties
<1>2. ASSUME NEW f \in Functors, NEW q \in Seq(Functors)
      PROVE  q \o Append(pending, f) = Append(q \o pending, f)
  <2>1. q \o pending \in Seq(Functors) /\ <<f>> \in Seq(Functors)
    BY ConcatProperties
  <2>2. Append(pending, f) = pending \o <<f>>
        /\ Append(q \o pending, f) = (q \o pending) \o <<f>>
    BY <2>1, AppendIsConcat
  <2> QED BY <2>1, <2>2, ConcatAssociative
<1>3. CASE batch # <<>>
  <2>1. Tail(batch) \in Seq(Functors)
    BY <1>3, HeadTailProperties
  <2>2. /\ Queue # <<>> /\ Head(Queue) = Head(batch)
        /\ Tail(Queue) = Tail(batch) \o pending
    BY <1>3, HeadTailOfConcat
  <2> QED BY <1>1, <1>2, <1>3, <2>1, <2>2
<1>4. CASE batch = <<>>
  BY <1>1, <1>2, <1>4, ConcatEmptySeq
<1> QED BY <1>3, <1>4

\* The same, of what is in the queue.
LEMMA Pushed ==
    ASSUME QueueTypeOK, NEW f \in Functors,
           pending' = Append(pending, f), UNCHANGED batch
    PROVE  /\ Range(Queue') = Range(Queue) \cup {f}
           /\ \A g : OnceIn(Queue, g) /\ (g = f => g \notin Range(Queue))
                       => OnceIn(Queue', g)
<1>1. Queue \in Seq(Functors) /\ Queue' = Append(Queue, f)
  BY QueueOps DEF Queue
<1> HIDE DEF Queue
<1> QED BY <1>1, AppendFacts

\* A functor is run; and one that pushes another is.
LEMMA Popped ==
    ASSUME QueueTypeOK, batch # <<>>, batch' = Tail(batch), UNCHANGED pending
    PROVE  /\ Range(Queue) = {Head(batch)} \cup Range(Queue')
           /\ \A g : OnceIn(Queue, g) => OnceIn(Queue', g)
           /\ OnceIn(Queue, Head(batch)) => Head(batch) \notin Range(Queue')
<1>1. /\ Queue \in Seq(Functors) /\ Queue # <<>>
      /\ Head(Queue) = Head(batch) /\ Queue' = Tail(Queue)
  BY QueueOps DEF Queue
<1> HIDE DEF Queue
<1> QED BY <1>1, TailFacts

LEMMA PoppedPushed ==
    ASSUME QueueTypeOK, NEW f \in Functors,
           batch # <<>>, batch' = Tail(batch), pending' = Append(pending, f)
    PROVE  /\ Range(Queue) \subseteq {Head(batch)} \cup Range(Queue')
           /\ Range(Queue') \subseteq Range(Queue) \cup {f}
           /\ f \in Range(Queue')
           /\ \A g : OnceIn(Queue, g) /\ g # f => OnceIn(Queue', g)
<1>1. /\ Queue \in Seq(Functors) /\ Queue # <<>> /\ Tail(Queue) \in Seq(Functors)
      /\ Head(Queue) = Head(batch) /\ Queue' = Append(Tail(Queue), f)
  BY QueueOps, HeadTailProperties DEF Queue
<1> HIDE DEF Queue
<1>2. /\ Range(Queue') = Range(Tail(Queue)) \cup {f}
      /\ \A g : OnceIn(Tail(Queue), g) /\ g # f => OnceIn(Queue', g)
  BY <1>1, AppendFacts
<1>3. /\ Range(Queue) = {Head(batch)} \cup Range(Tail(Queue))
      /\ \A g : OnceIn(Queue, g) => OnceIn(Tail(Queue), g)
  BY <1>1, TailFacts
<1> QED BY <1>2, <1>3

\* The swap leaves what is to be run, and its order, as it was.
LEMMA Swapped ==
    ASSUME QueueTypeOK, batch = <<>>, batch' = pending, pending' = <<>>
    PROVE  Queue' = Queue
BY QueueOps DEF Queue

-----------------------------------------------------------------------------
(* The life of a connection.                                               *)

\* connectDestroyed is in the user's callback.
Destroying(c) == callback = "down" /\ self = c

\* The connections there are, or were.
Known == {c \in Conns : chan[c] # "new"}

\* Where the loop's thread may be, and that a batch holds what it is to run.
LoopInv ==
    /\ accepting \/ stage = "poll" => callback = "none"
    /\ callback = "down" => stage = "functors"
    /\ stage # "functors" => batch = <<>>
    /\ Holds(batch) \subseteq batchHolds

\* Whatever is named was accepted.
NamedInv ==
    /\ held \subseteq Known
    /\ callback # "none" => self \in Known
    /\ \A k \in Clients : clientPc[k].conn \in Known \cup {NoConn}
    /\ \A f \in Range(Queue) : f.conn \in Known \cup {NoConn}

\* What _state and the channel say of each other.
StateInv ==
    \A c \in Conns :
        /\ state[c] = "kConnecting" <=> chan[c] = "new"
        /\ chan[c] \in {"watched", "quiet"} /\ ~Destroying(c) =>
             state[c] \in {"kConnected", "kDisconnecting"}
        /\ Destroying(c) =>
             chan[c] = "quiet" /\ state[c] # "kConnected" /\ events[c] = {}
        /\ chan[c] = "removed" => state[c] # "kConnected"
        /\ chan[c] = "new" => events[c] = {} /\ IsEmpty(out[c]) /\ ~wrShut[c]

\* What poll(2) reported stays true of the channel until it is handled.
ReportInv ==
    \A c \in Conns :
        /\ todo[c] # {} => chan[c] \in {"watched", "quiet"}
        /\ todo[c] \cap {"close", "read"} # {} => chan[c] = "watched"
        /\ ~({"close", "read"} \subseteq todo[c])
        /\ "error" \in todo[c] => peer[c] = "reset"

\* ClosedOnce, in the terms of the lemmas on the queue.
QueueInv ==
    \A c \in Conns :
        /\ c \in connMap <=> chan[c] = "watched"
        /\ Functor("destroy", c) \in Range(Queue)
             <=> chan[c] = "quiet" /\ ~Destroying(c)
        /\ OnceIn(Queue, Functor("destroy", c))

LifeInv == LoopInv /\ NamedInv /\ StateInv /\ ReportInv /\ QueueInv

\* Before the first connection, the invariant holds.
LEMMA LifeInit == Init => LifeInv
<1> SUFFICES ASSUME Init
             PROVE  LifeInv
  OBVIOUS
<1>1. Queue = <<>> /\ Range(<<>>) = {} /\ Holds(<<>>) = {}
  BY ConcatEmptySeq, EmptySeq DEF Init, ConnInit, Queue, Range, Holds
<1>2. \A f : OnceIn(<<>>, f)
  BY DEF OnceIn
<1>3. \A c \in Conns : IsEmpty(out[c])
  BY NewFacts DEF Init, ConnInit
<1> QED
  BY <1>1, <1>2, <1>3, ConnAssumption DEF Init, ConnInit, LifeInv, LoopInv, NamedInv,
     Idle, StateInv, ReportInv, QueueInv, Destroying, Known

\* The steps that leave the connections and the queue of functors as they are.
Quiet ==
    \/ Poll \/ AcceptFails \/ Start
    \/ \E c \in Conns :
         \/ HandleError(c) \/ Keep(c) \/ Drop(c) \/ PeerSends(c)
         \/ \E how \in {"closed", "reset"} : PeerLeaves(c, how)
         \/ \E k \in Clients, op \in {"send", "shutdown"} :
              ClientTests(k, op, c)

\* What those steps leave alone.
LEMMA QuietFrame ==
    ASSUME Quiet
    PROVE  /\ UNCHANGED <<self, callback, pending, batch, batchHolds, connMap,
                          state, chan, events, outVars, wrShut>>
           /\ \/ Poll
              \/ UNCHANGED <<stage, todo>> /\ accepting' \in {FALSE, accepting}
           /\ Queue' = Queue
<1> USE DEF loopVars, queueVars, serverVars, chanVars, sockVars, outVars,
            connVars, appVars, Queue
<1>1. CASE Poll
  BY <1>1 DEF Poll
<1>2. CASE AcceptFails \/ Start
  BY <1>2 DEF AcceptFails, Start
<1>3. ASSUME NEW c \in Conns, HandleError(c) \/ Keep(c) \/ Drop(c)
      PROVE  /\ UNCHANGED <<loopVars, queueVars, connMap, connVars>>
  BY <1>3 DEF HandleError, Keep, Drop
<1>4. ASSUME NEW c \in Conns,
             \/ PeerSends(c)
             \/ \E how \in {"closed", "reset"} : PeerLeaves(c, how)
      PROVE  UNCHANGED <<loopVars, queueVars, connMap, state, chan, events,
                         outVars, wrShut>>
  BY <1>4 DEF PeerSends, PeerLeaves
<1>5. ASSUME NEW c \in Conns, NEW k \in Clients,
             NEW op \in {"send", "shutdown"}, ClientTests(k, op, c)
      PROVE  UNCHANGED <<loopVars, queueVars, connMap, connVars>>
  BY <1>5 DEF ClientTests
<1> QED BY <1>1, <1>2, <1>3, <1>4, <1>5 DEF Quiet

\* Every step keeps LoopInv.
LEMMA LoopStepInv ==
    ASSUME TypeOK, LifeInv, Next
    PROVE  LoopInv'
<1> USE DEF LifeInv, LoopInv, loopVars, queueVars, Turn, Handled
<1>1. CASE Quiet
  <2>1. CASE Poll
    BY <2>1 DEF Poll
  <2>2. CASE ~Poll
    <3>1. Holds(batch)' = Holds(batch)
      BY <1>1, QuietFrame
    <3>2. UNCHANGED <<stage, callback, batch, batchHolds>>
          /\ accepting' \in {FALSE, accepting}
      BY <1>1, <2>2, QuietFrame
    <3>3. accepting' => accepting
      BY <3>2, Zenon DEF TypeOK, LoopTypeOK
    <3> QED BY <3>1, <3>2, <3>3
  <2> QED BY <2>1, <2>2
<1>2. CASE CallbackReturns
  BY <1>2 DEF CallbackReturns
<1>3. CASE SwapFunctors
  BY <1>3 DEF SwapFunctors
<1>4. ASSUME NEW op, NEW c, Runs(op, c)
      PROVE  Holds(batch') \subseteq batchHolds'
  <2>1. Range(Tail(batch)) \subseteq Range(batch)
    BY <1>4, TailFacts DEF Runs, TypeOK, QueueTypeOK
  <2> QED BY <1>4, <2>1 DEF Runs, Holds
<1>5. CASE RunListen
  BY <1>4, <1>5 DEF RunListen, Runs
<1>6. CASE FunctorsDone
  <2>1. Holds(<<>>) = {}
    BY DEF Holds, Range
  <2> QED BY <1>6, <2>1 DEF FunctorsDone
<1>7. ASSUME NEW c \in Conns,
             \/ AcceptConn(c) \/ Close(c) \/ ReadMessage(c) \/ ReadEnd(c)
             \/ HandleWrite(c)
      PROVE  LoopInv'
  BY <1>7 DEF AcceptConn, Close, ReadMessage, ReadEnd, HandleWrite, TypeOK,
              LoopTypeOK
<1>8. ASSUME NEW c \in Conns,
             \/ ConnectDestroyed(c) \/ WriteComplete(c)
             \/ RunSend(c) \/ RunShutdown(c)
      PROVE  LoopInv'
  BY <1>4, <1>8 DEF ConnectDestroyed, WriteComplete, RunSend, RunShutdown, Runs,
              TypeOK, LoopTypeOK
<1>9. ASSUME NEW c \in Conns, Send(c) \/ Shutdown(c)
      PROVE  LoopInv'
  BY <1>9 DEF Send, Shutdown
<1>10. ASSUME NEW k \in Clients,
              \/ ClientStarts(k) \/ ClientListens(k)
              \/ \E c \in Conns : ClientSetsState(k, c) \/ ClientQueues(k, c)
       PROVE  LoopInv'
  BY <1>10 DEF ClientStarts, ClientListens, ClientSetsState, ClientQueues
<1> QED
  BY <1>1, <1>2, <1>3, <1>5, <1>6, <1>7, <1>8, <1>9, <1>10
     DEF Next, LoopStep, UserStep, ClientStep, PeerStep, Quiet

\* No step makes a connection unknown again, or puts a functor of another
\* connection than a known one in the queue.
LEMMA KnownGrows ==
    ASSUME TypeOK, LifeInv, Next
    PROVE  Known \subseteq Known'
<1> USE DEF Known, loopVars, queueVars, chanVars, connVars, appVars, serverVars
<1>1. CASE Quiet
  BY <1>1, QuietFrame
<1>2. CASE UNCHANGED chan
  BY <1>2
<1>3. \/ UNCHANGED chan
      \/ \E c \in Conns : \E x \in {"watched", "quiet", "removed"} :
           chan' = [chan EXCEPT ![c] = x]
  <2>1. CASE CallbackReturns
    BY <2>1 DEF CallbackReturns, LifeInv, NamedInv
  <2>2. CASE SwapFunctors \/ RunListen \/ FunctorsDone
    BY <2>2 DEF SwapFunctors, RunListen, FunctorsDone
  <2>3. ASSUME NEW c \in Conns, AcceptConn(c)
        PROVE  chan' = [chan EXCEPT ![c] = "watched"]
    BY <2>3 DEF AcceptConn
  <2>4. ASSUME NEW c \in Conns, Close(c) \/ ReadEnd(c)
        PROVE  UNCHANGED chan \/ chan' = [chan EXCEPT ![c] = "quiet"]
    BY <2>4 DEF Close, ReadEnd, HandleClose, DisableAll
  <2>5. ASSUME NEW c \in Conns,
               \/ ReadMessage(c) \/ HandleWrite(c) \/ WriteComplete(c)
               \/ RunSend(c) \/ RunShutdown(c) \/ Send(c) \/ Shutdown(c)
        PROVE  UNCHANGED chan
    BY <2>5 DEF ReadMessage, HandleWrite, WriteComplete, RunSend, RunShutdown,
                Send, Shutdown
  <2>6. ASSUME NEW c \in Conns, ConnectDestroyed(c)
        PROVE  UNCHANGED chan \/ chan' = [chan EXCEPT ![c] = "quiet"]
    BY <2>6 DEF ConnectDestroyed, DisableAll
  <2>7. ASSUME NEW k \in Clients,
               \/ ClientStarts(k) \/ ClientListens(k)
               \/ \E c \in Conns : ClientSetsState(k, c) \/ ClientQueues(k, c)
        PROVE  UNCHANGED chan
    BY <2>7 DEF ClientStarts, ClientListens, ClientSetsState, ClientQueues
  <2> QED
    BY <1>1, <2>1, <2>2, <2>3, <2>4, <2>5, <2>6, <2>7, QuietFrame
       DEF Next, LoopStep, UserStep, ClientStep, PeerStep, Quiet
<1> QED
  BY <1>3 DEF TypeOK, ConnTypeOK

\* What the application and the clients name stays known.
LEMMA UserNames ==
    ASSUME TypeOK, LifeInv, Next
    PROVE  /\ held' \subseteq Known'
           /\ \A k \in Clients : clientPc'[k].conn \in Known' \cup {NoConn}
<1> USE DEF LifeInv, NamedInv, TypeOK, UserTypeOK, appVars
<1>1. CASE LoopStep
  <2>1. UNCHANGED appVars
    BY <1>1 DEF LoopStep, Poll, AcceptFails, CallbackReturns, SwapFunctors,
         RunListen, FunctorsDone, AcceptConn, Close, HandleError, ReadMessage,
         ReadEnd, HandleWrite, ConnectDestroyed, WriteComplete, RunSend,
         RunShutdown
  <2> QED BY <2>1, KnownGrows
<1>2. CASE Start \/ PeerStep \/ (\E c \in Conns : Send(c) \/ Shutdown(c))
  <2>1. UNCHANGED appVars
    BY <1>2 DEF Start, PeerStep, PeerSends, PeerLeaves, Send, Shutdown
  <2> QED BY <2>1, KnownGrows
<1>3. ASSUME NEW c \in Conns, Keep(c) \/ Drop(c)
      PROVE  UNCHANGED clientPc /\ held' \subseteq Known
  BY <1>3 DEF Keep, Drop
<1>4. ASSUME NEW k \in Clients, NEW c \in Conns,
             \/ \E op \in {"send", "shutdown"} : ClientTests(k, op, c)
             \/ ClientSetsState(k, c) \/ ClientQueues(k, c)
      PROVE  /\ UNCHANGED held
             /\ \E d \in Known \cup {NoConn} :
                  \E op : clientPc' = [clientPc EXCEPT ![k] = Functor(op, d)]
  <2>1. CASE \E op \in {"send", "shutdown"} : ClientTests(k, op, c)
    BY <2>1 DEF ClientTests
  <2>2. CASE ClientSetsState(k, c)
    <3>1. c \in Known \cup {NoConn}
      BY <2>2 DEF ClientSetsState, Functor
    <3> QED BY <2>2, <3>1 DEF ClientSetsState
  <2>3. CASE ClientQueues(k, c)
    BY <2>3 DEF ClientQueues, Functor, Idle
  <2> QED BY <1>4, <2>1, <2>2, <2>3
<1>5. \A op, d : Functor(op, d).conn = d
  BY DEF Functor
<1>6. ASSUME NEW k \in Clients, ClientStarts(k) \/ ClientListens(k)
      PROVE  /\ UNCHANGED held
             /\ \E op : clientPc' = [clientPc EXCEPT ![k] = Functor(op, NoConn)]
  BY <1>6 DEF ClientStarts, ClientListens, Functor, Idle
<1> HIDE DEF Functor
<1> QED
  BY <1>1, <1>2, <1>3, <1>4, <1>5, <1>6, KnownGrows
     DEF Next, UserStep, ClientStep

\* So does the connection whose callback runs.
LEMMA CallbackNames ==
    ASSUME TypeOK, LifeInv, Next
    PROVE  callback' # "none" => self' \in Known'
<1> USE DEF LifeInv, NamedInv, loopVars
<1>1. CASE UNCHANGED <<self, callback>>
  BY <1>1, KnownGrows
<1>2. CASE callback' = "none"
  BY <1>2
<1>3. CASE LoopStep
  <2>1. CASE Poll \/ AcceptFails \/ CallbackReturns \/ SwapFunctors
              \/ RunListen \/ FunctorsDone
    BY <1>1, <1>2, <2>1 DEF Poll, AcceptFails, CallbackReturns, SwapFunctors,
                            RunListen, FunctorsDone
  <2>2. ASSUME NEW c \in Conns, AcceptConn(c)
        PROVE  self' \in Known'
    BY <2>2 DEF AcceptConn, Known, TypeOK, ConnTypeOK
  <2>3. ASSUME NEW c \in Conns, Close(c) \/ ReadEnd(c) \/ HandleWrite(c)
        PROVE  callback' = "none"
    BY <2>3 DEF Close, ReadEnd, HandleWrite, Turn, Handled
  <2>4. ASSUME NEW c \in Conns,
               HandleError(c) \/ RunSend(c) \/ RunShutdown(c)
        PROVE  UNCHANGED <<self, callback>>
    BY <2>4 DEF HandleError, RunSend, RunShutdown
  <2>5. ASSUME NEW c \in Conns, ReadMessage(c)
        PROVE  self' \in Known
    BY <2>5 DEF ReadMessage, Turn, ReportInv, Known
  <2>6. ASSUME NEW c \in Conns, NEW op, Runs(op, c)
        PROVE  c \in Known
    <3>1. Functor(op, c) \in Range(Queue)
      BY <2>6, QueueOps, TailFacts DEF Runs, TypeOK
    <3> QED BY <3>1, ConnAssumption DEF Functor
  <2>7. ASSUME NEW c \in Conns, ConnectDestroyed(c) \/ WriteComplete(c)
        PROVE  self' \in Known \/ UNCHANGED <<self, callback>>
    BY <2>6, <2>7 DEF ConnectDestroyed, WriteComplete
  <2> QED
    BY <1>1, <1>2, <1>3, <2>1, <2>2, <2>3, <2>4, <2>5, <2>7, KnownGrows
       DEF LoopStep
<1>4. CASE UserStep \/ PeerStep \/ (\E c \in Conns : Drop(c))
           \/ (\E k \in Clients : ClientStep(k))
  BY <1>1, <1>4 DEF UserStep, PeerStep, ClientStep, Start, Keep, Send,
     Shutdown, Drop, PeerSends, PeerLeaves, ClientStarts, ClientListens, ClientTests,
     ClientSetsState, ClientQueues
<1> QED BY <1>3, <1>4 DEF Next

\* What a step puts in the queue, and what it takes out.
\* What a step puts in the queue is known, and a client's if it is a call; only
\* handleClose puts a connectDestroyed there, and only its turn takes it out.
Fresh(f) ==
    /\ f \in Functors
    /\ f.conn \in Known \cup {NoConn}
    /\ \/ f.op \in {"complete", "listen"}
       \/ /\ f.op \in {"send", "shutdown"}
          /\ \E k \in Clients : clientPc[k].conn = f.conn

SameDestroys ==
    \A c \in Conns :
        /\ Functor("destroy", c) \in Range(Queue')
             <=> Functor("destroy", c) \in Range(Queue)
        /\ OnceIn(Queue, Functor("destroy", c)) => OnceIn(Queue', Functor("destroy", c))

\* What a step may do to the queue.
LEMMA QueueStep ==
    ASSUME TypeOK, LifeInv, Next,
           ~ \E c \in Conns : Close(c) \/ ReadEnd(c) \/ ConnectDestroyed(c)
    PROVE  /\ \A f \in Range(Queue') : f \in Range(Queue) \/ Fresh(f)
           /\ SameDestroys
<1> DEFINE Goal == /\ \A f \in Range(Queue') : f \in Range(Queue) \/ Fresh(f)
                   /\ SameDestroys
<1> SUFFICES Goal
  OBVIOUS
<1> USE DEF TypeOK
<1>1. CASE Queue' = Queue
  BY <1>1 DEF SameDestroys
<1>2. ASSUME NEW f, Fresh(f), pending' = Append(pending, f), UNCHANGED batch
      PROVE  Goal
  <2>1. f \in Functors /\ f.op # "destroy"
    BY <1>2 DEF Fresh
  <2>2. \A c \in Conns : Functor("destroy", c) # f
    <3>1. \A c : Functor("destroy", c).op = "destroy"
      BY DEF Functor
    <3> QED BY <2>1, <3>1
  <2>3. /\ Range(Queue') = Range(Queue) \cup {f}
        /\ \A g : OnceIn(Queue, g) /\ (g = f => g \notin Range(Queue))
                       => OnceIn(Queue', g)
    BY <1>2, <2>1, Pushed
  <2> QED BY <1>2, <2>2, <2>3 DEF SameDestroys
<1>3. ASSUME NEW c, NEW op, Runs(op, c), op # "destroy", UNCHANGED pending
      PROVE  Goal
  <2>1. \A d \in Conns : Functor("destroy", d) # Head(batch)
    BY <1>3 DEF Runs, Functor
  <2>2. batch # <<>> /\ batch' = Tail(batch)
    BY <1>3 DEF Runs
  <2> QED BY <1>3, <2>1, <2>2, Popped DEF SameDestroys
<1>4. ASSUME NEW c \in Conns, SendInLoop(c)
      PROVE  pending' \in {pending, Append(pending, Functor("complete", c))}
  BY <1>4, SendStep DEF Gave
<1>5. ASSUME NEW c \in Known
      PROVE  Fresh(Functor("complete", c))
  BY <1>5, FunctorType DEF Fresh, Functor, Known
<1>6. CASE \/ Quiet \/ CallbackReturns \/ FunctorsDone
           \/ \E c \in Conns :
                \/ AcceptConn(c) \/ ReadMessage(c) \/ Shutdown(c)
                \/ \E k \in Clients : ClientSetsState(k, c)
  <2>1. UNCHANGED <<batch, pending>>
    BY <1>6, QuietFrame DEF CallbackReturns, FunctorsDone, AcceptConn,
         ReadMessage, Shutdown, ClientSetsState, queueVars
  <2> QED BY <1>1, <2>1 DEF Queue
<1>7. CASE SwapFunctors
  BY <1>1, <1>7, Swapped DEF SwapFunctors, LifeInv, LoopInv
<1>8. CASE RunListen
  BY <1>3, <1>8 DEF RunListen
<1>9. ASSUME NEW c \in Conns, HandleWrite(c)
      PROVE  Goal
  <2>1. pending' \in {pending, Append(pending, Functor("complete", c))}
        /\ UNCHANGED batch
    BY <1>9 DEF HandleWrite, Drained
  <2>2. c \in Known
    BY <1>9 DEF HandleWrite, Turn, LifeInv, ReportInv, Known
  <2> QED BY <1>1, <1>2, <1>5, <2>1, <2>2 DEF Queue
<1>10. ASSUME NEW c \in Conns, WriteComplete(c) \/ RunShutdown(c)
       PROVE  Goal
  BY <1>3, <1>10 DEF WriteComplete, RunShutdown
<1>11. ASSUME NEW c \in Conns, RunSend(c)
       PROVE  Goal
  <2>1. Runs("send", c)
    BY <1>11 DEF RunSend
  <2>2. CASE UNCHANGED pending
    BY <1>3, <2>1, <2>2
  <2>3. CASE pending' = Append(pending, Functor("complete", c))
    <3>1. /\ batch # <<>> /\ batch' = Tail(batch)
          /\ Head(batch) = Functor("send", c)
      BY <2>1 DEF Runs
    <3>2. Functor("complete", c) \in Functors
      BY FunctorType
    <3>3. /\ Range(Queue) \subseteq {Head(batch)} \cup Range(Queue')
          /\ Range(Queue') \subseteq Range(Queue) \cup {Functor("complete", c)}
          /\ \A g : OnceIn(Queue, g) /\ g # Functor("complete", c)
                      => OnceIn(Queue', g)
      BY <2>3, <3>1, <3>2, PoppedPushed
    <3>4. c \in Known
      <4>1. Functor("send", c) \in Range(Queue)
        BY <3>1, QueueOps, TailFacts
      <4> QED BY <4>1, ConnAssumption DEF Functor, LifeInv, NamedInv
    <3>5. \A d \in Conns : /\ Functor("destroy", d) # Head(batch)
                           /\ Functor("destroy", d) # Functor("complete", c)
      BY <3>1 DEF Functor
    <3> QED BY <1>5, <3>3, <3>4, <3>5 DEF SameDestroys
  <2> QED BY <1>4, <1>11, <2>2, <2>3 DEF RunSend
<1>12. ASSUME NEW c \in Conns, Send(c)
       PROVE  Goal
  <2>1. UNCHANGED batch
        /\ pending' \in {pending, Append(pending, Functor("complete", c))}
    BY <1>4, <1>12 DEF Send
  <2>2. c \in Known
    BY <1>12 DEF Send, InHand, LifeInv, NamedInv
  <2> QED BY <1>1, <1>2, <1>5, <2>1, <2>2 DEF Queue
<1>13. ASSUME NEW k \in Clients, ClientStarts(k) \/ ClientListens(k)
       PROVE  Goal
  <2>1. Fresh(Functor("listen", NoConn))
    BY DEF Fresh, Functor, Functors
  <2>2. CASE ClientStarts(k)
    BY <1>1, <2>2 DEF ClientStarts, queueVars, Queue
  <2> QED BY <1>2, <1>13, <2>1, <2>2 DEF ClientListens
<1>14. ASSUME NEW k \in Clients, NEW c \in Conns, ClientQueues(k, c)
       PROVE  Goal
  <2>1. clientPc[k].conn = c
    BY <1>14 DEF ClientQueues, Functor
  <2>2. c \in Known
    BY <2>1, ConnAssumption DEF LifeInv, NamedInv
  <2>3. \A op \in {"send", "shutdown"} : Fresh(Functor(op, c))
    BY <2>1, <2>2, FunctorType DEF Fresh, Functor
  <2> QED BY <1>2, <1>14, <2>3 DEF ClientQueues
<1> HIDE DEF Goal, TypeOK
<1>15. CASE LoopStep
  BY <1>6, <1>7, <1>8, <1>9, <1>10, <1>11, <1>15 DEF LoopStep, Quiet
<1>16. CASE UserStep
  BY <1>6, <1>12, <1>16 DEF UserStep, Quiet
<1>17. ASSUME NEW k \in Clients, ClientStep(k)
       PROVE  Goal
  BY <1>6, <1>13, <1>14, <1>17 DEF ClientStep, Quiet
<1>18. CASE PeerStep \/ \E c \in Conns : Drop(c)
  BY <1>6, <1>18 DEF PeerStep, Quiet
<1> QED BY <1>15, <1>16, <1>17, <1>18 DEF Next

\* Every step keeps NamedInv.
LEMMA NamedStep ==
    ASSUME TypeOK, LifeInv, Next
    PROVE  NamedInv'
<1>1. \A f \in Range(Queue') : f.conn \in Known' \cup {NoConn}
  <2>1. CASE \E c \in Conns : Close(c) \/ ReadEnd(c)
    <3>1. PICK c \in Conns : Close(c) \/ ReadEnd(c)
      BY <2>1
    <3>2. c \in Known
      BY <3>1 DEF Close, ReadEnd, Turn, LifeInv, ReportInv, Known
    <3>3. UNCHANGED batch
          /\ pending' \in {pending, Append(pending, Functor("destroy", c))}
      BY <3>1 DEF Close, ReadEnd, HandleClose
    <3>4. Range(Queue') \subseteq Range(Queue) \cup {Functor("destroy", c)}
      BY <3>3, FunctorType, Pushed DEF TypeOK, Queue
    <3> QED
      BY <3>2, <3>4, KnownGrows DEF Functor, LifeInv, NamedInv
  <2>2. CASE \E c \in Conns : ConnectDestroyed(c)
    <3>1. Range(Queue') \subseteq Range(Queue)
      BY <2>2, Popped DEF ConnectDestroyed, Runs, TypeOK
    <3> QED BY <3>1, KnownGrows DEF LifeInv, NamedInv
  <2>3. CASE ~ \E c \in Conns : Close(c) \/ ReadEnd(c) \/ ConnectDestroyed(c)
    BY <2>3, QueueStep, KnownGrows DEF LifeInv, NamedInv, Fresh
  <2> QED BY <2>1, <2>2, <2>3
<1> QED
  BY <1>1, UserNames, CallbackNames DEF NamedInv

\* The assertions of handleClose and of removeConnectionInLoop hold.
LEMMA ClosesWell ==
    ASSUME TypeOK, LifeInv, NEW c \in Conns, Close(c) \/ ReadEnd(c)
    PROVE  /\ chan[c] = "watched" /\ callback = "none"
           /\ DisableAll(c)
           /\ connMap' = connMap \ {c}
           /\ pending' = Append(pending, Functor("destroy", c))
           /\ UNCHANGED <<batch, state, callback, aborted, out, wrShut, peer>>
           /\ \E t \in {"close", "read"} :
                t \in todo[c] /\ todo' = [todo EXCEPT ![c] = @ \ {t}]
<1>1. chan[c] = "watched" /\ callback = "none"
  BY DEF Close, ReadEnd, Turn, LifeInv, ReportInv
<1>2. state[c] \in {"kConnected", "kDisconnecting"} /\ c \in connMap
  BY <1>1 DEF LifeInv, StateInv, QueueInv, Destroying
<1>3. HandleClose(c)
  BY DEF Close, ReadEnd
<1>4. \E t \in {"close", "read"} : t \in todo[c] /\ Handled(c, t)
  BY DEF Close, ReadEnd, Turn
<1>5. UNCHANGED <<batch, state, out, wrShut, peer>>
  BY DEF Close, ReadEnd, sockVars, outVars
<1> QED
  BY <1>1, <1>2, <1>3, <1>4, <1>5 DEF HandleClose, Handled

\* So does that of connectDestroyed.
LEMMA DestroysWell ==
    ASSUME TypeOK, LifeInv, NEW c \in Conns, ConnectDestroyed(c)
    PROVE  /\ chan[c] = "quiet" /\ callback = "none" /\ stage = "functors"
           /\ state' = [state EXCEPT ![c] = "kDisconnected"]
           /\ DisableAll(c)
           /\ callback' = "down" /\ self' = c
           /\ UNCHANGED <<todo, pending, connMap, peer, out, wrShut, aborted>>
<1>1. Functor("destroy", c) \in Range(Queue)
  BY QueueOps, TailFacts DEF ConnectDestroyed, Runs, TypeOK
<1>2. callback = "none" /\ stage = "functors"
  BY DEF ConnectDestroyed, Runs
<1>3. chan[c] = "quiet" /\ state[c] \in {"kConnected", "kDisconnecting"}
  BY <1>1, <1>2 DEF LifeInv, QueueInv, StateInv, Destroying
<1> QED
  BY <1>2, <1>3 DEF ConnectDestroyed, serverVars, sockVars, outVars

\* And that of removeChannel.
LEMMA ReturnsWell ==
    ASSUME TypeOK, LifeInv, CallbackReturns
    PROVE  /\ callback' = "none"
           /\ callback = "down" =>
                /\ self \in Conns /\ Destroying(self) /\ todo[self] = {}
                /\ chan' = [chan EXCEPT ![self] = "removed"]
           /\ callback # "down" => UNCHANGED chan
           /\ UNCHANGED <<todo, pending, batch, connMap, state, events, peer,
                          out, wrShut, aborted>>
<1>1. callback # "none" /\ self \in Conns
  BY DEF CallbackReturns, LifeInv, NamedInv, Known
<1>2. callback = "down" => events[self] = {} /\ todo[self] = {}
  BY <1>1 DEF LifeInv, StateInv, LoopInv, Destroying, TypeOK, LoopTypeOK
<1>3. callback # "down" => UNCHANGED <<chan, aborted>>
  BY DEF CallbackReturns
<1>4. callback = "down" =>
        chan' = [chan EXCEPT ![self] = "removed"] /\ UNCHANGED aborted
  BY <1>2 DEF CallbackReturns
<1> QED
  BY <1>1, <1>2, <1>3, <1>4
     DEF CallbackReturns, Destroying, queueVars, serverVars, sockVars, outVars

\* The steps that move a connection from one phase of its life to the next; the
\* others leave _connMap, the channel and connectDestroyed alone.
Moves ==
    \/ CallbackReturns
    \/ \E c \in Conns :
         AcceptConn(c) \/ Close(c) \/ ReadEnd(c) \/ ConnectDestroyed(c)

\* The other steps leave the map and the channels alone.
LEMMA StaysPut ==
    ASSUME TypeOK, LifeInv, Next, ~Moves
    PROVE  /\ UNCHANGED <<connMap, chan>>
           /\ \A c \in Conns : Destroying(c)' <=> Destroying(c)
<1> DEFINE Goal == /\ UNCHANGED <<connMap, chan>>
                   /\ \A c \in Conns : Destroying(c)' <=> Destroying(c)
<1> SUFFICES Goal
  OBVIOUS
<1> USE DEF Destroying, loopVars, serverVars, chanVars, connVars
<1>1. CASE Quiet
  BY <1>1, QuietFrame
<1>2. CASE SwapFunctors \/ RunListen \/ FunctorsDone
  BY <1>2 DEF SwapFunctors, RunListen, FunctorsDone
<1>3. ASSUME NEW c \in Conns,
             \/ ReadMessage(c) \/ HandleWrite(c) \/ WriteComplete(c)
             \/ RunSend(c) \/ RunShutdown(c) \/ Send(c) \/ Shutdown(c)
      PROVE  Goal
  BY <1>3 DEF ReadMessage, HandleWrite, Turn, Handled, WriteComplete, RunSend,
              RunShutdown, Runs, Send, Shutdown
<1>4. ASSUME NEW k \in Clients,
             \/ ClientStarts(k) \/ ClientListens(k)
             \/ \E c \in Conns : ClientSetsState(k, c) \/ ClientQueues(k, c)
      PROVE  Goal
  BY <1>4 DEF ClientStarts, ClientListens, ClientSetsState, ClientQueues
<1> HIDE DEF Goal, Destroying
<1> QED
  BY <1>1, <1>2, <1>3, <1>4
     DEF Next, LoopStep, UserStep, ClientStep, PeerStep, Quiet, Moves

\* Every step keeps QueueInv; ReportInv; StateInv; and so all of LifeInv.
LEMMA QueueInvStep ==
    ASSUME TypeOK, LifeInv, Next
    PROVE  QueueInv'
<1> USE DEF QueueInv
<1>1. CASE ~Moves
  BY <1>1, StaysPut, QueueStep DEF Moves, SameDestroys, LifeInv
<1>2. CASE CallbackReturns
  <2>1. Queue' = Queue
    BY <1>2, ReturnsWell DEF Queue
  <2>2. UNCHANGED connMap /\ ~(\E c \in Conns : Destroying(c)')
    BY <1>2, ReturnsWell DEF Destroying
  <2> HIDE DEF Queue
  <2>3. CASE callback # "down"
    BY <1>2, <2>1, <2>2, <2>3, ReturnsWell DEF LifeInv, Destroying
  <2>4. CASE callback = "down"
    <3>1. /\ \A c \in Conns : Destroying(c) <=> c = self
          /\ chan[self] = "quiet" /\ self \in Conns
          /\ chan' = [chan EXCEPT ![self] = "removed"]
      BY <1>2, <2>4, ReturnsWell DEF LifeInv, StateInv, Destroying
    <3> QED BY <2>1, <2>2, <3>1 DEF LifeInv, TypeOK, ConnTypeOK
  <2> QED BY <2>3, <2>4
<1>3. ASSUME NEW c \in Conns, AcceptConn(c)
      PROVE  QueueInv'
  <2>1. Queue' = Queue
    BY <1>3 DEF AcceptConn, Queue, queueVars
  <2>2. chan[c] = "new" /\ chan' = [chan EXCEPT ![c] = "watched"]
        /\ connMap' = connMap \cup {c} /\ callback = "none" /\ callback' = "up"
    BY <1>3 DEF AcceptConn, LifeInv, StateInv
  <2> QED
    BY <2>1, <2>2 DEF LifeInv, Destroying, TypeOK, ConnTypeOK
<1>4. ASSUME NEW c \in Conns, Close(c) \/ ReadEnd(c)
      PROVE  QueueInv'
  <2> DEFINE f == Functor("destroy", c)
  <2>1. /\ Range(Queue') = Range(Queue) \cup {f}
        /\ \A g : OnceIn(Queue, g) /\ (g = f => g \notin Range(Queue))
                       => OnceIn(Queue', g)
    BY <1>4, ClosesWell, FunctorType, Pushed DEF TypeOK
  <2>2. \A d \in Conns : Functor("destroy", d) = f => d = c
    BY DEF Functor
  <2>3. f \notin Range(Queue)
    BY <1>4, ClosesWell DEF LifeInv
  <2> QED
    BY <1>4, <2>1, <2>2, <2>3, ClosesWell
       DEF LifeInv, Destroying, DisableAll, TypeOK, ConnTypeOK
<1>5. ASSUME NEW c \in Conns, ConnectDestroyed(c)
      PROVE  QueueInv'
  <2> DEFINE f == Functor("destroy", c)
  <2>1. batch # <<>> /\ batch' = Tail(batch) /\ Head(batch) = f
    BY <1>5 DEF ConnectDestroyed, Runs
  <2>2. /\ Range(Queue) = {f} \cup Range(Queue')
        /\ \A g : OnceIn(Queue, g) => OnceIn(Queue', g)
        /\ OnceIn(Queue, f) => f \notin Range(Queue')
    BY <1>5, <2>1, DestroysWell, Popped DEF TypeOK
  <2>3. \A d \in Conns : Functor("destroy", d) = f => d = c
    BY DEF Functor
  <2> QED
    BY <1>5, <2>2, <2>3, DestroysWell
       DEF LifeInv, Destroying, DisableAll, TypeOK, ConnTypeOK
<1> QED BY <1>1, <1>2, <1>3, <1>4, <1>5 DEF Moves

LEMMA ReportInvStep ==
    ASSUME TypeOK, LifeInv, Next
    PROVE  ReportInv'
<1> USE DEF LifeInv, ReportInv, TypeOK, ConnTypeOK, LoopTypeOK
<1>1. CASE CallbackReturns
  <2>1. /\ UNCHANGED <<todo, peer>>
        /\ \A c \in Conns : todo[c] # {} => chan'[c] = chan[c]
    BY <1>1, ReturnsWell
  <2> QED BY <2>1
<1>2. ASSUME NEW c \in Conns, Close(c) \/ ReadEnd(c)
      PROVE  ReportInv'
  <2>1. chan' = [chan EXCEPT ![c] = "quiet"] /\ chan[c] = "watched"
        /\ UNCHANGED peer
    BY <1>2, ClosesWell DEF DisableAll
  <2>2. PICK t \in {"close", "read"} :
          t \in todo[c] /\ todo' = [todo EXCEPT ![c] = @ \ {t}]
    BY <1>2, ClosesWell
  <2>3. todo'[c] \cap {"close", "read"} = {}
    BY <2>2
  <2> QED BY <2>1, <2>2, <2>3
<1>3. ASSUME NEW c \in Conns, ConnectDestroyed(c)
      PROVE  ReportInv'
  BY <1>3, DestroysWell DEF DisableAll
<1>4. ASSUME NEW c \in Conns, AcceptConn(c)
      PROVE  ReportInv'
  BY <1>4 DEF AcceptConn, sockVars, StateInv
<1>5. CASE Poll
  <2>1. \A c \in Conns : Reports(c, todo'[c])
    BY <1>5 DEF Poll
  <2>2. UNCHANGED <<chan, peer>>
    BY <1>5 DEF Poll, connVars, chanVars, sockVars
  <2> QED BY <2>1, <2>2 DEF Reports
<1>6. ASSUME UNCHANGED chan,
             \A c \in Conns :
               /\ todo'[c] \subseteq todo[c]
               /\ peer[c] = "reset" => peer'[c] = "reset"
      PROVE  ReportInv'
  BY <1>6
<1>7. ASSUME NEW c \in Conns, HandleWrite(c) \/ ReadMessage(c)
      PROVE  ReportInv'
  <2>1. UNCHANGED <<chan, peer>>
        /\ \E t \in Tests : todo' = [todo EXCEPT ![c] = @ \ {t}]
    BY <1>7 DEF HandleWrite, ReadMessage, Handled, chanVars, sockVars, Tests
  <2> QED BY <1>6, <2>1
<1>8. ASSUME NEW c \in Conns, NEW how \in {"closed", "reset"}, PeerLeaves(c, how)
      PROVE  ReportInv'
  <2>1. UNCHANGED <<chan, todo>> /\ peer' = [peer EXCEPT ![c] = how]
        /\ peer[c] # "reset"
    BY <1>8 DEF PeerLeaves, chanVars, loopVars
  <2> QED BY <1>6, <2>1
<1>9. ASSUME ~Moves, ~Poll,
             ~ \E c \in Conns :
                 \/ HandleWrite(c) \/ ReadMessage(c)
                 \/ \E how \in {"closed", "reset"} : PeerLeaves(c, how)
      PROVE  ReportInv'
  <2>1. UNCHANGED <<todo, peer>>
    <3> USE DEF loopVars, sockVars, connVars
    <3>1. CASE LoopStep
      BY <1>9, <3>1 DEF Moves, LoopStep, AcceptFails, HandleError, SwapFunctors,
         RunListen, FunctorsDone, WriteComplete, RunSend, RunShutdown
    <3>2. CASE UserStep \/ PeerStep \/ \E c \in Conns : Drop(c)
      BY <1>9, <3>2 DEF UserStep, PeerStep, Start, Keep, Send, Shutdown, Drop,
         PeerSends
    <3>3. ASSUME NEW k \in Clients, ClientStep(k)
          PROVE  UNCHANGED <<todo, peer>>
      BY <3>3 DEF ClientStep, ClientStarts, ClientListens, ClientTests, ClientSetsState,
         ClientQueues
    <3> QED BY <3>1, <3>2, <3>3 DEF Next
  <2> QED BY <1>6, <1>9, <2>1, StaysPut
<1> QED
  BY <1>1, <1>2, <1>3, <1>4, <1>5, <1>7, <1>8, <1>9 DEF Moves

LEMMA StateInvStep ==
    ASSUME TypeOK, LifeInv, Next
    PROVE  StateInv'
<1> USE DEF LifeInv, StateInv, TypeOK, ConnTypeOK
<1>1. CASE CallbackReturns
  <2>1. ~ \E c \in Conns : Destroying(c)'
    BY <1>1, ReturnsWell DEF Destroying
  <2>2. CASE callback # "down"
    BY <1>1, <2>1, <2>2, ReturnsWell DEF Destroying
  <2>3. CASE callback = "down"
    <3>1. /\ \A c \in Conns : Destroying(c) <=> c = self
          /\ self \in Conns /\ chan' = [chan EXCEPT ![self] = "removed"]
      BY <1>1, <2>3, ReturnsWell DEF Destroying
    <3> QED BY <1>1, <2>1, <3>1, ReturnsWell
  <2> QED BY <2>2, <2>3
<1>2. ASSUME NEW c \in Conns, Close(c) \/ ReadEnd(c)
      PROVE  StateInv'
  BY <1>2, ClosesWell DEF DisableAll, Destroying
<1>3. ASSUME NEW c \in Conns, ConnectDestroyed(c)
      PROVE  StateInv'
  <2>1. \A d \in Conns : (Destroying(d)' <=> d = c) /\ ~Destroying(d)
    BY <1>3, DestroysWell DEF Destroying
  <2> QED BY <1>3, <2>1, DestroysWell DEF DisableAll
<1>4. ASSUME NEW c \in Conns, AcceptConn(c)
      PROVE  StateInv'
  <2>1. \A d \in Conns : ~Destroying(d)' /\ ~Destroying(d)
    BY <1>4 DEF AcceptConn, Destroying
  <2> QED BY <1>4, <2>1 DEF AcceptConn, outVars, States
<1>5. CASE ~Moves
  <2>1. /\ UNCHANGED <<connMap, chan>>
        /\ \A c \in Conns : Destroying(c)' <=> Destroying(c)
    BY <1>5, StaysPut
  <2> DEFINE Others(c) ==
        \A d \in Conns \ {c} :
            /\ events'[d] = events[d] /\ out'[d] = out[d]
            /\ wrShut'[d] = wrShut[d]
  <2>2. ASSUME NEW c \in Known, Others(c),
               \/ UNCHANGED state
               \/ state' = [state EXCEPT ![c] = "kDisconnecting"],
               Destroying(c) => UNCHANGED events
        PROVE  StateInv'
    <3>1. \A d \in Conns \ {c} :
            /\ out'[d] = out[d] /\ events'[d] = events[d] /\ state'[d] = state[d]
            /\ wrShut'[d] = wrShut[d]
      BY <2>2
    <3>2. chan'[c] # "new" /\ chan[c] # "new" /\ c \in Conns
      BY <2>1, <2>2 DEF Known
    <3>3. state'[c] \in {state[c], "kDisconnecting"}
          /\ (Destroying(c) => events'[c] = events[c])
      BY <2>2, <3>2
    <3>4. \A d \in Conns : chan[d] = "new" => IsEmpty(out'[d])
      BY <3>1, <3>2
    <3> QED BY <2>1, <3>1, <3>2, <3>3, <3>4
  <2>3. CASE UNCHANGED <<state, events, out, wrShut>>
    BY <2>1, <2>3
  <2>4. ASSUME NEW c \in Conns, SendInLoop(c)
        PROVE  \A d \in Conns \ {c} : events'[d] = events[d] /\ out'[d] = out[d]
    BY <2>4, SendOnlyOne
  <2>5. ASSUME NEW c \in Conns, HandleWrite(c)
        PROVE  StateInv'
    <3>1. c \in Known /\ ~Destroying(c) /\ UNCHANGED state
      BY <2>5 DEF HandleWrite, Turn, ReportInv, Known, Destroying
    <3>2. Others(c)
      BY <2>5, WriteOnlyOne
    <3> QED BY <2>2, <3>1, <3>2
  <2>6. ASSUME NEW c \in Conns, NEW op, Runs(op, c)
        PROVE  c \in Known /\ ~Destroying(c)
    <3>1. Functor(op, c) \in Range(Queue)
      BY <2>6, QueueOps, TailFacts DEF Runs
    <3> QED BY <2>6, <3>1, ConnAssumption DEF Functor, NamedInv, Runs, Destroying
  <2>7. ASSUME NEW c \in Conns, RunSend(c)
        PROVE  StateInv'
    <3>1. c \in Known /\ ~Destroying(c) /\ UNCHANGED <<state, wrShut>>
      BY <2>6, <2>7 DEF RunSend
    <3>2. Others(c)
      BY <2>4, <2>7 DEF RunSend, outVars
    <3> QED BY <2>2, <3>1, <3>2
  <2>8. ASSUME NEW c \in Conns, RunShutdown(c)
        PROVE  StateInv'
    <3>1. c \in Known /\ UNCHANGED <<state, events>>
      BY <2>6, <2>8 DEF RunShutdown, chanVars
    <3>2. Others(c)
      BY <2>8 DEF RunShutdown, ShutDownInLoop, chanVars, outVars
    <3> QED BY <2>2, <3>1, <3>2
  <2>9. ASSUME NEW c \in Conns, Send(c)
        PROVE  StateInv'
    <3>1. c \in Known /\ ~Destroying(c) /\ UNCHANGED <<state, wrShut>>
      BY <2>9 DEF Send, InHand, NamedInv
    <3>2. Others(c)
      BY <2>4, <2>9 DEF Send
    <3> QED BY <2>2, <3>1, <3>2
  <2>10. ASSUME NEW c \in Conns, Shutdown(c)
         PROVE  StateInv'
    <3>1. c \in Known /\ UNCHANGED events
      BY <2>10 DEF Shutdown, InHand, NamedInv, chanVars
    <3>2. Others(c)
      BY <2>10 DEF Shutdown, ShutDownInLoop, chanVars, outVars
    <3> QED BY <2>2, <2>10, <3>1, <3>2 DEF Shutdown
  <2>11. ASSUME NEW k \in Clients, NEW c \in Conns, ClientSetsState(k, c)
         PROVE  StateInv'
    <3>1. c \in Known
      BY <2>11, ConnAssumption DEF ClientSetsState, NamedInv, Functor
    <3> QED BY <2>2, <2>11, <3>1 DEF ClientSetsState, chanVars, outVars
  <2>12. CASE \/ Quiet \/ SwapFunctors \/ RunListen \/ FunctorsDone
              \/ \E c \in Conns : ReadMessage(c) \/ WriteComplete(c)
              \/ \E k \in Clients :
                   \/ ClientStarts(k) \/ ClientListens(k)
                   \/ \E c \in Conns : ClientQueues(k, c)
    BY <2>3, <2>12, QuietFrame DEF SwapFunctors, RunListen, FunctorsDone,
       ReadMessage, WriteComplete, ClientStarts, ClientListens, ClientQueues, connVars,
       chanVars, outVars
  <2> QED
    BY <1>5, <2>5, <2>7, <2>8, <2>9, <2>10, <2>11, <2>12
       DEF Next, LoopStep, UserStep, ClientStep, PeerStep, Quiet, Moves
<1> QED BY <1>1, <1>2, <1>3, <1>4, <1>5 DEF Moves

LEMMA LifeStep == TypeOK /\ LifeInv /\ [Next]_vars => LifeInv'
<1>1. ASSUME TypeOK, LifeInv, Next
      PROVE  LifeInv'
  BY <1>1, LoopStepInv, NamedStep, StateInvStep, ReportInvStep, QueueInvStep
     DEF LifeInv
<1>2. ASSUME LifeInv, UNCHANGED vars
      PROVE  LifeInv'
  <2>1. Holds(batch)' = Holds(batch) /\ Queue' = Queue
    BY <1>2 DEF vars, queueVars, Queue
  <2> QED
    BY <1>2, <2>1 DEF LifeInv, LoopInv, NamedInv, StateInv, ReportInv, QueueInv,
       Destroying, Known, vars, loopVars, queueVars, serverVars, connVars,
       chanVars, sockVars, outVars, appVars
<1> QED BY <1>1, <1>2

\* The life of every connection, from accept to the end of connectDestroyed, goes
\* as LifeInv says (TcpServer.cpp:55-108, TcpConnection.cpp:70-141).
THEOREM LifeCorrect == Spec => [](TypeOK /\ LifeInv)
<1>1. Init => TypeOK /\ LifeInv
  BY TypeInit, LifeInit
<1>2. TypeOK /\ LifeInv /\ [Next]_vars => (TypeOK /\ LifeInv)'
  BY TypeStep, LifeStep
<1> QED BY <1>1, <1>2, PTL DEF Spec

\* A connection is closed once: it is in _connMap exactly while it is watched,
\* and one connectDestroyed is queued from then on.
THEOREM ClosesOnce == Spec => []ClosedOnce
<1>1. LifeInv => ClosedOnce
  BY DEF LifeInv, QueueInv, ClosedOnce, OnceIn, Destroying
<1> QED BY <1>1, LifeCorrect, PTL

\* A connection whose channel the Poller or the dispatch may use is held.
LEMMA WatchedLive ==
    ASSUME TypeOK, LifeInv
    PROVE  WatchedIsAlive
<1> SUFFICES ASSUME NEW c \in Conns,
                    chan[c] \in {"watched", "quiet"} \/ todo[c] # {}
             PROVE  Alive(c)
  BY DEF WatchedIsAlive
<1>1. CASE chan[c] = "watched"
  BY <1>1 DEF LifeInv, QueueInv, Alive
<1>2. CASE Destroying(c)
  BY <1>2 DEF Destroying, Alive
<1>3. CASE Functor("destroy", c) \in Range(Queue)
  <2>1. Range(Queue) = Range(batch) \cup Range(pending)
    BY RangeConcatenation DEF Queue, TypeOK, QueueTypeOK
  <2>2. \A q : Functor("destroy", c) \in Range(q) => c \in Holds(q)
    BY DEF Holds, Functor, SharedOps
  <2> QED BY <1>3, <2>1, <2>2 DEF LifeInv, LoopInv, Alive
<1>4. chan[c] \in {"watched", "quiet"}
  BY DEF LifeInv, ReportInv
<1> QED BY <1>1, <1>2, <1>3, <1>4 DEF LifeInv, QueueInv

\* A functor that finds its connection freed finds its channel removed.
LEMMA FreedIsRemoved ==
    ASSUME TypeOK, LifeInv, NEW c \in Conns, NEW op, Runs(op, c), ~Alive(c)
    PROVE  chan[c] = "removed"
<1>1. Functor(op, c) \in Range(Queue)
  BY QueueOps, TailFacts DEF Runs, TypeOK
<1>2. chan[c] # "new"
  BY <1>1, ConnAssumption DEF Functor, Known, LifeInv, NamedInv
<1>3. chan[c] \notin {"watched", "quiet"}
  BY WatchedLive DEF WatchedIsAlive
<1> QED BY <1>2, <1>3 DEF TypeOK, ConnTypeOK

\* The loop uses no connection that nobody holds: what is in _connMap is held by
\* it, and what left it by the functor of connectDestroyed, until that has run.
THEOREM WatchedLives == Spec => []WatchedIsAlive
<1>1. TypeOK /\ LifeInv => WatchedIsAlive
  BY WatchedLive
<1> QED BY <1>1, LifeCorrect, PTL

-----------------------------------------------------------------------------
(* The output buffers.                                                     *)

\* The steps that write, or queue what is to be written.
Writes(c) == HandleWrite(c) \/ RunSend(c) \/ Send(c)

\* The other steps leave the output alone.
LEMMA OutFrame ==
    ASSUME TypeOK, LifeInv, Next, ~ \E c \in Conns : Writes(c)
    PROVE  UNCHANGED outVars /\ (Moves \/ UNCHANGED events)
<1> DEFINE Goal == UNCHANGED outVars /\ (Moves \/ UNCHANGED events)
<1> SUFFICES Goal
  OBVIOUS
<1> USE DEF connVars, chanVars, outVars
<1>1. CASE Moves
  BY <1>1 DEF Moves, CallbackReturns, AcceptConn, Close, ReadEnd, ConnectDestroyed
<1>2. CASE Quiet
  BY <1>2, QuietFrame
<1>3. CASE SwapFunctors \/ RunListen \/ FunctorsDone
  BY <1>3 DEF SwapFunctors, RunListen, FunctorsDone
<1>4. ASSUME NEW c \in Conns,
             \/ ReadMessage(c) \/ WriteComplete(c)
             \/ RunShutdown(c) \/ Shutdown(c)
      PROVE  Goal
  BY <1>4 DEF ReadMessage, WriteComplete, RunShutdown, Shutdown
<1>5. ASSUME NEW k \in Clients,
             \/ ClientStarts(k) \/ ClientListens(k)
             \/ \E c \in Conns : ClientSetsState(k, c) \/ ClientQueues(k, c)
      PROVE  Goal
  BY <1>5 DEF ClientStarts, ClientListens, ClientSetsState, ClientQueues
<1> HIDE DEF Goal
<1> QED
  BY <1>1, <1>2, <1>3, <1>4, <1>5
     DEF Next, LoopStep, UserStep, ClientStep, PeerStep, Quiet, Moves, Writes

\* "out" is asked for only while something waits, and while the channel is
\* watched as long as something does.
OutInv ==
    \A c \in Conns :
        /\ "out" \in events[c] => ~IsEmpty(out[c])
        /\ chan[c] = "watched" /\ ~IsEmpty(out[c]) => "out" \in events[c]

\* Every step keeps OutInv.
LEMMA OutStep ==
    ASSUME TypeOK, LifeInv, OutInv, Next
    PROVE  OutInv'
<1> USE DEF OutInv, TypeOK, ConnTypeOK
<1>1. CASE ~ \E c \in Conns : Writes(c)
  <2>1. CASE CallbackReturns
    <3>1. UNCHANGED <<out, events>>
          /\ \A c \in Conns : chan'[c] = "watched" => chan[c] = "watched"
      BY <2>1, ReturnsWell
    <3> QED BY <3>1
  <2>2. ASSUME NEW c \in Conns, Close(c) \/ ReadEnd(c)
        PROVE  OutInv'
    <3>1. UNCHANGED out /\ DisableAll(c)
      BY <2>2, ClosesWell
    <3> QED BY <3>1 DEF DisableAll
  <2>3. ASSUME NEW c \in Conns, ConnectDestroyed(c)
        PROVE  OutInv'
    <3>1. UNCHANGED out /\ DisableAll(c)
      BY <2>3, DestroysWell
    <3> QED BY <3>1 DEF DisableAll
  <2>4. ASSUME NEW c \in Conns, AcceptConn(c)
        PROVE  OutInv'
    BY <2>4 DEF AcceptConn, outVars, LifeInv, StateInv
  <2>5. CASE ~Moves
    BY <1>1, <2>5, OutFrame, StaysPut DEF outVars
  <2> QED BY <2>1, <2>2, <2>3, <2>4, <2>5 DEF Moves
<1>2. ASSUME NEW c \in Conns, UNCHANGED chan,
             \A d \in Conns \ {c} : out'[d] = out[d] /\ events'[d] = events[d],
             "out" \in events'[c] <=> ~IsEmpty(out'[c])
      PROVE  OutInv'
  BY <1>2
<1>3. CASE UNCHANGED <<chan, out, events>>
  BY <1>3
<1>4. ASSUME NEW c \in Conns, HandleWrite(c)
      PROVE  OutInv'
  <2>1. UNCHANGED chan
    BY <1>4 DEF HandleWrite
  <2>2. CASE UNCHANGED <<outVars, events>>
    BY <1>3, <2>1, <2>2 DEF outVars
  <2>3. ASSUME NEW n \in 1 .. Contiguous(out[c]), Took(c, n)
        PROVE  OutInv'
    <3>1. \A d \in Conns \ {c} : out'[d] = out[d] /\ events'[d] = events[d]
      BY <1>4, WriteOnlyOne
    <3>2. CASE IsEmpty(out'[c])
      <4>1. "out" \notin events'[c]
        BY <2>3, <3>2 DEF Took
      <4> QED BY <1>2, <2>1, <3>1, <3>2, <4>1
    <3>3. CASE ~IsEmpty(out'[c])
      <4>1. ~IsEmpty(out[c]) /\ UNCHANGED events
        BY <2>3, <3>3 DEF Took
      <4> QED BY <2>1, <3>1, <3>3, <4>1
    <3> QED BY <3>2, <3>3
  <2> QED BY <1>4, <2>2, <2>3, WriteStep
<1>5. ASSUME NEW c \in Conns, SendInLoop(c), UNCHANGED chan
      PROVE  OutInv'
  <2>1. \A d \in Conns \ {c} : out'[d] = out[d] /\ events'[d] = events[d]
    BY <1>5, SendOnlyOne
  <2>2. CASE UNCHANGED <<out, events>>
    BY <1>3, <1>5, <2>2
  <2>3. ASSUME NEW len \in Lengths, NEW n \in 0 .. len, Gave(c, len, n)
        PROVE  OutInv'
    <3> DEFINE rest == SubSeq(Message(c, len), n + 1, len)
               more == Appended(out[c], rest)
    <3>1. CASE n < len /\ out' = [out EXCEPT ![c] = Appended(@, rest)]
               /\ events' = [events EXCEPT ![c] = @ \cup {"out"}]
      <4>1. rest \in Seq(Nat) /\ rest # <<>>
        BY <3>1, MessageType
      <4>2. IsRing(out[c], Nat) /\ 0 \in Nat
        OBVIOUS
      <4>3. ~IsEmpty(more)
        <5> HIDE DEF rest, TypeOK, ConnTypeOK
        <5> QED BY <4>1, <4>2, AppendedTypes
      <4>4. out'[c] = more /\ "out" \in events'[c]
        BY <3>1
      <4> HIDE DEF more
      <4>5. ~IsEmpty(out'[c])
        BY <4>3, <4>4
      <4> QED BY <1>2, <1>5, <2>1, <4>4, <4>5
    <3>2. CASE UNCHANGED <<out, events>>
      BY <2>2, <3>2
    <3> QED BY <2>3, <3>1, <3>2 DEF Gave
  <2>4. UNCHANGED <<out, events>>
        \/ \E len \in Lengths : \E n \in 0 .. len : Gave(c, len, n)
    BY <1>5, SendStep DEF outVars
  <2> QED BY <2>2, <2>3, <2>4
<1>6. ASSUME NEW c \in Conns, RunSend(c)
      PROVE  OutInv'
  BY <1>3, <1>5, <1>6 DEF RunSend, outVars
<1>7. ASSUME NEW c \in Conns, Send(c)
      PROVE  OutInv'
  BY <1>5, <1>7 DEF Send
<1> QED BY <1>1, <1>4, <1>6, <1>7 DEF Writes

\* POLLOUT is asked for only while something waits (sendInLoop and handleWrite,
\* TcpConnection.cpp:107-181).
THEOREM OutCorrect == Spec => []OutInv
<1>1. Init => OutInv
  BY NewFacts DEF Init, ConnInit, OutInv
<1>2. TypeOK /\ LifeInv /\ OutInv /\ [Next]_vars => OutInv'
  <2>1. UNCHANGED vars /\ OutInv => OutInv'
    BY DEF OutInv, vars, connVars, chanVars, outVars
  <2> QED BY <2>1, OutStep
<1> QED BY <1>1, <1>2, LifeCorrect, PTL DEF Spec

\* What waits to be written is asked for, and nothing is asked for in vain.
THEOREM BacklogWatched == Spec => []BacklogIsWatched
<1>1. OutInv => BacklogIsWatched
  BY DEF OutInv, BacklogIsWatched
<1> QED BY <1>1, OutCorrect, PTL

-----------------------------------------------------------------------------
(* What the process ends on.                                               *)

\* A connection that no other thread called: no client is in a call of it, none
\* of their calls waits, and once its writing side is shut nothing is written.
AloneInv ==
    \A c \in Conns \ shared :
        /\ \A k \in Clients : clientPc[k].conn # c
        /\ \A op \in {"send", "shutdown"} : Functor(op, c) \notin Range(Queue)
        /\ wrShut[c] => state[c] # "kConnected" /\ "out" \notin events[c]

\* Whose functor of a call is run was called by another thread.
LEMMA RunIsShared ==
    ASSUME TypeOK, AloneInv, NEW c \in Conns, NEW op \in {"send", "shutdown"},
           Runs(op, c)
    PROVE  c \in shared
<1>1. Functor(op, c) \in Range(Queue)
  BY QueueOps, TailFacts DEF Runs, TypeOK
<1> QED BY <1>1 DEF AloneInv

\* What is not shared after a step was not before, and nobody calls it.
LEMMA SharedStep ==
    ASSUME TypeOK, LifeInv, AloneInv, Next, NEW c \in Conns \ shared'
    PROVE  /\ c \notin shared
           /\ \A k \in Clients : clientPc'[k].conn # c
           /\ \A op \in {"send", "shutdown"} : Functor(op, c) \notin Range(Queue')
<1>1. \/ UNCHANGED <<clientPc, shared>>
      \/ \E k \in Clients, d \in Conns :
           \/ \E op \in {"send", "shutdown"} : ClientTests(k, op, d)
           \/ ClientSetsState(k, d) \/ ClientQueues(k, d)
      \/ \E k \in Clients : ClientStarts(k) \/ ClientListens(k)
  <2>1. CASE LoopStep
    BY <2>1 DEF LoopStep, Poll, AcceptFails, CallbackReturns, SwapFunctors,
         RunListen, FunctorsDone, AcceptConn, Close, HandleError, ReadMessage,
         ReadEnd, HandleWrite, ConnectDestroyed, WriteComplete, RunSend,
         RunShutdown, appVars
  <2>2. CASE UserStep \/ PeerStep \/ \E d \in Conns : Drop(d)
    BY <2>2 DEF UserStep, Start, Keep, Send, Shutdown, PeerStep, PeerSends,
         PeerLeaves, Drop, appVars
  <2> QED BY <2>1, <2>2 DEF Next, ClientStep
<1>2. \A op, d : Functor(op, d).conn = d /\ Functor(op, d).op = op
  BY DEF Functor
<1>3. Idle.conn # c /\ NoConn # c
  BY ConnAssumption DEF Idle
<1>4. c \notin shared /\ \A k \in Clients : clientPc'[k].conn # c
  <2> HIDE DEF Functor
  <2>1. CASE UNCHANGED <<clientPc, shared>>
    BY <2>1 DEF AloneInv
  <2>2. ASSUME NEW k \in Clients, NEW d \in Conns, NEW op \in {"send", "shutdown"},
               ClientTests(k, op, d)
        PROVE  c \notin shared /\ \A m \in Clients : clientPc'[m].conn # c
    BY <1>2, <2>2 DEF ClientTests, AloneInv, TypeOK, UserTypeOK
  <2>3. ASSUME NEW k \in Clients, NEW d \in Conns,
               ClientSetsState(k, d) \/ ClientQueues(k, d)
        PROVE  c \notin shared /\ \A m \in Clients : clientPc'[m].conn # c
    BY <1>2, <1>3, <2>3
       DEF ClientSetsState, ClientQueues, AloneInv, TypeOK, UserTypeOK
  <2>4. ASSUME NEW k \in Clients, ClientStarts(k) \/ ClientListens(k)
        PROVE  c \notin shared /\ \A m \in Clients : clientPc'[m].conn # c
    BY <1>2, <1>3, <2>4
       DEF ClientStarts, ClientListens, AloneInv, TypeOK, UserTypeOK
  <2> QED BY <1>1, <2>1, <2>2, <2>3, <2>4
<1>5. ASSUME NEW op \in {"send", "shutdown"}, Functor(op, c) \in Range(Queue')
      PROVE  FALSE
  <2>1. Functor(op, c) \notin Range(Queue)
    BY <1>4 DEF AloneInv
  <2>2. \A d : Functor(op, c) # Functor("destroy", d)
    BY DEF Functor
  <2>3. CASE \E d \in Conns : Close(d) \/ ReadEnd(d)
    BY <1>5, <2>1, <2>2, <2>3, ClosesWell, FunctorType, Pushed DEF TypeOK
  <2>4. CASE \E d \in Conns : ConnectDestroyed(d)
    BY <1>5, <2>1, <2>4, Popped DEF ConnectDestroyed, Runs, TypeOK
  <2>5. CASE ~ \E d \in Conns : Close(d) \/ ReadEnd(d) \/ ConnectDestroyed(d)
    BY <1>2, <1>4, <1>5, <2>1, <2>5, QueueStep DEF Fresh, AloneInv
  <2> QED BY <2>3, <2>4, <2>5
<1> QED BY <1>4, <1>5

\* The writing side of a connection that only the loop's thread calls.
LEMMA ShutStep ==
    ASSUME TypeOK, LifeInv, OutInv, AloneInv, Next, NEW c \in Conns \ shared'
    PROVE  wrShut'[c] => state'[c] # "kConnected" /\ "out" \notin events'[c]
<1> DEFINE Goal ==
      wrShut'[c] => state'[c] # "kConnected" /\ "out" \notin events'[c]
<1> SUFFICES Goal
  OBVIOUS
<1>1. /\ c \notin shared
      /\ wrShut[c] => state[c] # "kConnected" /\ "out" \notin events[c]
  BY SharedStep DEF AloneInv
<1> USE DEF TypeOK, ConnTypeOK, chanVars, connVars, outVars
<1>2. CASE CallbackReturns
  BY <1>1, <1>2, ReturnsWell
<1>3. ASSUME NEW d \in Conns, Close(d) \/ ReadEnd(d)
      PROVE  Goal
  <2>1. UNCHANGED <<state, wrShut>> /\ events' = [events EXCEPT ![d] = {}]
    <3> HIDE DEF TypeOK, ConnTypeOK
    <3> QED BY <1>3, ClosesWell DEF DisableAll
  <2>2. events \in [Conns -> SUBSET {"in", "out"}]
    OBVIOUS
  <2> HIDE DEF TypeOK, ConnTypeOK
  <2> QED BY <1>1, <2>1, <2>2
<1>4. ASSUME NEW d \in Conns, ConnectDestroyed(d)
      PROVE  Goal
  <2>1. /\ UNCHANGED wrShut
        /\ events' = [events EXCEPT ![d] = {}]
        /\ state' = [state EXCEPT ![d] = "kDisconnected"]
    <3> HIDE DEF TypeOK, ConnTypeOK
    <3> QED BY <1>4, DestroysWell DEF DisableAll
  <2>2. events \in [Conns -> SUBSET {"in", "out"}] /\ state \in [Conns -> States]
    OBVIOUS
  <2> HIDE DEF TypeOK, ConnTypeOK
  <2> QED BY <1>1, <2>1, <2>2
<1>5. ASSUME NEW d \in Conns, AcceptConn(d)
      PROVE  Goal
  BY <1>1, <1>5 DEF AcceptConn, LifeInv, StateInv
<1>6. ASSUME NEW d \in Conns, HandleWrite(d)
      PROVE  Goal
  <2>1. UNCHANGED state
    BY <1>6 DEF HandleWrite
  <2>2. CASE c # d
    BY <1>1, <1>6, <2>1, <2>2, WriteOnlyOne
  <2>3. CASE c = d
    BY <1>1, <1>6, <2>3 DEF HandleWrite, Drained, ShutDownInLoop
  <2> QED BY <2>2, <2>3
<1>7. ASSUME NEW d \in Conns, SendInLoop(d), UNCHANGED <<state, wrShut>>,
             c = d => ~wrShut[c]
      PROVE  Goal
  BY <1>1, <1>7, SendOnlyOne
<1>8. ASSUME NEW d \in Conns, RunSend(d)
      PROVE  Goal
  BY <1>1, <1>7, <1>8, RunIsShared DEF RunSend
<1>9. ASSUME NEW d \in Conns, Send(d)
      PROVE  Goal
  BY <1>1, <1>7, <1>9 DEF Send
<1>10. ASSUME NEW d \in Conns, RunShutdown(d)
       PROVE  Goal
  <2>1. c # d
    BY <1>1, <1>10, RunIsShared DEF RunShutdown
  <2> QED BY <1>1, <1>10, <2>1 DEF RunShutdown, ShutDownInLoop
<1>11. ASSUME NEW d \in Conns, Shutdown(d)
       PROVE  Goal
  BY <1>1, <1>11 DEF Shutdown, ShutDownInLoop
<1>12. CASE \/ Quiet \/ SwapFunctors \/ RunListen \/ FunctorsDone
            \/ \E d \in Conns : ReadMessage(d) \/ WriteComplete(d)
            \/ \E k \in Clients :
                 \/ ClientStarts(k) \/ ClientListens(k)
                 \/ \E d \in Conns : ClientSetsState(k, d) \/ ClientQueues(k, d)
  <2>1. UNCHANGED <<wrShut, events>>
        /\ \/ UNCHANGED state
           \/ \E d \in Conns : state' = [state EXCEPT ![d] = "kDisconnecting"]
    BY <1>12, QuietFrame DEF SwapFunctors, RunListen, FunctorsDone,
       ReadMessage, WriteComplete, ClientStarts, ClientListens,
       ClientSetsState, ClientQueues
  <2> QED BY <1>1, <2>1
<1> HIDE DEF Goal, TypeOK
<1> QED
  BY <1>2, <1>3, <1>4, <1>5, <1>6, <1>8, <1>9, <1>10, <1>11, <1>12
     DEF Next, LoopStep, UserStep, ClientStep, PeerStep, Quiet

\* A connection that only the loop's thread calls is never written after its
\* writing side was shut (TcpConnection.cpp:184-189).
THEOREM AloneCorrect == Spec => []AloneInv
<1>1. Init => AloneInv
  <2>1. ASSUME Init
        PROVE  Range(Queue) = {}
    BY <2>1, ConcatEmptySeq, EmptySeq DEF Init, ConnInit, Queue, Range
  <2>2. Idle.conn \notin Conns
    BY ConnAssumption DEF Idle
  <2>3. Init => /\ \A c \in Conns : ~wrShut[c]
                /\ \A k \in Clients : clientPc[k].conn \notin Conns
    BY <2>2 DEF Init, ConnInit
  <2> QED
    BY <2>1, <2>3 DEF AloneInv
<1>2. TypeOK /\ LifeInv /\ OutInv /\ AloneInv /\ [Next]_vars => AloneInv'
  <2>1. CASE Next
    BY <2>1, SharedStep, ShutStep DEF AloneInv
  <2>2. CASE UNCHANGED vars
    <3>1. UNCHANGED <<Queue, shared, clientPc, wrShut, state, events>>
      BY <2>2 DEF vars, Queue, queueVars, connVars, chanVars, appVars
    <3> QED BY <3>1 DEF AloneInv
  <2> QED BY <2>1, <2>2
<1> QED BY <1>1, <1>2, LifeCorrect, OutCorrect, PTL DEF Spec

\* The process may end on account of the connection.
Excused(c) ==
    \/ peer[c] = "reset"
    \/ c \in overrun
    \/ c \in shared /\ (wrShut[c] \/ chan[c] = "removed")

\* What sendInLoop may end the process on: a write that fails, a channel that the
\* Poller no longer has, or an append that the ring is not up to.
LEMMA SendEnds ==
    ASSUME aborted = {}, NEW c \in Conns, SendInLoop(c)
    PROVE  /\ overrun \subseteq overrun'
           /\ aborted' \in {aborted, {c}}
           /\ aborted' = {c} => \/ Direct(c) /\ WriteFails(c)
                               \/ chan[c] = "removed"
                               \/ c \in overrun'
<1> DEFINE Goal == /\ overrun \subseteq overrun'
                   /\ aborted' \in {aborted, {c}}
                   /\ aborted' = {c} => \/ Direct(c) /\ WriteFails(c)
                                       \/ chan[c] = "removed"
                                       \/ c \in overrun'
<1>1. CASE UNCHANGED outVars /\ Direct(c) /\ WriteFails(c) /\ aborted' = {c}
  BY <1>1 DEF outVars
<1>2. ASSUME NEW rest, QueueRest(c, rest)
      PROVE  Goal
  BY <1>2 DEF QueueRest, EnableWriting
<1>3. CASE UNCHANGED <<overrun, aborted>>
  BY <1>3
<1>4. \/ UNCHANGED outVars /\ Direct(c) /\ WriteFails(c) /\ aborted' = {c}
      \/ \E rest : QueueRest(c, rest)
      \/ UNCHANGED <<overrun, aborted>>
  BY Zenon DEF SendInLoop
<1> QED BY <1>1, <1>2, <1>3, <1>4

\* If a step ends the process, the peer reset, the ring of the connection was
\* overrun, or another thread's call is late.
LEMMA EndStep ==
    ASSUME TypeOK, LifeInv, OutInv, AloneInv, Next
    PROVE  /\ aborted = {}
           /\ \A c \in aborted' : Excused(c)'
<1> DEFINE Goal == \A c \in aborted' : Excused(c)'
<1>1. aborted = {}
  <2>1. CASE LoopStep
    BY <2>1 DEF LoopStep, Poll, AcceptFails, CallbackReturns, SwapFunctors,
         RunListen, FunctorsDone, AcceptConn, Close, HandleError, ReadMessage,
         ReadEnd, HandleWrite, ConnectDestroyed, WriteComplete, RunSend,
         RunShutdown, Runs, Turn, Up
  <2>2. CASE UserStep \/ PeerStep \/ \E c \in Conns : Drop(c)
    BY <2>2 DEF UserStep, Start, Keep, Send, Shutdown, PeerStep, PeerSends,
         PeerLeaves, Drop, InUserCode, Up
  <2>3. ASSUME NEW k \in Clients, ClientStep(k)
        PROVE  aborted = {}
    BY <2>3 DEF ClientStep, ClientStarts, ClientListens, ClientTests,
         ClientSetsState, ClientQueues, Up
  <2> QED BY <2>1, <2>2, <2>3 DEF Next
<1> SUFFICES Goal
  BY <1>1
<1>2. CASE UNCHANGED aborted
  BY <1>1, <1>2
<1>3. ASSUME NEW c \in Conns, aborted' \in {aborted, {c}},
             aborted' = {c} => \/ Excused(c) /\ UNCHANGED <<wrShut, chan>>
                               \/ c \in overrun',
             overrun \subseteq overrun', UNCHANGED <<peer, shared>>
      PROVE  Goal
  BY <1>1, <1>3 DEF Excused
<1> USE DEF connVars, sockVars, chanVars, outVars, appVars
<1>4. ASSUME NEW c \in Conns, c \notin shared, wrShut[c]
      PROVE  state[c] # "kConnected" /\ "out" \notin events[c]
  BY <1>4 DEF AloneInv
<1>5. ASSUME NEW c \in Conns, HandleError(c)
      PROVE  Goal
  <2>1. peer[c] = "reset"
    BY <1>5 DEF HandleError, Turn, LifeInv, ReportInv
  <2> QED BY <1>3, <1>5, <2>1 DEF HandleError, Excused
<1>6. ASSUME NEW c \in Conns, HandleWrite(c)
      PROVE  Goal
  <2>1. CASE "out" \notin events[c]
    BY <1>2, <1>6, <2>1 DEF HandleWrite
  <2>2. CASE "out" \in events[c]
    <3>1. ~IsEmpty(out[c]) /\ (wrShut[c] => c \in shared)
      BY <1>4, <2>2 DEF OutInv
    <3>2. /\ aborted' \in {aborted, {c}}
          /\ aborted' = {c} => Excused(c) /\ UNCHANGED <<wrShut, chan>>
          /\ UNCHANGED overrun
      BY <1>1, <1>6, <2>2, <3>1 DEF HandleWrite, WriteFails, Drained,
         ShutDownInLoop, HungUp, Excused
    <3> QED BY <1>3, <1>6, <3>2 DEF HandleWrite
  <2> QED BY <2>1, <2>2
<1>7. ASSUME NEW c \in Conns, RunSend(c) \/ RunShutdown(c)
      PROVE  Goal
  <2>1. c \in shared /\ (~Alive(c) => chan[c] = "removed")
    BY <1>7, RunIsShared, FreedIsRemoved DEF RunSend, RunShutdown
  <2> DEFINE Well == /\ aborted' \in {aborted, {c}}
                     /\ aborted' = {c} => \/ Excused(c) /\ UNCHANGED <<wrShut, chan>>
                                         \/ c \in overrun'
                     /\ overrun \subseteq overrun'
  <2>2. CASE RunSend(c)
    <3>1. ASSUME Alive(c), SendInLoop(c)
          PROVE  Well
      BY <1>1, <2>1, <2>2, <3>1, SendEnds DEF RunSend, WriteFails, Excused
    <3>2. ASSUME ~Alive(c), aborted' = {c}, UNCHANGED outVars
          PROVE  Well
      BY <2>1, <2>2, <3>2 DEF RunSend, Excused
    <3>3. Well
      BY <2>2, <3>1, <3>2 DEF RunSend
    <3> QED BY <1>3, <2>2, <3>3 DEF RunSend
  <2>3. CASE RunShutdown(c)
    <3>1. Well
      BY <1>1, <2>1, <2>3 DEF RunShutdown, ShutDownInLoop, HungUp, Excused
    <3> QED BY <1>3, <2>3, <3>1 DEF RunShutdown
  <2> QED BY <1>7, <2>2, <2>3
<1>8. ASSUME NEW c \in Conns, Send(c) \/ Shutdown(c)
      PROVE  Goal
  <2>1. state[c] = "kConnected" /\ (wrShut[c] => c \in shared)
    BY <1>4, <1>8 DEF Send, Shutdown
  <2>2. chan[c] # "removed"
    BY <2>1 DEF LifeInv, StateInv
  <2>3. /\ aborted' \in {aborted, {c}}
        /\ aborted' = {c} => \/ Excused(c) /\ UNCHANGED <<wrShut, chan>>
                            \/ c \in overrun'
        /\ overrun \subseteq overrun'
    <3>1. CASE Send(c)
      BY <1>1, <2>1, <2>2, <3>1, SendEnds DEF Send, WriteFails, Excused
    <3>2. CASE Shutdown(c)
      BY <1>1, <2>1, <3>2 DEF Shutdown, ShutDownInLoop, HungUp, Excused
    <3> QED BY <1>8, <3>1, <3>2
  <2> QED BY <1>3, <1>8, <2>3 DEF Send, Shutdown
<1>9. CASE Moves
  <2>1. UNCHANGED aborted
    BY <1>9, ReturnsWell, ClosesWell, DestroysWell DEF Moves, AcceptConn
  <2> QED BY <1>2, <2>1
<1>10. CASE \/ Poll \/ AcceptFails \/ SwapFunctors \/ RunListen \/ FunctorsDone
            \/ \E c \in Conns : ReadMessage(c) \/ WriteComplete(c)
  BY <1>2, <1>10 DEF Poll, AcceptFails, SwapFunctors, RunListen, FunctorsDone,
     ReadMessage, WriteComplete
<1>11. CASE \/ Start \/ PeerStep
            \/ \E c \in Conns : Keep(c) \/ Drop(c)
            \/ \E k \in Clients : ClientStep(k)
  BY <1>2, <1>11 DEF Start, PeerStep, PeerSends, PeerLeaves, Keep, Drop,
     ClientStep, ClientStarts, ClientListens, ClientTests, ClientSetsState,
     ClientQueues
<1> HIDE DEF Goal
<1> QED
  BY <1>5, <1>6, <1>7, <1>8, <1>9, <1>10, <1>11
     DEF Next, LoopStep, UserStep, Moves

\* The process ends only on account of a peer that reset, of an append that the
\* output buffer of the connection was not up to, or of a call from another thread
\* that is carried out too late: in a program of one thread whose peers do not reset
\* and whose appends the ring is up to, no assertion of TcpConnection, TcpServer or
\* the Poller fails, and no write does; those of other threads fail only after the
\* end of the stream or of the connection (TcpConnection.cpp:111, 120, 156-187).
THEOREM EndsOnReset == Spec => []EndsOnlyOnReset
<1>1. Init => EndsOnlyOnReset
  BY DEF Init, ConnInit, EndsOnlyOnReset
<1>2. TypeOK /\ LifeInv /\ OutInv /\ AloneInv /\ EndsOnlyOnReset /\ [Next]_vars
        => EndsOnlyOnReset'
  <2>1. CASE Next
    BY <2>1, EndStep DEF EndsOnlyOnReset, Excused
  <2>2. CASE UNCHANGED vars
    BY <2>2 DEF vars, EndsOnlyOnReset, connVars, sockVars, chanVars, outVars, appVars
  <2> QED BY <2>1, <2>2
<1> QED BY <1>1, <1>2, LifeCorrect, OutCorrect, AloneCorrect, PTL DEF Spec

-----------------------------------------------------------------------------
(* What the peer reads.                                                    *)

\* A sequence cut in two.
LEMMA SplitSeq ==
    ASSUME NEW s \in Seq(Nat), NEW n \in 0 .. Len(s)
    PROVE  SubSeq(s, 1, n) \o SubSeq(s, n + 1, Len(s)) = s
<1>1. Len(s) \in Nat /\ 1 \in 1 .. Len(s) + 1 /\ n \in 1 - 1 .. Len(s)
      /\ Len(s) \in n .. Len(s)
  BY LenProperties
<1>2. SubSeq(s, 1, n) \o SubSeq(s, n + 1, Len(s)) = SubSeq(s, 1, Len(s))
  BY <1>1, ConcatAdjacentSubSeq
<1> QED BY <1>2, SubSeqFull

\* Some of what waits is written, and the rest still waits.
LEMMA WriteSome ==
    ASSUME NEW w \in Seq(Nat), NEW x \in Seq(Nat), NEW y \in Seq(Nat)
    PROVE  (w \o x) \o y = w \o (x \o y)
BY ConcatAssociative, SMTT(60)

\* To w is written x, and y is queued behind o: the parts stay in their order.
KeepsOrder(w, o, x, y) == (w \o x) \o (o \o y) = (w \o o) \o (x \o y)

\* Some of a message is written, if nothing waits, and the rest waits.
LEMMA WriteOrQueue ==
    ASSUME NEW w \in Seq(Nat), NEW o \in Seq(Nat),
           NEW x \in Seq(Nat), NEW y \in Seq(Nat), x = <<>> \/ o = <<>>
    PROVE  KeepsOrder(w, o, x, y)
<1> USE DEF KeepsOrder
<1>1. x \o (o \o y) = o \o (x \o y)
  <2>1. o \o y \in Seq(Nat) /\ x \o y \in Seq(Nat)
    BY ConcatProperties
  <2>2. CASE x = <<>>
    BY <2>1, <2>2, ConcatEmptySeq
  <2>3. CASE o = <<>>
    BY <2>1, <2>3, ConcatEmptySeq
  <2> QED BY <2>2, <2>3
<1>2. o \o y \in Seq(Nat) /\ x \o y \in Seq(Nat)
  BY ConcatProperties
<1>3. (w \o x) \o (o \o y) = w \o (x \o (o \o y))
  BY <1>2, WriteSome, ZenonT(60)
<1>4. (w \o o) \o (x \o y) = w \o (o \o (x \o y))
  BY <1>2, WriteSome, ZenonT(60)
<1> QED BY <1>1, <1>3, <1>4

\* The first k bytes.
Counting(k) == [i \in 1 .. k |-> i]

LEMMA CountingType ==
    ASSUME NEW k \in Nat
    PROVE  Counting(k) \in Seq(Nat) /\ Len(Counting(k)) = k
<1>1. \A i \in 1 .. k : i \in Nat
  OBVIOUS
<1> QED BY <1>1, IsASeq DEF Counting

\* A message goes on where the bytes before it end.
LEMMA CountOn ==
    ASSUME ConnTypeOK, NEW c \in Conns, NEW len \in Lengths
    PROVE  Counting(accepted[c]) \o Message(c, len) = Counting(accepted[c] + len)
<1> DEFINE k == accepted[c]
           a == Counting(k)
           m == Message(c, len)
           b == Counting(k + len)
<1>1. k \in Nat /\ len \in Nat /\ m \in Seq(Nat) /\ Len(m) = len
  <2>1. len \in Nat /\ 0 \in 0 .. len
    BY LengthAssumption
  <2> QED BY <2>1, MessageType DEF ConnTypeOK
<1>2. /\ a \in Seq(Nat) /\ Len(a) = k
      /\ b \in Seq(Nat) /\ Len(b) = k + len
  BY <1>1, CountingType
<1>3. /\ \A i \in 1 .. k : a[i] = i
      /\ \A i \in 1 .. len : m[i] = k + i
      /\ \A i \in 1 .. k + len : b[i] = i
  BY DEF Counting, Message
<1> HIDE DEF k, a, m, b
<1>4. /\ a \o m \in Seq(Nat) /\ Len(a \o m) = k + len
      /\ \A i \in 1 .. k + len : (a \o m)[i] = IF i <= k THEN a[i] ELSE m[i - k]
  <2>1. /\ a \o m \in Seq(Nat) /\ Len(a \o m) = Len(a) + Len(m)
        /\ \A i \in 1 .. Len(a) + Len(m) :
             (a \o m)[i] = IF i <= Len(a) THEN a[i] ELSE m[i - Len(a)]
    BY <1>1, <1>2, ConcatProperties
  <2> QED BY <1>1, <1>2, <2>1
<1>5. ASSUME NEW i \in 1 .. k + len
      PROVE  (a \o m)[i] = b[i]
  <2>1. CASE i <= k
    <3>1. i \in 1 .. k
      BY <1>1, <2>1
    <3> QED BY <1>3, <1>4, <2>1, <3>1
  <2>2. CASE ~(i <= k)
    <3>1. i - k \in 1 .. len /\ k + (i - k) = i
      BY <1>1, <2>2
    <3>2. m[i - k] = i
      BY <1>3, <3>1
    <3> QED BY <1>3, <1>4, <2>2, <3>2
  <2> QED BY <2>1, <2>2
<1>6. a \o m = b
  BY <1>1, <1>2, <1>4, <1>5, SeqEqual
<1> QED BY <1>6 DEF a, m, b, k

\* What the socket took and what waits are what there was to write; the ring is not
\* wrapped, and begins at its start until something was written.
Ordered(c) ==
    /\ Unwrapped(out[c], Nat)
    /\ out[c].startIndex > 0 => Len(wire[c]) > 0
    /\ wire[c] \o Content(out[c]) = Counting(accepted[c])

OrderInv == \A c \in Conns \ overrun : Ordered(c)

\* sendInLoop keeps the order, if the ring is up to it.
LEMMA GaveOrder ==
    ASSUME TypeOK, OrderInv, NEW c \in Conns, NEW len \in Lengths,
           NEW n \in 0 .. len, Gave(c, len, n), c \notin overrun'
    PROVE  Ordered(c)'
<1> DEFINE message == Message(c, len)
           x == SubSeq(message, 1, n)
           y == SubSeq(message, n + 1, len)
           q == Content(out[c])
           b == out'[c]
<1>1. /\ message \in Seq(Nat) /\ len \in Nat /\ n \in Nat
      /\ x \in Seq(Nat) /\ Len(x) = n
      /\ y \in Seq(Nat) /\ Len(y) = len - n
      /\ n < len => y # <<>>
      /\ x \o y = message
  <2>1. ConnTypeOK
    BY DEF TypeOK
  <2>2. len \in Nat /\ n \in Nat
    BY LengthAssumption
  <2>3. /\ message \in Seq(Nat)
        /\ x \in Seq(Nat) /\ Len(x) = n
        /\ y \in Seq(Nat) /\ Len(y) = len - n
        /\ n < len => y # <<>>
        /\ x \o y = message
    <3> HIDE DEF TypeOK, OrderInv
    <3>1. /\ message \in Seq(Nat)
          /\ x \in Seq(Nat) /\ Len(x) = n
      BY <2>1, MessageType
    <3>2. /\ y \in Seq(Nat) /\ Len(y) = len - n
      BY <2>1, MessageType
    <3>3. n < len => y # <<>>
      BY <2>1, MessageType
    <3>4. x \o y = message
      BY <2>1, MessageType
    <3> QED BY <3>1, <3>2, <3>3, <3>4
  <2> QED BY <2>2, <2>3
<1>2. c \notin overrun
  BY DEF Gave
<1>3. Ordered(c) /\ Unwrapped(out[c], Nat) /\ 0 \in Nat
  BY <1>2 DEF OrderInv, Ordered
<1>4. q \in Seq(Nat) /\ wire[c] \in Seq(Nat) /\ (IsEmpty(out[c]) => q = <<>>)
  <2>1. q \in Seq(Nat) /\ Len(q) = End(out[c]) - out[c].startIndex
        /\ (IsEmpty(out[c]) <=> out[c].startIndex = End(out[c]))
    BY <1>3, ContentFacts
  <2>2. out[c].startIndex \in Nat
    BY <1>3, SizeFacts DEF Unwrapped
  <2>3. IsEmpty(out[c]) => Len(q) = 0
    BY <2>1, <2>2
  <2> HIDE DEF q
  <2> QED BY <2>1, <2>3, EmptySeq DEF TypeOK, ConnTypeOK
<1>5. x = <<>> \/ q = <<>>
  <2>1. CASE n = 0
    <3> HIDE DEF x
    <3> QED BY <1>1, <2>1, EmptySeq
  <2>2. CASE n > 0
    <3>1. Direct(c)
      BY <2>2 DEF Gave
    <3> HIDE DEF q
    <3> QED BY <1>4, <3>1 DEF Direct
  <2>3. n = 0 \/ n > 0
    BY <1>1
  <2> HIDE DEF x, q
  <2> QED BY <2>1, <2>2, <2>3
<1>6. wire'[c] = wire[c] \o x /\ wire' \in [Conns -> Seq(Nat)]
  BY <1>1, <1>2, TakesTypes DEF Gave, TypeOK
<1>7. accepted'[c] = accepted[c] + len
  BY DEF Gave, TypeOK, ConnTypeOK
<1>8. /\ Unwrapped(b, Nat) /\ Content(b) = q \o y
      /\ b.startIndex \in {0, out[c].startIndex}
  <2>1. CASE n = len /\ UNCHANGED out
    <3>1. y = <<>>
      <4> HIDE DEF y
      <4> QED BY <1>1, <2>1, EmptySeq
    <3>2. q \o <<>> = q
      BY <1>4, ConcatEmptySeq
    <3> QED BY <1>3, <2>1, <3>1, <3>2
  <2>2. CASE /\ n < len
             /\ out' = [out EXCEPT ![c] = Appended(@, y)]
             /\ overrun' = IF Overruns(out[c], Len(y)) THEN overrun \cup {c}
                           ELSE overrun
    <3>1. b = Appended(out[c], y)
      BY <2>2 DEF TypeOK, ConnTypeOK
    <3>2. ~Overruns(out[c], Len(y)) /\ y # <<>>
      BY <1>1, <2>2
    <3> HIDE DEF b, q, y
    <3>3. Content(out[c]) = q
      BY DEF q
    <3> QED BY <1>1, <1>3, <3>1, <3>2, <3>3, AppendedFacts
  <2>3. CASE overrun' = overrun \cup {c}
    BY <2>3
  <2> QED BY <2>1, <2>2, <2>3 DEF Gave
<1>9. wire'[c] \o Content(b) = Counting(accepted'[c])
  <2> HIDE DEF x, y, q, b, message
  <2>1. (wire[c] \o x) \o (q \o y) = (wire[c] \o q) \o (x \o y)
    <3>1. /\ x \in Seq(Nat) /\ y \in Seq(Nat) /\ q \in Seq(Nat)
          /\ wire[c] \in Seq(Nat)
      BY <1>1, <1>4
    <3>2. KeepsOrder(wire[c], q, x, y)
      BY <1>5, <3>1, WriteOrQueue, Zenon
    <3> QED BY <3>2 DEF KeepsOrder
  <2>2. wire[c] \o q = Counting(accepted[c])
    BY <1>3 DEF Ordered, q
  <2>3. Counting(accepted[c]) \o message = Counting(accepted[c] + len)
    BY CountOn DEF message, TypeOK
  <2>4. wire'[c] \o Content(b) = (wire[c] \o x) \o (q \o y)
    BY <1>6, <1>8
  <2>5. x \o y = message
    BY <1>1
  <2> HIDE DEF TypeOK, OrderInv
  <2> QED BY <1>7, <2>1, <2>2, <2>3, <2>4, <2>5
<1>10. b.startIndex > 0 => Len(wire'[c]) > 0
  <2>1. Len(wire'[c]) = Len(wire[c]) + n /\ Len(wire[c]) \in Nat
    <3> HIDE DEF x
    <3>1. x \in Seq(Nat) /\ Len(x) = n /\ wire[c] \in Seq(Nat)
      BY <1>1, <1>4
    <3>2. Len(wire[c] \o x) = Len(wire[c]) + n /\ Len(wire[c]) \in Nat
      BY <3>1, ConcatProperties, LenProperties
    <3> QED BY <1>6, <3>2
  <2>2. b.startIndex > 0 => Len(wire[c]) > 0
    BY <1>3, <1>8 DEF Ordered
  <2> QED BY <1>1, <2>1, <2>2
<1> QED BY <1>8, <1>9, <1>10 DEF Ordered

\* So does handleWrite.
LEMMA TookOrder ==
    ASSUME TypeOK, OrderInv, NEW c \in Conns \ overrun,
           NEW n \in 1 .. Contiguous(out[c]), Took(c, n)
    PROVE  /\ Ordered(c)' /\ n \in 1 .. Len(Content(out[c]))
           /\ Len(wire'[c]) = Len(wire[c]) + n
<1> DEFINE q == Content(out[c])
           x == SubSeq(q, 1, n)
           y == SubSeq(q, n + 1, Len(q))
           b == Retrieve(out[c], n)
<1>1. Ordered(c) /\ Unwrapped(out[c], Nat) /\ ~IsEmpty(out[c]) /\ 0 \in Nat
  BY DEF OrderInv, Ordered, Took
<1>2. /\ n \in 1 .. End(out[c]) - out[c].startIndex
      /\ n \in 1 .. Len(q)
      /\ Peek(out[c], n) = x
  BY <1>1, WriteOutFacts
<1>3. Unwrapped(b, Nat) /\ Content(b) = y
  BY <1>1, <1>2, RetrieveFacts
<1>4. q \in Seq(Nat) /\ wire[c] \in Seq(Nat)
  BY <1>1, ContentFacts DEF TypeOK, ConnTypeOK
<1>5. /\ Len(q) \in Nat /\ n \in 0 .. Len(q) /\ n \in Nat /\ n > 0
      /\ x \in Seq(Nat) /\ Len(x) = n /\ y \in Seq(Nat)
  <2> HIDE DEF q
  <2>1. Len(q) \in Nat
    BY <1>4, LenProperties
  <2>2. n \in 0 .. Len(q) /\ n \in Nat /\ n > 0
    BY <1>2, <2>1
  <2>3. \A i \in 1 .. Len(q) : q[i] \in Nat
    BY <1>4, ElementOfSeq
  <2>4. (\A i \in 1 .. n : q[i] \in Nat) /\ \A i \in n + 1 .. Len(q) : q[i] \in Nat
    BY <2>1, <2>2, <2>3
  <2>5. x \in Seq(Nat) /\ Len(x) = n
    BY <2>2, <2>4, SubSeqProperties
  <2>6. n + 1 \in Int /\ Len(q) \in Int
    BY <2>1, <2>2
  <2>7. y \in Seq(Nat)
    BY <2>4, <2>6, SubSeqProperties
  <2> QED BY <2>1, <2>2, <2>5, <2>7
<1>6. x \o y = q
  <2> HIDE DEF q
  <2> QED BY <1>4, <1>5, SplitSeq
<1>7. out'[c] = b
  BY DEF Took, TypeOK, ConnTypeOK
<1> HIDE DEF x, y, b, q
<1>8. wire'[c] = wire[c] \o x /\ accepted'[c] = accepted[c]
  BY <1>2, <1>5, TakesTypes DEF Took, TypeOK
<1>9. Len(wire'[c]) = Len(wire[c]) + n /\ Len(wire[c]) \in Nat
  BY <1>4, <1>5, <1>8, ConcatProperties, LenProperties
<1>10. wire'[c] \o Content(b) = Counting(accepted'[c])
  <2>1. (wire[c] \o x) \o y = wire[c] \o (x \o y)
    BY <1>4, <1>5, WriteSome
  <2>2. wire[c] \o q = Counting(accepted[c])
    BY <1>1 DEF Ordered, q
  <2> QED BY <1>3, <1>6, <1>8, <2>1, <2>2
<1>11. Len(wire'[c]) > 0
  BY <1>5, <1>9
<1>12. Ordered(c)'
  BY <1>3, <1>7, <1>10, <1>11 DEF Ordered
<1> QED BY <1>2, <1>9, <1>12 DEF q

\* Every step keeps the order.
LEMMA OrderStep ==
    ASSUME TypeOK, LifeInv, OrderInv, Next
    PROVE  OrderInv'
<1>1. ASSUME NEW d \in Conns, d \notin overrun, out'[d] = out[d],
             wire'[d] = wire[d], accepted'[d] = accepted[d]
      PROVE  Ordered(d)'
  BY <1>1 DEF OrderInv, Ordered
<1>2. CASE UNCHANGED outVars
  BY <1>1, <1>2 DEF OrderInv, outVars
<1>3. ASSUME NEW c \in Conns, HandleWrite(c)
      PROVE  OrderInv'
  <2>1. ASSUME NEW n \in 1 .. Contiguous(out[c]), Took(c, n),
               NEW d \in Conns \ overrun'
        PROVE  Ordered(d)'
    <3>1. d \notin overrun
      BY <2>1 DEF Took
    <3>2. CASE d = c
      BY <2>1, <3>1, <3>2, TookOrder
    <3>3. CASE d # c
      BY <1>1, <1>3, <3>1, <3>3, WriteOnlyOne
    <3> QED BY <3>2, <3>3
  <2>2. UNCHANGED outVars \/ \E n \in 1 .. Contiguous(out[c]) : Took(c, n)
    BY <1>3, WriteStep
  <2> QED BY <1>2, <2>1, <2>2 DEF OrderInv
<1>4. ASSUME NEW c \in Conns, SendInLoop(c)
      PROVE  OrderInv'
  <2>1. ASSUME NEW len \in Lengths, NEW n \in 0 .. len, Gave(c, len, n),
               NEW d \in Conns \ overrun'
        PROVE  Ordered(d)'
    <3>1. CASE d = c
      BY <2>1, <3>1, GaveOrder
    <3>2. CASE d # c
      BY <1>1, <1>4, <2>1, <3>2, SendOnlyOne
    <3> QED BY <3>1, <3>2
  <2>2. \/ UNCHANGED outVars
        \/ \E len \in Lengths : \E n \in 0 .. len : Gave(c, len, n)
    BY <1>4, SendStep
  <2> QED BY <1>2, <2>1, <2>2 DEF OrderInv
<1>5. CASE ~ \E c \in Conns : Writes(c)
  BY <1>2, <1>5, OutFrame
<1>6. ASSUME NEW c \in Conns, RunSend(c) \/ Send(c)
      PROVE  OrderInv'
  <2>1. SendInLoop(c) \/ UNCHANGED outVars
    BY <1>6 DEF RunSend, Send
  <2> QED BY <1>2, <1>4, <2>1
<1> QED BY <1>3, <1>5, <1>6 DEF Writes

\* Until an append overruns it, the ring of a connection is not wrapped and holds
\* what there was to write and the socket did not take (Buffer.h:84-171, used by
\* sendInLoop and handleWrite, TcpConnection.cpp:107-181).
THEOREM OrderCorrect == Spec => []OrderInv
<1>1. Init => OrderInv
  <2>1. Counting(0) = <<>> /\ <<>> \o <<>> = <<>>
    BY CountingType, EmptySeq, ConcatEmptySeq
  <2>2. Unwrapped(NewBuffer, Nat) /\ Content(NewBuffer) = <<>>
        /\ NewBuffer.startIndex = 0
    BY NewFacts
  <2> QED BY <2>1, <2>2 DEF Init, ConnInit, OrderInv, Ordered
<1>2. TypeOK /\ LifeInv /\ OrderInv /\ [Next]_vars => OrderInv'
  <2>1. UNCHANGED vars /\ OrderInv => OrderInv'
    BY DEF OrderInv, Ordered, vars, connVars, outVars
  <2> QED BY <2>1, OrderStep
<1> QED BY <1>1, <1>2, LifeCorrect, PTL DEF Spec

\* The socket takes the bytes in the order sendInLoop was given them, and without a
\* gap, of every connection none of whose appends overran its ring: what its peer
\* reads is a beginning of what was sent, however the writes were cut and the ring
\* grew.
THEOREM WritesInOrder == Spec => []InOrder
<1>1. OrderInv => InOrder
  BY DEF OrderInv, Ordered, InOrder, Counting
<1> QED BY <1>1, OrderCorrect, PTL

-----------------------------------------------------------------------------
(* The channels.                                                           *)

\* Only poll(2) adds to what is to be handled.
LEMMA TodoShrinks ==
    ASSUME TypeOK, Next, ~Poll
    PROVE  \A c \in Conns : todo'[c] \subseteq todo[c]
<1> DEFINE Goal == \A c \in Conns : todo'[c] \subseteq todo[c]
<1> SUFFICES Goal
  OBVIOUS
<1>1. CASE UNCHANGED todo
  BY <1>1
<1>2. ASSUME NEW c \in Conns, NEW t \in Tests,
             todo' = [todo EXCEPT ![c] = @ \ {t}]
      PROVE  Goal
  BY <1>2 DEF TypeOK, LoopTypeOK
<1>3. ASSUME NEW c \in Conns,
             Close(c) \/ ReadMessage(c) \/ ReadEnd(c) \/ HandleWrite(c)
      PROVE  Goal
  BY <1>2, <1>3 DEF Close, ReadMessage, ReadEnd, HandleWrite, Handled, Tests
<1>4. CASE Quiet
  BY <1>1, <1>4, QuietFrame
<1>5. CASE \/ CallbackReturns \/ SwapFunctors \/ RunListen \/ FunctorsDone
           \/ \E c \in Conns :
                \/ AcceptConn(c) \/ ConnectDestroyed(c) \/ WriteComplete(c)
                \/ RunSend(c) \/ RunShutdown(c) \/ Send(c) \/ Shutdown(c)
           \/ \E k \in Clients :
                \/ ClientStarts(k) \/ ClientListens(k)
                \/ \E c \in Conns : ClientSetsState(k, c) \/ ClientQueues(k, c)
  <2>1. UNCHANGED todo
    BY <1>5 DEF CallbackReturns, SwapFunctors, RunListen, FunctorsDone,
       AcceptConn, ConnectDestroyed, WriteComplete, RunSend, RunShutdown, Send,
       Shutdown, ClientStarts, ClientListens, ClientSetsState, ClientQueues,
       loopVars
  <2> QED BY <1>1, <2>1
<1> HIDE DEF Goal
<1> QED
  BY <1>3, <1>4, <1>5
     DEF Next, LoopStep, UserStep, ClientStep, PeerStep, Quiet

\* The connection of a write has a channel, and what it asks for may change.
LEMMA WritesAsk ==
    ASSUME TypeOK, LifeInv, NEW c \in Conns, Writes(c)
    PROVE  /\ chan[c] # "new"
           /\ UNCHANGED chan
           /\ \/ UNCHANGED events
              \/ \E evts \in {events[c] \cup {"out"}, events[c] \ {"out"}} :
                   events' = [events EXCEPT ![c] = evts]
<1>1. CASE HandleWrite(c)
  <2>1. chan[c] # "new"
    BY <1>1 DEF HandleWrite, Turn, LifeInv, ReportInv
  <2>2. UNCHANGED chan
    BY <1>1 DEF HandleWrite
  <2>3. UNCHANGED events \/ events' = [events EXCEPT ![c] = events[c] \ {"out"}]
    <3>1. ASSUME NEW n \in 1 .. Contiguous(out[c]), Took(c, n)
          PROVE  UNCHANGED events \/ events' = [events EXCEPT ![c] = events[c] \ {"out"}]
      BY <3>1 DEF Took
    <3> QED BY <1>1, <3>1, WriteStep
  <2> QED BY <2>1, <2>2, <2>3
<1>2. ASSUME SendInLoop(c)
      PROVE  \/ UNCHANGED events
             \/ events' = [events EXCEPT ![c] = events[c] \cup {"out"}]
  <2>1. ASSUME NEW len \in Lengths, NEW n \in 0 .. len, Gave(c, len, n)
        PROVE  \/ UNCHANGED events
               \/ events' = [events EXCEPT ![c] = events[c] \cup {"out"}]
    BY <2>1 DEF Gave
  <2> QED BY <1>2, <2>1, SendStep
<1>3. CASE RunSend(c)
  <2>1. Functor("send", c) \in Range(Queue)
    BY <1>3, QueueOps, TailFacts DEF RunSend, Runs, TypeOK
  <2>2. chan[c] # "new"
    BY <2>1, ConnAssumption DEF Functor, Known, LifeInv, NamedInv
  <2> QED BY <1>2, <1>3, <2>2 DEF RunSend
<1>4. CASE Send(c)
  <2>1. chan[c] # "new"
    BY <1>4 DEF Send, InHand, Known, LifeInv, NamedInv
  <2> QED BY <1>2, <1>4, <2>1 DEF Send
<1> QED BY <1>1, <1>3, <1>4 DEF Writes

\* A watched channel waits for something to read: it never comes to ask for
\* nothing but by disableAll.
ReadsInv == \A c \in Conns : chan[c] = "watched" => "in" \in events[c]

LEMMA ReadsStep ==
    ASSUME TypeOK, LifeInv, ReadsInv, Next
    PROVE  ReadsInv'
<1> USE DEF ReadsInv, TypeOK, ConnTypeOK
<1>1. CASE CallbackReturns
  BY <1>1, ReturnsWell
<1>2. ASSUME NEW c \in Conns, Close(c) \/ ReadEnd(c)
      PROVE  ReadsInv'
  <2>1. DisableAll(c)
    BY <1>2, ClosesWell
  <2> QED BY <2>1 DEF DisableAll
<1>3. ASSUME NEW c \in Conns, ConnectDestroyed(c)
      PROVE  ReadsInv'
  <2>1. DisableAll(c)
    BY <1>3, DestroysWell
  <2> QED BY <2>1 DEF DisableAll
<1>4. ASSUME NEW c \in Conns, AcceptConn(c)
      PROVE  ReadsInv'
  BY <1>4 DEF AcceptConn
<1>5. CASE ~Moves /\ ~ \E c \in Conns : Writes(c)
  BY <1>5, StaysPut, OutFrame
<1>6. ASSUME NEW c \in Conns, Writes(c)
      PROVE  ReadsInv'
  <2>1. UNCHANGED chan
    BY <1>6, WritesAsk
  <2>2. CASE UNCHANGED events
    BY <2>1, <2>2
  <2>3. ASSUME NEW evts \in {events[c] \cup {"out"}, events[c] \ {"out"}},
               events' = [events EXCEPT ![c] = evts]
        PROVE  ReadsInv'
    <3>1. "in" \in events[c] => "in" \in evts
      BY <2>3
    <3> QED BY <2>1, <2>3, <3>1
  <2> QED BY <1>6, <2>2, <2>3, WritesAsk
<1> QED BY <1>1, <1>2, <1>3, <1>4, <1>5, <1>6 DEF Moves

\* A connection that was not closed is read (TcpConnection.cpp:57-68): no step but
\* handleClose and connectDestroyed stops asking for what comes in.
THEOREM WatchedIsRead == Spec => []ReadsInv
<1>1. Init => ReadsInv
  BY DEF Init, ConnInit, ReadsInv
<1>2. TypeOK /\ LifeInv /\ ReadsInv /\ [Next]_vars => ReadsInv'
  <2>1. UNCHANGED vars /\ ReadsInv => ReadsInv'
    BY DEF ReadsInv, vars, connVars, chanVars
  <2> QED BY <2>1, ReadsStep
<1> QED BY <1>1, <1>2, LifeCorrect, PTL DEF Spec

\* What the Poller knows of the channels when none of them changes.
LEMMA NothingAsked ==
    ASSUME UNCHANGED <<chan, events>>
    PROVE  UNCHANGED <<chan, [c \in Conns |-> Asked(c)]>>
BY DEF Asked

LEMMA ReportedShrinks ==
    ASSUME TypeOK, Next, ~Poll
    PROVE  Reported' \subseteq Reported
BY TodoShrinks DEF Reported

\* Outside the dispatch nothing is reported.
LEMMA NoneReported ==
    ASSUME TypeOK, stage # "events"
    PROVE  Reported = {}
BY DEF Reported, TypeOK, LoopTypeOK

\* A change of what one channel asks for.
LEMMA AsksWell ==
    ASSUME ConnTypeOK, ReadsInv, NEW c \in Conns, chan[c] # "new",
           NEW evts \in {events[c] \cup {"out"}, events[c] \ {"out"}},
           events' = [events EXCEPT ![c] = evts], UNCHANGED chan,
           Reported' \subseteq Reported
    PROVE  Uses!Next
<1>1. evts \in SUBSET {"in", "out"}
  BY DEF ConnTypeOK
<1>2. Uses!Handles
  BY DEF Uses!Handles
<1>3. CASE chan[c] = "removed"
  <2>1. UNCHANGED [d \in Conns |-> Asked(d)]
    BY <1>3 DEF Asked, ConnTypeOK
  <2> QED BY <1>2, <2>1 DEF Uses!Next
<1>4. CASE chan[c] \in {"watched", "quiet"}
  <2>1. /\ Asked(c)' = evts
        /\ \A d \in Conns \ {c} : Asked(d)' = Asked(d)
    BY <1>4 DEF Asked, ConnTypeOK
  <2>2. [d \in Conns |-> Asked(d)]' = [[d \in Conns |-> Asked(d)] EXCEPT ![c] = evts]
    BY <2>1
  <2>3. CASE evts = {}
    <3>1. chan[c] = "quiet"
      BY <1>4, <2>3 DEF ReadsInv
    <3>2. chan' = [chan EXCEPT ![c] = "quiet"]
      BY <3>1 DEF ConnTypeOK
    <3> QED
      BY <1>2, <1>4, <2>2, <2>3, <3>2
         DEF Uses!Next, Uses!Disables, Uses!Known, Uses!Becomes, Uses!AsksFor
  <2>4. CASE evts # {}
    <3>1. evts \in (SUBSET {"in", "out"}) \ {{}}
      BY <1>1, <2>4
    <3> QED
      BY <1>2, <1>4, <2>2, <3>1
         DEF Uses!Next, Uses!Changes, Uses!Known, Uses!AsksFor, Uses!Something
  <2> QED BY <2>3, <2>4
<1> QED BY <1>3, <1>4 DEF ConnTypeOK

\* Every step is one that Registry allows the owners of channels.
LEMMA UsesStep ==
    ASSUME TypeOK, LifeInv, ReadsInv, [Next]_vars
    PROVE  [Uses!Next]_(Uses!registryVars)
<1> USE DEF TypeOK
<1>1. ASSUME Next, ~Poll
      PROVE  Uses!Handles
  BY <1>1, ReportedShrinks DEF Uses!Handles
<1>2. CASE CallbackReturns
  <2>1. Reported' = Reported
    BY <1>2, ReturnsWell DEF Reported
  <2>2. CASE callback = "down"
    <3>1. /\ self \in Conns /\ Destroying(self)
          /\ chan' = [chan EXCEPT ![self] = "removed"]
          /\ UNCHANGED events
      BY <1>2, <2>2, ReturnsWell
    <3>2. chan[self] = "quiet" /\ events[self] = {} /\ stage = "functors"
      BY <2>2, <3>1 DEF LifeInv, StateInv, LoopInv
    <3>3. \A c \in Conns : Asked(c)' = Asked(c)
      BY <3>1, <3>2 DEF Asked, ConnTypeOK
    <3>4. Asked(self) = {} /\ Reported = {}
      BY <3>1, <3>2, NoneReported DEF Asked
    <3>5. Uses!Removes(self)
      BY <2>1, <3>1, <3>2, <3>3, <3>4 DEF Uses!Removes, Uses!Becomes
    <3> QED BY <3>1, <3>5 DEF Uses!Next
  <2>3. CASE callback # "down"
    <3>1. UNCHANGED <<chan, events>>
      BY <1>2, <2>3, ReturnsWell
    <3> QED BY <2>1, <3>1, NothingAsked DEF Uses!registryVars
  <2> QED BY <2>2, <2>3
<1>3. ASSUME NEW c \in Conns, AcceptConn(c)
      PROVE  Uses!Next
  <2>1. chan[c] = "new"
    BY <1>3 DEF AcceptConn, LifeInv, StateInv
  <2>2. /\ chan' = [chan EXCEPT ![c] = "watched"]
        /\ events' = [events EXCEPT ![c] = {"in"}]
        /\ UNCHANGED todo
    BY <1>3 DEF AcceptConn
  <2>3. [d \in Conns |-> Asked(d)]' = [[d \in Conns |-> Asked(d)] EXCEPT ![c] = {"in"}]
    BY <2>1, <2>2 DEF Asked, ConnTypeOK
  <2>4. Uses!Handles
    BY <2>2 DEF Uses!Handles, Reported
  <2>5. {"in"} \in (SUBSET {"in", "out"}) \ {{}}
    OBVIOUS
  <2> QED
    BY <2>1, <2>2, <2>3, <2>4, <2>5
       DEF Uses!Next, Uses!Adds, Uses!Becomes, Uses!AsksFor, Uses!Something
<1>4. ASSUME NEW c \in Conns, chan[c] \in {"watched", "quiet"}, DisableAll(c),
             Uses!Handles
      PROVE  Uses!Next
  <2>1. [d \in Conns |-> Asked(d)]' = [[d \in Conns |-> Asked(d)] EXCEPT ![c] = {}]
    BY <1>4 DEF DisableAll, Asked, ConnTypeOK
  <2> QED
    BY <1>4, <2>1
       DEF DisableAll, Uses!Next, Uses!Disables, Uses!Known, Uses!Becomes,
           Uses!AsksFor
<1>5. ASSUME NEW c \in Conns, Close(c) \/ ReadEnd(c)
      PROVE  Uses!Next
  <2>1. chan[c] = "watched" /\ DisableAll(c)
    BY <1>5, ClosesWell
  <2>2. Uses!Handles
    <3>1. \A d \in Conns : todo'[d] \subseteq todo[d]
      BY <1>5, ClosesWell DEF LoopTypeOK
    <3> QED BY <3>1 DEF Uses!Handles, Reported
  <2> QED BY <1>4, <2>1, <2>2
<1>6. ASSUME NEW c \in Conns, ConnectDestroyed(c)
      PROVE  Uses!Next
  <2>1. chan[c] = "quiet" /\ DisableAll(c) /\ UNCHANGED todo
    BY <1>6, DestroysWell
  <2>2. Uses!Handles
    BY <2>1 DEF Uses!Handles, Reported
  <2> QED BY <1>4, <2>1, <2>2
<1>7. CASE Poll
  <2>1. Reported = {}
    BY <1>7, NoneReported DEF Poll
  <2>2. \A c \in Conns : todo'[c] # {} => chan[c] = "watched"
    BY <1>7 DEF Poll, Reports
  <2>3. UNCHANGED <<chan, events>>
    BY <1>7 DEF Poll, connVars, chanVars
  <2>4. Uses!Reports
    BY <2>1, <2>2, <2>3, NothingAsked DEF Uses!Reports, Reported
  <2> QED BY <2>4 DEF Uses!Next
<1>8. ASSUME NEW c \in Conns, Writes(c), Next, ~Poll
      PROVE  [Uses!Next]_(Uses!registryVars)
  <2>1. Reported' \subseteq Reported
    BY <1>8, ReportedShrinks
  <2>2. CASE UNCHANGED events
    BY <1>1, <1>8, <2>2, WritesAsk, NothingAsked DEF Uses!Next
  <2>3. CASE ~UNCHANGED events
    BY <1>8, <2>1, <2>3, WritesAsk, AsksWell
  <2> QED BY <2>2, <2>3
<1>9. CASE Next /\ ~Poll /\ ~Moves /\ ~ \E c \in Conns : Writes(c)
  <2>1. UNCHANGED <<chan, events>>
    BY <1>9, StaysPut, OutFrame
  <2> QED BY <1>1, <1>9, <2>1, NothingAsked DEF Uses!Next
<1>10. CASE UNCHANGED vars
  <2>1. UNCHANGED <<chan, events, todo>>
    BY <1>10 DEF vars, loopVars, connVars, chanVars
  <2> QED BY <2>1, NothingAsked DEF Reported, Uses!registryVars
<1> QED
  BY <1>2, <1>3, <1>5, <1>6, <1>7, <1>8, <1>9, <1>10 DEF Moves

\* The connections use their channels as the Poller's users have to: PollerProofs
\* says what they may then rely on (TcpConnection.cpp:57-181).
THEOREM ConnectionsUseRegistry == Spec => UsesRegistry
<1>1. Init => Uses!Init
  <2> SUFFICES ASSUME Init PROVE Uses!Init
    OBVIOUS
  <2>1. TypeOK /\ stage # "events"
    BY TypeInit DEF Init
  <2>2. Reported = {}
    BY <2>1, NoneReported
  <2> QED BY <2>2 DEF Init, ConnInit, Asked, Uses!Init
<1> QED
  BY <1>1, UsesStep, LifeCorrect, WatchedIsRead, PTL
     DEF Spec, UsesRegistry, Uses!Spec

-----------------------------------------------------------------------------
(* The sessions.                                                           *)

\* Who is to be told that everything is written, as the queue grows and shrinks.
LEMMA DueStays ==
    ASSUME Range(Queue') = Range(Queue)
    PROVE  Due' = Due
BY DEF Due

LEMMA DuePushed ==
    ASSUME TypeOK, NEW f \in Functors,
           pending' = Append(pending, f), UNCHANGED batch
    PROVE  /\ f.op # "complete" => Due' = Due
           /\ \A c \in Conns : f = Functor("complete", c) => Due' = Due \cup {c}
<1>1. Range(Queue') = Range(Queue) \cup {f}
  BY Pushed DEF TypeOK
<1> HIDE DEF Queue
<1> QED BY <1>1 DEF Due, Functor

LEMMA DueRuns ==
    ASSUME TypeOK, NEW c, NEW op, Runs(op, c), UNCHANGED pending
    PROVE  /\ op # "complete" => Due' = Due
           /\ op = "complete" /\ c \in Conns =>
                c \in Due /\ Due' \in {Due, Due \ {c}}
<1>1. Range(Queue) = {Functor(op, c)} \cup Range(Queue')
  BY Popped DEF Runs, TypeOK
<1>2. /\ Due' \subseteq Due
      /\ \A d \in Due : d \in Due' \/ Functor(op, c) = Functor("complete", d)
  BY <1>1 DEF Due
<1>3. op = "complete" /\ c \in Conns => c \in Due
  BY <1>1 DEF Due
<1> HIDE DEF Due
<1> QED BY <1>2, <1>3 DEF Functor

LEMMA DueSends ==
    ASSUME TypeOK, NEW c \in Conns, Runs("send", c),
           pending' = Append(pending, Functor("complete", c))
    PROVE  Due' = Due \cup {c}
<1>1. Functor("complete", c) \in Functors
  BY FunctorType
<1>2. /\ Range(Queue) \subseteq {Functor("send", c)} \cup Range(Queue')
      /\ Range(Queue') \subseteq Range(Queue) \cup {Functor("complete", c)}
      /\ Functor("complete", c) \in Range(Queue')
  BY <1>1, PoppedPushed DEF Runs, TypeOK
<1>3. ASSUME NEW d \in Conns
      PROVE  /\ Functor("complete", d) # Functor("send", c)
             /\ Functor("complete", d) = Functor("complete", c) => d = c
  BY DEF Functor
<1> QED BY <1>2, <1>3 DEF Due

\* What is not yet written of what was given is what waits in the buffer.
LEMMA BacklogIs ==
    ASSUME NEW w \in Seq(Nat), NEW b, Unwrapped(b, Nat), NEW k \in Nat,
           w \o Content(b) = Counting(k)
    PROVE  /\ k - Len(w) = Len(Content(b)) /\ Len(Content(b)) \in Nat
           /\ IsEmpty(b) <=> Len(Content(b)) = 0
<1> DEFINE q == Content(b)
<1>1. /\ q \in Seq(Nat) /\ Len(q) = End(b) - b.startIndex
      /\ IsEmpty(b) <=> b.startIndex = End(b)
      /\ End(b) \in Nat /\ b.startIndex \in Nat
  <2>1. 0 \in Nat /\ IsRing(b, Nat)
    BY DEF Unwrapped
  <2>2. b.startIndex \in Nat /\ BufferSize(b) \in Nat
    BY <2>1, SizeFacts
  <2>3. /\ q \in Seq(Nat) /\ Len(q) = End(b) - b.startIndex
        /\ IsEmpty(b) <=> b.startIndex = End(b)
        /\ End(b) \in 0 .. BufferSize(b)
    BY <2>1, ContentFacts
  <2> QED BY <2>2, <2>3
<1>2. /\ Len(w) \in Nat /\ Len(q) \in Nat /\ Len(w \o q) = Len(w) + Len(q)
  <2> HIDE DEF q
  <2> QED BY <1>1, ConcatProperties, LenProperties
<1>3. Len(w \o q) = k
  BY CountingType
<1> HIDE DEF q
<1>4. k - Len(w) = Len(q) /\ Len(q) \in Nat
  BY <1>2, <1>3
<1>5. IsEmpty(b) <=> Len(q) = 0
  BY <1>1
<1> QED BY <1>4, <1>5 DEF q

LEMMA Backlog ==
    ASSUME TypeOK, OrderInv, NEW c \in Conns \ overrun
    PROVE  /\ Served!Backlog(c) = Len(Content(out[c]))
           /\ Served!Backlog(c) \in Nat
           /\ IsEmpty(out[c]) <=> Served!Backlog(c) = 0
<1>1. /\ wire[c] \in Seq(Nat) /\ accepted[c] \in Nat
      /\ Unwrapped(out[c], Nat) /\ wire[c] \o Content(out[c]) = Counting(accepted[c])
  BY DEF TypeOK, ConnTypeOK, OrderInv, Ordered
<1>2. Served!Backlog(c) = accepted[c] - Len(wire[c])
  BY DEF Served!Backlog, Sent
<1> QED BY <1>1, <1>2, BacklogIs

LEMMA BacklogNext ==
    ASSUME TypeOK', OrderInv', NEW c \in Conns \ overrun'
    PROVE  /\ Served!Backlog(c)' \in Nat
           /\ IsEmpty(out'[c]) <=> Served!Backlog(c)' = 0
<1>1. /\ wire'[c] \in Seq(Nat) /\ accepted'[c] \in Nat
      /\ Unwrapped(out'[c], Nat)
      /\ wire'[c] \o Content(out'[c]) = Counting(accepted'[c])
  BY DEF TypeOK, ConnTypeOK, OrderInv, Ordered
<1>2. Served!Backlog(c)' = accepted'[c] - Len(wire'[c])
  BY DEF Served!Backlog, Sent
<1> QED BY <1>1, <1>2, BacklogIs

\* What the user sees of the lives of the connections, and of their callbacks.
LEMMA LifeStays ==
    ASSUME UNCHANGED chan, \A c \in Conns : Destroying(c)' <=> Destroying(c)
    PROVE  [c \in Conns |-> Life(c)]' = [c \in Conns |-> Life(c)]
BY DEF Life, Destroying

LEMMA UserStays ==
    ASSUME UNCHANGED callback, callback # "none" => UNCHANGED self
    PROVE  User' = User /\ \A c \in Conns : Destroying(c)' <=> Destroying(c)
BY DEF User, Destroying

\* A step of the life of one connection.
LEMMA LifeGoes ==
    ASSUME NEW c \in Conns, NEW from, NEW to, Life(c) = from, Life(c)' = to,
           \A d \in Conns \ {c} : Life(d)' = Life(d)
    PROVE  Served!Goes(c, from, to)
BY DEF Served!Goes

LEMMA LifeOf ==
    ASSUME TypeOK, LifeInv, NEW c \in Conns
    PROVE  /\ Life(c) = "none" <=> chan[c] = "new"
           /\ Life(c) = "open" <=> chan[c] = "watched"
           /\ Life(c) = "closing" <=> chan[c] = "quiet" /\ ~Destroying(c)
           /\ Life(c) = "down" <=> chan[c] = "removed" \/ Destroying(c)
BY DEF Life, Destroying, LifeInv, StateInv, TypeOK, ConnTypeOK

\* The socket took bytes of one connection.
LEMMA SentGrows ==
    ASSUME NEW c \in Conns, \A d \in Conns \ {c} : wire'[d] = wire[d]
    PROVE  LET sent == [d \in Conns |-> Sent(d)]
           IN  /\ sent' = [sent EXCEPT ![c] = sent'[c]]
               /\ \A n : Len(wire'[c]) = Len(wire[c]) + n =>
                           sent' = [sent EXCEPT ![c] = @ + n]
<1> DEFINE sent == [d \in Conns |-> Sent(d)]
<1>1. \A d \in Conns \ {c} : Sent(d)' = Sent(d)
  BY DEF Sent
<1>2. sent' = [sent EXCEPT ![c] = sent'[c]]
  BY <1>1
<1>3. ASSUME NEW n, Len(wire'[c]) = Len(wire[c]) + n
      PROVE  sent' = [sent EXCEPT ![c] = @ + n]
  <2>1. Sent(c)' = Sent(c) + n
    BY <1>3 DEF Sent
  <2> QED BY <1>1, <2>1
<1> QED BY <1>2, <1>3

\* A step at the output of a connection whose ring was or is overrun.
LEMMA Stray ==
    ASSUME TypeOK, NEW c \in Conns,
           c \in overrun \/ Len(wire[c]) > 0,
           overrun' = overrun \cup {c},
           \A d \in Conns \ {c} : wire'[d] = wire[d],
           UNCHANGED accepted \/ \E len : accepted' = [accepted EXCEPT ![c] = @ + len],
           wrShut' \in {wrShut, [wrShut EXCEPT ![c] = TRUE]},
           Due' \in {Due, Due \cup {c}},
           [d \in Conns |-> Life(d)]' = [d \in Conns |-> Life(d)],
           UNCHANGED callback, User' = User
    PROVE  Served!Next
<1> DEFINE sent == [d \in Conns |-> Sent(d)]
<1>1. sent' = [sent EXCEPT ![c] = sent'[c]]
  BY SentGrows
<1>2. c \in overrun \/ sent[c] > 0
  BY DEF Sent
<1>3. accepted' = [accepted EXCEPT ![c] = accepted'[c]]
  BY DEF TypeOK, ConnTypeOK
<1>4. wrShut' = [wrShut EXCEPT ![c] = wrShut'[c]]
  BY DEF TypeOK, ConnTypeOK
<1>5. Served!Strays(c)
  BY <1>1, <1>2, <1>3, <1>4 DEF Served!Strays
<1> QED BY <1>5 DEF Served!Next

\* handleWrite writes a part of the backlog.
LEMMA WritesWell ==
    ASSUME TypeOK, TypeOK', LifeInv, OrderInv, OrderInv',
           NEW c \in Conns, HandleWrite(c)
    PROVE  [Served!Next]_(Served!sessionVars)
<1>1. /\ callback = "none" /\ UNCHANGED <<callback, chan, batch>>
      /\ chan[c] # "new"
  BY DEF HandleWrite, Turn, Handled, LifeInv, ReportInv
<1>2. /\ User' = User /\ Life(c) # "none"
      /\ [d \in Conns |-> Life(d)]' = [d \in Conns |-> Life(d)]
  BY <1>1, UserStays, LifeStays, LifeOf
<1>3. CASE UNCHANGED <<outVars, events, pending, wrShut>>
  <2>1. Queue' = Queue
    BY <1>1, <1>3 DEF Queue
  <2>2. Due' = Due
    BY <2>1, DueStays
  <2>3. [d \in Conns |-> Sent(d)]' = [d \in Conns |-> Sent(d)]
    BY <1>3 DEF Sent, outVars
  <2> QED BY <1>1, <1>2, <1>3, <2>2, <2>3 DEF Served!sessionVars, outVars
<1>4. ASSUME NEW n \in 1 .. Contiguous(out[c]), Took(c, n)
      PROVE  Served!Next
  <2>1. /\ ~wrShut[c] /\ UNCHANGED <<accepted, overrun>>
        /\ IsEmpty(out'[c]) =>
             /\ pending' = Append(pending, Functor("complete", c))
             /\ wrShut' \in {wrShut, [wrShut EXCEPT ![c] = TRUE]}
        /\ ~IsEmpty(out'[c]) => UNCHANGED <<pending, wrShut>>
    BY <1>4 DEF Took
  <2>2. \A d \in Conns \ {c} : wire'[d] = wire[d]
    BY WriteOnlyOne
  <2>3. Due' = IF IsEmpty(out'[c]) THEN Due \cup {c} ELSE Due
    <3>1. CASE IsEmpty(out'[c])
      BY <1>1, <2>1, <3>1, DuePushed, FunctorType
    <3>2. CASE ~IsEmpty(out'[c])
      <4>1. Queue' = Queue
        BY <1>1, <2>1, <3>2 DEF Queue
      <4> QED BY <3>2, <4>1, DueStays
    <3> QED BY <3>1, <3>2
  <2>4. CASE c \in overrun
    <3>1. /\ wrShut' \in {wrShut, [wrShut EXCEPT ![c] = TRUE]}
          /\ Due' \in {Due, Due \cup {c}}
          /\ overrun' = overrun \cup {c}
      BY <2>1, <2>3, <2>4
    <3> QED BY <1>1, <1>2, <2>1, <2>2, <2>4, <3>1, Stray
  <2>5. CASE c \notin overrun
    <3> DEFINE sent == [d \in Conns |-> Sent(d)]
    <3>1. /\ n \in 1 .. Len(Content(out[c]))
          /\ Len(wire'[c]) = Len(wire[c]) + n
      BY <1>4, <2>5, TookOrder
    <3>2. sent' = [sent EXCEPT ![c] = @ + n]
      BY <2>2, <3>1, SentGrows
    <3>3. n \in 1 .. Served!Backlog(c)
      BY <2>5, <3>1, Backlog
    <3>4. IsEmpty(out'[c]) <=> Served!Backlog(c)' = 0
      BY <2>1, <2>5, BacklogNext
    <3>5. Served!Owes(c)
      BY <2>3, <3>4 DEF Served!Owes
    <3>6. UNCHANGED wrShut \/ (Served!Backlog(c)' = 0
                               /\ wrShut' = [wrShut EXCEPT ![c] = TRUE])
      BY <2>1, <3>4
    <3>7. [d \in Conns |-> Life(d)][c] # "none" /\ UNCHANGED callback
      BY <1>1, <1>2
    <3>8. Served!Writes(c)
      BY <1>2, <2>1, <3>2, <3>3, <3>5, <3>6, <3>7 DEF Served!Writes
    <3> QED BY <3>8 DEF Served!Next
  <2> QED BY <2>4, <2>5
<1> QED BY <1>3, <1>4, WriteStep

\* sendInLoop gives a message more.
LEMMA GivesWell ==
    ASSUME TypeOK, TypeOK', LifeInv, OrderInv, OrderInv',
           NEW c \in Conns, SendInLoop(c), chan[c] # "new",
           UNCHANGED <<chan, wrShut, callback, self>>,
           UNCHANGED pending => Due' = Due,
           pending' = Append(pending, Functor("complete", c)) =>
             Due' = Due \cup {c}
    PROVE  [Served!Next]_(Served!sessionVars)
<1>1. /\ User' = User /\ Life(c) # "none"
      /\ [d \in Conns |-> Life(d)]' = [d \in Conns |-> Life(d)]
  BY UserStays, LifeStays, LifeOf
<1>2. CASE UNCHANGED <<outVars, events, pending>>
  <2>1. [d \in Conns |-> Sent(d)]' = [d \in Conns |-> Sent(d)]
    BY <1>2 DEF Sent, outVars
  <2> QED BY <1>1, <1>2, <2>1 DEF Served!sessionVars, outVars
<1>3. ASSUME NEW len \in Lengths, NEW n \in 0 .. len, Gave(c, len, n)
      PROVE  Served!Next
  <2> DEFINE rest == SubSeq(Message(c, len), n + 1, len)
             sent == [d \in Conns |-> Sent(d)]
  <2>1. /\ len \in Nat /\ n \in Nat /\ Len(rest) = len - n
        /\ n < len => rest # <<>>
        /\ SubSeq(Message(c, len), 1, n) \in Seq(Nat)
        /\ Len(SubSeq(Message(c, len), 1, n)) = n
    <3>1. ConnTypeOK /\ len \in Nat
      BY LengthAssumption DEF TypeOK
    <3> HIDE DEF TypeOK, OrderInv, LifeInv
    <3>2. Len(rest) = len - n
      BY <3>1, MessageType
    <3>3. n < len => rest # <<>>
      <4> HIDE DEF rest
      <4> QED BY <3>1, <3>2, EmptySeq
    <3>4. /\ SubSeq(Message(c, len), 1, n) \in Seq(Nat)
          /\ Len(SubSeq(Message(c, len), 1, n)) = n
      BY <3>1, MessageType
    <3> QED BY <3>1, <3>2, <3>3, <3>4
  <2> HIDE DEF rest
  <2>2. /\ n > 0 => Direct(c) /\ ~wrShut[c]
        /\ Takes(c, SubSeq(Message(c, len), 1, n))
        /\ accepted' = [accepted EXCEPT ![c] = @ + len]
    BY <1>3 DEF Gave
  <2>3. \/ /\ n = len
           /\ pending' = Append(pending, Functor("complete", c))
           /\ UNCHANGED overrun
        \/ /\ n < len
           /\ UNCHANGED <<pending, overrun>>
           /\ c \notin overrun' => ~IsEmpty(out'[c])
        \/ /\ n < len
           /\ UNCHANGED pending
           /\ overrun' = overrun \cup {c}
           /\ \/ SpaceFails(out[c], Len(rest)) \/ CopyIsUndefined(out[c], Len(rest))
              \/ Overruns(out[c], Len(rest))
    <3>1. CASE /\ n < len
               /\ out' = [out EXCEPT ![c] = Appended(@, rest)]
               /\ overrun' = IF Overruns(out[c], Len(rest)) THEN overrun \cup {c}
                             ELSE overrun
               /\ UNCHANGED pending
      <4>1. CASE Overruns(out[c], Len(rest))
        BY <3>1, <4>1
      <4>2. CASE ~Overruns(out[c], Len(rest))
        <5>1. IsRing(out[c], Nat) /\ out'[c] = Appended(out[c], rest) /\ 0 \in Nat
          BY <3>1 DEF TypeOK, ConnTypeOK
        <5>2. rest \in Seq(Nat) /\ rest # <<>>
          <6>1. ConnTypeOK
            BY DEF TypeOK
          <6> HIDE DEF TypeOK, OrderInv, LifeInv
          <6> QED BY <2>1, <3>1, <6>1, MessageType DEF rest
        <5>3. ~IsEmpty(out'[c])
          BY <5>1, <5>2, AppendedTypes
        <5> QED BY <3>1, <4>2, <5>3
      <4> QED BY <4>1, <4>2
    <3> QED BY <1>3, <3>1 DEF Gave, rest
  <2>4. \A d \in Conns \ {c} : wire'[d] = wire[d]
    BY SendOnlyOne
  <2>5. /\ n = len => Due' = Due \cup {c}
        /\ n < len => Due' = Due
    BY <2>1, <2>3
  <2>6. CASE c \in overrun'
    <3>1. c \in overrun \/ Len(wire[c]) > 0
      <4>1. CASE c \notin overrun
        <5>1. /\ Unwrapped(out[c], Nat) /\ 0 \in Nat
              /\ out[c].startIndex > 0 => Len(wire[c]) > 0
          BY <4>1 DEF OrderInv, Ordered
        <5>2. /\ \/ SpaceFails(out[c], Len(rest)) \/ CopyIsUndefined(out[c], Len(rest))
                 \/ Overruns(out[c], Len(rest))
              /\ Len(rest) \in Nat
          BY <2>1, <2>3, <2>6, <4>1
        <5>3. out[c].startIndex > 0
          BY <5>1, <5>2, OverrunFacts
        <5> QED BY <5>1, <5>3
      <4> QED BY <4>1
    <3>2. overrun' = overrun \cup {c}
      BY <2>3, <2>6
    <3>3. Due' \in {Due, Due \cup {c}}
      BY <2>1, <2>5
    <3>4. wrShut' \in {wrShut, [wrShut EXCEPT ![c] = TRUE]}
      OBVIOUS
    <3> QED BY <1>1, <2>2, <2>4, <3>1, <3>2, <3>3, <3>4, Stray
  <2>7. CASE c \notin overrun'
    <3>1. c \notin overrun /\ UNCHANGED overrun
      BY <2>3, <2>7
    <3>2. Len(wire'[c]) = Len(wire[c]) + n /\ Len(wire[c]) \in Nat
      <4> DEFINE x == SubSeq(Message(c, len), 1, n)
      <4>1. x \in Seq(Nat) /\ Len(x) = n /\ wire[c] \in Seq(Nat)
        BY <2>1 DEF TypeOK, ConnTypeOK
      <4> HIDE DEF x
      <4>2. wire'[c] = wire[c] \o x
        BY <2>2, <3>1, <4>1, TakesTypes DEF TypeOK, x
      <4> QED BY <4>1, <4>2, ConcatProperties, LenProperties
    <3>3. sent' = [sent EXCEPT ![c] = @ + n]
      BY <2>4, <3>2, SentGrows
    <3>4. n > 0 => Served!Backlog(c) = 0 /\ ~wrShut[c]
      BY <2>2, <3>1, Backlog DEF Direct
    <3>5. /\ Served!Backlog(c) \in Nat /\ Served!Backlog(c)' \in Nat
          /\ IsEmpty(out'[c]) <=> Served!Backlog(c)' = 0
          /\ Served!Backlog(c)' = (Served!Backlog(c) + len) - n
      <4>1. accepted'[c] = accepted[c] + len /\ accepted[c] \in Nat
        BY <2>2 DEF TypeOK, ConnTypeOK
      <4>2. /\ Served!Backlog(c) = accepted[c] - Len(wire[c])
            /\ Served!Backlog(c)' = accepted'[c] - Len(wire'[c])
        BY DEF Served!Backlog, Sent
      <4>3. Served!Backlog(c)' = (Served!Backlog(c) + len) - n
        BY <2>1, <3>2, <4>1, <4>2
      <4> QED BY <2>7, <3>1, <4>3, Backlog, BacklogNext
    <3>6. Served!Owes(c)
      <4>1. CASE n = len
        <5>1. len > 0
          BY LengthAssumption
        <5>2. Served!Backlog(c)' = 0
          BY <2>1, <3>4, <3>5, <4>1, <5>1
        <5> QED BY <2>5, <4>1, <5>2 DEF Served!Owes
      <4>2. CASE n < len
        <5>1. Served!Backlog(c)' # 0
          BY <2>1, <3>5, <4>2
        <5> QED BY <2>5, <4>2, <5>1 DEF Served!Owes
      <4> QED BY <2>1, <4>1, <4>2
    <3>7. \/ UNCHANGED sent
          \/ /\ Served!Backlog(c) = 0 /\ ~wrShut[c]
             /\ \E m \in 1 .. len : sent' = [sent EXCEPT ![c] = @ + m]
      <4>1. CASE n = 0
        <5>1. Sent(c)' = Sent(c)
          BY <3>2, <4>1 DEF Sent
        <5>2. \A d \in Conns \ {c} : Sent(d)' = Sent(d)
          BY <2>4 DEF Sent
        <5> QED BY <5>1, <5>2
      <4>2. CASE n > 0
        <5>1. n \in 1 .. len
          BY <2>1, <4>2
        <5>2. \E m \in 1 .. len : sent' = [sent EXCEPT ![c] = @ + m]
          <6> HIDE DEF sent
          <6> QED BY <3>3, <5>1
        <5> QED BY <3>4, <4>2, <5>2
      <4>3. n = 0 \/ n > 0
        BY <2>1
      <4> QED BY <4>1, <4>2, <4>3
    <3>8. [d \in Conns |-> Life(d)][c] # "none"
      BY <1>1
    <3>9. Served!Gives(c)
      BY <1>1, <2>2, <3>1, <3>6, <3>7, <3>8 DEF Served!Gives
    <3> QED BY <3>9 DEF Served!Next
  <2> QED BY <2>6, <2>7
<1> QED BY <1>2, <1>3, SendStep

\* shutDownInLoop shuts the writing side behind what was sent, if it does.
LEMMA ShutsWell ==
    ASSUME TypeOK, LifeInv, OutInv, OrderInv,
           NEW c \in Conns, chan[c] # "new",
           UNCHANGED wrShut \/ ("out" \notin events[c]
                                /\ wrShut' = [wrShut EXCEPT ![c] = TRUE]),
           UNCHANGED <<chan, callback, self, outVars>>, Due' = Due
    PROVE  [Served!Next]_(Served!sessionVars)
<1>1. /\ User' = User /\ Life(c) # "none"
      /\ [d \in Conns |-> Life(d)]' = [d \in Conns |-> Life(d)]
  BY UserStays, LifeStays, LifeOf
<1>2. /\ [d \in Conns |-> Sent(d)]' = [d \in Conns |-> Sent(d)]
      /\ UNCHANGED <<wire, accepted, overrun>>
  BY DEF Sent, outVars
<1>3. CASE UNCHANGED wrShut
  BY <1>1, <1>2, <1>3 DEF Served!sessionVars
<1>4. CASE /\ "out" \notin events[c]
           /\ wrShut' = [wrShut EXCEPT ![c] = TRUE]
  <2>1. CASE c \in overrun
    <3>1. overrun' = overrun \cup {c}
      BY <1>2, <2>1
    <3> QED BY <1>1, <1>2, <1>4, <2>1, <3>1, Stray
  <2>2. CASE c \notin overrun
    <3>1. chan[c] = "watched" => IsEmpty(out[c])
      BY <1>4 DEF OutInv
    <3>2. Life(c) = "open" => Served!Backlog(c) = 0
      BY <2>2, <3>1, LifeOf, Backlog
    <3>3. Served!Shuts(c)
      BY <1>1, <1>2, <1>4, <3>2 DEF Served!Shuts
    <3> QED BY <3>3 DEF Served!Next
  <2> QED BY <2>1, <2>2
<1> QED BY <1>3, <1>4

\* The steps that neither the user nor the peer sees.
Unseen ==
    \/ Quiet \/ SwapFunctors \/ RunListen \/ FunctorsDone
    \/ \E k \in Clients :
         \/ ClientStarts(k) \/ ClientListens(k)
         \/ \E c \in Conns : ClientSetsState(k, c) \/ ClientQueues(k, c)

LEMMA UnseenFrame ==
    ASSUME TypeOK, LifeInv, Unseen
    PROVE  /\ UNCHANGED <<chan, callback, self, outVars, wrShut>>
           /\ Due' = Due
<1> DEFINE Frame == UNCHANGED <<chan, callback, self, outVars, wrShut>>
<1> USE DEF loopVars, connVars, chanVars
<1>1. CASE Quiet
  BY <1>1, QuietFrame, DueStays
<1>2. CASE SwapFunctors
  <2>1. Queue' = Queue
    BY <1>2, Swapped DEF SwapFunctors, LifeInv, LoopInv, TypeOK
  <2> QED BY <1>2, <2>1, DueStays DEF SwapFunctors
<1>3. CASE RunListen
  BY <1>3, DueRuns DEF RunListen
<1>4. CASE FunctorsDone
  BY <1>4, DueStays DEF FunctorsDone, Queue
<1>5. ASSUME NEW k \in Clients, ClientStarts(k) \/ ClientListens(k)
      PROVE  Frame /\ Due' = Due
  <2>1. /\ Functor("listen", NoConn) \in Functors
        /\ Functor("listen", NoConn).op # "complete"
    BY DEF Functors, Functor
  <2>2. CASE ClientStarts(k)
    <3>1. Queue' = Queue
      BY <2>2 DEF ClientStarts, queueVars, Queue
    <3> QED BY <2>2, <3>1, DueStays DEF ClientStarts
  <2>3. CASE ClientListens(k)
    BY <2>1, <2>3, DuePushed DEF ClientListens
  <2> QED BY <1>5, <2>2, <2>3
<1>6. ASSUME NEW k \in Clients, NEW c \in Conns, ClientSetsState(k, c)
      PROVE  Frame /\ Due' = Due
  <2>1. Queue' = Queue
    BY <1>6 DEF ClientSetsState, queueVars, Queue
  <2> QED BY <1>6, <2>1, DueStays DEF ClientSetsState
<1>7. ASSUME NEW k \in Clients, NEW c \in Conns, ClientQueues(k, c)
      PROVE  Frame /\ Due' = Due
  <2>1. ASSUME NEW op \in {"send", "shutdown"}
        PROVE  Functor(op, c) \in Functors /\ Functor(op, c).op # "complete"
    BY FunctorType DEF Functor
  <2>2. PICK op \in {"send", "shutdown"} :
          pending' = Append(pending, Functor(op, c)) /\ UNCHANGED batch
    BY <1>7 DEF ClientQueues
  <2>3. Due' = Due
    BY <2>1, <2>2, DuePushed
  <2> QED BY <1>7, <2>3 DEF ClientQueues
<1> QED BY <1>1, <1>2, <1>3, <1>4, <1>5, <1>6, <1>7 DEF Unseen

\* Every step is one of Sessions, or neither the user nor the peer sees it.
LEMMA ServedStep ==
    ASSUME TypeOK, TypeOK', LifeInv, LifeInv', OutInv, OrderInv, OrderInv', Next
    PROVE  [Served!Next]_(Served!sessionVars)
<1> DEFINE Goal == [Served!Next]_(Served!sessionVars)
<1>1. ASSUME UNCHANGED outVars
      PROVE  [d \in Conns |-> Sent(d)]' = [d \in Conns |-> Sent(d)]
             /\ UNCHANGED <<accepted, overrun>>
  BY <1>1 DEF Sent, outVars
<1>2. CASE CallbackReturns
  <2>1. /\ callback # "none" /\ callback' = "none"
        /\ UNCHANGED <<pending, batch, wrShut, outVars>>
    BY <1>2 DEF CallbackReturns, queueVars
  <2>2. User' = NoConn /\ Due' = Due
    BY <2>1, DueStays DEF User, Queue
  <2>3. \A d \in Conns : Life(d)' = Life(d)
    <3>1. CASE callback = "down"
      <4>1. /\ chan[self] = "quiet"
            /\ chan' = [chan EXCEPT ![self] = "removed"]
            /\ self \in Conns
        BY <1>2, <3>1, ReturnsWell DEF LifeInv, StateInv
      <4> QED BY <2>1, <3>1, <4>1 DEF Life, TypeOK, ConnTypeOK
    <3>2. CASE callback # "down"
      BY <1>2, <2>1, <3>2, ReturnsWell DEF Life
    <3> QED BY <3>1, <3>2
  <2>4. Served!Returns
    BY <1>1, <2>1, <2>2, <2>3 DEF Served!Returns
  <2> QED BY <2>4 DEF Served!Next
<1>3. ASSUME NEW c \in Conns, AcceptConn(c)
      PROVE  Goal
  <2>1. /\ callback = "none" /\ callback' = "up" /\ self' = c
        /\ chan' = [chan EXCEPT ![c] = "watched"]
        /\ UNCHANGED <<pending, batch, wrShut, outVars>>
    BY <1>3 DEF AcceptConn, queueVars
  <2>2. chan[c] = "new"
    BY <1>3 DEF AcceptConn, LifeInv, StateInv
  <2>3. Life(c) = "none" /\ Life(c)' = "open"
        /\ \A d \in Conns \ {c} : Life(d)' = Life(d)
    BY <2>1, <2>2 DEF Life, TypeOK, ConnTypeOK
  <2>4. User' = c /\ Due' = Due
    BY <2>1, DueStays DEF User, Queue
  <2>5. Served!Opens(c)
    BY <1>1, <2>1, <2>3, <2>4, LifeGoes DEF Served!Opens, Served!Calls
  <2> QED BY <2>5 DEF Served!Next
<1>4. ASSUME NEW c \in Conns, Close(c) \/ ReadEnd(c)
      PROVE  Goal
  <2>1. /\ chan[c] = "watched" /\ callback = "none" /\ UNCHANGED callback
        /\ chan' = [chan EXCEPT ![c] = "quiet"]
        /\ pending' = Append(pending, Functor("destroy", c))
        /\ UNCHANGED <<batch, wrShut>>
    BY <1>4, ClosesWell DEF DisableAll
  <2>2. UNCHANGED outVars
    BY <1>4 DEF Close, ReadEnd
  <2>3. Life(c) = "open" /\ Life(c)' = "closing"
        /\ \A d \in Conns \ {c} : Life(d)' = Life(d)
    BY <2>1 DEF Life, TypeOK, ConnTypeOK
  <2>4. User' = User
    BY <2>1 DEF User
  <2>5. Due' = Due
    <3>1. /\ Functor("destroy", c) \in Functors
          /\ Functor("destroy", c).op # "complete"
      BY FunctorType DEF Functor
    <3> QED BY <2>1, <3>1, DuePushed
  <2>6. Served!Closes(c)
    BY <1>1, <2>1, <2>2, <2>3, <2>4, <2>5, LifeGoes DEF Served!Closes
  <2> QED BY <2>6 DEF Served!Next
<1>5. ASSUME NEW c \in Conns, ConnectDestroyed(c)
      PROVE  Goal
  <2>1. /\ chan[c] = "quiet" /\ callback = "none"
        /\ chan' = [chan EXCEPT ![c] = "quiet"]
        /\ callback' = "down" /\ self' = c
    BY <1>5, DestroysWell DEF DisableAll
  <2>2. /\ UNCHANGED <<outVars, wrShut, pending>>
        /\ Runs("destroy", c)
    BY <1>5 DEF ConnectDestroyed
  <2>3. Life(c) = "closing" /\ Life(c)' = "down"
        /\ \A d \in Conns \ {c} : Life(d)' = Life(d)
    BY <2>1 DEF Life, TypeOK, ConnTypeOK
  <2>4. User' = c /\ Due' = Due
    BY <2>1, <2>2, DueRuns DEF User
  <2>5. Served!Ends(c)
    BY <1>1, <2>1, <2>2, <2>3, <2>4, LifeGoes DEF Served!Ends, Served!Calls
  <2> QED BY <2>5 DEF Served!Next
<1>6. ASSUME NEW c \in Conns, NEW cb \in {"message", "complete"},
             UNCHANGED chan, callback = "none", callback' = cb, self' = c
      PROVE  /\ User' = c
             /\ [d \in Conns |-> Life(d)]' = [d \in Conns |-> Life(d)]
  BY <1>6 DEF User, Life
<1>7. ASSUME NEW c \in Conns, ReadMessage(c)
      PROVE  Goal
  <2>1. /\ callback = "none" /\ callback' = "message" /\ self' = c
        /\ UNCHANGED <<chan, pending, batch, wrShut, outVars>>
    BY <1>7 DEF ReadMessage, Turn, queueVars, chanVars
  <2>2. Life(c) = "open"
    BY <1>7 DEF ReadMessage, Turn, LifeInv, ReportInv, Life
  <2>3. User' = c /\ [d \in Conns |-> Life(d)]' = [d \in Conns |-> Life(d)]
    BY <1>6, <2>1
  <2>4. Due' = Due
    BY <2>1, DueStays DEF Queue
  <2>5. Served!Goes(c, "open", "open")
    BY <2>2, <2>3 DEF Served!Goes
  <2>6. Served!Receives(c)
    BY <1>1, <2>1, <2>3, <2>4, <2>5 DEF Served!Receives, Served!Calls
  <2> QED BY <2>6 DEF Served!Next
<1>8. ASSUME NEW c \in Conns, WriteComplete(c)
      PROVE  Goal
  <2>1. /\ callback = "none" /\ callback' = "complete" /\ self' = c
        /\ Runs("complete", c)
        /\ UNCHANGED <<chan, pending, wrShut, outVars>>
    BY <1>8 DEF WriteComplete, Runs, connVars, chanVars
  <2>2. User' = c /\ [d \in Conns |-> Life(d)]' = [d \in Conns |-> Life(d)]
    BY <1>6, <2>1
  <2>3. c \in Due /\ Due' \in {Due, Due \ {c}}
    BY <2>1, DueRuns
  <2>4. Served!Completes(c)
    BY <1>1, <2>1, <2>2, <2>3 DEF Served!Completes, Served!Calls
  <2> QED BY <2>4 DEF Served!Next
<1>9. ASSUME NEW c \in Conns, HandleWrite(c)
      PROVE  Goal
  BY <1>9, WritesWell
<1>10. ASSUME NEW c \in Conns, NEW op, Runs(op, c)
       PROVE  chan[c] # "new"
  <2>1. Functor(op, c) \in Range(Queue)
    BY <1>10, QueueOps, TailFacts DEF Runs, TypeOK
  <2> QED BY <2>1, ConnAssumption DEF Functor, Known, LifeInv, NamedInv
<1>11. ASSUME NEW c \in Conns, RunSend(c)
       PROVE  Goal
  <2>1. /\ Runs("send", c) /\ chan[c] # "new"
        /\ UNCHANGED <<chan, wrShut, callback, self>>
    BY <1>10, <1>11 DEF RunSend, loopVars
  <2>2. CASE SendInLoop(c)
    <3>1. UNCHANGED pending => Due' = Due
      BY <2>1, DueRuns
    <3>2. pending' = Append(pending, Functor("complete", c)) =>
            Due' = Due \cup {c}
      BY <2>1, DueSends
    <3> QED BY <2>1, <2>2, <3>1, <3>2, GivesWell
  <2>3. CASE UNCHANGED <<outVars, events, pending>>
    <3>1. Due' = Due
      BY <2>1, <2>3, DueRuns
    <3> QED BY <2>1, <2>3, <3>1, ShutsWell
  <2> QED BY <1>11, <2>2, <2>3 DEF RunSend
<1>12. ASSUME NEW c \in Conns, c \in InHand, InUserCode
       PROVE  chan[c] # "new"
  BY <1>12 DEF InHand, Known, LifeInv, NamedInv
<1>13. ASSUME NEW c \in Conns, Send(c)
       PROVE  Goal
  <2>1. /\ SendInLoop(c) /\ chan[c] # "new"
        /\ UNCHANGED <<chan, wrShut, callback, self, batch>>
    BY <1>12, <1>13 DEF Send, loopVars
  <2>2. UNCHANGED pending => Due' = Due
    BY <2>1, DueStays DEF Queue
  <2>3. pending' = Append(pending, Functor("complete", c)) =>
          Due' = Due \cup {c}
    BY <2>1, DuePushed, FunctorType
  <2> QED BY <2>1, <2>2, <2>3, GivesWell
<1>14. ASSUME NEW c \in Conns, RunShutdown(c)
       PROVE  Goal
  <2>1. /\ Runs("shutdown", c) /\ chan[c] # "new"
        /\ UNCHANGED <<chan, callback, self, outVars, pending>>
    BY <1>10, <1>14 DEF RunShutdown, loopVars, chanVars
  <2>2. UNCHANGED wrShut \/ ("out" \notin events[c]
                             /\ wrShut' = [wrShut EXCEPT ![c] = TRUE])
    BY <1>14 DEF RunShutdown, ShutDownInLoop
  <2>3. Due' = Due
    BY <2>1, DueRuns
  <2> QED BY <2>1, <2>2, <2>3, ShutsWell
<1>15. ASSUME NEW c \in Conns, Shutdown(c)
       PROVE  Goal
  <2>1. /\ chan[c] # "new"
        /\ UNCHANGED <<chan, callback, self, outVars, pending, batch>>
    BY <1>12, <1>15 DEF Shutdown, loopVars, chanVars, queueVars
  <2>2. UNCHANGED wrShut \/ ("out" \notin events[c]
                             /\ wrShut' = [wrShut EXCEPT ![c] = TRUE])
    BY <1>15 DEF Shutdown, ShutDownInLoop
  <2>3. Due' = Due
    BY <2>1, DueStays DEF Queue
  <2> QED BY <2>1, <2>2, <2>3, ShutsWell
<1>16. CASE Unseen
  <2>1. /\ UNCHANGED <<callback, wrShut, outVars>>
        /\ User' = User /\ Due' = Due
        /\ [d \in Conns |-> Life(d)]' = [d \in Conns |-> Life(d)]
    BY <1>16, UnseenFrame, UserStays, LifeStays
  <2> QED BY <1>1, <2>1 DEF Served!sessionVars
<1> HIDE DEF Goal
<1> QED
  BY <1>2, <1>3, <1>4, <1>5, <1>7, <1>8, <1>9, <1>11, <1>13, <1>14, <1>15, <1>16
     DEF Next, LoopStep, UserStep, ClientStep, PeerStep, Quiet, Unseen, Goal

\* To its user and to the peers the server is what Sessions promises, for any
\* number of connections, of other threads and of messages (TcpServer.cpp:55-108,
\* TcpConnection.cpp:36-189).
THEOREM ServerImplementsSessions == Spec => ImplementsSessions
<1>1. Init => Served!Init
  <2> SUFFICES ASSUME Init PROVE Served!Init
    OBVIOUS
  <2>1. Range(Queue) = {}
    BY ConcatEmptySeq, EmptySeq DEF Init, ConnInit, Queue, Range
  <2>2. Due = {} /\ User = NoConn
    BY <2>1 DEF Init, Due, User
  <2>3. \A c \in Conns : Life(c) = "none" /\ Sent(c) = 0
    BY EmptySeq DEF Init, ConnInit, Life, Sent
  <2> QED BY <2>2, <2>3 DEF Init, ConnInit, Served!Init
<1>2. ASSUME TypeOK, TypeOK', LifeInv, LifeInv', OutInv, OrderInv, OrderInv',
             [Next]_vars
      PROVE  [Served!Next]_(Served!sessionVars)
  <2>1. CASE UNCHANGED vars
    <3>1. UNCHANGED <<chan, callback, self, outVars, wrShut, batch, pending>>
      BY <2>1 DEF vars, loopVars, queueVars, connVars, chanVars
    <3>2. User' = User /\ Due' = Due
      BY <3>1, DueStays DEF User, Queue
    <3>3. [d \in Conns |-> Life(d)]' = [d \in Conns |-> Life(d)]
      BY <3>1, LifeStays DEF Destroying
    <3>4. [d \in Conns |-> Sent(d)]' = [d \in Conns |-> Sent(d)]
      BY <3>1 DEF Sent, outVars
    <3> QED BY <3>1, <3>2, <3>3, <3>4 DEF Served!sessionVars, outVars
  <2>2. CASE Next
    BY <1>2, <2>2, ServedStep
  <2> QED BY <1>2, <2>1, <2>2
<1> QED
  BY <1>1, <1>2, LifeCorrect, OutCorrect, OrderCorrect, PTL
     DEF Spec, ImplementsSessions, Served!Spec

=============================================================================
