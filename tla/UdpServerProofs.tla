-------------------------- MODULE UdpServerProofs --------------------------
(***************************************************************************)
(* Proofs about UdpServer, on top of those about EventLoop: its types,     *)
(* that recvfrom is called for a datagram that was there, and that the     *)
(* user gets the datagrams in order and once.  For any number of           *)
(* datagrams, and any set of clients, functors and channels.               *)
(***************************************************************************)
EXTENDS UdpServer, EventLoopProofs

-----------------------------------------------------------------------------
(* Sequences.                                                              *)

Increasing(s) == \A i, j \in DOMAIN s : i < j => s[i] < s[j]

\* What is left of a sequence without its i-th element.
LEMMA RemoveAtElements ==
    ASSUME NEW S, NEW s \in Seq(S), NEW i \in DOMAIN s
    PROVE  LET r == RemoveAt(s, i)
           IN  /\ r \in Seq(S)
               /\ Len(r) = Len(s) - 1
               /\ \A k \in DOMAIN r : r[k] = IF k < i THEN s[k] ELSE s[k + 1]
<1> DEFINE p == SubSeq(s, 1, i - 1)
           q == SubSeq(s, i + 1, Len(s))
<1>1. Len(s) \in Nat /\ i \in 1 .. Len(s)
  BY LenProperties
<1>2. /\ p \in Seq(S) /\ Len(p) = i - 1
      /\ \A k \in 1 .. i - 1 : p[k] = s[k]
  BY <1>1, SubSeqProperties
<1>3. /\ q \in Seq(S) /\ Len(q) = Len(s) - i
      /\ \A k \in 1 .. Len(s) - i : q[k] = s[i + k]
  BY <1>1, SubSeqProperties
<1> HIDE DEF p, q
<1>4. /\ p \o q \in Seq(S)
      /\ Len(p \o q) = Len(s) - 1
      /\ \A k \in 1 .. Len(s) - 1 :
           (p \o q)[k] = IF k <= i - 1 THEN p[k] ELSE q[k - (i - 1)]
  BY <1>1, <1>2, <1>3, ConcatProperties, SMTT(60)
<1>5. ASSUME NEW k \in 1 .. Len(s) - 1
      PROVE  (p \o q)[k] = IF k < i THEN s[k] ELSE s[k + 1]
  <2>1. CASE k < i
    BY <1>1, <1>2, <1>4, <2>1
  <2>2. CASE ~(k < i)
    <3>1. k - (i - 1) \in 1 .. Len(s) - i /\ i + (k - (i - 1)) = k + 1
      BY <1>1, <2>2
    <3>2. q[k - (i - 1)] = s[i + (k - (i - 1))]
      BY <1>3, <3>1
    <3>3. ~(k <= i - 1)
      BY <1>1, <2>2
    <3>4. (p \o q)[k] = q[k - (i - 1)]
      BY <1>4, <3>3, Zenon
    <3> QED BY <2>2, <3>1, <3>2, <3>4
  <2> QED BY <2>1, <2>2
<1>6. DOMAIN (p \o q) = 1 .. Len(s) - 1
  BY <1>4, LenProperties
<1> QED BY <1>4, <1>5, <1>6 DEF RemoveAt, p, q

\* An increasing sequence without an element is increasing, and has the others.
LEMMA RemoveAtRange ==
    ASSUME NEW s \in Seq(Nat), NEW i \in DOMAIN s, Increasing(s)
    PROVE  LET r == RemoveAt(s, i)
           IN  /\ r \in Seq(Nat)
               /\ Increasing(r)
               /\ Range(r) = Range(s) \ {s[i]}
<1> DEFINE r == RemoveAt(s, i)
<1>1. /\ r \in Seq(Nat)
      /\ Len(r) = Len(s) - 1
      /\ \A k \in DOMAIN r : r[k] = IF k < i THEN s[k] ELSE s[k + 1]
  BY RemoveAtElements
<1>2. /\ Len(s) \in Nat /\ DOMAIN s = 1 .. Len(s)
      /\ DOMAIN r = 1 .. Len(s) - 1
      /\ \A k \in DOMAIN s : s[k] \in Nat
  BY <1>1, LenProperties, ElementOfSeq
<1> HIDE DEF r
<1>3. ASSUME NEW k \in 1 .. Len(s) - 1
      PROVE  /\ k \in DOMAIN s /\ k + 1 \in DOMAIN s
             /\ k < i => r[k] = s[k]
             /\ ~(k < i) => r[k] = s[k + 1]
  <2>1. k \in 1 .. Len(s) /\ k + 1 \in 1 .. Len(s)
    BY <1>2
  <2>2. k \in DOMAIN r
    BY <1>2
  <2>3. r[k] = IF k < i THEN s[k] ELSE s[k + 1]
    BY <1>1, <2>2
  <2> QED BY <1>2, <2>1, <2>3
<1>4. Increasing(r)
  <2> SUFFICES ASSUME NEW j \in 1 .. Len(s) - 1, NEW k \in 1 .. Len(s) - 1,
                      j < k
               PROVE  r[j] < r[k]
    BY <1>2 DEF Increasing
  <2>1. CASE j < i /\ k < i
    BY <1>3, <2>1 DEF Increasing
  <2>2. CASE j < i /\ ~(k < i)
    <3>1. j < k + 1
      BY <1>2
    <3> QED BY <1>3, <2>2, <3>1 DEF Increasing
  <2>3. CASE ~(j < i)
    <3>1. ~(k < i) /\ j + 1 < k + 1
      BY <1>2, <2>3
    <3> QED BY <1>3, <2>3, <3>1 DEF Increasing
  <2> QED BY <2>1, <2>2, <2>3
<1>5. ASSUME NEW k \in 1 .. Len(s) - 1
      PROVE  r[k] \in Range(s) \ {s[i]}
  <2>1. CASE k < i
    <3>1. s[k] < s[i] /\ s[k] \in Nat /\ s[i] \in Nat
      BY <1>2, <1>3, <2>1 DEF Increasing
    <3> QED BY <1>3, <2>1, <3>1 DEF Range
  <2>2. CASE ~(k < i)
    <3>1. i < k + 1
      BY <1>2, <2>2
    <3>2. s[i] < s[k + 1] /\ s[k + 1] \in Nat /\ s[i] \in Nat
      BY <1>2, <1>3, <3>1 DEF Increasing
    <3> QED BY <1>3, <2>2, <3>2 DEF Range
  <2> QED BY <2>1, <2>2
<1>6. ASSUME NEW k \in DOMAIN s, k # i
      PROVE  s[k] \in Range(r)
  <2>1. CASE k < i
    <3>1. k \in 1 .. Len(s) - 1
      BY <1>2, <2>1
    <3> QED BY <1>2, <1>3, <2>1, <3>1 DEF Range
  <2>2. CASE k > i
    <3>1. k - 1 \in 1 .. Len(s) - 1 /\ ~(k - 1 < i) /\ (k - 1) + 1 = k
      BY <1>2, <2>2
    <3>2. r[k - 1] = s[k]
      BY <1>3, <3>1
    <3> QED BY <1>2, <3>1, <3>2 DEF Range
  <2> QED BY <1>2, <1>6, <2>1, <2>2
<1>7. Range(r) \subseteq Range(s) \ {s[i]}
  BY <1>2, <1>5 DEF Range
<1>8. Range(s) \ {s[i]} \subseteq Range(r)
  BY <1>6 DEF Range
<1> QED BY <1>1, <1>4, <1>7, <1>8 DEF r

\* Moving the head of one sequence to the end of another.
LEMMA HeadMoves ==
    ASSUME NEW s \in Seq(Nat), NEW t \in Seq(Nat), s # <<>>
    PROVE  /\ Tail(s) \in Seq(Nat)
           /\ Append(t, Head(s)) \in Seq(Nat)
           /\ Head(s) \in Range(s)
           /\ Range(s) = Range(Tail(s)) \cup {Head(s)}
           /\ Range(Append(t, Head(s))) = Range(t) \cup {Head(s)}
<1>1. /\ Len(s) \in Nat /\ DOMAIN s = 1 .. Len(s) /\ Len(s) # 0
      /\ Head(s) = s[1] /\ Head(s) \in Nat
  BY LenProperties, EmptySeq, ElementOfSeq, HeadTailProperties
<1>2. /\ Tail(s) \in Seq(Nat) /\ Len(Tail(s)) = Len(s) - 1
      /\ \A i \in 1 .. Len(Tail(s)) : Tail(s)[i] = s[i + 1]
  BY HeadTailProperties
<1>3. DOMAIN Tail(s) = 1 .. Len(s) - 1
  BY <1>2, LenProperties
<1>4. ASSUME NEW k \in DOMAIN s
      PROVE  s[k] \in Range(Tail(s)) \cup {Head(s)}
  <2>1. CASE k = 1
    BY <1>1, <2>1
  <2>2. CASE k # 1
    <3>1. k - 1 \in 1 .. Len(s) - 1 /\ (k - 1) + 1 = k
      BY <1>1, <2>2
    <3>2. Tail(s)[k - 1] = s[k]
      BY <1>2, <3>1
    <3> QED BY <1>3, <3>1, <3>2 DEF Range
  <2> QED BY <2>1, <2>2
<1>5. Range(Tail(s)) \subseteq Range(s)
  <2>1. \A k \in 1 .. Len(s) - 1 : k + 1 \in DOMAIN s /\ Tail(s)[k] = s[k + 1]
    BY <1>1, <1>2
  <2> QED BY <1>3, <2>1 DEF Range
<1>6. Head(s) \in Range(s)
  <2>1. 1 \in DOMAIN s
    BY <1>1
  <2> QED BY <1>1, <2>1 DEF Range
<1>7. Range(s) = Range(Tail(s)) \cup {Head(s)}
  BY <1>4, <1>5, <1>6 DEF Range
<1>8. Append(t, Head(s)) \in Seq(Nat)
  BY <1>1, AppendProperties
<1> QED BY <1>1, <1>2, <1>6, <1>7, <1>8, RangeAppend

\* An increasing sequence followed by a greater one.
LEMMA ConcatIncreases ==
    ASSUME NEW s \in Seq(Nat), NEW t \in Seq(Nat),
           Increasing(s), Increasing(t),
           \A d \in Range(s), e \in Range(t) : d < e
    PROVE  Increasing(s \o t) /\ Range(s \o t) = Range(s) \cup Range(t)
<1>1. /\ Len(s) \in Nat /\ DOMAIN s = 1 .. Len(s)
      /\ Len(t) \in Nat /\ DOMAIN t = 1 .. Len(t)
  BY LenProperties
<1>2. /\ s \o t \in Seq(Nat) /\ Len(s \o t) = Len(s) + Len(t)
      /\ \A k \in 1 .. Len(s) + Len(t) :
           (s \o t)[k] = IF k <= Len(s) THEN s[k] ELSE t[k - Len(s)]
  BY ConcatProperties
<1>3. DOMAIN (s \o t) = 1 .. Len(s) + Len(t)
  BY <1>2, LenProperties
<1>4. ASSUME NEW j \in 1 .. Len(s) + Len(t), NEW k \in 1 .. Len(s) + Len(t),
             j < k
      PROVE  (s \o t)[j] < (s \o t)[k]
  <2>1. CASE k <= Len(s)
    <3>1. /\ j \in DOMAIN s /\ k \in DOMAIN s /\ j <= Len(s)
      BY <1>1, <1>4, <2>1
    <3>2. (s \o t)[j] = s[j] /\ (s \o t)[k] = s[k]
      BY <1>2, <2>1, <3>1
    <3> QED BY <1>4, <3>1, <3>2 DEF Increasing
  <2>2. CASE j <= Len(s) /\ ~(k <= Len(s))
    <3>1. j \in DOMAIN s /\ k - Len(s) \in DOMAIN t
      BY <1>1, <1>4, <2>2
    <3>2. (s \o t)[j] = s[j] /\ (s \o t)[k] = t[k - Len(s)]
      BY <1>2, <2>2
    <3>3. s[j] \in Range(s) /\ t[k - Len(s)] \in Range(t)
      BY <3>1 DEF Range
    <3> QED BY <3>2, <3>3
  <2>3. CASE ~(j <= Len(s))
    <3>1. /\ j - Len(s) \in DOMAIN t /\ k - Len(s) \in DOMAIN t
          /\ j - Len(s) < k - Len(s) /\ ~(k <= Len(s))
      BY <1>1, <1>4, <2>3
    <3>2. (s \o t)[j] = t[j - Len(s)] /\ (s \o t)[k] = t[k - Len(s)]
      BY <1>2, <2>3, <3>1
    <3> QED BY <3>1, <3>2 DEF Increasing
  <2> QED BY <1>1, <2>1, <2>2, <2>3
<1>5. Increasing(s \o t)
  BY <1>3, <1>4 DEF Increasing
<1> QED BY <1>5, RangeConcatenation

-----------------------------------------------------------------------------
(* The invariant.                                                          *)

\* HandedInOrder, one sequence at a time.
OrderInv ==
    /\ Increasing(handed) /\ Increasing(arrived)
    /\ \A d \in Range(handed), e \in Range(arrived) : d < e
    /\ 1 .. came = Range(handed) \cup Range(arrived) \cup discarded
    /\ Range(handed) \cap discarded = {}
    /\ Range(arrived) \cap discarded = {}

\* From poll(2) to recvfrom nobody but the kernel takes the datagram that was
\* reported, and the channel is not handled for it a second time.
WaitInv ==
    /\ AcceptChannel \in activeChannels \/ handlerPc \in {"connected", "receiving"}
         => reported \in Range(arrived) \cup discarded
    /\ handlerPc # "none" => AcceptChannel \notin activeChannels

UdpInv == UdpTypeOK /\ OrderInv /\ WaitInv

USE DEF HandlerPcs, handlerVars, startVars, socketVars

\* The server drives the loop only by what EventLoop allows.
LEMMA LoopMoves == UdpNext => [Next]_vars
<1> SUFFICES ASSUME UdpNext PROVE [Next]_vars
  OBVIOUS
<1>1. CASE DatagramArrives \/ KernelDiscards \/ ConnectionHandled
           \/ ReceiveMessage \/ Start
  BY <1>1 DEF DatagramArrives, KernelDiscards, ConnectionHandled,
              ReceiveMessage, Start
<1>2. CASE Polls \/ LoopRunsOn \/ LoopStarts \/ MessageHandled
  BY <1>2 DEF Polls, LoopRunsOn, LoopStarts, MessageHandled, Next, LoopStep
<1>3. CASE UserCalls
  BY <1>3 DEF UserCalls, Next, UserCode
<1>4. ASSUME NEW c \in Clients, ClientUsesLoop(c)
      PROVE  Next
  BY <1>4 DEF ClientUsesLoop, Next, ClientStep
<1>5. ASSUME NEW c \in Clients, ClientStarts(c)
      PROVE  UNCHANGED vars
  BY <1>5 DEF ClientStarts
<1>6. ASSUME NEW c \in Clients, ClientListens(c)
      PROVE  Next
  BY <1>6, UdpAssumption DEF ClientListens, Next, ClientStep
<1> QED BY <1>1, <1>2, <1>3, <1>4, <1>5, <1>6 DEF UdpNext

-----------------------------------------------------------------------------
(* Types.                                                                  *)

\* The initial state has its types.
LEMMA UdpTypeInit == UdpInit => UdpTypeOK
<1> SUFFICES ASSUME UdpInit PROVE UdpTypeOK
  OBVIOUS
<1>1. TypeOK
  BY TypeInit DEF UdpInit
<1>2. <<>> \in Seq(Nat)
  BY EmptySeq
<1> QED BY <1>1, <1>2 DEF UdpInit, UdpTypeOK

\* What the server keeps beside the loop.
LEMMA UdpTypeStep ==
    ASSUME UdpTypeOK, UdpNext
    PROVE  UdpTypeOK'
<1>1. TypeOK'
  BY LoopMoves, TypeStep DEF UdpTypeOK
<1> USE <1>1 DEF UdpTypeOK
<1>2. CASE DatagramArrives
  <2>1. came' \in Nat /\ arrived' \in Seq(Nat)
    BY <1>2, AppendProperties DEF DatagramArrives
  <2> QED BY <1>2, <2>1 DEF DatagramArrives, vars, loopVars
<1>3. CASE KernelDiscards
  <2>1. PICK i \in DOMAIN arrived :
          /\ discarded' = discarded \cup {arrived[i]}
          /\ arrived' = RemoveAt(arrived, i)
    BY <1>3 DEF KernelDiscards
  <2>2. arrived' \in Seq(Nat) /\ arrived[i] \in Nat
    BY <2>1, RemoveAtElements, ElementOfSeq, LenProperties
  <2> QED BY <1>3, <2>1, <2>2 DEF KernelDiscards, vars, loopVars
<1>4. CASE Polls
  <2>1. loopPc = "poll"
    BY <1>4 DEF Polls, PollIsWoken, PollSeesIo, PollTimesOut, PollReturns
  <2>2. reported' \in Nat
    BY <1>4, HeadTailProperties, EmptySeq DEF Polls, Readable
  <2> QED BY <1>4, <2>1, <2>2 DEF Polls
<1>5. CASE LoopRunsOn
  <2>1. handlerPc' # "none" => loopPc' = "callback"
    <3> SUFFICES ASSUME AcceptChannel \in activeChannels \ activeChannels'
                 PROVE  loopPc' = "callback"
      BY <1>5 DEF LoopRunsOn
    <3>1. ~(UserCodeReturns \/ LoopHead \/ EventsDone \/ SwapFunctors
            \/ RunFunctor \/ FunctorsDone)
      BY DEF UserCodeReturns, LoopHead, EventsDone, SwapFunctors, RunFunctor,
             FunctorsDone
    <3>2. ~HandleRead
      BY ChannelAssumption, UdpAssumption DEF HandleRead
    <3>3. \E ch \in IoChannels : HandleIo(ch)
      BY <1>5, <3>1, <3>2 DEF LoopRunsOn, LoopStep
    <3> QED BY <3>3 DEF HandleIo
  <2> QED BY <1>5, <2>1 DEF LoopRunsOn
<1>6. CASE LoopStarts
  BY <1>6 DEF LoopStarts, StartLoop, Looping
<1>7. CASE ConnectionHandled
  BY <1>7 DEF ConnectionHandled, vars, loopVars
<1>8. CASE ReceiveMessage
  <2>1. handed' \in Seq(Nat) /\ arrived' \in Seq(Nat)
    BY <1>8, HeadMoves DEF ReceiveMessage
  <2> QED BY <1>8, <2>1 DEF ReceiveMessage, vars, loopVars
<1>9. CASE MessageHandled
  BY <1>9 DEF MessageHandled
<1>10. CASE UserCalls
  <2>1. loopPc' = loopPc
    BY <1>10 DEF UserCalls, LoopRuns, LoopQueues, LoopQuits, loopVars
  <2> QED BY <1>10, <2>1 DEF UserCalls
<1>11. CASE Start
  BY <1>11 DEF Start, vars, loopVars
<1>12. ASSUME NEW c \in Clients, ClientUsesLoop(c)
       PROVE  UdpTypeOK'
  <2>1. loopPc' = loopPc
    BY <1>12 DEF ClientUsesLoop, ClientQueues, ClientQuits, Wakeup, loopVars
  <2> QED BY <1>12, <2>1 DEF ClientUsesLoop
<1>13. ASSUME NEW c \in Clients, ClientStarts(c)
       PROVE  UdpTypeOK'
  BY <1>13 DEF ClientStarts, vars, loopVars
<1>14. ASSUME NEW c \in Clients, ClientListens(c)
       PROVE  UdpTypeOK'
  <2>1. loopPc' = loopPc
    BY <1>14 DEF ClientListens, ClientQueues, loopVars
  <2> QED BY <1>14, <2>1 DEF ClientListens
<1> QED BY <1>2, <1>3, <1>4, <1>5, <1>6, <1>7, <1>8, <1>9, <1>10, <1>11,
           <1>12, <1>13, <1>14 DEF UdpNext

-----------------------------------------------------------------------------
(* The order of the datagrams.                                             *)

OrderVars == <<handed, arrived, came, discarded>>

\* What leaves the datagrams alone keeps their order, and so does every step.
LEMMA OrderKeeps ==
    ASSUME OrderInv, UNCHANGED OrderVars
    PROVE  OrderInv'
BY DEF OrderInv, OrderVars, Increasing

LEMMA OrderStep ==
    ASSUME UdpInv, UdpNext
    PROVE  OrderInv'
<1> USE DEF UdpInv, UdpTypeOK
<1>1. CASE DatagramArrives
  <2>1. /\ Range(arrived') = Range(arrived) \cup {came'}
        /\ came' = came + 1 /\ came' \in Nat
        /\ handed' = handed /\ discarded' = discarded
    BY <1>1, RangeAppend DEF DatagramArrives
  <2>2. 1 .. came' = 1 .. came \cup {came'} /\ came' \notin 1 .. came
    BY <2>1
  <2>3. \A d \in Range(handed) \cup Range(arrived) : d < came'
    BY <2>1 DEF OrderInv
  <2>4. Increasing(arrived')
    <3>1. <<came'>> \in Seq(Nat) /\ arrived' = arrived \o <<came'>>
      BY <1>1, <2>1, AppendIsConcat DEF DatagramArrives
    <3>2. Range(<<came'>>) = {came'} /\ Increasing(<<came'>>)
      BY DEF Range, Increasing
    <3>3. \A d \in Range(arrived), e \in Range(<<came'>>) : d < e
      BY <2>3, <3>2
    <3>4. Increasing(arrived \o <<came'>>)
      BY <3>1, <3>2, <3>3, ConcatIncreases DEF OrderInv
    <3> QED BY <3>1, <3>4
  <2> QED BY <2>1, <2>2, <2>3, <2>4 DEF OrderInv, Increasing
<1>2. CASE KernelDiscards
  <2>1. PICK i \in DOMAIN arrived :
          /\ discarded' = discarded \cup {arrived[i]}
          /\ arrived' = RemoveAt(arrived, i)
    BY <1>2 DEF KernelDiscards
  <2>2. /\ Increasing(arrived')
        /\ Range(arrived') = Range(arrived) \ {arrived[i]}
    BY <2>1, RemoveAtRange DEF OrderInv
  <2>3. arrived[i] \in Range(arrived) /\ arrived[i] \notin Range(handed)
    <3>1. arrived[i] \in Range(arrived)
      BY DEF Range
    <3>2. arrived[i] \in Nat
      BY ElementOfSeq, LenProperties
    <3> QED BY <3>1, <3>2 DEF OrderInv
  <2>4. handed' = handed /\ came' = came
    BY <1>2 DEF KernelDiscards
  <2> QED BY <2>1, <2>2, <2>3, <2>4 DEF OrderInv, Increasing
<1>3. CASE ReceiveMessage
  <2> DEFINE d == Head(arrived)
  <2>1. /\ handed' = Append(handed, d) /\ arrived' = Tail(arrived)
        /\ arrived # <<>> /\ came' = came /\ discarded' = discarded
    BY <1>3 DEF ReceiveMessage
  <2>2. /\ arrived' \in Seq(Nat) /\ d \in Range(arrived)
        /\ Range(arrived) = Range(arrived') \cup {d}
        /\ Range(handed') = Range(handed) \cup {d}
    BY <2>1, HeadMoves
  <2>3. /\ Len(arrived) \in Nat /\ DOMAIN arrived = 1 .. Len(arrived)
        /\ d = arrived[1] /\ d \in Nat
        /\ DOMAIN (arrived') = 1 .. Len(arrived) - 1
        /\ \A k \in DOMAIN (arrived') : arrived'[k] = arrived[k + 1]
    BY <2>1, LenProperties, EmptySeq, ElementOfSeq, HeadTailProperties
  <2>4. Increasing(arrived')
    <3>1. ASSUME NEW j \in DOMAIN (arrived'), NEW k \in DOMAIN (arrived'), j < k
          PROVE  arrived'[j] < arrived'[k]
      <4>1. j + 1 \in DOMAIN arrived /\ k + 1 \in DOMAIN arrived /\ j + 1 < k + 1
        BY <2>3, <3>1, SMTT(30)
      <4> QED BY <2>3, <4>1 DEF OrderInv, Increasing
    <3> QED BY <3>1 DEF Increasing
  <2>5. \A e \in Range(arrived') : d < e
    <3>1. ASSUME NEW k \in DOMAIN (arrived')
          PROVE  d < arrived'[k]
      <4>1. 1 \in DOMAIN arrived /\ k + 1 \in DOMAIN arrived /\ 1 < k + 1
        BY <2>3
      <4> QED BY <2>3, <4>1, SMTT(30) DEF OrderInv, Increasing
    <3> QED BY <3>1 DEF Range
  <2>6. Increasing(handed')
    <3>1. <<d>> \in Seq(Nat) /\ handed' = handed \o <<d>>
      BY <2>1, <2>3, AppendIsConcat
    <3>2. Range(<<d>>) = {d} /\ Increasing(<<d>>)
      BY DEF Range, Increasing
    <3> QED BY <2>2, <3>1, <3>2, ConcatIncreases DEF OrderInv
  <2> HIDE DEF d
  <2> QED BY <2>1, <2>2, <2>4, <2>5, <2>6 DEF OrderInv
<1>4. CASE UNCHANGED OrderVars
  BY <1>4, OrderKeeps
<1> QED
  BY <1>1, <1>2, <1>3, <1>4
     DEF UdpNext, Polls, LoopRunsOn, LoopStarts, ConnectionHandled,
         MessageHandled, UserCalls, Start, ClientUsesLoop, ClientStarts,
         ClientListens, OrderVars

-----------------------------------------------------------------------------
(* From poll(2) to recvfrom.                                               *)

\* Every step keeps WaitInv.
LEMMA WaitStep ==
    ASSUME UdpInv, UdpNext
    PROVE  WaitInv'
<1> USE DEF UdpInv, UdpTypeOK, WaitInv
<1>1. CASE DatagramArrives
  <2>1. Range(arrived) \subseteq Range(arrived')
    BY <1>1, RangeAppend DEF DatagramArrives
  <2> QED BY <1>1, <2>1 DEF DatagramArrives, vars, loopVars
<1>2. CASE KernelDiscards
  <2>1. PICK i \in DOMAIN arrived :
          /\ discarded' = discarded \cup {arrived[i]}
          /\ arrived' = RemoveAt(arrived, i)
    BY <1>2 DEF KernelDiscards
  <2>2. Range(arrived') = Range(arrived) \ {arrived[i]}
    BY <2>1, RemoveAtRange DEF OrderInv
  <2>3. Range(arrived') \cup discarded' = Range(arrived) \cup discarded \cup {arrived[i]}
    BY <2>1, <2>2
  <2> QED BY <1>2, <2>3 DEF KernelDiscards, vars, loopVars
<1>3. CASE Polls
  <2>1. handlerPc = "none"
    BY <1>3 DEF Polls, PollIsWoken, PollSeesIo, PollTimesOut, PollReturns
  <2>2. AcceptChannel \in activeChannels' => reported' \in Range(arrived')
    BY <1>3, HeadMoves DEF Polls, Readable
  <2> QED BY <1>3, <2>1, <2>2 DEF Polls
<1>4. CASE LoopRunsOn
  <2>1. activeChannels' \subseteq activeChannels
    BY <1>4
       DEF LoopRunsOn, LoopStep, UserCodeReturns, LoopHead, HandleRead, HandleIo,
           EventsDone, SwapFunctors, RunFunctor, FunctorsDone
  <2> QED BY <1>4, <2>1 DEF LoopRunsOn
<1>5. CASE LoopStarts
  BY <1>5 DEF LoopStarts, StartLoop
<1>6. CASE ConnectionHandled
  BY <1>6 DEF ConnectionHandled, vars, loopVars
<1>7. CASE ReceiveMessage
  BY <1>7 DEF ReceiveMessage, vars, loopVars
<1>8. CASE MessageHandled
  BY <1>8 DEF MessageHandled, UserCodeReturns
<1>9. CASE UserCalls
  BY <1>9 DEF UserCalls, LoopRuns, LoopQueues, LoopQuits, loopVars
<1>10. CASE Start
  BY <1>10 DEF Start, vars, loopVars
<1>11. ASSUME NEW c \in Clients, ClientUsesLoop(c)
       PROVE  WaitInv'
  BY <1>11 DEF ClientUsesLoop, ClientQueues, ClientQuits, Wakeup, loopVars
<1>12. ASSUME NEW c \in Clients, ClientStarts(c)
       PROVE  WaitInv'
  BY <1>12 DEF ClientStarts, vars, loopVars
<1>13. ASSUME NEW c \in Clients, ClientListens(c)
       PROVE  WaitInv'
  BY <1>13 DEF ClientListens, ClientQueues, loopVars
<1> QED BY <1>1, <1>2, <1>3, <1>4, <1>5, <1>6, <1>7, <1>8, <1>9, <1>10,
           <1>11, <1>12, <1>13 DEF UdpNext

-----------------------------------------------------------------------------
(* The theorems.                                                           *)

\* The invariant holds in every state.
LEMMA UdpInvCorrect == UdpSpec => []UdpInv
<1>1. UdpInit => UdpInv
  <2> SUFFICES ASSUME UdpInit PROVE UdpInv
    OBVIOUS
  <2>1. UdpTypeOK
    BY UdpTypeInit
  <2>2. Increasing(<<>>) /\ Range(<<>>) = {}
    BY RangeEmpty DEF Increasing
  <2>3. 1 .. 0 = {}
    OBVIOUS
  <2> QED BY <2>1, <2>2, <2>3 DEF UdpInit, Init, UdpInv, OrderInv, WaitInv
<1>2. UdpInv /\ [UdpNext]_udpVars => UdpInv'
  <2> SUFFICES ASSUME UdpInv, [UdpNext]_udpVars PROVE UdpInv'
    OBVIOUS
  <2>1. CASE UdpNext
    BY <2>1, UdpTypeStep, OrderStep, WaitStep DEF UdpInv
  <2>2. CASE UNCHANGED udpVars
    <3>1. TypeOK'
      BY <2>2, TypeStep DEF udpVars, UdpInv, UdpTypeOK
    <3>2. OrderInv'
      BY <2>2, OrderKeeps DEF udpVars, UdpInv, OrderVars
    <3>3. UdpTypeOK' /\ WaitInv'
      BY <2>2, <3>1 DEF udpVars, UdpInv, UdpTypeOK, WaitInv, vars, loopVars
    <3> QED BY <3>2, <3>3 DEF UdpInv
  <2> QED BY <2>1, <2>2
<1> QED BY <1>1, <1>2, PTL DEF UdpSpec

\* The server's variables and the loop's keep their types, and
\* handleNewConnection runs inside a callback of the loop only.
THEOREM UdpTypeCorrect == UdpSpec => []UdpTypeOK
<1>1. UdpInv => UdpTypeOK
  BY DEF UdpInv
<1> QED BY <1>1, UdpInvCorrect, PTL

\* The blocking recvfrom (UdpHandler.cpp:48) waits only if the kernel took back
\* the datagram that poll(2) had reported.
THEOREM WaitsForKernelOnly == UdpSpec => []WaitsOnlyForDiscarded
<1>1. UdpInv => WaitsOnlyForDiscarded
  <2> SUFFICES ASSUME UdpInv, handlerPc = "receiving", arrived = <<>>
               PROVE  reported \in discarded
    BY DEF WaitsOnlyForDiscarded
  <2> QED BY RangeEmpty DEF UdpInv, WaitInv
<1> QED BY <1>1, UdpInvCorrect, PTL

\* No datagram is lost or duplicated between the socket and _msgRecvCB, and the
\* user gets them in the order of their arrival (UdpHandler.cpp:35-56).
THEOREM DatagramsInOrder == UdpSpec => []HandedInOrder
<1>1. UdpInv => HandedInOrder
  <2> SUFFICES ASSUME UdpInv PROVE HandedInOrder
    OBVIOUS
  <2>1. /\ Increasing(handed \o arrived)
        /\ Range(handed \o arrived) = Range(handed) \cup Range(arrived)
    BY ConcatIncreases DEF UdpInv, UdpTypeOK, OrderInv
  <2>2. \A i, j \in DOMAIN (handed \o arrived) :
          i < j => (handed \o arrived)[i] < (handed \o arrived)[j]
    BY <2>1 DEF Increasing
  <2> QED BY <2>1, <2>2 DEF HandedInOrder, UdpInv, OrderInv
<1> QED BY <1>1, UdpInvCorrect, PTL

-----------------------------------------------------------------------------
(* What EventLoop promises, in a loop that a UdpServer uses.               *)

\* The server's handlers, blocked or not, are user code to its loop: what is
\* proved of EventLoop holds of the loop here (UdpServer.cpp:49-93).
THEOREM UdpServerRunsInLoop == UdpSpec => Spec
<1>1. UdpInit => Init
  BY DEF UdpInit
<1>2. [UdpNext]_udpVars => [Next]_vars
  BY LoopMoves DEF udpVars
<1> QED BY <1>1, <1>2, PTL DEF UdpSpec, Spec

\* No wakeup and no quit is lost in a loop that runs the server's handlers, and
\* the functors, those of start() among them, run once and in order.
COROLLARY UdpLoopKeepsPromises ==
    UdpSpec => []NoLostWakeup /\ []QuitIsSeen /\ ImplementsQueue
BY UdpServerRunsInLoop, WakeupsAreNotLost, QuitIsNotLost, LoopImplementsQueue, PTL

=============================================================================
