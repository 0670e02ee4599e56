-------------------------- MODULE EventLoopProofs ---------------------------
(***************************************************************************)
(* Proofs about EventLoop: its type invariant, that no wakeup is lost, and *)
(* that it implements FunctorQueue, for any set of clients, functors and   *)
(* channels.                                                               *)
(***************************************************************************)
EXTENDS EventLoop, SequenceTheorems, TLAPS

-----------------------------------------------------------------------------
(* Types.                                                                  *)

\* TypeOK is inductive: the initial state has it.
LEMMA TypeInit == Init => TypeOK
BY EmptySeq DEF Init, TypeOK, LoopPcs, InDoPending

\* The calls of other threads keep the types.
LEMMA TypeClient ==
    ASSUME TypeOK, NEW c \in Clients, ClientStep(c)
    PROVE  TypeOK'
<1>1. ASSUME NEW f \in Functors, ClientQueues(c, f)
      PROVE  TypeOK'
  <2>1. pendingFunctors' \in Seq(Functors)
    BY <1>1, AppendProperties DEF TypeOK, ClientQueues
  <2> QED
    BY <1>1, <2>1 DEF TypeOK, ClientQueues, loopVars, history
<1>2. CASE ClientQuits(c)
  BY <1>2 DEF TypeOK, ClientQuits, loopVars, history
<1>3. CASE Wakeup(c)
  BY <1>3 DEF TypeOK, Wakeup, loopVars, history
<1> QED BY <1>1, <1>2, <1>3 DEF ClientStep

\* The calls the loop's own thread makes keep the types.
LEMMA TypeUser ==
    ASSUME TypeOK, UserCode
    PROVE  TypeOK'
<1>1. ASSUME NEW f \in Functors, LoopRuns(f)
      PROVE  TypeOK'
  <2>1. ran' \in Seq(Functors)
    BY <1>1, AppendProperties DEF TypeOK, LoopRuns
  <2> QED
    BY <1>1, <2>1 DEF TypeOK, LoopRuns, loopVars, sharedVars
<1>2. ASSUME NEW f \in Functors, LoopQueues(f)
      PROVE  TypeOK'
  <2>1. pendingFunctors' \in Seq(Functors)
    BY <1>2, AppendProperties DEF TypeOK, LoopQueues
  <2> QED
    BY <1>2, <2>1 DEF TypeOK, LoopQueues, LoopMustWake, loopVars
<1>3. CASE LoopQuits
  BY <1>3 DEF TypeOK, LoopQuits, loopVars, history
<1> QED BY <1>1, <1>2, <1>3 DEF UserCode

\* The loop itself keeps the types.
LEMMA TypeLoop ==
    ASSUME TypeOK,
           StartLoop \/ PollIsWoken \/ PollSeesIo \/ PollTimesOut \/ LoopStep
    PROVE  TypeOK'
<1> USE DEF LoopPcs, InDoPending, Looping
<1>1. CASE StartLoop
  BY <1>1 DEF TypeOK, StartLoop, history
<1>2. CASE LoopHead
  BY <1>2 DEF TypeOK, LoopHead, sharedVars, history
<1>3. CASE PollIsWoken \/ PollSeesIo \/ PollTimesOut
  BY <1>3 DEF TypeOK, PollIsWoken, PollSeesIo, PollTimesOut, PollReturns,
              sharedVars, history
<1>4. CASE HandleRead
  BY <1>4 DEF TypeOK, HandleRead, history
<1>5. ASSUME NEW ch \in IoChannels, HandleIo(ch)
      PROVE  TypeOK'
  BY <1>5 DEF TypeOK, HandleIo, sharedVars, history
<1>6. CASE UserCodeReturns
  BY <1>6 DEF TypeOK, UserCodeReturns, sharedVars, history
<1>7. CASE EventsDone
  BY <1>7 DEF TypeOK, EventsDone, sharedVars, history
<1>8. CASE SwapFunctors
  BY <1>8, EmptySeq DEF TypeOK, SwapFunctors, history
<1>9. CASE RunFunctor
  <2>1. ran' \in Seq(Functors) /\ functors' \in Seq(Functors)
    BY <1>9, HeadTailProperties, AppendProperties DEF TypeOK, RunFunctor
  <2> QED
    BY <1>9, <2>1 DEF TypeOK, RunFunctor, sharedVars
<1>10. CASE FunctorsDone
  BY <1>10 DEF TypeOK, FunctorsDone, sharedVars, history
<1> QED
  BY <1>1, <1>2, <1>3, <1>4, <1>5, <1>6, <1>7, <1>8, <1>9, <1>10 DEF LoopStep

\* Every step keeps the types.
LEMMA TypeStep == TypeOK /\ [Next]_vars => TypeOK'
<1>1. CASE Next
  BY <1>1, TypeClient, TypeUser, TypeLoop DEF Next
<1>2. CASE UNCHANGED vars
  BY <1>2 DEF TypeOK, vars, loopVars, sharedVars, history
<1> QED BY <1>1, <1>2

\* EventLoop's variables keep their types, and _callingPendingFunctors is true
\* exactly while the loop's thread is inside doPendingFunctors.
THEOREM TypeCorrect == Spec => []TypeOK
BY TypeInit, TypeStep, PTL DEF Spec

-----------------------------------------------------------------------------
(* Wakeups.                                                                *)

\* NoLostWakeup says nothing of the way to poll(2): the loop may reach it with a
\* functor left behind by the swap.  What holds all along that way, and after
\* the loop was told to quit, is this.
WakeupDue ==
    /\ loopPc \in {"idle", "head", "poll", "functors", "functor"}
    /\ Announced # {}

WakeupInv ==
    /\ TypeOK
    /\ WakeupDue => WakeupComes
    /\ QuitIsSeen

\* What appending to a sequence, or emptying it, does to its range.
LEMMA RangeAppend ==
    ASSUME NEW S, NEW s \in Seq(S), NEW e \in S
    PROVE  Range(Append(s, e)) = Range(s) \cup {e}
<1>1. <<e>> \in Seq(S) /\ Append(s, e) = s \o <<e>>
  BY AppendIsConcat
<1>2. Range(<<e>>) = {e}
  BY DEF Range
<1>3. Range(s \o <<e>>) = Range(s) \cup Range(<<e>>)
  BY <1>1, RangeConcatenation
<1> QED BY <1>1, <1>2, <1>3

LEMMA RangeEmpty == Range(<<>>) = {}
BY DEF Range

\* A call from another thread leaves the wakeup on its way.
LEMMA WakeupClient ==
    ASSUME WakeupInv, NEW c \in Clients, ClientStep(c)
    PROVE  (WakeupDue => WakeupComes)' /\ QuitIsSeen'
<1> USE DEF WakeupInv, WakeupComes, QuitIsSeen
<1>1. ASSUME NEW f \in Functors, ClientQueues(c, f)
      PROVE  WakeupComes'
  BY <1>1 DEF ClientQueues, TypeOK
<1>2. CASE ClientQuits(c)
  BY <1>2 DEF ClientQuits, TypeOK
<1>3. CASE Wakeup(c)
  BY <1>3 DEF Wakeup
<1> QED BY <1>1, <1>2, <1>3 DEF ClientStep

\* Nor does the loop's own thread need one for what it queues itself: it writes
\* the eventfd, or has yet to swap, or is outside startLoop.
LEMMA WakeupUser ==
    ASSUME WakeupInv, UserCode
    PROVE  (WakeupDue => WakeupComes)' /\ QuitIsSeen'
<1> USE DEF WakeupInv, WakeupDue, WakeupComes, Announced, QuitIsSeen, InUserCode
<1>1. ASSUME NEW f \in Functors, LoopRuns(f)
      PROVE  (WakeupDue => WakeupComes)' /\ QuitIsSeen'
  BY <1>1 DEF LoopRuns, loopVars, sharedVars
<1>2. ASSUME NEW f \in Functors, LoopQueues(f)
      PROVE  (WakeupDue => WakeupComes)' /\ QuitIsSeen'
  <2>1. Range(pendingFunctors') = Range(pendingFunctors) \cup {f}
    BY <1>2, RangeAppend DEF LoopQueues, TypeOK
  <2>2. CASE loopPc = "idle"
    BY <1>2, <2>1, <2>2 DEF LoopQueues, LoopMustWake, Looping, loopVars
  <2>3. CASE loopPc = "callback"
    BY <1>2, <2>3 DEF LoopQueues, loopVars
  <2>4. CASE loopPc = "functor"
    BY <1>2, <2>4 DEF LoopQueues, LoopMustWake, TypeOK, InDoPending, loopVars
  <2> QED BY <1>2, <2>2, <2>3, <2>4 DEF LoopQueues
<1>3. CASE LoopQuits
  BY <1>3 DEF LoopQuits, loopVars, history
<1> QED BY <1>1, <1>2, <1>3 DEF UserCode

\* The loop drains the eventfd only on the way to the swap.
LEMMA WakeupLoop ==
    ASSUME WakeupInv,
           StartLoop \/ PollIsWoken \/ PollSeesIo \/ PollTimesOut \/ LoopStep
    PROVE  (WakeupDue => WakeupComes)' /\ QuitIsSeen'
<1> USE DEF WakeupInv, WakeupDue, WakeupComes, Announced, QuitIsSeen
<1>1. CASE StartLoop
  BY <1>1 DEF StartLoop, Looping, history
<1>2. CASE LoopHead
  BY <1>2 DEF LoopHead, sharedVars, history
<1>3. CASE PollIsWoken \/ PollSeesIo \/ PollTimesOut
  BY <1>3 DEF PollIsWoken, PollSeesIo, PollTimesOut, PollReturns
<1>4. CASE HandleRead
  BY <1>4 DEF HandleRead
<1>5. ASSUME NEW ch \in IoChannels, HandleIo(ch)
      PROVE  (WakeupDue => WakeupComes)' /\ QuitIsSeen'
  BY <1>5 DEF HandleIo
<1>6. CASE UserCodeReturns
  BY <1>6 DEF UserCodeReturns, sharedVars, history
<1>7. CASE EventsDone
  BY <1>7 DEF EventsDone
<1>8. CASE SwapFunctors
  BY <1>8, RangeEmpty DEF SwapFunctors
<1>9. CASE RunFunctor
  BY <1>9 DEF RunFunctor, sharedVars
<1>10. CASE FunctorsDone
  BY <1>10 DEF FunctorsDone, sharedVars, history
<1> QED
  BY <1>1, <1>2, <1>3, <1>4, <1>5, <1>6, <1>7, <1>8, <1>9, <1>10 DEF LoopStep

\* The wakeup invariant holds at the start, and every step keeps it.
LEMMA WakeupInit == Init => WakeupInv
BY TypeInit, RangeEmpty
   DEF Init, WakeupInv, WakeupDue, WakeupComes, Announced, QuitIsSeen

LEMMA WakeupStep == WakeupInv /\ [Next]_vars => WakeupInv'
<1> SUFFICES ASSUME WakeupInv, [Next]_vars PROVE WakeupInv'
  OBVIOUS
<1>1. TypeOK'
  BY TypeStep DEF WakeupInv
<1>2. CASE Next
  <2>1. (WakeupDue => WakeupComes)' /\ QuitIsSeen'
    BY <1>2, WakeupClient, WakeupUser, WakeupLoop DEF Next
  <2> QED BY <1>1, <2>1 DEF WakeupInv
<1>3. CASE UNCHANGED vars
  BY <1>1, <1>3 DEF WakeupInv, WakeupDue, WakeupComes, Announced, QuitIsSeen,
                    vars, loopVars, sharedVars, history
<1> QED BY <1>2, <1>3

\* The loop never sleeps over a functor: whatever the threads, whatever the
\* order of pushes, swaps, reads and writes of the eventfd.
THEOREM WakeupsAreNotLost == Spec => []NoLostWakeup
<1>1. WakeupInv => NoLostWakeup
  BY DEF WakeupInv, WakeupDue, NoLostWakeup
<1> QED BY <1>1, WakeupInit, WakeupStep, PTL DEF Spec

\* The loop never sleeps over a quitLoop.
THEOREM QuitIsNotLost == Spec => []QuitIsSeen
<1>1. WakeupInv => QuitIsSeen
  BY DEF WakeupInv
<1> QED BY <1>1, WakeupInit, WakeupStep, PTL DEF Spec

-----------------------------------------------------------------------------
(* EventLoop implements FunctorQueue.                                      *)

\* A functor fresh to the loop is fresh to the queue.
LEMMA FreshMaps ==
    ASSUME TypeOK, NEW f, Fresh(f)
    PROVE  Queue!Fresh(f)
<1>1. Range(functors \o pendingFunctors)
         = Range(functors) \cup Range(pendingFunctors)
  BY RangeConcatenation DEF TypeOK
<1>2. \A s : Queue!Range(s) = Range(s)
  BY DEF Queue!Range, Range
<1> QED BY <1>1, <1>2 DEF Fresh, Queue!Fresh

\* Pushing a functor, by whichever thread, queues it.
LEMMA PushMaps ==
    ASSUME TypeOK, NEW f \in Functors, Fresh(f),
           pendingFunctors' = Append(pendingFunctors, f),
           UNCHANGED <<functors, ran>>
    PROVE  Queue!Queue(f)
<1>1. functors \in Seq(Functors) /\ pendingFunctors \in Seq(Functors)
  BY DEF TypeOK
<1>2. <<f>> \in Seq(Functors)
  OBVIOUS
<1>3. functors \o Append(pendingFunctors, f)
         = Append(functors \o pendingFunctors, f)
  BY <1>1, <1>2, AppendIsConcat, ConcatAssociative, ConcatProperties
<1> QED BY <1>3, FreshMaps DEF Queue!Queue

\* Running the first functor of the batch runs the first of the queue.
LEMMA RunMaps ==
    ASSUME TypeOK, RunFunctor
    PROVE  Queue!RunQueued
<1> DEFINE q == functors \o pendingFunctors
<1>1. /\ functors \in Seq(Functors) /\ functors # <<>>
      /\ pendingFunctors \in Seq(Functors)
  BY DEF TypeOK, RunFunctor
<1>2. q \in Seq(Functors) /\ q # <<>>
  BY <1>1, ConcatProperties, ConcatEqualIffEmpty
<1>3. Len(functors) \in Nat \ {0}
  BY <1>1, EmptySeq
<1>4. Head(q) = Head(functors)
  BY <1>1, <1>2, <1>3, ConcatProperties, LenProperties
<1>5. Tail(q) = Tail(functors) \o pendingFunctors
  <2>1. /\ Tail(q) \in Seq(Functors)
        /\ Tail(functors) \o pendingFunctors \in Seq(Functors)
    BY <1>1, <1>2, HeadTailProperties, ConcatProperties
  <2>2. Len(Tail(q)) = Len(Tail(functors) \o pendingFunctors)
    BY <1>1, <1>2, HeadTailProperties, ConcatProperties, LenProperties
  <2>3. ASSUME NEW i \in 1 .. Len(Tail(q))
        PROVE  Tail(q)[i] = (Tail(functors) \o pendingFunctors)[i]
    BY <1>1, <1>2, <1>3, <2>2,
       HeadTailProperties, ConcatProperties, LenProperties
  <2> QED BY <2>1, <2>2, <2>3, SeqEqual
<1> QED
  BY <1>2, <1>4, <1>5 DEF RunFunctor, sharedVars, Queue!RunQueued

\* The loop starts as the abstract queue does.
LEMMA QueueInit == Init => Queue!Init
BY ConcatEmptySeq, EmptySeq DEF Init, Queue!Init

\* Every step of the loop or of a client is a step of the queue, or leaves it.
LEMMA QueueStep ==
    ASSUME TypeOK, TypeOK', [Next]_vars
    PROVE  [Queue!Next]_(Queue!queueVars)
<1> USE DEF Queue!Next, Queue!queueVars
<1>1. ASSUME NEW c \in Clients, NEW f \in Functors, ClientQueues(c, f)
      PROVE  Queue!Queue(f)
  BY <1>1, PushMaps DEF ClientQueues, loopVars, history
<1>2. ASSUME NEW f \in Functors, LoopQueues(f)
      PROVE  Queue!Queue(f)
  BY <1>2, PushMaps DEF LoopQueues, loopVars
<1>3. ASSUME NEW f \in Functors, LoopRuns(f)
      PROVE  Queue!RunDirect(f)
  BY <1>3, FreshMaps DEF LoopRuns, loopVars, sharedVars, Queue!RunDirect
<1>4. CASE SwapFunctors
  <2>1. functors = <<>> /\ UNCHANGED ran
    BY <1>4 DEF SwapFunctors, TypeOK, history
  <2>2. functors' \o pendingFunctors' = functors \o pendingFunctors
    BY <1>4, <2>1, ConcatEmptySeq DEF SwapFunctors, TypeOK
  <2> QED BY <2>1, <2>2
<1>5. CASE RunFunctor
  BY <1>5, RunMaps
<1>6. ASSUME UNCHANGED <<functors, pendingFunctors, ran>>
      PROVE  UNCHANGED Queue!queueVars
  BY <1>6
<1>7. ASSUME NEW c \in Clients, ClientStep(c)
      PROVE  [Queue!Next]_(Queue!queueVars)
  <2>1. CASE ClientQuits(c) \/ Wakeup(c)
    BY <2>1, <1>6 DEF ClientQuits, Wakeup, loopVars, history
  <2> QED BY <1>1, <1>7, <2>1 DEF ClientStep
<1>8. CASE UserCode
  BY <1>2, <1>3, <1>6, <1>8 DEF UserCode, LoopQuits, loopVars, history
<1>9. CASE StartLoop \/ PollIsWoken \/ PollSeesIo \/ PollTimesOut
  BY <1>6, <1>9 DEF StartLoop, PollIsWoken, PollSeesIo, PollTimesOut,
                    PollReturns, sharedVars, history
<1>10. CASE \/ LoopHead \/ HandleRead \/ UserCodeReturns
            \/ EventsDone \/ FunctorsDone
  BY <1>6, <1>10 DEF LoopHead, HandleRead, UserCodeReturns, EventsDone,
                     FunctorsDone, sharedVars, history
<1>11. ASSUME NEW ch \in IoChannels, HandleIo(ch)
       PROVE  UNCHANGED Queue!queueVars
  BY <1>6, <1>11 DEF HandleIo, sharedVars, history
<1>12. CASE UNCHANGED vars
  BY <1>6, <1>12 DEF vars, loopVars, sharedVars, history
<1>13. CASE LoopStep
  BY <1>4, <1>5, <1>10, <1>11, <1>13 DEF LoopStep
<1> QED BY <1>7, <1>8, <1>9, <1>12, <1>13 DEF Next

\* Every functor runs at most once, in the order of the pushes.
THEOREM LoopImplementsQueue == Spec => ImplementsQueue
BY QueueInit, QueueStep, TypeInit, TypeStep, PTL
   DEF Spec, ImplementsQueue, Queue!Spec

=============================================================================
