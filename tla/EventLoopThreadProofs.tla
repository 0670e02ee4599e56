----------------------- MODULE EventLoopThreadProofs ------------------------
(***************************************************************************)
(* Proofs about EventLoopThread, on top of those about EventLoop: the      *)
(* loop on the thread's stack is handed over only once it is there, it     *)
(* runs only while it is there, and its owner sees what LoopThread         *)
(* promises.  For any set of clients, functors and channels.               *)
(***************************************************************************)
EXTENDS EventLoopThread, EventLoopProofs

\* A loop that the thread has entered and left was told to quit.
LeftIsQuit == threadPc = "looping" /\ ~Looping => quit

ThreadInv == ThreadTypeOK /\ PointerIsLive /\ LeftIsQuit

USE DEF threadVars, OwnerPcs, ThreadPcs

-----------------------------------------------------------------------------

\* The invariant holds before the thread is started.
LEMMA ThreadInvInit == ThreadInit => ThreadInv
BY TypeInit
   DEF ThreadInit, Init, ThreadInv, ThreadTypeOK, PointerIsLive, LeftIsQuit,
       Looping

\* What is left of the invariant once the loop keeps its types: where the owner
\* and the thread are, and whether the loop runs.
Places == <<ownerPc, threadPc, quitCalled, Looping, quit>>

\* What does not move the owner, the thread or the loop keeps the invariant.
LEMMA PlacesKeep ==
    ASSUME ThreadInv, TypeOK', UNCHANGED Places
    PROVE  ThreadInv'
BY DEF ThreadInv, ThreadTypeOK, PointerIsLive, LeftIsQuit, Places, Looping

\* The owner's steps, and the thread's outside startLoop, leave the loop alone.
LEMMA OwnerKeeps ==
    ASSUME ThreadInv,
           \/ OwnerStarts \/ OwnerTests \/ SpuriousWakeup
           \/ OwnerDestroys \/ OwnerJoins
           \/ ThreadPublishes \/ ThreadDestroysLoop
    PROVE  ThreadInv'
<1>1. UNCHANGED vars
  BY DEF OwnerStarts, OwnerTests, SpuriousWakeup, OwnerDestroys, OwnerJoins,
         ThreadPublishes, ThreadDestroysLoop
<1>2. TypeOK'
  BY <1>1, TypeStep DEF ThreadInv, ThreadTypeOK
<1>3. Looping' = Looping /\ quit' = quit
  BY <1>1 DEF vars, loopVars, sharedVars, Looping
<1> USE <1>2, <1>3
    DEF ThreadInv, ThreadTypeOK, PointerIsLive, LeftIsQuit
<1>4. CASE OwnerStarts
  BY <1>4 DEF OwnerStarts, Looping
<1>5. CASE OwnerTests
  BY <1>5 DEF OwnerTests, LoopIsSet, Looping
<1>6. CASE SpuriousWakeup
  BY <1>6 DEF SpuriousWakeup, Looping
<1>7. CASE OwnerDestroys
  BY <1>7 DEF OwnerDestroys, Looping
<1>8. CASE OwnerJoins
  BY <1>8 DEF OwnerJoins, Looping
<1>9. CASE ThreadPublishes
  BY <1>9 DEF ThreadPublishes, Looping
<1>10. CASE ThreadDestroysLoop
  BY <1>10 DEF ThreadDestroysLoop, Looping
<1> QED BY <1>4, <1>5, <1>6, <1>7, <1>8, <1>9, <1>10

\* The thread enters the loop.
LEMMA StartKeeps ==
    ASSUME ThreadInv, ThreadStartsLoop
    PROVE  ThreadInv'
<1>1. TypeOK'
  BY TypeStep DEF ThreadInv, ThreadTypeOK, ThreadStartsLoop, Next
<1> QED
  BY <1>1 DEF ThreadInv, ThreadTypeOK, PointerIsLive, LeftIsQuit,
              ThreadStartsLoop, StartLoop, Looping

\* A call sets _quit, if anything: that leaves LeftIsQuit as it is.
LEMMA ClientKeeps ==
    ASSUME ThreadInv, NEW c \in Clients, ClientCalls(c) \/ ClientWakes(c)
    PROVE  ThreadInv'
<1>1. CASE ClientCalls(c)
  <2>1. TypeOK'
    BY <1>1, TypeStep
       DEF ThreadInv, ThreadTypeOK, ClientCalls, Next, ClientStep
  <2>2. loopPc' = loopPc /\ (quit' = quit \/ quit')
    BY <1>1 DEF ClientCalls, ClientQueues, ClientQuits, loopVars
  <2> QED
    BY <1>1, <2>1, <2>2
       DEF ThreadInv, ThreadTypeOK, PointerIsLive, LeftIsQuit, ClientCalls,
           Looping
<1>2. CASE ClientWakes(c)
  <2>1. TypeOK'
    <3>1. CASE Wakeup(c)
      BY <3>1, TypeStep DEF ThreadInv, ThreadTypeOK, Next, ClientStep
    <3>2. CASE ~Wakeup(c)
      BY <1>2, <3>2 DEF ClientWakes, ThreadInv, ThreadTypeOK, TypeOK,
                        loopVars, history
    <3> QED BY <3>1, <3>2
  <2>2. UNCHANGED Places
    BY <1>2 DEF ClientWakes, Wakeup, Places, loopVars, Looping
  <2> QED BY <2>1, <2>2, PlacesKeep
<1> QED BY <1>1, <1>2

\* A step of the loop leaves it only when it was told to quit.
LEMMA LoopStays ==
    ASSUME TypeOK, Looping,
           LoopStep \/ PollStep \/ UserCode
    PROVE  /\ Looping' \/ quit
           /\ quit' = quit \/ quit'
<1> USE DEF Looping
<1>1. CASE LoopHead
  BY <1>1 DEF LoopHead, sharedVars
<1>2. CASE \/ HandleRead \/ UserCodeReturns \/ EventsDone
           \/ SwapFunctors \/ RunFunctor \/ FunctorsDone
  BY <1>2 DEF HandleRead, UserCodeReturns, EventsDone, SwapFunctors,
              RunFunctor, FunctorsDone, sharedVars
<1>3. ASSUME NEW ch \in IoChannels, HandleIo(ch)
      PROVE  Looping' /\ quit' = quit
  BY <1>3 DEF HandleIo, sharedVars
<1>4. CASE PollStep
  BY <1>4 DEF PollStep, PollIsWoken, PollSeesIo, PollTimesOut, PollReturns,
              sharedVars
<1>5. CASE UserCode
  BY <1>5 DEF UserCode, LoopRuns, LoopQueues, LoopQuits, loopVars, sharedVars
<1> QED BY <1>1, <1>2, <1>3, <1>4, <1>5 DEF LoopStep

\* The loop's own steps begin while it runs.
LEMMA RunsWhileLooping ==
    ASSUME TypeOK, LoopStep \/ PollStep
    PROVE  Looping
BY DEF LoopStep, LoopHead, HandleRead, HandleIo, UserCodeReturns, EventsDone,
       SwapFunctors, RunFunctor, FunctorsDone, PollStep, PollIsWoken,
       PollSeesIo, PollTimesOut, PollReturns, Looping

\* The loop runs in the thread that holds it.
LEMMA LoopKeeps ==
    ASSUME ThreadInv, LoopRunsOn
    PROVE  ThreadInv'
<1>1. TypeOK /\ TypeOK'
  BY TypeStep DEF ThreadInv, ThreadTypeOK, LoopRunsOn, PollStep, Next
<1>2. Looping
  BY <1>1, RunsWhileLooping DEF LoopRunsOn
<1>3. (Looping' \/ quit) /\ (quit' = quit \/ quit')
  BY <1>1, <1>2, LoopStays DEF LoopRunsOn
<1>4. UNCHANGED threadVars /\ threadPc = "looping"
  BY DEF LoopRunsOn
<1> QED
  BY <1>1, <1>3, <1>4
     DEF ThreadInv, ThreadTypeOK, PointerIsLive, LeftIsQuit, Looping

\* Every step keeps the invariant.
LEMMA ThreadInvStep == ThreadInv /\ [ThreadNext]_allVars => ThreadInv'
<1> SUFFICES ASSUME ThreadInv, [ThreadNext]_allVars PROVE ThreadInv'
  OBVIOUS
<1>1. CASE UNCHANGED allVars
  <2>1. TypeOK'
    BY <1>1, TypeStep DEF ThreadInv, ThreadTypeOK, allVars
  <2> QED
    BY <1>1, <2>1, PlacesKeep
       DEF allVars, Places, vars, loopVars, sharedVars, Looping
<1> QED
  BY <1>1, OwnerKeeps, StartKeeps, ClientKeeps, LoopKeeps DEF ThreadNext

LEMMA ThreadInvariant == ThreadSpec => []ThreadInv
BY ThreadInvInit, ThreadInvStep, PTL DEF ThreadSpec

\* The variables keep their types, and the loop runs only while it is on the
\* stack of threadFunc: the assertion of ~EventLoop holds.
THEOREM ThreadTypeCorrect == ThreadSpec => []ThreadTypeOK
<1>1. ThreadInv => ThreadTypeOK
  BY DEF ThreadInv
<1> QED BY <1>1, ThreadInvariant, PTL

\* The pointer that startLoop returns is that of a constructed loop, whatever
\* the order of the notification, the wait and spurious wakeups.
THEOREM PointerIsHandedOver == ThreadSpec => []PointerIsLive
<1>1. ThreadInv => PointerIsLive
  BY DEF ThreadInv
<1> QED BY <1>1, ThreadInvariant, PTL

-----------------------------------------------------------------------------
(* EventLoopThread implements LoopThread.                                  *)

\* The owner finds at the start what LoopThread says.
LEMMA PromiseInit == ThreadInit => Promise!Init
BY DEF ThreadInit, Init, Promise!Init

\* A step that leaves threadPc and _quit alone, or sets _quit while the loop can
\* be told, is one of the promise.
LEMMA QuitMaps ==
    ASSUME threadPc' = threadPc,
           quit' = quit \/ (quit' = TRUE /\ threadPc \in {"published", "looping"})
    PROVE  [Promise!Next]_(Promise!loopThreadVars)
<1>1. CASE quit' = quit
  BY <1>1 DEF Promise!loopThreadVars
<1>2. CASE quit' = TRUE /\ threadPc \in {"published", "looping"}
  BY <1>2 DEF Promise!Next, Promise!IsToldToQuit
<1> QED BY <1>1, <1>2

\* Every step is one of LoopThread, or changes nothing there.
LEMMA PromiseStep ==
    ASSUME ThreadInv, [ThreadNext]_allVars
    PROVE  [Promise!Next]_(Promise!loopThreadVars)
<1> USE DEF Promise!Next, Promise!Moves
<1>1. CASE \/ OwnerTests \/ SpuriousWakeup \/ OwnerDestroys \/ OwnerJoins
           \/ UNCHANGED allVars
  BY <1>1, QuitMaps
     DEF OwnerTests, SpuriousWakeup, OwnerDestroys, OwnerJoins, allVars, vars,
         sharedVars
<1>2. CASE OwnerStarts
  BY <1>2 DEF OwnerStarts, Promise!Starts, vars, sharedVars, ThreadInv,
              ThreadTypeOK
<1>3. CASE ThreadPublishes
  BY <1>3 DEF ThreadPublishes, Promise!Runs, Promise!Publishes, vars,
              sharedVars
<1>4. CASE ThreadStartsLoop
  BY <1>4 DEF ThreadStartsLoop, StartLoop, Promise!Runs, Promise!Enters
<1>5. CASE ThreadDestroysLoop
  BY <1>5 DEF ThreadDestroysLoop, ThreadInv, LeftIsQuit, Promise!Runs,
              Promise!Leaves, vars, sharedVars
<1>6. ASSUME NEW c \in Clients, ClientCalls(c)
      PROVE  [Promise!Next]_(Promise!loopThreadVars)
  <2>1. threadPc \in {"published", "looping"}
    BY <1>6 DEF ClientCalls, HasPointer, ThreadInv, ThreadTypeOK, PointerIsLive
  <2> QED
    BY <1>6, <2>1, QuitMaps DEF ClientCalls, ClientQueues, ClientQuits
<1>7. ASSUME NEW c \in Clients, ClientWakes(c)
      PROVE  [Promise!Next]_(Promise!loopThreadVars)
  BY <1>7, QuitMaps DEF ClientWakes, Wakeup
<1>8. CASE LoopRunsOn
  <2>1. quit' = quit \/ quit' = TRUE
    BY <1>8 DEF LoopRunsOn, PollStep, PollIsWoken, PollSeesIo, PollTimesOut,
                PollReturns, UserCode, LoopRuns, LoopQueues, LoopQuits,
                LoopStep, LoopHead, HandleRead, HandleIo, UserCodeReturns,
                EventsDone, SwapFunctors, RunFunctor, FunctorsDone, sharedVars
  <2> QED BY <1>8, <2>1, QuitMaps DEF LoopRunsOn
<1> QED
  BY <1>1, <1>2, <1>3, <1>4, <1>5, <1>6, <1>7, <1>8 DEF ThreadNext

\* A thread with its loop, its handshake and its clients is what the users of
\* several of them take it for.
THEOREM ThreadImplementsPromise == ThreadSpec => ImplementsLoopThread
BY PromiseInit, PromiseStep, ThreadInvariant, PTL
   DEF ThreadSpec, ImplementsLoopThread, Promise!Spec

-----------------------------------------------------------------------------
(* What EventLoop promises, while it is on the stack of threadFunc.        *)

\* Once the loop is gone the wakeup of a late call goes astray, so EventLoop's
\* invariant holds up to that point only.
WokenWhileThere == threadPc # "done" => WakeupInv

\* A call of quitLoop or queueInLoop that ends after the loop is gone.
WakesNobody(c) ==
    /\ threadPc = "done" /\ clientPc[c] = "wake"
    /\ UNCHANGED <<loopVars, history, quit, pendingFunctors, wakeupReadable>>

\* Any other step is one of EventLoop, or leaves it alone.
LEMMA ThreadMoves ==
    ASSUME ThreadInv, [ThreadNext]_allVars
    PROVE  /\ threadPc = "done" => threadPc' = "done"
           /\ [Next]_vars \/ \E c \in Clients : WakesNobody(c)
<1>1. CASE \/ OwnerStarts \/ OwnerTests \/ SpuriousWakeup
           \/ OwnerDestroys \/ OwnerJoins
           \/ ThreadPublishes \/ ThreadDestroysLoop \/ UNCHANGED allVars
  <2>1. UNCHANGED vars
    BY <1>1 DEF OwnerStarts, OwnerTests, SpuriousWakeup, OwnerDestroys,
       OwnerJoins, ThreadPublishes, ThreadDestroysLoop, allVars
  <2>2. threadPc = "done" => threadPc' = "done"
    BY <1>1 DEF OwnerStarts, OwnerTests, SpuriousWakeup, OwnerDestroys,
       OwnerJoins, ThreadPublishes, ThreadDestroysLoop, allVars, ThreadInv,
       ThreadTypeOK
  <2> QED BY <2>1, <2>2
<1>2. CASE ThreadStartsLoop
  BY <1>2 DEF ThreadStartsLoop, Next
<1>3. ASSUME NEW c \in Clients, ClientCalls(c)
      PROVE  threadPc # "done" /\ Next
  BY <1>3 DEF ClientCalls, HasPointer, Next, ClientStep
<1>4. ASSUME NEW c \in Clients, ClientWakes(c)
      PROVE  threadPc' = threadPc /\ (Next \/ WakesNobody(c))
  BY <1>4 DEF ClientWakes, Next, ClientStep, WakesNobody
<1>5. CASE LoopRunsOn
  BY <1>5 DEF LoopRunsOn, PollStep, Next
<1> QED BY <1>1, <1>2, <1>3, <1>4, <1>5 DEF ThreadNext

\* The loop keeps its invariant while it is there.
LEMMA WokenStep ==
    ASSUME ThreadInv, WokenWhileThere, [ThreadNext]_allVars
    PROVE  WokenWhileThere'
<1> SUFFICES ASSUME threadPc' # "done" PROVE WakeupInv'
  BY DEF WokenWhileThere
<1>1. threadPc # "done" /\ [Next]_vars
  BY ThreadMoves DEF WakesNobody
<1> QED BY <1>1, WakeupStep DEF WokenWhileThere

LEMMA WokenCorrect == ThreadSpec => []WokenWhileThere
<1>1. ThreadInit => WokenWhileThere
  BY WakeupInit DEF ThreadInit, WokenWhileThere
<1> QED BY <1>1, WokenStep, ThreadInvariant, PTL DEF ThreadSpec

\* The loop does not sleep over a functor or a quit that the owner, or a thread
\* it gave the pointer to, handed over, also before the thread entered startLoop
\* (EventLoop.cpp:83-108, EventLoopThread.cpp:37-48).
THEOREM ThreadLoopIsWoken == ThreadSpec => []NoLostWakeup /\ []QuitIsSeen
<1>1. ThreadInv /\ WokenWhileThere => NoLostWakeup /\ QuitIsSeen
  <2>1. CASE threadPc # "done"
    BY <2>1 DEF WokenWhileThere, WakeupInv, WakeupDue, NoLostWakeup
  <2>2. CASE threadPc = "done"
    BY <2>2 DEF ThreadInv, ThreadTypeOK, Looping, NoLostWakeup, QuitIsSeen
  <2> QED BY <2>1, <2>2
<1> QED BY <1>1, WokenCorrect, ThreadInvariant, PTL

\* Every functor handed over runs at most once and in the order of the pushes, to
\* the end of the loop and beyond it, when calls end that came too late.
THEOREM ThreadLoopImplementsQueue == ThreadSpec => ImplementsQueue
<1>1. ThreadInit => Queue!Init
  BY QueueInit DEF ThreadInit
<1>2. ASSUME ThreadInv, ThreadInv', [ThreadNext]_allVars
      PROVE  [Queue!Next]_(Queue!queueVars)
  <2>1. CASE [Next]_vars
    BY <1>2, <2>1, QueueStep DEF ThreadInv, ThreadTypeOK
  <2>2. ASSUME NEW c \in Clients, WakesNobody(c)
        PROVE  UNCHANGED Queue!queueVars
    BY <2>2 DEF WakesNobody, loopVars, history, Queue!queueVars
  <2> QED BY <1>2, <2>1, <2>2, ThreadMoves
<1> QED
  BY <1>1, <1>2, ThreadInvariant, PTL
     DEF ThreadSpec, ImplementsQueue, Queue!Spec

=============================================================================
