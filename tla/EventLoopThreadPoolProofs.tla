--------------------- MODULE EventLoopThreadPoolProofs ----------------------
(***************************************************************************)
(* Proofs about EventLoopThreadPool: no index is out of range, and the     *)
(* loops take turns.  For any number of threads and calls.                 *)
(***************************************************************************)
EXTENDS EventLoopThreadPool, SequenceTheorems, TLAPS

\* The k-th loop is the k-th thread's; while start() runs, or before, nobody
\* has asked for a loop yet.
LoopsInv ==
    /\ Len(loops) <= MaxThreads
    /\ \A k \in DOMAIN loops : loops[k] = k
    /\ poolPc = "starting" => Len(loops) <= numThreads
    /\ poolPc = "waiting" => Len(loops) < numThreads
    /\ ~started => loops = <<>> /\ poolPc \notin {"starting", "waiting"}
    /\ loops = <<>> \/ poolPc \in {"starting", "waiting"} =>
         next = 0 /\ \A t \in Threads : calls[t] = 0

\* The loops before _next are one call ahead of the others.
TurnInv ==
    \A j, k \in DOMAIN loops :
        /\ (j <= next <=> k <= next) => calls[loops[j]] = calls[loops[k]]
        /\ j <= next /\ ~(k <= next) => calls[loops[j]] = calls[loops[k]] + 1

PoolInv == PoolTypeOK /\ LoopsInv /\ TurnInv

USE DEF PoolPcs, Phases, callVars, poolVars, loopThreadVars, Newest

-----------------------------------------------------------------------------
(* Steps.                                                                  *)

\* A pool starts without loops.
LEMMA PoolInvInit == PoolInit => PoolInv
<1> SUFFICES ASSUME PoolInit PROVE PoolInv
  OBVIOUS
<1>1. /\ <<>> \in Seq(Threads) /\ Len(<<>>) = 0 /\ DOMAIN <<>> = {}
      /\ MaxThreads \in Nat
  BY EmptySeq, PoolAssumption
<1>2. \A t \in Threads : calls[t] = 0
  BY DEF PoolInit
<1>3. PoolTypeOK
  <2>1. calls \in [Threads -> Nat]
    BY DEF PoolInit
  <2>2. phase \in [Threads -> Phases] /\ quit \in [Threads -> BOOLEAN]
    BY DEF PoolInit, Init
  <2>3. numThreads \in 0 .. MaxThreads /\ joined \in 0 .. Len(loops)
    BY <1>1 DEF PoolInit
  <2> QED BY <1>1, <2>1, <2>2, <2>3 DEF PoolInit, PoolTypeOK
<1>4. TurnInv
  BY <1>1 DEF PoolInit, TurnInv
<1>5. LoopsInv
  BY <1>1, <1>2 DEF PoolInit, LoopsInv
<1> QED
  BY <1>3, <1>4, <1>5 DEF PoolInv

\* The other threads change where the loops are, and nothing of the pool.
LEMMA ThreadKeeps ==
    ASSUME PoolInv, NEW t \in Threads, ThreadRuns(t) \/ UserQuits(t)
    PROVE  PoolInv'
<1> USE DEF PoolInv, PoolTypeOK
<1>1. /\ phase' \in [Threads -> Phases] /\ quit' \in [Threads -> BOOLEAN]
      /\ UNCHANGED poolVars
  BY DEF ThreadRuns, UserQuits, Runs, Publishes, Enters, Leaves, Moves,
         IsToldToQuit
<1> QED BY <1>1 DEF LoopsInv, TurnInv

\* start() and its threads.
LEMMA StartKeeps ==
    ASSUME PoolInv, Start \/ StartThread \/ ThreadStarted \/ StartReturns
    PROVE  PoolInv'
<1> USE DEF PoolInv, PoolTypeOK
<1>1. Len(loops) \in Nat /\ DOMAIN loops = 1 .. Len(loops) /\ MaxThreads \in Nat
  BY LenProperties, PoolAssumption
<1>2. CASE Start
  <2>1. loops = <<>> /\ Len(loops) = 0
    BY <1>2, EmptySeq DEF Start, LoopsInv
  <2>2. PoolTypeOK' /\ TurnInv'
    BY <1>2 DEF Start, TurnInv
  <2>3. LoopsInv'
    BY <1>2, <2>1 DEF Start, LoopsInv
  <2> QED BY <2>2, <2>3
<1>3. CASE StartThread
  <2>1. phase' \in [Threads -> Phases]
    BY <1>3 DEF StartThread, Starts, Moves
  <2>2. PoolTypeOK' /\ TurnInv'
    BY <1>3, <2>1 DEF StartThread, Starts, TurnInv
  <2>3. LoopsInv'
    BY <1>3 DEF StartThread, LoopsInv
  <2> QED BY <2>2, <2>3
<1>4. CASE ThreadStarted
  <2>1. Newest \in Threads /\ Newest <= numThreads
    BY <1>1, <1>4, PoolAssumption DEF ThreadStarted, LoopsInv
  <2>2. /\ loops' \in Seq(Threads) /\ Len(loops') = Newest
        /\ DOMAIN (loops') = 1 .. Newest
        /\ \A k \in 1 .. Len(loops) : loops'[k] = loops[k]
        /\ loops'[Newest] = Newest
    BY <1>4, <2>1, AppendProperties, LenProperties DEF ThreadStarted
  <2>3. \A k \in DOMAIN (loops') : k \in DOMAIN loops \/ k = Newest
    BY <1>1, <2>2
  <2>4. next = 0 /\ \A u \in Threads : calls[u] = 0
    BY <1>4 DEF ThreadStarted, LoopsInv
  <2>5. UNCHANGED <<loopThreadVars, started, numThreads, joined, callVars>>
        /\ poolPc = "waiting" /\ poolPc' = "starting"
    BY <1>4 DEF ThreadStarted
  <2>6. PoolTypeOK'
    BY <1>1, <2>2, <2>4, <2>5
  <2>7. LoopsInv'
    BY <1>1, <2>1, <2>2, <2>3, <2>4, <2>5 DEF LoopsInv
  <2>8. TurnInv'
    <3>1. \A k \in DOMAIN (loops') : loops'[k] \in Threads /\ ~(k <= 0)
      BY <1>1, <2>2, ElementOfSeq
    <3> QED BY <2>4, <2>5, <3>1 DEF TurnInv
  <2> QED BY <2>6, <2>7, <2>8
<1>5. CASE StartReturns
  BY <1>5 DEF StartReturns, LoopsInv, TurnInv
<1> QED BY <1>2, <1>3, <1>4, <1>5

\* _next, as getNextLoop computes it.
LEMMA NextIndex ==
    ASSUME NEW n \in Int, NEW len \in Int, n \in 0 .. len - 1
    PROVE  LET f == IF n + 1 >= len THEN 0 ELSE n + 1
           IN  /\ n \in Nat /\ n + 1 \in 1 .. len
               /\ f \in 0 .. len - 1 /\ f \in Nat
               /\ \/ f = n + 1
                  \/ f = 0 /\ n + 1 = len
               /\ ~(n + 1 <= n)
               /\ \A i \in 1 .. len :
                    /\ i \in Nat /\ ~(i <= 0)
                    /\ i <= n + 1 <=> i <= n \/ i = n + 1
                    /\ n + 1 = len => i <= n \/ i = n + 1
OBVIOUS

\* getNextLoop: the turn passes on.
LEMMA GetKeeps ==
    ASSUME PoolInv, GetNextLoop
    PROVE  PoolInv'
<1>1. /\ Len(loops) \in Nat /\ DOMAIN loops = 1 .. Len(loops) /\ Len(loops) # 0
      /\ next \in 0 .. Len(loops) - 1
  BY LenProperties, EmptySeq DEF GetNextLoop, PoolInv, PoolTypeOK
<1>2. /\ \A k \in 1 .. Len(loops) : loops[k] = k
      /\ \A k \in 1 .. Len(loops) : k \in Threads
      /\ calls \in [Threads -> Nat]
  <2>1. Len(loops) <= MaxThreads /\ MaxThreads \in Nat
    BY PoolAssumption DEF PoolInv, LoopsInv
  <2>2. \A k \in 1 .. Len(loops) : k \in 1 .. MaxThreads
    BY <1>1, <2>1
  <2> QED BY <1>1, <2>2, PoolAssumption DEF PoolInv, LoopsInv, PoolTypeOK
<1>3. /\ next \in Nat /\ next + 1 \in 1 .. Len(loops)
      /\ Following \in 0 .. Len(loops) - 1 /\ Following \in Nat
      /\ \/ Following = next + 1
         \/ Following = 0 /\ next + 1 = Len(loops)
      /\ ~(next + 1 <= next)
      /\ \A i \in 1 .. Len(loops) :
           /\ i \in Nat /\ ~(i <= 0)
           /\ i <= next + 1 <=> i <= next \/ i = next + 1
           /\ next + 1 = Len(loops) => i <= next \/ i = next + 1
  <2>1. next \in Int /\ Len(loops) \in Int
    BY <1>1
  <2> QED BY <1>1, <2>1, NextIndex DEF Following
<1>4. /\ calls' = [calls EXCEPT ![next + 1] = @ + 1]
      /\ next' = Following
      /\ poolPc = "user"
      /\ UNCHANGED <<loopThreadVars, poolPc, started, numThreads, loops, joined>>
  BY <1>2, <1>3 DEF GetNextLoop
<1>5. /\ calls' \in [Threads -> Nat]
      /\ \A k \in 1 .. Len(loops) :
           calls'[k] = IF k = next + 1 THEN calls[k] + 1 ELSE calls[k]
  BY <1>2, <1>3, <1>4
<1>6. /\ next' \in 0 .. Len(loops) - 1 /\ next' \in Nat
      /\ \/ next' = next + 1
         \/ next' = 0 /\ next + 1 = Len(loops)
  BY <1>3, <1>4
<1>7. PoolTypeOK'
  BY <1>4, <1>5, <1>6 DEF PoolInv, PoolTypeOK
<1>8. LoopsInv'
  BY <1>4 DEF PoolInv, LoopsInv, GetNextLoop
<1>9. TurnInv'
  <2> SUFFICES ASSUME NEW j \in 1 .. Len(loops), NEW k \in 1 .. Len(loops)
               PROVE  /\ (j <= next' <=> k <= next') => calls'[j] = calls'[k]
                      /\ j <= next' /\ ~(k <= next') => calls'[j] = calls'[k] + 1
    BY <1>1, <1>2, <1>4 DEF TurnInv
  <2>1. /\ (j <= next <=> k <= next) => calls[j] = calls[k]
        /\ j <= next /\ ~(k <= next) => calls[j] = calls[k] + 1
        /\ k <= next /\ ~(j <= next) => calls[k] = calls[j] + 1
    <3>1. \A i, l \in 1 .. Len(loops) :
            /\ (i <= next <=> l <= next) => calls[loops[i]] = calls[loops[l]]
            /\ i <= next /\ ~(l <= next) => calls[loops[i]] = calls[loops[l]] + 1
      BY <1>1 DEF PoolInv, TurnInv
    <3>2. loops[j] = j /\ loops[k] = k
      BY <1>2
    <3>3. (k <= next <=> j <= next) <=> (j <= next <=> k <= next)
      OBVIOUS
    <3> QED BY <3>1, <3>2, <3>3
  <2>2. calls[j] \in Nat /\ calls[k] \in Nat
    BY <1>2
  <2>3. CASE next' = next + 1
    BY <1>3, <1>5, <2>1, <2>2, <2>3
  <2>4. CASE next' = 0 /\ next + 1 = Len(loops)
    <3>1. \A i \in 1 .. Len(loops) :
            /\ ~(i <= next')
            /\ i <= next \/ i = next + 1
            /\ ~(next + 1 <= next)
      BY <1>3, <2>4, Zenon
    <3> QED BY <1>5, <2>1, <2>2, <3>1
  <2> QED BY <1>6, <2>3, <2>4
<1> QED BY <1>7, <1>8, <1>9 DEF PoolInv

\* What is left of the base loop's thread.
LEMMA OwnerKeeps ==
    ASSUME PoolInv,
           \/ \E n \in 0 .. MaxThreads : SetThreadNum(n)
           \/ Destroy \/ Join \/ DestroyReturns
    PROVE  PoolInv'
<1> USE DEF PoolInv, PoolTypeOK, LoopsInv, TurnInv
<1>1. Len(loops) \in Nat
  BY LenProperties
<1>2. ASSUME NEW n \in 0 .. MaxThreads, SetThreadNum(n)
      PROVE  PoolInv'
  BY <1>2 DEF SetThreadNum
<1>3. CASE Destroy
  BY <1>3 DEF Destroy
<1>4. CASE Join
  BY <1>1, <1>4 DEF Join
<1>5. CASE DestroyReturns
  BY <1>5 DEF DestroyReturns
<1> QED BY <1>2, <1>3, <1>4, <1>5

\* The invariant holds in every state.
LEMMA PoolInvCorrect == PoolSpec => []PoolInv
<1>1. PoolInv /\ [PoolNext]_allVars => PoolInv'
  <2> SUFFICES ASSUME PoolInv, [PoolNext]_allVars PROVE PoolInv'
    OBVIOUS
  <2>1. CASE PoolNext
    BY <2>1, ThreadKeeps, StartKeeps, GetKeeps, OwnerKeeps DEF PoolNext, PoolStep
  <2>2. CASE UNCHANGED allVars
    BY <2>2 DEF allVars, PoolInv, PoolTypeOK, LoopsInv, TurnInv
  <2> QED BY <2>1, <2>2
<1> QED BY <1>1, PoolInvInit, PTL DEF PoolSpec

-----------------------------------------------------------------------------
(* The theorems.                                                           *)

\* The pool's variables keep their types, and no index is out of range.
THEOREM PoolTypeCorrect == PoolSpec => []PoolTypeOK
<1>1. PoolInv => PoolTypeOK
  BY DEF PoolInv
<1> QED BY <1>1, PoolInvCorrect, PTL

\* getNextLoop deals the calls out evenly, whatever the number of loops.
THEOREM LoopsTakeTurns == PoolSpec => []TakesTurns
<1>1. PoolInv => TakesTurns
  <2> SUFFICES ASSUME PoolInv, NEW j \in DOMAIN loops, NEW k \in DOMAIN loops,
                      j < k
               PROVE  calls[loops[j]] - calls[loops[k]] \in {0, 1}
    BY DEF TakesTurns
  <2>1. /\ j \in Nat /\ k \in Nat /\ next \in Nat
        /\ loops[j] \in Threads /\ loops[k] \in Threads
    BY LenProperties, ElementOfSeq DEF PoolInv, PoolTypeOK
  <2>2. calls[loops[j]] \in Nat /\ calls[loops[k]] \in Nat
    BY <2>1 DEF PoolInv, PoolTypeOK
  <2>3. /\ (j <= next <=> k <= next) => calls[loops[j]] = calls[loops[k]]
        /\ j <= next /\ ~(k <= next) => calls[loops[j]] = calls[loops[k]] + 1
    BY DEF PoolInv, TurnInv
  <2>4. k <= next => j <= next
    BY <2>1
  <2> QED BY <2>2, <2>3, <2>4
<1> QED BY <1>1, PoolInvCorrect, PTL

=============================================================================
