---------------------------- MODULE BufferProofs ----------------------------
(***************************************************************************)
(* Proofs about Buffer: while no append overruns the ring, its indexes     *)
(* stay inside the vector, and it is a queue of bytes.  For any bytes,     *)
(* messages and initial size.                                              *)
(***************************************************************************)
EXTENDS Buffer, RingProofs

-----------------------------------------------------------------------------
(* The steps.                                                              *)

\* The ring is never wrapped.
BufferInv == Unwrapped(buf, Bytes) /\ taken \in Seq(Bytes)

\* An empty buffer is an unwrapped ring, and an empty queue.
LEMMA BufferInit == Init => BufferInv /\ Queue!Init
BY BufferAssumption, NewFacts, EmptySeq DEF Init, BufferInv, Queue!Init

\* A call takes the n oldest bytes.
LEMMA TakeStep ==
    ASSUME BufferInv, NEW n \in 1 .. Len(Content(buf)),
           taken' = SubSeq(Content(buf), 1, n), buf' = Retrieve(buf, n)
    PROVE  BufferInv' /\ Queue!Next
<1>1. /\ Unwrapped(buf, Bytes) /\ Content(buf) \in Seq(Bytes) /\ 0 \in Bytes
      /\ Len(Content(buf)) = End(buf) - buf.startIndex
  BY BufferAssumption, ContentFacts DEF BufferInv
<1>2. /\ Unwrapped(buf', Bytes)
      /\ Content(buf') = SubSeq(Content(buf), n + 1, Len(Content(buf)))
  BY <1>1, RetrieveFacts
<1>3. Len(Content(buf)) \in Nat /\ Content(buf) \in [1 .. Len(Content(buf)) -> Bytes]
  BY <1>1, LenProperties
<1>4. taken' \in Seq(Bytes)
  BY <1>3, SubSeqProperties
<1>5. n \in 0 .. Len(Content(buf))
  BY <1>3
<1> QED BY <1>2, <1>4, <1>5 DEF BufferInv, Queue!Next, Queue!Take

\* Every step keeps the invariant, and is one of the queue.
LEMMA BufferStep ==
    ASSUME BufferInv, [Next]_vars
    PROVE  BufferInv' /\ [Queue!Next]_Queue!queueVars
<1>1. /\ Unwrapped(buf, Bytes) /\ IsRing(buf, Bytes) /\ 0 \in Bytes
      /\ Content(buf) \in Seq(Bytes) /\ Len(Content(buf)) \in Nat
  BY BufferAssumption, ContentFacts, LenProperties DEF BufferInv, Unwrapped
<1>2. ASSUME NEW data \in Messages, ~Overruns(buf, Len(data)), AppendData(data)
      PROVE  BufferInv' /\ Queue!Next
  <2>1. data \in Seq(Bytes) /\ data # <<>>
    BY BufferAssumption
  <2>2. Unwrapped(buf', Bytes) /\ Content(buf') = Content(buf) \o data
    BY <1>1, <1>2, <2>1, AppendedFacts DEF AppendData
  <2>3. taken' = <<>> /\ taken' \in Seq(Bytes)
    BY <1>2, EmptySeq DEF AppendData
  <2> QED BY <2>2, <2>3 DEF BufferInv, Queue!Next, Queue!Put
<1>3. CASE TakeAll
  <2>1. Unwrapped(buf', Bytes) /\ Content(buf') = <<>> /\ taken' = Content(buf)
    BY <1>1, <1>3, RetrieveAllFacts DEF TakeAll
  <2>2. SubSeq(Content(buf), 1, Len(Content(buf))) = Content(buf)
    BY <1>1, SubSeqFull
  <2>3. SubSeq(Content(buf), Len(Content(buf)) + 1, Len(Content(buf))) = <<>>
    BY <1>1, SubSeqEmpty
  <2>4. Queue!Take(Len(Content(buf))) /\ Len(Content(buf)) \in 0 .. Len(Content(buf))
    BY <1>1, <2>1, <2>2, <2>3 DEF Queue!Take
  <2> QED BY <1>1, <2>1, <2>4 DEF BufferInv, Queue!Next
<1>4. CASE TakeSome
  BY <1>4, TakeStep DEF TakeSome
<1>5. CASE WriteOut
  <2>1. PICK n \in 1 .. Contiguous(buf) :
          taken' = Peek(buf, n) /\ buf' = Retrieve(buf, n)
    BY <1>5 DEF WriteOut
  <2>2. n \in 1 .. Len(Content(buf)) /\ Peek(buf, n) = SubSeq(Content(buf), 1, n)
    BY <1>1, <1>5, WriteOutFacts DEF WriteOut
  <2> QED BY <2>1, <2>2, TakeStep
<1>6. CASE UNCHANGED vars
  BY <1>6, Zenon DEF vars, BufferInv, Queue!queueVars
<1> QED BY <1>2, <1>3, <1>4, <1>5, <1>6 DEF Next

-----------------------------------------------------------------------------
(* The theorems.                                                           *)

\* The indexes stay inside the vector, and a full ring is full to its end.
THEOREM BufferTypeCorrect == Spec => []RingTypeOK
<1>1. BufferInv => RingTypeOK
  BY DEF BufferInv, Unwrapped, RingTypeOK
<1>2. Init => BufferInv
  BY BufferInit
<1>3. BufferInv /\ [Next]_vars => BufferInv'
  BY BufferStep
<1> QED BY <1>1, <1>2, <1>3, PTL DEF Spec

\* As long as no append overruns the ring, also behind partial writes, its indexes,
\* _isFull and its growth implement a queue of bytes.
THEOREM RingImplementsQueue == Spec => ImplementsByteQueue
<1>1. Init => BufferInv /\ Queue!Init
  BY BufferInit
<1>2. BufferInv /\ [Next]_vars => BufferInv' /\ [Queue!Next]_Queue!queueVars
  BY BufferStep
<1> QED BY <1>1, <1>2, PTL DEF Spec, ImplementsByteQueue, Queue!Spec

=============================================================================
