----------------------------- MODULE RingProofs -----------------------------
(***************************************************************************)
(* What the operators of Ring do, for any bytes and any initial size: as   *)
(* long as no append overruns it, the ring is never wrapped and holds what *)
(* was appended to it and not yet retrieved; and whatever happens to it,   *)
(* its indexes stay inside the vector.                                     *)
(***************************************************************************)
EXTENDS Ring, SequenceTheorems, TLAPS

\* The end of the vector is the end of the content, and its index is 0.
AtEnd(b) == b.isFull \/ (b.endIndex = 0 /\ b.startIndex > 0)

\* Where the content of an unwrapped ring ends.
End(b) == IF AtEnd(b) THEN BufferSize(b) ELSE b.endIndex

\* The content does not go around the end of the vector.
Unwrapped(b, S) ==
    /\ IsRing(b, S)
    /\ b.isFull => b.endIndex = 0
    /\ b.startIndex <= End(b)

-----------------------------------------------------------------------------
(* Arithmetic and sequences.                                               *)

\* An index inside the vector is itself, and the one past its end is 0.
LEMMA WrapFacts ==
    ASSUME NEW n \in Nat \ {0}
    PROVE  n % n = 0 /\ \A i \in 0 .. n - 1 : i % n = i
OBVIOUS

\* An index is brought back into the vector.
LEMMA IndexFacts ==
    ASSUME NEW n \in Nat \ {0}, NEW i \in Nat
    PROVE  i % n \in Nat /\ i % n < n
OBVIOUS

\* Where n bytes from the s-th on are, of those up to the e-th of z.
LEMMA SliceFacts ==
    ASSUME NEW s \in Nat, NEW e \in Nat, NEW z \in Nat, NEW n \in Nat,
           e <= z, 0 < n, s + n <= e
    PROVE  LET i == s + 1
           IN  /\ i \in 1 .. z /\ e \in 1 .. z
               /\ 1 \in 1 .. e - i + 1 /\ n \in 1 .. e - i + 1
               /\ e - i + 1 \in 1 .. e - i + 1
               /\ i + 1 - 1 = s + 1 /\ i + n - 1 = s + n
               /\ i + (e - i + 1) - 1 = e
               /\ n < e - i + 1 => n + 1 \in 1 .. e - i + 1
               /\ i + (n + 1) - 1 = s + n + 1
OBVIOUS

\* The types of a ring's fields, and of its vector.
LEMMA SizeFacts ==
    ASSUME NEW S, NEW b, IsRing(b, S)
    PROVE  /\ b.startIndex \in Nat /\ b.endIndex \in Nat /\ b.isFull \in BOOLEAN
           /\ b.bytes \in Seq(S) /\ Len(b.bytes) = BufferSize(b)
           /\ BufferSize(b) \in Nat \ {0}
           /\ b.bytes \in [1 .. BufferSize(b) -> S]
           /\ b.startIndex < BufferSize(b) /\ b.endIndex < BufferSize(b)
<1>1. /\ b.startIndex \in Nat /\ b.endIndex \in Nat /\ b.isFull \in BOOLEAN
      /\ b.bytes \in Seq(S) /\ Len(b.bytes) = BufferSize(b)
      /\ b.startIndex < BufferSize(b) /\ b.endIndex < BufferSize(b)
  BY DEF IsRing, BufferSize
<1>2. BufferSize(b) \in Nat /\ b.bytes \in [1 .. BufferSize(b) -> S]
  BY <1>1, LenProperties
<1> QED BY <1>1, <1>2

\* What resize appends.
LEMMA ZeroFacts ==
    ASSUME NEW S, 0 \in S, NEW n \in Nat
    PROVE  Zeros(n) \in Seq(S) /\ Len(Zeros(n)) = n
BY IsASeq DEF Zeros

\* What stands in the vector from peek() on.
LEMMA PeekFacts ==
    ASSUME NEW S, 0 \in S, NEW b, IsRing(b, S), NEW n \in Nat,
           b.startIndex + n <= BufferSize(b)
    PROVE  Peek(b, n) = SubSeq(b.bytes, b.startIndex + 1, b.startIndex + n)
<1> DEFINE size == BufferSize(b)
           i == b.startIndex + 1
           j == b.startIndex + n
           s == b.bytes \o Zeros(size)
<1>1. /\ b.bytes \in Seq(S) /\ Len(b.bytes) = size /\ size \in Nat
      /\ i \in Nat /\ j \in Nat /\ 1 <= i /\ i <= j + 1 /\ j <= size
  BY SizeFacts
<1>2. Zeros(size) \in Seq(S) /\ Len(Zeros(size)) = size
  BY <1>1, ZeroFacts
<1>3. /\ s \in Seq(S) /\ Len(s) = size + size
      /\ \A k \in 1 .. size + size : k <= size => s[k] = b.bytes[k]
  <2>1. /\ s \in Seq(S) /\ Len(s) = Len(b.bytes) + Len(Zeros(size))
        /\ \A k \in 1 .. Len(b.bytes) + Len(Zeros(size)) :
             s[k] = IF k <= Len(b.bytes) THEN b.bytes[k]
                    ELSE Zeros(size)[k - Len(b.bytes)]
    BY <1>1, <1>2, ConcatProperties, Zenon
  <2> HIDE DEF size, s
  <2> QED BY <1>1, <1>2, <2>1
<1>4. Peek(b, n) = SubSeq(s, i, j)
  BY DEF Peek
<1> HIDE DEF size, i, j, s
<1>5. CASE i = j + 1
  BY <1>1, <1>3, <1>4, <1>5, SubSeqEmpty DEF i, j
<1>6. CASE i <= j
  <2>1. /\ SubSeq(s, i, j) \in Seq(S) /\ Len(SubSeq(s, i, j)) = j - i + 1
        /\ \A k \in 1 .. j - i + 1 : SubSeq(s, i, j)[k] = s[i + k - 1]
    <3>1. i \in 1 .. Len(s) /\ j \in 1 .. Len(s)
      BY <1>1, <1>3, <1>6
    <3>2. \A k \in i .. j : s[k] \in S
      BY <1>1, <1>3, <3>1, ElementOfSeq
    <3> QED BY <1>1, <1>3, <1>6, <3>1, <3>2, SubSeqProperties
  <2>2. /\ SubSeq(b.bytes, i, j) \in Seq(S)
        /\ Len(SubSeq(b.bytes, i, j)) = j - i + 1
        /\ \A k \in 1 .. j - i + 1 : SubSeq(b.bytes, i, j)[k] = b.bytes[i + k - 1]
    <3>1. i \in 1 .. Len(b.bytes) /\ j \in 1 .. Len(b.bytes)
      BY <1>1, <1>6
    <3> QED BY <1>1, <1>6, <3>1, SubSeqProperties
  <2>3. ASSUME NEW k \in 1 .. j - i + 1
        PROVE  SubSeq(s, i, j)[k] = SubSeq(b.bytes, i, j)[k]
    <3>1. i + k - 1 \in 1 .. size + size /\ i + k - 1 <= size
      BY <1>1
    <3> QED BY <1>3, <2>1, <2>2, <3>1
  <2>4. SubSeq(s, i, j) = SubSeq(b.bytes, i, j)
    BY <2>1, <2>2, <2>3, SeqEqual, Zenon
  <2> QED BY <1>4, <2>4 DEF i, j
<1>7. i = j + 1 \/ i <= j
  BY <1>1
<1> QED BY <1>5, <1>6, <1>7

\* The content of an unwrapped ring, and how much it is.
LEMMA ContentFacts ==
    ASSUME NEW S, 0 \in S, NEW b, Unwrapped(b, S)
    PROVE  /\ Content(b) = SubSeq(b.bytes, b.startIndex + 1, End(b))
           /\ Content(b) \in Seq(S)
           /\ Len(Content(b)) = End(b) - b.startIndex
           /\ End(b) \in 0 .. BufferSize(b)
           /\ IsEmpty(b) <=> b.startIndex = End(b)
           /\ ~IsEmpty(b) => Contiguous(b) = End(b) - b.startIndex
<1> DEFINE size == BufferSize(b)
<1>1. /\ IsRing(b, S)
      /\ b.startIndex \in Nat /\ b.endIndex \in Nat /\ size \in Nat
      /\ b.isFull \in BOOLEAN /\ b.bytes \in Seq(S) /\ Len(b.bytes) = size
      /\ b.startIndex < size /\ b.endIndex < size
      /\ End(b) \in 0 .. size /\ b.startIndex <= End(b)
  BY SizeFacts DEF Unwrapped, End
<1>2. Content(b) = SubSeq(b.bytes, b.startIndex + 1, End(b))
  <2>1. CASE b.startIndex < b.endIndex
    <3>1. ~b.isFull /\ End(b) = b.endIndex
      BY <1>1, <2>1 DEF Unwrapped, End, AtEnd
    <3>2. ReadableBytes(b) = b.endIndex - b.startIndex
      BY <1>1, <2>1, <3>1 DEF ReadableBytes
    <3>3. /\ ReadableBytes(b) \in Nat
          /\ b.startIndex + ReadableBytes(b) = End(b)
      BY <1>1, <2>1, <3>1, <3>2
    <3>4. Content(b) = Peek(b, ReadableBytes(b))
      BY <2>1 DEF Content
    <3> QED BY <1>1, <3>3, <3>4, PeekFacts
  <2>2. CASE AtEnd(b)
    <3>1. ~(b.startIndex < b.endIndex) /\ ~IsEmpty(b) /\ b.endIndex = 0
      BY <1>1, <2>2 DEF Unwrapped, IsEmpty, AtEnd
    <3>2. SubSeq(b.bytes, 1, 0) = <<>>
      BY SubSeqEmpty
    <3>3. Content(b) = Peek(b, size - b.startIndex) \o <<>>
      BY <3>1, <3>2 DEF Content
    <3>4. /\ Peek(b, size - b.startIndex) = SubSeq(b.bytes, b.startIndex + 1, size)
          /\ SubSeq(b.bytes, b.startIndex + 1, size) \in Seq(S)
      <4> DEFINE n == size - b.startIndex
      <4>1. n \in Nat /\ b.startIndex + n = size /\ b.startIndex + n <= size
        BY <1>1
      <4> HIDE DEF n
      <4>2. Peek(b, n) = SubSeq(b.bytes, b.startIndex + 1, b.startIndex + n)
        BY <1>1, <4>1, PeekFacts, Zenon
      <4>3. Peek(b, size - b.startIndex) = SubSeq(b.bytes, b.startIndex + 1, size)
        BY <4>1, <4>2 DEF n
      <4> QED BY <1>1, <4>3, SubSeqProperties
    <3> QED BY <2>2, <3>3, <3>4, ConcatEmptySeq DEF End
  <2>3. CASE ~(b.startIndex < b.endIndex) /\ ~AtEnd(b)
    <3>1. b.startIndex = b.endIndex /\ End(b) = b.endIndex /\ ~b.isFull
      BY <1>1, <2>3 DEF End, AtEnd
    <3>2. Content(b) = <<>>
      BY <1>1, <2>3, <3>1 DEF Content, IsEmpty
    <3> QED BY <1>1, <3>1, <3>2, SubSeqEmpty
  <2> QED BY <2>1, <2>2, <2>3
<1>3. /\ SubSeq(b.bytes, b.startIndex + 1, End(b)) \in Seq(S)
      /\ Len(SubSeq(b.bytes, b.startIndex + 1, End(b))) = End(b) - b.startIndex
  BY <1>1, SubSeqProperties
<1>4. IsEmpty(b) <=> b.startIndex = End(b)
  BY <1>1 DEF IsEmpty, End, AtEnd
<1>5. ~IsEmpty(b) => Contiguous(b) = End(b) - b.startIndex
  BY <1>1 DEF Unwrapped, IsEmpty, Contiguous, ReadableBytes, End, AtEnd
<1> QED BY <1>1, <1>2, <1>3, <1>4, <1>5
-----------------------------------------------------------------------------
(* Taking.                                                                 *)

\* retrieve moves _startIndex, and resets _isFull if the indexes meet.
LEMMA RetrieveTypes ==
    ASSUME NEW S, NEW b, IsRing(b, S), NEW n \in Nat
    PROVE  LET r == Retrieve(b, n)
           IN  /\ IsRing(r, S) /\ BufferSize(r) = BufferSize(b)
               /\ r.bytes = b.bytes /\ r.endIndex = b.endIndex
               /\ r.startIndex = (b.startIndex + n) % BufferSize(b)
               /\ r.isFull <=> b.isFull /\ ~(n > 0 /\ r.startIndex = b.endIndex)
<1> DEFINE start == (b.startIndex + n) % BufferSize(b)
           full == b.isFull /\ ~(n > 0 /\ start = b.endIndex)
           r == Retrieve(b, n)
<1>1. /\ BufferSize(b) \in Nat \ {0} /\ b.startIndex \in Nat
      /\ b.endIndex < BufferSize(b)
  BY SizeFacts
<1>2. start \in Nat /\ start < BufferSize(b) /\ full \in BOOLEAN
  BY <1>1, IndexFacts
<1>3. r = [b EXCEPT !.startIndex = start, !.isFull = full]
  BY DEF Retrieve
<1> HIDE DEF start
<1>4. /\ r.bytes = b.bytes /\ r.endIndex = b.endIndex /\ r.startIndex = start
      /\ r.isFull = full
  BY <1>3 DEF IsRing
<1>5. r \in [bytes : Seq(S), startIndex : Nat, endIndex : Nat, isFull : BOOLEAN]
  <2> HIDE DEF full
  <2> QED BY <1>2, <1>3 DEF IsRing
<1>6. BufferSize(r) = BufferSize(b)
  BY <1>4 DEF BufferSize
<1>7. IsRing(r, S)
  BY <1>1, <1>2, <1>4, <1>5, <1>6, Zenon DEF IsRing
<1> QED BY <1>4, <1>6, <1>7 DEF start

\* retrieve takes the oldest bytes, and leaves the others.
LEMMA RetrieveFacts ==
    ASSUME NEW S, 0 \in S, NEW b, Unwrapped(b, S),
           NEW n \in 1 .. End(b) - b.startIndex
    PROVE  /\ Unwrapped(Retrieve(b, n), S)
           /\ Content(Retrieve(b, n))
                = SubSeq(Content(b), n + 1, Len(Content(b)))
<1> DEFINE size == BufferSize(b)
           r == Retrieve(b, n)
<1>1. /\ IsRing(b, S) /\ b.startIndex <= End(b)
      /\ b.startIndex \in Nat /\ b.endIndex \in Nat /\ size \in Nat \ {0}
      /\ b.isFull \in BOOLEAN /\ b.endIndex < size
      /\ b.bytes \in Seq(S) /\ Len(b.bytes) = size
  BY SizeFacts DEF Unwrapped
<1>2. End(b) \in Nat /\ End(b) <= size /\ n \in Nat /\ b.startIndex + n <= End(b)
  BY <1>1 DEF End
<1>3. /\ IsRing(r, S) /\ BufferSize(r) = size
      /\ r.bytes = b.bytes /\ r.endIndex = b.endIndex
      /\ r.startIndex = (b.startIndex + n) % size
      /\ r.isFull <=> b.isFull /\ r.startIndex # b.endIndex
  <2>1. n > 0
    BY <1>2
  <2>2. /\ IsRing(r, S) /\ BufferSize(r) = size
        /\ r.bytes = b.bytes /\ r.endIndex = b.endIndex
        /\ r.startIndex = (b.startIndex + n) % size
        /\ r.isFull <=> b.isFull /\ ~(n > 0 /\ r.startIndex = b.endIndex)
    BY <1>1, <1>2, RetrieveTypes, Zenon
  <2> HIDE DEF r, size
  <2> QED BY <2>1, <2>2
<1>4. size % size = 0 /\ \A i \in 0 .. size - 1 : i % size = i
  BY <1>1, WrapFacts
<1>5. n > 0
  BY <1>2
<1> HIDE DEF r
<1>6. Unwrapped(r, S) /\ SubSeq(r.bytes, r.startIndex + 1, End(r))
                           = SubSeq(b.bytes, b.startIndex + n + 1, End(b))
  <2>1. CASE b.startIndex + n < size
    <3>1. r.startIndex = b.startIndex + n /\ r.startIndex > 0
      <4>1. b.startIndex + n \in 0 .. size - 1 /\ b.startIndex + n > 0
        BY <1>1, <1>2, <1>5, <2>1
      <4> HIDE DEF size
      <4> QED BY <1>3, <1>4, <4>1
    <3>2. r.isFull <=> b.isFull
      BY <1>1, <1>3, <3>1 DEF Unwrapped
    <3>3. AtEnd(r) <=> AtEnd(b)
      <4>1. b.endIndex = 0 => AtEnd(b)
        BY <1>1, <1>2, <1>5 DEF AtEnd, End
      <4> QED BY <1>3, <3>1, <3>2, <4>1 DEF AtEnd
    <3>4. End(r) = End(b)
      BY <1>3, <3>3 DEF End
    <3> QED BY <1>2, <1>3, <3>1, <3>2, <3>4 DEF Unwrapped
  <2>2. CASE b.startIndex + n = size
    <3>1. End(b) = size /\ AtEnd(b) /\ b.endIndex = 0
      BY <1>1, <1>2, <2>2 DEF End, AtEnd, Unwrapped
    <3>2. r.startIndex = 0
      BY <1>3, <1>4, <2>2
    <3>3. ~r.isFull /\ End(r) = 0
      BY <1>3, <3>1, <3>2 DEF End, AtEnd
    <3>4. Unwrapped(r, S)
      BY <1>3, <3>1, <3>2, <3>3 DEF Unwrapped
    <3>5. SubSeq(r.bytes, 0 + 1, 0) = <<>> /\ SubSeq(b.bytes, size + 1, size) = <<>>
      BY <1>1, SubSeqEmpty
    <3> QED BY <2>2, <3>1, <3>2, <3>3, <3>4, <3>5, Zenon
  <2>3. b.startIndex + n < size \/ b.startIndex + n = size
    BY <1>1, <1>2
  <2> QED BY <2>1, <2>2, <2>3, Zenon
<1>7. SubSeq(Content(b), n + 1, Len(Content(b)))
        = SubSeq(b.bytes, b.startIndex + n + 1, End(b))
  <2> DEFINE i == b.startIndex + 1
             j == End(b)
  <2>1. /\ Content(b) = SubSeq(b.bytes, i, j)
        /\ Len(Content(b)) = j - i + 1
    <3>1. End(b) - b.startIndex = j - i + 1
      BY <1>1, <1>2
    <3> QED BY <3>1, ContentFacts, Zenon
  <2>2. CASE n = j - i + 1
    <3>1. SubSeq(Content(b), n + 1, n) = <<>>
      BY <1>2, SubSeqEmpty
    <3>2. SubSeq(b.bytes, j + 1, j) = <<>>
      BY <1>2, SubSeqEmpty
    <3>3. b.startIndex + n + 1 = j + 1
      BY <1>1, <1>2, <2>2
    <3> QED BY <2>1, <2>2, <3>1, <3>2, <3>3
  <2>3. CASE n < j - i + 1
    <3>1. /\ i \in 1 .. size /\ j \in 1 .. size
          /\ n + 1 \in 1 .. j - i + 1 /\ j - i + 1 \in 1 .. j - i + 1
          /\ i + (n + 1) - 1 = b.startIndex + n + 1
          /\ i + (j - i + 1) - 1 = j
      <4>1. /\ j \in Nat /\ size \in Nat /\ j <= size /\ 0 < n
            /\ b.startIndex + n <= j
        BY <1>1, <1>2, <1>5
      <4>2. b.startIndex \in Nat /\ n \in Nat
        BY <1>1, <1>2
      <4>3. n < j - (b.startIndex + 1) + 1
        BY <2>3
      <4> HIDE DEF j, size
      <4> DEFINE s == b.startIndex
      <4> HIDE DEF s
      <4>4. s \in Nat /\ s + n <= j /\ n < j - (s + 1) + 1
        BY <4>1, <4>2, <4>3 DEF s
      <4>5. /\ s + 1 \in 1 .. size /\ j \in 1 .. size
            /\ n + 1 \in 1 .. j - (s + 1) + 1
            /\ j - (s + 1) + 1 \in 1 .. j - (s + 1) + 1
            /\ (s + 1) + (n + 1) - 1 = s + n + 1
            /\ (s + 1) + (j - (s + 1) + 1) - 1 = j
        BY <4>1, <4>2, <4>4, SliceFacts
      <4> QED BY <4>5 DEF s
    <3> HIDE DEF i, j
    <3>2. SubSeq(SubSeq(b.bytes, i, j), n + 1, j - i + 1)
            = SubSeq(b.bytes, i + (n + 1) - 1, i + (j - i + 1) - 1)
      BY <1>1, <3>1, SubSeqOfSubSeq
    <3> QED BY <2>1, <3>1, <3>2, Zenon DEF j
  <2>4. n = j - i + 1 \/ n < j - i + 1
    BY <1>1, <1>2
  <2> QED BY <2>2, <2>3, <2>4, Zenon
<1> QED BY <1>6, <1>7, ContentFacts DEF r

\* What writeFd offers the socket is the oldest of the content.
LEMMA WriteOutFacts ==
    ASSUME NEW S, 0 \in S, NEW b, Unwrapped(b, S), ~IsEmpty(b),
           NEW n \in 1 .. Contiguous(b)
    PROVE  /\ n \in 1 .. End(b) - b.startIndex
           /\ n \in 1 .. Len(Content(b))
           /\ Peek(b, n) = SubSeq(Content(b), 1, n)
<1> DEFINE i == b.startIndex + 1
           j == End(b)
<1>1. /\ IsRing(b, S) /\ b.startIndex \in Nat
      /\ b.bytes \in Seq(S) /\ Len(b.bytes) = BufferSize(b)
      /\ BufferSize(b) \in Nat
  BY SizeFacts DEF Unwrapped
<1>2. /\ Content(b) = SubSeq(b.bytes, i, j) /\ j \in 0 .. BufferSize(b)
      /\ Len(Content(b)) = End(b) - b.startIndex
      /\ Contiguous(b) = End(b) - b.startIndex
  BY ContentFacts
<1>3. n \in 1 .. End(b) - b.startIndex /\ n \in 1 .. Len(Content(b))
  BY <1>2
<1>4. n \in Nat /\ b.startIndex + n <= BufferSize(b)
  BY <1>1, <1>2, <1>3
<1>5. Peek(b, n) = SubSeq(b.bytes, b.startIndex + 1, b.startIndex + n)
  BY <1>1, <1>4, PeekFacts, Zenon
<1>6. /\ i \in 1 .. Len(b.bytes) /\ j \in 1 .. Len(b.bytes)
      /\ 1 \in 1 .. j - i + 1 /\ n \in 1 .. j - i + 1
      /\ i + 1 - 1 = b.startIndex + 1 /\ i + n - 1 = b.startIndex + n
  <2>1. /\ j \in Nat /\ n \in Nat /\ 0 < n /\ b.startIndex + n <= j
        /\ j <= BufferSize(b)
    BY <1>1, <1>2, <1>3
  <2> QED BY <1>1, <2>1, SliceFacts
<1> HIDE DEF i, j
<1>7. SubSeq(SubSeq(b.bytes, i, j), 1, n) = SubSeq(b.bytes, i + 1 - 1, i + n - 1)
  BY <1>1, <1>6, SubSeqOfSubSeq
<1> QED BY <1>2, <1>3, <1>5, <1>6, <1>7, Zenon

\* retrieveAll leaves an empty ring.
LEMMA RetrieveAllFacts ==
    ASSUME NEW S, 0 \in S, NEW b, IsRing(b, S)
    PROVE  LET r == RetrieveAll(b)
           IN  /\ Unwrapped(r, S) /\ Content(r) = <<>>
               /\ r.bytes = b.bytes /\ BufferSize(r) = BufferSize(b)
               /\ r.startIndex = 0 /\ r.endIndex = 0 /\ ~r.isFull
<1> DEFINE r == RetrieveAll(b)
<1>1. /\ r \in [bytes : Seq(S), startIndex : Nat, endIndex : Nat, isFull : BOOLEAN]
      /\ r.bytes = b.bytes
      /\ r.startIndex = 0 /\ r.endIndex = 0 /\ ~r.isFull
  BY DEF IsRing, RetrieveAll
<1> HIDE DEF r
<1>2. BufferSize(r) = BufferSize(b) /\ BufferSize(b) \in Nat \ {0}
  BY <1>1, SizeFacts DEF BufferSize
<1>3. Unwrapped(r, S) /\ End(r) = 0
  BY <1>1, <1>2 DEF Unwrapped, IsRing, End, AtEnd
<1>4. Content(r) = <<>>
  BY <1>1, <1>3, ContentFacts, SubSeqEmpty
<1> QED BY <1>1, <1>2, <1>3, <1>4 DEF r

\* A new buffer is an empty ring.
LEMMA NewFacts ==
    ASSUME NEW S, 0 \in S
    PROVE  /\ Unwrapped(NewBuffer, S) /\ Content(NewBuffer) = <<>>
           /\ NewBuffer.startIndex = 0 /\ IsEmpty(NewBuffer)
<1> DEFINE b == NewBuffer
<1>1. Zeros(InitialSize) \in Seq(S) /\ Len(Zeros(InitialSize)) = InitialSize
  BY RingAssumption, ZeroFacts
<1>2. /\ b \in [bytes : Seq(S), startIndex : Nat, endIndex : Nat, isFull : BOOLEAN]
      /\ b.bytes = Zeros(InitialSize)
      /\ b.startIndex = 0 /\ b.endIndex = 0 /\ ~b.isFull
  BY <1>1 DEF NewBuffer
<1> HIDE DEF b
<1>3. Unwrapped(b, S) /\ End(b) = 0
  BY <1>1, <1>2, RingAssumption DEF Unwrapped, IsRing, End, AtEnd, BufferSize
<1>4. Content(b) = <<>> /\ IsEmpty(b)
  BY <1>2, <1>3, ContentFacts, SubSeqEmpty
<1> QED BY <1>2, <1>3, <1>4 DEF b

-----------------------------------------------------------------------------
(* Appending.                                                              *)

\* What is copied over the vector leaves its length as it is.
LEMMA OverwriteTypes ==
    ASSUME NEW S, NEW bytes \in Seq(S), NEW data \in Seq(S), NEW i \in Nat
    PROVE  LET o == Overwrite(bytes, i, data)
           IN  /\ o \in Seq(S) /\ Len(o) = Len(bytes)
               /\ \A k \in 1 .. Len(bytes) :
                    o[k] = IF k > i /\ k <= i + Len(data) THEN data[k - i]
                           ELSE bytes[k]
<1> DEFINE o == Overwrite(bytes, i, data)
           n == Len(bytes)
           m == Len(data)
<1>1. /\ n \in Nat /\ bytes \in [1 .. n -> S]
      /\ m \in Nat /\ data \in [1 .. m -> S]
  BY LenProperties
<1>2. /\ \A k \in 1 .. n : o[k] = IF k > i /\ k <= i + m THEN data[k - i]
                                   ELSE bytes[k]
      /\ o \in [1 .. n -> S]
  BY <1>1 DEF Overwrite
<1> QED BY <1>1, <1>2, SeqDef, LenProperties

\* What is copied behind the i-th byte of the vector follows those up to it.
LEMMA OverwriteFacts ==
    ASSUME NEW S, NEW bytes \in Seq(S), NEW data \in Seq(S),
           NEW i \in 0 .. Len(bytes), i + Len(data) <= Len(bytes),
           NEW j \in 1 .. i + 1
    PROVE  SubSeq(Overwrite(bytes, i, data), j, i + Len(data))
             = SubSeq(bytes, j, i) \o data
<1> DEFINE o == Overwrite(bytes, i, data)
           n == Len(bytes)
           m == Len(data)
<1>1. /\ n \in Nat /\ bytes \in [1 .. n -> S]
      /\ m \in Nat /\ data \in [1 .. m -> S]
  BY LenProperties
<1>2. /\ \A k \in 1 .. n : o[k] = IF k > i /\ k <= i + m THEN data[k - i]
                                   ELSE bytes[k]
      /\ o \in Seq(S) /\ Len(o) = n
  BY <1>1, OverwriteTypes
<1> HIDE DEF o, n, m
<1> DEFINE s == SubSeq(o, j, i + m)
           p == SubSeq(bytes, j, i)
           len == i - j + 1
<1>3. /\ i \in Nat /\ i <= n /\ i + m <= n /\ j \in Nat \ {0} /\ j <= i + 1
      /\ len \in Nat /\ i + m - j + 1 = len + m
  BY <1>1 DEF n, m
<1>4. /\ s \in Seq(S) /\ Len(s) = len + m
      /\ \A k \in 1 .. len + m : s[k] = o[j + k - 1]
  BY <1>1, <1>2, <1>3, SubSeqProperties
<1>5. /\ p \in Seq(S) /\ Len(p) = len
      /\ \A k \in 1 .. len : p[k] = bytes[j + k - 1]
  BY <1>1, <1>3, SubSeqProperties DEF n
<1> HIDE DEF s, p
<1>6. /\ p \o data \in Seq(S)
      /\ Len(p \o data) = len + m
      /\ \A k \in 1 .. len + m :
           (p \o data)[k] = IF k <= len THEN p[k] ELSE data[k - len]
  <2> HIDE DEF len
  <2>1. p \in Seq(S) /\ Len(p) = len /\ data \in Seq(S) /\ Len(data) = m
    BY <1>5 DEF m
  <2>2. /\ p \o data \in Seq(S)
        /\ Len(p \o data) = Len(p) + Len(data)
        /\ \A k \in 1 .. Len(p) + Len(data) :
             (p \o data)[k] = IF k <= Len(p) THEN p[k] ELSE data[k - Len(p)]
    BY <2>1, ConcatProperties, Zenon
  <2> QED BY <2>1, <2>2, Zenon
<1>7. ASSUME NEW k \in 1 .. len + m
      PROVE  s[k] = (p \o data)[k]
  <2>1. j + k - 1 \in 1 .. n
    BY <1>1, <1>3
  <2>2. CASE k <= len
    <3>1. k \in 1 .. len /\ ~(j + k - 1 > i)
      BY <1>1, <1>3, <2>2
    <3> QED BY <1>2, <1>4, <1>5, <1>6, <2>1, <2>2, <3>1, Zenon
  <2>3. CASE ~(k <= len)
    <3>1. /\ j + k - 1 > i /\ j + k - 1 <= i + m
          /\ (j + k - 1) - i = k - len
      BY <1>1, <1>3, <2>3
    <3> QED BY <1>2, <1>4, <1>6, <2>1, <2>3, <3>1, Zenon
  <2> QED BY <2>2, <2>3
<1>8. s = p \o data
  BY <1>4, <1>6, <1>7, SeqEqual, Zenon
<1> QED BY <1>8 DEF o, n, m, s, p

\* How much there is to read and to write in a ring.
LEMMA CountFacts ==
    ASSUME NEW S, NEW b, IsRing(b, S)
    PROVE  /\ ReadableBytes(b) \in 0 .. BufferSize(b)
           /\ WritableBytes(b) \in 0 .. BufferSize(b)
           /\ ReadableBytes(b) + WritableBytes(b) = BufferSize(b)
<1>1. /\ b.startIndex \in Nat /\ b.endIndex \in Nat /\ b.isFull \in BOOLEAN
      /\ BufferSize(b) \in Nat
      /\ b.startIndex < BufferSize(b) /\ b.endIndex < BufferSize(b)
  BY SizeFacts
<1>2. ReadableBytes(b) \in 0 .. BufferSize(b)
  BY <1>1 DEF ReadableBytes
<1> QED BY <1>1, <1>2 DEF WritableBytes

\* Whatever the ring looks like, what peek() points at is a sequence of bytes, and
\* writeFd offers no more than a vector of them.
LEMMA PeekTypes ==
    ASSUME NEW S, 0 \in S, NEW b, IsRing(b, S)
    PROVE  /\ \A n \in 0 .. BufferSize(b) :
                Peek(b, n) \in Seq(S) /\ Len(Peek(b, n)) = n
           /\ Contiguous(b) \in 0 .. BufferSize(b)
<1> DEFINE size == BufferSize(b)
           s == b.bytes \o Zeros(size)
<1>1. /\ b.startIndex \in Nat /\ size \in Nat
      /\ b.bytes \in Seq(S) /\ Len(b.bytes) = size /\ b.startIndex < size
  BY SizeFacts
<1>2. s \in Seq(S) /\ Len(s) = size + size
  <2>1. Zeros(size) \in Seq(S) /\ Len(Zeros(size)) = size
    BY <1>1, ZeroFacts
  <2>2. s \in Seq(S) /\ Len(s) = Len(b.bytes) + Len(Zeros(size))
    BY <1>1, <2>1, ConcatProperties, Zenon
  <2> QED BY <1>1, <2>1, <2>2, Zenon
<1>3. ASSUME NEW n \in 0 .. size
      PROVE  Peek(b, n) \in Seq(S) /\ Len(Peek(b, n)) = n
  <2> DEFINE i == b.startIndex + 1
             j == b.startIndex + n
  <2>1. Peek(b, n) = SubSeq(s, i, j)
    BY DEF Peek
  <2> HIDE DEF s, size
  <2>2. \A k \in i .. j : k \in 1 .. Len(s)
    BY <1>1, <1>2
  <2>3. \A k \in i .. j : s[k] \in S
    BY <1>2, <2>2, ElementOfSeq
  <2>4. i \in Int /\ j \in Int /\ (i <= j => j - i + 1 = n) /\ (~(i <= j) => n = 0)
    BY <1>1
  <2> HIDE DEF i, j
  <2> QED BY <2>1, <2>3, <2>4, SubSeqProperties
<1>4. Contiguous(b) \in 0 .. size
  BY <1>1, CountFacts DEF Contiguous
<1> QED BY <1>3, <1>4

\* So is its content.
LEMMA ContentTypes ==
    ASSUME NEW S, 0 \in S, NEW b, IsRing(b, S)
    PROVE  Content(b) \in Seq(S)
<1>1. /\ b.startIndex \in Nat /\ b.endIndex \in Nat /\ BufferSize(b) \in Nat
      /\ b.bytes \in Seq(S) /\ Len(b.bytes) = BufferSize(b)
      /\ b.startIndex < BufferSize(b) /\ b.endIndex < BufferSize(b)
  BY SizeFacts
<1>2. /\ ReadableBytes(b) \in 0 .. BufferSize(b)
      /\ BufferSize(b) - b.startIndex \in 0 .. BufferSize(b)
  BY <1>1, CountFacts
<1>3. SubSeq(b.bytes, 1, b.endIndex) \in Seq(S)
  BY <1>1, SubSeqProperties
<1>4. /\ Peek(b, ReadableBytes(b)) \in Seq(S)
      /\ Peek(b, BufferSize(b) - b.startIndex) \in Seq(S)
  BY <1>2, PeekTypes
<1>5. Peek(b, BufferSize(b) - b.startIndex) \o SubSeq(b.bytes, 1, b.endIndex)
        \in Seq(S)
  BY <1>3, <1>4, ConcatProperties, Zenon
<1> QED BY <1>4, <1>5, EmptySeq DEF Content

\* writeAfterEnd puts a vector of the same length in place, moves _endIndex, and
\* sets _isFull if the indexes meet.
LEMMA WriteTypes ==
    ASSUME NEW S, NEW b, IsRing(b, S), NEW data \in Seq(S)
    PROVE  LET w == WriteAfterEnd(b, data)
               end == (b.endIndex + Len(data)) % BufferSize(b)
           IN  /\ IsRing(w, S) /\ BufferSize(w) = BufferSize(b)
               /\ w.startIndex = b.startIndex /\ w.endIndex = end
               /\ w.isFull <=> b.isFull \/ (Len(data) > 0 /\ end = b.startIndex)
               /\ b.endIndex + Len(data) <= BufferSize(b)
                    => w.bytes = Overwrite(b.bytes, b.endIndex, data)
<1> DEFINE w == WriteAfterEnd(b, data)
           size == BufferSize(b)
           len == Len(data)
           end == (b.endIndex + len) % size
           full == b.isFull \/ (len > 0 /\ end = b.startIndex)
           first == size - b.endIndex
           whole == Overwrite(b.bytes, b.endIndex, data)
           part == Overwrite(b.bytes, b.endIndex, SubSeq(data, 1, first))
           parts == Overwrite(part, 0, SubSeq(data, first + 1, len - first))
           o == IF b.endIndex + len <= size THEN whole ELSE parts
<1>1. /\ b.startIndex \in Nat /\ b.endIndex \in Nat /\ size \in Nat \ {0}
      /\ b.startIndex < size /\ b.endIndex < size /\ b.isFull \in BOOLEAN
      /\ b.bytes \in Seq(S) /\ Len(b.bytes) = size /\ len \in Nat
  BY SizeFacts, LenProperties
<1>2. whole \in Seq(S) /\ Len(whole) = size
  BY <1>1, OverwriteTypes
<1>3. b.endIndex + len > size => parts \in Seq(S) /\ Len(parts) = size
  <2> SUFFICES ASSUME b.endIndex + len > size
               PROVE  parts \in Seq(S) /\ Len(parts) = size
    OBVIOUS
  <2>1. first \in Nat /\ first + 1 \in Int /\ len - first \in Nat
        /\ first <= len /\ len - first <= len
    BY <1>1
  <2> HIDE DEF first
  <2>2. SubSeq(data, 1, first) \in Seq(S)
    BY <1>1, <2>1, ElementOfSeq, SubSeqProperties
  <2>3. SubSeq(data, first + 1, len - first) \in Seq(S)
    BY <1>1, <2>1, ElementOfSeq, SubSeqProperties
  <2>4. part \in Seq(S) /\ Len(part) = size
    <3> DEFINE head == SubSeq(data, 1, first)
    <3>1. head \in Seq(S)
      BY <2>2
    <3> HIDE DEF head
    <3>2. /\ Overwrite(b.bytes, b.endIndex, head) \in Seq(S)
          /\ Len(Overwrite(b.bytes, b.endIndex, head)) = size
      BY <1>1, <3>1, OverwriteTypes
    <3> QED BY <3>2, Zenon DEF head
  <2> HIDE DEF part
  <2>5. 0 \in Nat
    OBVIOUS
  <2> QED BY <2>3, <2>4, <2>5, OverwriteTypes, Zenon
<1>4. o \in Seq(S) /\ Len(o) = size
  <2>1. b.endIndex + len <= size \/ b.endIndex + len > size
    BY <1>1
  <2> QED BY <1>2, <1>3, <2>1, Zenon
<1>5. end \in Nat /\ end < size /\ full \in BOOLEAN
  <2>1. b.endIndex + len \in Nat
    BY <1>1
  <2>2. end \in Nat /\ end < size
    BY <1>1, <2>1, IndexFacts, Zenon
  <2> HIDE DEF end
  <2> QED BY <1>1, <2>2
<1>6. w = [[b EXCEPT !.endIndex = end, !.isFull = full] EXCEPT !.bytes = o]
  BY Zenon DEF WriteAfterEnd, HasWritten
<1>7. b \in [bytes : Seq(S), startIndex : Nat, endIndex : Nat, isFull : BOOLEAN]
  BY DEF IsRing
<1> HIDE DEF w, end, full, o
<1>8. /\ w \in [bytes : Seq(S), startIndex : Nat, endIndex : Nat, isFull : BOOLEAN]
      /\ w.bytes = o /\ w.startIndex = b.startIndex /\ w.endIndex = end
      /\ w.isFull = full
  BY <1>4, <1>5, <1>6, <1>7
<1>9. BufferSize(w) = size
  BY <1>4, <1>8, Zenon DEF BufferSize
<1>10. IsRing(w, S)
  BY <1>1, <1>5, <1>8, <1>9, Zenon DEF IsRing
<1> QED BY <1>8, <1>9, <1>10, Zenon DEF w, end, full, o

\* What is written behind the content of an unwrapped ring, with room for it up to
\* the end of the vector, follows it.
LEMMA WriteFacts ==
    ASSUME NEW S, 0 \in S, NEW b, Unwrapped(b, S), ~AtEnd(b),
           NEW data \in Seq(S), b.endIndex + Len(data) <= BufferSize(b)
    PROVE  LET w == WriteAfterEnd(b, data)
           IN  /\ Unwrapped(w, S)
               /\ w.startIndex = b.startIndex
               /\ BufferSize(w) = BufferSize(b)
               /\ End(w) = b.endIndex + Len(data)
               /\ Content(w) = Content(b) \o data
<1> DEFINE w == WriteAfterEnd(b, data)
           size == BufferSize(b)
           len == Len(data)
           end == (b.endIndex + len) % size
           o == Overwrite(b.bytes, b.endIndex, data)
<1>1. /\ IsRing(b, S) /\ b.startIndex \in Nat /\ b.endIndex \in Nat
      /\ size \in Nat \ {0} /\ len \in Nat /\ b.isFull \in BOOLEAN
      /\ b.endIndex < size /\ b.startIndex < size /\ b.endIndex + len <= size
      /\ b.bytes \in Seq(S) /\ Len(b.bytes) = size
  BY SizeFacts, LenProperties DEF Unwrapped
<1>2. /\ End(b) = b.endIndex /\ ~b.isFull /\ b.startIndex <= b.endIndex
      /\ b.endIndex = 0 => b.startIndex = 0
  BY <1>1 DEF Unwrapped, End, AtEnd
<1>3. SubSeq(o, b.startIndex + 1, b.endIndex + len)
        = SubSeq(b.bytes, b.startIndex + 1, b.endIndex) \o data
  <2>1. /\ b.endIndex \in 0 .. Len(b.bytes)
        /\ b.endIndex + Len(data) <= Len(b.bytes)
        /\ b.startIndex + 1 \in 1 .. b.endIndex + 1
    BY <1>1, <1>2
  <2> QED BY <1>1, <2>1, OverwriteFacts, Zenon
<1>4. /\ IsRing(w, S) /\ BufferSize(w) = size
      /\ w.startIndex = b.startIndex /\ w.endIndex = end
      /\ w.isFull <=> len > 0 /\ end = b.startIndex
      /\ w.bytes = o
  <2>1. /\ IsRing(w, S) /\ BufferSize(w) = size
        /\ w.startIndex = b.startIndex /\ w.endIndex = end
        /\ w.isFull <=> b.isFull \/ (len > 0 /\ end = b.startIndex)
        /\ b.endIndex + len <= size => w.bytes = o
    BY <1>1, WriteTypes
  <2> HIDE DEF w, o, len, size, end
  <2> QED BY <1>1, <1>2, <2>1
<1>5. size % size = 0 /\ \A i \in 0 .. size - 1 : i % size = i
  BY <1>1, WrapFacts
<1>6. b.endIndex + len < size => end = b.endIndex + len
  <2> SUFFICES ASSUME b.endIndex + len < size
               PROVE  end = b.endIndex + len
    OBVIOUS
  <2>1. b.endIndex + len \in 0 .. size - 1
    BY <1>1
  <2> QED BY <1>5, <2>1
<1>7. b.endIndex + len = size => end = 0
  BY <1>5
<1> HIDE DEF w, o, len, size, end
<1>8. Unwrapped(w, S) /\ End(w) = b.endIndex + len
  <2>1. CASE b.endIndex + len < size
    <3>1. end = b.endIndex + len
      BY <1>6, <2>1
    <3>2. ~w.isFull /\ ~AtEnd(w)
      BY <1>1, <1>2, <1>4, <3>1 DEF AtEnd
    <3> QED BY <1>1, <1>2, <1>4, <3>1, <3>2 DEF Unwrapped, End
  <2>2. CASE b.endIndex + len = size
    <3>1. end = 0 /\ len > 0
      BY <1>1, <1>7, <2>2
    <3>2. AtEnd(w)
      BY <1>1, <1>4, <3>1 DEF AtEnd
    <3> QED BY <1>1, <1>4, <2>2, <3>1, <3>2 DEF Unwrapped, End
  <2>3. b.endIndex + len < size \/ b.endIndex + len = size
    BY <1>1, SMTT(30)
  <2> QED BY <2>1, <2>2, <2>3, Zenon
<1>9. Content(w) = SubSeq(o, b.startIndex + 1, b.endIndex + len)
  BY <1>4, <1>8, ContentFacts
<1>10. Content(b) = SubSeq(b.bytes, b.startIndex + 1, b.endIndex)
  BY <1>2, ContentFacts
<1> QED BY <1>3, <1>4, <1>8, <1>9, <1>10, Zenon DEF w, len, size

\* What makeSpace has the content copied into: an empty ring whose vector is
\* longer by what is missing.
LEMMA ResizedFacts ==
    ASSUME NEW S, 0 \in S, NEW b, IsRing(b, S), NEW n \in Nat,
           WritableBytes(b) < n
    PROVE  LET r == [RetrieveAll(b) EXCEPT
                       !.bytes = @ \o Zeros((BufferSize(b) + (n - WritableBytes(b)))
                                              - BufferSize(b))]
           IN  /\ Unwrapped(r, S) /\ Content(r) = <<>>
               /\ r.startIndex = 0 /\ r.endIndex = 0 /\ ~r.isFull
               /\ BufferSize(r) = ReadableBytes(b) + n
               /\ MakeSpace(b, n) = WriteAfterEnd(r, Content(b))
<1> DEFINE size == BufferSize(b)
           all == RetrieveAll(b)
           more == (size + (n - WritableBytes(b))) - size
           bytes == all.bytes \o Zeros(more)
           r == [all EXCEPT !.bytes = bytes]
<1>1. /\ IsRing(all, S) /\ all.bytes = b.bytes /\ BufferSize(all) = size
      /\ all.startIndex = 0 /\ all.endIndex = 0 /\ ~all.isFull
  BY RetrieveAllFacts DEF Unwrapped
<1>2. /\ b.bytes \in Seq(S) /\ Len(b.bytes) = size /\ size \in Nat \ {0}
      /\ WritableBytes(b) \in 0 .. size
      /\ ReadableBytes(b) \in 0 .. size
      /\ ReadableBytes(b) + WritableBytes(b) = size
  BY SizeFacts, CountFacts
<1>3. more \in Nat /\ size + more = ReadableBytes(b) + n
  BY <1>2
<1>4. MakeSpace(b, n) = WriteAfterEnd(r, Content(b))
  BY DEF MakeSpace
<1> HIDE DEF all, size, more
<1>5. bytes \in Seq(S) /\ Len(bytes) = size + more
  <2>1. Zeros(more) \in Seq(S) /\ Len(Zeros(more)) = more
    BY <1>3, ZeroFacts
  <2>2. /\ bytes \in Seq(S)
        /\ Len(bytes) = Len(all.bytes) + Len(Zeros(more))
    <3>1. all.bytes \in Seq(S)
      BY <1>1, <1>2, Zenon
    <3> QED BY <2>1, <3>1, ConcatProperties, Zenon
  <2> QED BY <1>1, <1>2, <2>1, <2>2, Zenon
<1> HIDE DEF bytes
<1>6. /\ r \in [bytes : Seq(S), startIndex : Nat, endIndex : Nat, isFull : BOOLEAN]
      /\ r.bytes = bytes
      /\ r.startIndex = 0 /\ r.endIndex = 0 /\ ~r.isFull
  BY <1>1, <1>5 DEF IsRing
<1> HIDE DEF r
<1>7. BufferSize(r) = size + more /\ 0 < size + more
  BY <1>2, <1>3, <1>5, <1>6 DEF BufferSize
<1>8. Unwrapped(r, S) /\ End(r) = 0
  BY <1>6, <1>7 DEF Unwrapped, IsRing, End, AtEnd
<1>9. Content(r) = <<>>
  BY <1>6, <1>8, ContentFacts, SubSeqEmpty
<1> QED BY <1>3, <1>4, <1>6, <1>7, <1>8, <1>9, Zenon DEF r, bytes, all, size, more

\* Whatever the ring looks like, an append leaves a ring, which is not empty.
LEMMA AppendedTypes ==
    ASSUME NEW S, 0 \in S, NEW b, IsRing(b, S),
           NEW data \in Seq(S), data # <<>>
    PROVE  IsRing(Appended(b, data), S) /\ ~IsEmpty(Appended(b, data))
<1> DEFINE space == IF WritableBytes(b) < Len(data) THEN MakeSpace(b, Len(data))
                    ELSE b
<1>1. Len(data) \in Nat \ {0}
  BY EmptySeq
<1>2. IsRing(space, S)
  <2>1. CASE WritableBytes(b) < Len(data)
    <3>1. PICK r : /\ Unwrapped(r, S)
                   /\ MakeSpace(b, Len(data)) = WriteAfterEnd(r, Content(b))
      BY <1>1, <2>1, ResizedFacts
    <3>2. IsRing(r, S) /\ Content(b) \in Seq(S)
      BY <3>1, ContentTypes DEF Unwrapped
    <3>3. IsRing(WriteAfterEnd(r, Content(b)), S)
      BY <3>2, WriteTypes
    <3> QED BY <2>1, <3>1, <3>3
  <2>2. CASE ~(WritableBytes(b) < Len(data))
    BY <2>2
  <2> QED BY <2>1, <2>2
<1>3. Appended(b, data) = WriteAfterEnd(space, data)
  BY DEF Appended
<1> HIDE DEF space
<1> DEFINE w == WriteAfterEnd(space, data)
           end == (space.endIndex + Len(data)) % BufferSize(space)
<1>4. /\ IsRing(w, S) /\ w.startIndex = space.startIndex /\ w.endIndex = end
      /\ w.isFull <=> space.isFull \/ (Len(data) > 0 /\ end = space.startIndex)
  BY <1>2, WriteTypes
<1> HIDE DEF w, end
<1>5. ~IsEmpty(w)
  BY <1>1, <1>4 DEF IsEmpty
<1> QED BY <1>3, <1>4, <1>5 DEF w

\* An append that does not overrun an unwrapped ring: the message follows the
\* content, whether the vector has room for it or grows.
LEMMA AppendedFacts ==
    ASSUME NEW S, 0 \in S, NEW b, Unwrapped(b, S),
           NEW data \in Seq(S), data # <<>>, ~Overruns(b, Len(data))
    PROVE  /\ Unwrapped(Appended(b, data), S)
           /\ Content(Appended(b, data)) = Content(b) \o data
           /\ Appended(b, data).startIndex \in {0, b.startIndex}
<1> DEFINE size == BufferSize(b)
           len == Len(data)
<1>1. /\ IsRing(b, S) /\ b.startIndex \in Nat /\ b.endIndex \in Nat
      /\ size \in Nat \ {0} /\ b.isFull \in BOOLEAN
      /\ b.startIndex < size /\ b.endIndex < size
  BY SizeFacts DEF Unwrapped
<1>2. len \in Nat \ {0}
  BY EmptySeq
<1> HIDE DEF size, len
<1>3. CASE ~(WritableBytes(b) < len)
  <2>1. WritableBytes(b) \in Nat /\ WritableBytes(b) >= len
    BY <1>1, <1>2, <1>3, CountFacts DEF size
  <2>2. b.startIndex = 0 \/ (b.endIndex # 0 /\ ~(b.endIndex + len > size))
    BY <1>1, <2>1 DEF Overruns, len, size
  <2>3. ~b.isFull
    BY <1>1, <1>2, <2>1 DEF WritableBytes, ReadableBytes, size
  <2>4. b.endIndex + len <= size
    BY <1>1, <1>2, <2>1, <2>2, <2>3 DEF WritableBytes, ReadableBytes, size
  <2>5. ~AtEnd(b)
    BY <1>1, <2>2, <2>3 DEF AtEnd
  <2>6. Appended(b, data) = WriteAfterEnd(b, data)
    BY <1>3 DEF Appended, len
  <2> QED BY <2>4, <2>5, <2>6, WriteFacts DEF size, len
<1>4. CASE WritableBytes(b) < len
  <2>1. PICK r : /\ Unwrapped(r, S) /\ Content(r) = <<>>
                 /\ r.startIndex = 0 /\ r.endIndex = 0 /\ ~r.isFull
                 /\ BufferSize(r) = ReadableBytes(b) + len
                 /\ MakeSpace(b, len) = WriteAfterEnd(r, Content(b))
    BY <1>1, <1>2, <1>4, ResizedFacts DEF len
  <2>2. /\ Content(b) \in Seq(S)
        /\ Len(Content(b)) = ReadableBytes(b) /\ ReadableBytes(b) \in Nat
    BY <1>1, <1>4, ContentFacts, CountFacts DEF Overruns, SpaceFails, len
  <2> DEFINE m == WriteAfterEnd(r, Content(b))
  <2>3. ~AtEnd(r) /\ r.endIndex + Len(Content(b)) <= BufferSize(r)
    BY <1>2, <2>1, <2>2 DEF AtEnd
  <2>4. /\ Unwrapped(m, S) /\ m.startIndex = 0
        /\ BufferSize(m) = ReadableBytes(b) + len
        /\ End(m) = ReadableBytes(b) /\ Content(m) = Content(b)
    <3>1. /\ Unwrapped(m, S) /\ m.startIndex = r.startIndex
          /\ BufferSize(m) = BufferSize(r)
          /\ End(m) = r.endIndex + Len(Content(b))
          /\ Content(m) = Content(r) \o Content(b)
      BY <2>1, <2>2, <2>3, WriteFacts
    <3>2. <<>> \o Content(b) = Content(b)
      BY <2>2, ConcatEmptySeq
    <3> HIDE DEF m
    <3> QED BY <2>1, <2>2, <3>1, <3>2
  <2>5. Appended(b, data) = WriteAfterEnd(m, data)
    BY <1>4, <2>1, Zenon DEF Appended, len
  <2> HIDE DEF m
  <2>6. ~AtEnd(m)
    BY <1>2, <2>2, <2>4 DEF End
  <2>7. m.endIndex + Len(data) <= BufferSize(m)
    BY <1>2, <2>2, <2>4, <2>6 DEF End, len
  <2> QED BY <2>4, <2>5, <2>6, <2>7, WriteFacts
<1> QED BY <1>3, <1>4

\* Nothing was retrieved from an unwrapped ring that an append fails in or overruns
\* unless its content begins behind the first index.
LEMMA OverrunFacts ==
    ASSUME NEW S, 0 \in S, NEW b, Unwrapped(b, S), NEW n \in Nat,
           SpaceFails(b, n) \/ CopyIsUndefined(b, n) \/ Overruns(b, n)
    PROVE  b.startIndex > 0
<1>1. /\ b.startIndex \in Nat /\ b.endIndex \in Nat
      /\ BufferSize(b) \in Nat \ {0} /\ b.isFull \in BOOLEAN
      /\ b.startIndex < BufferSize(b) /\ b.endIndex < BufferSize(b)
      /\ Len(Content(b)) = End(b) - b.startIndex
  BY SizeFacts, ContentFacts DEF Unwrapped
<1> SUFFICES ASSUME b.startIndex = 0 PROVE FALSE
  BY <1>1
<1>2. ReadableBytes(b) = End(b)
  BY <1>1 DEF ReadableBytes, End, AtEnd
<1>3. Len(Content(b)) = ReadableBytes(b)
  BY <1>1, <1>2 DEF End
<1>4. ~SpaceFails(b, n)
  BY <1>3 DEF SpaceFails
<1>5. ~CopyIsUndefined(b, n)
  BY <1>1, <1>2 DEF CopyIsUndefined, WritableBytes, End, AtEnd
<1> QED BY <1>1, <1>4, <1>5 DEF Overruns

=============================================================================
