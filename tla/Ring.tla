-------------------------------- MODULE Ring --------------------------------
(***************************************************************************)
(* base/Buffer.h: a ring of bytes that grows when it has to.  A buffer is  *)
(* a record; each member function that changes it is an operator from      *)
(* buffers to buffers.  Buffer uses one on its own, TcpConnection has one  *)
(* for the output of each connection.                                      *)
(***************************************************************************)
EXTENDS Integers, Sequences

CONSTANT InitialSize    \* initialSize

ASSUME RingAssumption == InitialSize \in Nat \ {0}

\* resize fills with 0.
Zeros(n) == [i \in 1 .. n |-> 0]

NewBuffer == [bytes |-> Zeros(InitialSize), startIndex |-> 0, endIndex |-> 0,
              isFull |-> FALSE]

BufferSize(b) == Len(b.bytes)

\* The buffers of bytes out of S, with their indexes inside the vector.
IsRing(b, S) ==
    /\ b \in [bytes : Seq(S), startIndex : Nat, endIndex : Nat, isFull : BOOLEAN]
    /\ b.startIndex < BufferSize(b)
    /\ b.endIndex < BufferSize(b)

ReadableBytes(b) ==
    IF b.isFull THEN BufferSize(b)
    ELSE IF b.startIndex <= b.endIndex THEN b.endIndex - b.startIndex
    ELSE BufferSize(b) - (b.startIndex - b.endIndex)

WritableBytes(b) == BufferSize(b) - ReadableBytes(b)

IsEmpty(b) == b.startIndex = b.endIndex /\ ~b.isFull

\* The n bytes from peek() on.  What stands behind the vector is taken for zeros;
\* only a ring that was wrapped is read there, since _isFull is stale in it.
Peek(b, n) ==
    SubSeq(b.bytes \o Zeros(BufferSize(b)), b.startIndex + 1, b.startIndex + n)

\* What retrieveAsString returns.  Only the full ring has startIndex = endIndex
\* and content.
Content(b) ==
    IF b.startIndex < b.endIndex THEN Peek(b, ReadableBytes(b))
    ELSE IF IsEmpty(b) THEN <<>>
    ELSE Peek(b, BufferSize(b) - b.startIndex) \o SubSeq(b.bytes, 1, b.endIndex)

-----------------------------------------------------------------------------
(* Taking.                                                                 *)

\* Slip: a ring that has been full is never anything else.
RetrieveStaysFull(b, len) ==
    LET start == (b.startIndex + len) % BufferSize(b)
    IN  [b EXCEPT !.startIndex = start]

\* retrieve(len): _isFull is reset only if the indexes meet.
Retrieve(b, len) ==
    LET start == (b.startIndex + len) % BufferSize(b)
    IN  [b EXCEPT !.startIndex = start,
                  !.isFull = @ /\ ~(len > 0 /\ start = b.endIndex)]

RetrieveAll(b) ==
    [b EXCEPT !.startIndex = 0, !.endIndex = 0, !.isFull = FALSE]

\* How much writeFd offers the socket, of a buffer that is not empty: what is
\* contiguous from _startIndex on.
Contiguous(b) ==
    IF b.startIndex < b.endIndex THEN ReadableBytes(b)
    ELSE BufferSize(b) - b.startIndex

-----------------------------------------------------------------------------
(* Appending.                                                              *)

\* Slip: the end of the vector is taken for an index of it.
HasWrittenToTheEnd(b, len) ==
    LET end == IF b.endIndex + len <= BufferSize(b) THEN b.endIndex + len
               ELSE b.endIndex + len - BufferSize(b)
    IN  [b EXCEPT !.endIndex = end,
                  !.isFull = @ \/ (len > 0 /\ end = b.startIndex)]

HasWritten(b, len) ==
    LET end == (b.endIndex + len) % BufferSize(b)
    IN  [b EXCEPT !.endIndex = end,
                  !.isFull = @ \/ (len > 0 /\ end = b.startIndex)]

\* The vector with data copied over it from an index on.
Overwrite(bytes, i, data) ==
    [k \in 1 .. Len(bytes) |->
        IF k > i /\ k <= i + Len(data) THEN data[k - i] ELSE bytes[k]]

\* The second copy ends at data + secondPart, not at data + len.  When that is
\* before its beginning the copy is undefined: here it copies nothing.
WriteAfterEnd(b, data) ==
    LET firstPart == BufferSize(b) - b.endIndex
        secondPart == Len(data) - firstPart
        bytes == IF b.endIndex + Len(data) <= BufferSize(b)
                   THEN Overwrite(b.bytes, b.endIndex, data)
                 ELSE Overwrite(Overwrite(b.bytes, b.endIndex,
                                          SubSeq(data, 1, firstPart)),
                                0, SubSeq(data, firstPart + 1, secondPart))
    IN  [HasWritten(b, Len(data)) EXCEPT !.bytes = bytes]

\* Slip: the old content is not put back.
MakeSpaceForgets(b, len) ==
    LET newSize == BufferSize(b) + (len - WritableBytes(b))
    IN  [RetrieveAll(b) EXCEPT
           !.bytes = @ \o Zeros(newSize - BufferSize(b))]

\* The content is taken out and, once the vector is longer, appended again: the
\* ring is empty then, and large enough.
MakeSpace(b, len) ==
    LET newSize == BufferSize(b) + (len - WritableBytes(b))
        resized == [RetrieveAll(b) EXCEPT
                      !.bytes = @ \o Zeros(newSize - BufferSize(b))]
    IN  WriteAfterEnd(resized, Content(b))

Appended(b, data) ==
    WriteAfterEnd(IF WritableBytes(b) < Len(data) THEN MakeSpace(b, Len(data))
                  ELSE b, data)

\* The assertion of makeSpace (Buffer.h:148) fails: a ring that was full and was
\* partly retrieved still counts as full.
SpaceFails(b, len) ==
    WritableBytes(b) < len /\ Len(Content(b)) # ReadableBytes(b)

\* The second copy is undefined (Buffer.h:158).
CopyIsUndefined(b, len) ==
    /\ WritableBytes(b) >= len
    /\ b.endIndex + len > BufferSize(b)
    /\ len < 2 * (BufferSize(b) - b.endIndex)

\* The appends that the ring is not up to, all of them behind a retrieve that left
\* _startIndex off 0: there is no room but the assertion fails, or the data has to
\* go round the end of the vector.
Overruns(b, len) ==
    \/ SpaceFails(b, len)
    \/ /\ WritableBytes(b) >= len
       /\ b.startIndex > 0
       /\ b.endIndex = 0 \/ b.endIndex + len > BufferSize(b)

=============================================================================
