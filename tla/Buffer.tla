------------------------------- MODULE Buffer -------------------------------
(***************************************************************************)
(* A Buffer and its user: one call after the other appends to it or takes  *)
(* from it.  It stands for the input buffer of a TcpConnection (readFd     *)
(* appends, the user's callback takes) and for its output buffer (send     *)
(* appends, handleWrite writes out and retrieves).                         *)
(***************************************************************************)
EXTENDS Ring

CONSTANTS
    Bytes,          \* the values of a byte; 0 is the one resize fills with
    Messages,       \* what one call may append
    MaxSize         \* bound: append only while the ring stays this small

ASSUME BufferAssumption ==
    0 \in Bytes /\ Messages \subseteq Seq(Bytes) \ {<<>>}

VARIABLES
    buf,            \* the Buffer
    taken           \* the bytes the last call handed out (history)

vars == <<buf, taken>>

Init == buf = NewBuffer /\ taken = <<>>

-----------------------------------------------------------------------------
(* The calls.                                                              *)

Fits(data) == BufferSize(Appended(buf, data)) <= MaxSize

AppendData(data) ==
    /\ Fits(data)
    /\ buf' = Appended(buf, data)
    /\ taken' = <<>>

\* The user takes everything: retrieveAsString.
TakeAll ==
    /\ taken' = Content(buf)
    /\ buf' = RetrieveAll(buf)

\* The user takes some of it: peek and retrieve, no more than there is.
TakeSome ==
    \E n \in 1 .. Len(Content(buf)) :
        /\ taken' = SubSeq(Content(buf), 1, n)
        /\ buf' = Retrieve(buf, n)

\* writeFd and, as handleWrite does, retrieve of what the socket took.
WriteOut ==
    /\ ~IsEmpty(buf)
    /\ \E n \in 1 .. Contiguous(buf) :
         /\ taken' = Peek(buf, n)
         /\ buf' = Retrieve(buf, n)

Next ==
    \/ \E data \in Messages : ~Overruns(buf, Len(data)) /\ AppendData(data)
    \/ TakeAll \/ TakeSome
    \/ WriteOut

\* Spec: no append overruns the ring, as none does behind retrieveAsString (the
\* input buffer in tests/testEcho.cpp), nor behind a partial write as long as the
\* message fits behind the rest, or the ring was not full and has to grow.
Spec == Init /\ [][Next]_vars

FairSpec == Spec /\ WF_vars(WriteOut)

\* FreeSpec: appends at any time, as the class allows and as send does.
FreeNext ==
    \/ \E data \in Messages : AppendData(data)
    \/ TakeAll \/ TakeSome
    \/ WriteOut

FreeSpec == Init /\ [][FreeNext]_vars

-----------------------------------------------------------------------------
(* Properties.                                                             *)

\* The types, the indexes inside the vector, and a full ring full to the end of
\* the vector.
RingTypeOK ==
    /\ IsRing(buf, Bytes)
    /\ taken \in Seq(Bytes)
    /\ buf.isFull => buf.endIndex = 0

Queue == INSTANCE ByteQueue WITH queue <- Content(buf)

\* With appends that do not overrun the ring, also behind partial writes, the
\* indexes, _isFull and the growth of the vector never lose, repeat or reorder a
\* byte, and what writeFd sends is the oldest of the content.
ImplementsByteQueue == Queue!Spec

\* Writing out comes to an end: readableBytes() reaches 0, the test after which
\* handleWrite stops asking for POLLOUT (TcpConnection.cpp:115).
Drains == ReadableBytes(buf) # 0 ~> ReadableBytes(buf) = 0

\* A ring queue that grows (README.md:9): what is appended follows what was
\* there, is what the caller gave, and is counted; growing moves the content
\* (the assertion at Buffer.h:148).  Refuted: the part that wraps is cut short,
\* and retrieve leaves _isFull set on a ring that is not full.
AppendsFollow ==
    \A data \in Messages :
        LET b == Appended(buf, data)
        IN  /\ Content(b) = Content(buf) \o data
            /\ ReadableBytes(b) = ReadableBytes(buf) + Len(data)

=============================================================================
