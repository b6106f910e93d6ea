------------------------ MODULE BufferedStreamProofs ------------------------
(***************************************************************************)
(* For every capacity and every set of byte values: the regions of a       *)
(* CircularBuffer never overlap, half of it can always be used, and its    *)
(* owner sees a ByteStream.                                                *)
(***************************************************************************)
EXTENDS BufferedStream, CircularBufferProofs

(* A chunk is a sequence of bytes.                                         *)
LEMMA ChunkIsSeq ==
  ASSUME NEW data \in Chunks
  PROVE  data \in Seq(Bytes) /\ Len(data) \in Nat
<1>1. PICK n \in 0 .. Capacity : data \in [1 .. n -> Bytes]
  BY DEF Chunks
<1>2. n \in Nat
  BY <1>1, CapacityAssumption, SMT
<1> QED BY <1>1, <1>2

----------------------------------------------------------------------------
(* The invariants.                                                         *)

(* A buffer starts in order.                                               *)
LEMMA InitGood == Init => Good(buf)
BY EmptyIsGood DEF Init

(* Every call keeps it so, in whichever order recv evaluates its arguments.*)
LEMMA NextGood == Good(buf) /\ [Next]_vars => Good(buf')
<1> SUFFICES ASSUME Good(buf), [Next]_vars
             PROVE  Good(buf')
  OBVIOUS
<1>1. CASE BufferReset
  <2>1. [i \in Offsets |-> Zero] \in [Offsets -> Bytes]
    BY StreamAssumption
  <2> QED BY <1>1, <2>1, EmptyIsGood DEF BufferReset
<1>2. ASSUME NEW data \in Chunks, Write(data) PROVE Good(buf')
  BY <1>2, ChunkIsSeq, WriteIsGood DEF Write
<1>3. ASSUME NEW data \in Chunks, OnReceive(data) PROVE Good(buf')
  <2> DEFINE r == WithRoom(buf)
             p == GetBuffer(IF SizeFirst THEN r ELSE buf)
  <2>1. /\ Len(data) <= FreeSpace(r)
        /\ buf' = Commit(Store(r, p, data), Len(data))
    BY <1>3 DEF OnReceive
  <2>2. Good(r) /\ p \in Int /\ data \in Seq(Bytes)
    BY <1>3, ChunkIsSeq, RoomIsGood, BufferFields, SMT DEF Good, GetBuffer
  <2> HIDE DEF r, p
  <2> QED BY <2>1, <2>2, AppendIsGood
<1>4. ASSUME NEW n \in 0 .. Capacity, Peek(n) PROVE Good(buf')
  BY <1>4 DEF Peek
<1>5. ASSUME NEW n \in 0 .. Capacity, Read(n) PROVE Good(buf')
  <2>1. CASE CanRead(buf, n)
    <3>1. n \in 0 .. GetStoredSize(buf)
      BY <2>1, ContentIsSeq, CapacityAssumption, SMT DEF CanRead
    <3> QED BY <1>5, <2>1, <3>1, ConsumeIsGood DEF Read, ReadBuffer
  <2>2. CASE ~CanRead(buf, n)
    BY <1>5, <2>2 DEF Read, ReadBuffer
  <2> QED BY <2>1, <2>2
<1>6. ASSUME NEW n \in 0 .. Capacity, SendFlush(n) PROVE Good(buf')
  <2>1. n \in Nat
    BY <1>6, CapacityAssumption, SMT
  <2> QED BY <1>6, <2>1, RemoveIsGood DEF SendFlush
<1>7. CASE WouldBlock
  BY <1>7, RoomIsGood DEF WouldBlock
<1>8. CASE UNCHANGED vars
  BY <1>8 DEF vars
<1> QED BY <1>1, <1>2, <1>3, <1>4, <1>5, <1>6, <1>7, <1>8 DEF Next

(* A CircularBuffer is always a buffer whose regions are apart.            *)
THEOREM BufferInvariant == Spec => []Good(buf)
<1>1. Init => Good(buf)
  BY InitGood
<1>2. Good(buf) /\ [Next]_vars => Good(buf)'
  BY NextGood
<1> QED BY <1>1, <1>2, PTL DEF Spec

(* Sizes and pointers stay within the array.                               *)
THEOREM BufferTypeCorrect == Spec => []TypeOK
<1>1. Good(buf) => TypeOK
  BY DEF Good, TypeOK
<1> QED BY <1>1, BufferInvariant, PTL

(* No call ever makes the regions overlap or leave the array.              *)
THEOREM RegionsStayApart == Spec => []RegionsApart
<1>1. Good(buf) => RegionsApart
  BY DEF Good, RegionsApart
<1> QED BY <1>1, BufferInvariant, PTL

(* Half of the array can be used after any sequence of calls.              *)
THEOREM HalfAlwaysAccepted == Spec => []HalfIsAccepted
<1>1. Good(buf) => HalfIsAccepted
  <2> SUFFICES ASSUME Good(buf), NEW n \in 0 .. Capacity,
                      2 * (GetStoredSize(buf) + n) <= Capacity
               PROVE  n <= FreeSpace(WithRoom(buf))
    BY DEF HalfIsAccepted
  <2>1. n \in Nat
    BY CapacityAssumption, SMT
  <2> QED BY <2>1, HalfFits
<1> QED BY <1>1, BufferInvariant, PTL

----------------------------------------------------------------------------
(* The refinement.                                                         *)

(* Each call of the class is a call of the abstract stream.                *)
LEMMA NextIsStream ==
  ASSUME SizeFirst, Good(buf), [Next]_vars
  PROVE  [Stream!Next]_(Stream!vars)
<1> DEFINE size == GetStoredSize(buf)
<1>0. /\ Content(buf) \in Seq(Bytes) /\ Len(Content(buf)) = size /\ size \in Nat
      /\ Capacity \in Nat
  BY ContentIsSeq, CapacityAssumption
<1>c. Stream!Chunks = Chunks
  BY DEF Stream!Chunks, Chunks
<1> HIDE DEF size
<1>1. CASE BufferReset
  <2>1. [i \in Offsets |-> Zero] \in [Offsets -> Bytes]
    BY StreamAssumption
  <2>2. Good(buf') /\ GetStoredSize(buf') = 0
    BY <1>1, <2>1, EmptyIsGood DEF BufferReset
  <2>3. Content(buf') \in Seq(Bytes) /\ Len(Content(buf')) = 0
    BY <2>2, ContentIsSeq
  <2>4. Content(buf') = << >>
    BY <2>3, EmptySeq
  <2> QED BY <1>1, <2>4 DEF BufferReset, Stream!Reset, Stream!Next
<1>2. ASSUME NEW data \in Chunks, Write(data) PROVE Stream!Next
  <2>1. CASE Fits(buf, data)
    <3>1. Stream!Put(data)
      BY <1>2, <2>1, ChunkIsSeq, WriteIsGood DEF Write, Stream!Put
    <3> QED BY <1>c, <3>1 DEF Stream!Next
  <2>2. CASE ~Fits(buf, data)
    <3>1. Stream!Reject(data)
      BY <1>2, <2>2, ChunkIsSeq, WriteIsGood DEF Write, Stream!Reject
    <3> QED BY <1>c, <3>1 DEF Stream!Next
  <2> QED BY <2>1, <2>2
<1>3. ASSUME NEW data \in Chunks, OnReceive(data) PROVE Stream!Next
  <2> DEFINE r == WithRoom(buf)
             p == GetBuffer(r)
  <2>1. /\ Len(data) <= FreeSpace(r) /\ call' = <<"append", data>>
        /\ buf' = Commit(Store(r, p, data), Len(data))
    BY <1>3 DEF OnReceive
  <2>2. /\ Good(r) /\ p \in Int /\ Content(r) = Content(buf)
        /\ data \in Seq(Bytes)
    BY <1>3, ChunkIsSeq, RoomKeepsContent, BufferFields, SMT DEF Good, GetBuffer
  <2>3. Content(buf') = Content(r) \o data
    <3> HIDE DEF r
    <3> QED BY <2>1, <2>2, AppendIsGood
  <2>4. Stream!Put(data)
    BY <2>1, <2>2, <2>3 DEF Stream!Put
  <2> QED BY <1>c, <2>4 DEF Stream!Next
<1>4. ASSUME NEW n \in 0 .. Capacity, Peek(n) PROVE Stream!Next
  <2>1. CASE CanRead(buf, n)
    <3>1. n \in 0 .. size /\ n <= size
      BY <1>0, <2>1, SMT DEF CanRead, size
    <3>2. PeekBytes(buf, n) = SubSeq(Content(buf), 1, n)
      BY <3>1, PeekIsPrefix DEF size
    <3>3. Stream!Peek(n)
      BY <1>0, <1>4, <2>1, <3>1, <3>2 DEF Peek, Stream!Peek, Stream!Oldest
    <3> QED BY <3>3 DEF Stream!Next
  <2>2. CASE ~CanRead(buf, n)
    BY <1>4, <2>2 DEF Peek, Stream!TooShort, Stream!Next
  <2> QED BY <2>1, <2>2
<1>5. ASSUME NEW n \in 0 .. Capacity, Read(n) PROVE Stream!Next
  <2>1. CASE CanRead(buf, n)
    <3>1. n \in 0 .. size /\ n <= size
      BY <1>0, <2>1, SMT DEF CanRead, size
    <3>2. PeekBytes(buf, n) = SubSeq(Content(buf), 1, n)
      BY <3>1, PeekIsPrefix DEF size
    <3>3. buf' = Consume(buf, n) /\ call' = <<"take", PeekBytes(buf, n)>>
      BY <1>5, <2>1 DEF Read, ReadBuffer
    <3>4. Content(buf') = SubSeq(Content(buf), n + 1, size)
      BY <3>1, <3>3, ConsumeIsGood DEF size
    <3>5. Stream!Take(n)
      BY <1>0, <3>1, <3>2, <3>3, <3>4 DEF Stream!Take, Stream!Oldest, Stream!Without
    <3> QED BY <3>5 DEF Stream!Next
  <2>2. CASE ~CanRead(buf, n)
    BY <1>5, <2>2 DEF Read, ReadBuffer, Stream!TooShort, Stream!Next
  <2> QED BY <2>1, <2>2
<1>6. ASSUME NEW n \in 0 .. Capacity, SendFlush(n) PROVE Stream!Next
  <2>1. n \in Nat /\ n <= GetContiguiousBytes(buf)
    BY <1>6, CapacityAssumption, SMT DEF SendFlush
  <2>2. n \in 0 .. size /\ n <= size
        /\ BytesAt(buf, GetBufferStart(buf), n) = PeekBytes(buf, n)
    BY <1>0, <2>1, SendIsPeek, SMT DEF size, BytesAt
  <2>3. PeekBytes(buf, n) = SubSeq(Content(buf), 1, n)
    BY <2>2, PeekIsPrefix DEF size
  <2>4. Content(RemoveBytes(buf, n)) = SubSeq(Content(buf), n + 1, size)
    BY <2>1, <2>2, RemoveIsGood DEF size
  <2>5. Stream!Take(n)
    BY <1>0, <1>6, <2>2, <2>3, <2>4
       DEF SendFlush, Stream!Take, Stream!Oldest, Stream!Without
  <2> QED BY <2>5 DEF Stream!Next
<1>7. CASE WouldBlock
  BY <1>7, RoomKeepsContent DEF WouldBlock, Stream!TooShort, Stream!Next
<1>8. CASE UNCHANGED vars
  BY <1>8 DEF vars, Stream!vars
<1> QED BY <1>1, <1>2, <1>3, <1>4, <1>5, <1>6, <1>7, <1>8 DEF Next

(* When recv evaluates its length argument first, whoever owns the buffer  *)
(* sees a stream of bytes: nothing lost, repeated, invented or reordered   *)
(* by the regions, and refused only when more than half full.              *)
THEOREM BufferImplementsStream == SizeFirst => (Spec => ImplementsByteStream)
<1> SUFFICES ASSUME SizeFirst
             PROVE  Spec => ImplementsByteStream
  OBVIOUS
<1>1. Init => Stream!Init
  <2> SUFFICES ASSUME Init PROVE Stream!Init
    OBVIOUS
  <2>1. Good(buf) /\ GetStoredSize(buf) = 0
    BY EmptyIsGood DEF Init
  <2>2. Content(buf) \in Seq(Bytes) /\ Len(Content(buf)) = 0
    BY <2>1, ContentIsSeq
  <2>3. Content(buf) = << >>
    BY <2>2, EmptySeq
  <2> QED BY <2>3 DEF Init, Stream!Init
<1>2. Good(buf) /\ [Next]_vars => [Stream!Next]_(Stream!vars)
  BY NextIsStream
<1> QED BY <1>1, <1>2, BufferInvariant, PTL DEF Spec, Stream!Spec, ImplementsByteStream
=============================================================================
