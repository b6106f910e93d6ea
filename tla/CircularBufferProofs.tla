------------------------ MODULE CircularBufferProofs ------------------------
(***************************************************************************)
(* What the operators of CircularBuffer do to a buffer whose regions are   *)
(* apart, for every capacity and every set of byte values: they keep the   *)
(* regions apart, half of the array can always be used, and the content is *)
(* a queue.                                                                *)
(***************************************************************************)
EXTENDS CircularBuffer, SequenceTheorems, TLAPS

Good(b) == b \in Buffer /\ Apart(b)

(* The fields of a buffer, one by one.                                     *)
LEMMA BufferFields ==
  ASSUME NEW b \in Buffer
  PROVE  /\ b.mBuffer \in [Offsets -> Bytes]
         /\ b.mARegionPointer \in 0 .. Capacity /\ b.mARegionSize \in 0 .. Capacity
         /\ b.mBRegionPointer \in nullptr .. Capacity /\ b.mBRegionSize \in 0 .. Capacity
         /\ b.mARegionPointer \in Nat /\ b.mARegionSize \in Nat
         /\ b.mBRegionPointer \in Int /\ b.mBRegionSize \in Nat
         /\ Capacity \in Nat \ {0}
<1>1. /\ b.mBuffer \in [Offsets -> Bytes]
      /\ b.mARegionPointer \in 0 .. Capacity /\ b.mARegionSize \in 0 .. Capacity
      /\ b.mBRegionPointer \in nullptr .. Capacity /\ b.mBRegionSize \in 0 .. Capacity
  BY DEF Buffer
<1> QED BY <1>1, CapacityAssumption, SMT DEF nullptr

(* What the regions of a good buffer satisfy, in plain arithmetic.         *)
LEMMA GoodRegions ==
  ASSUME NEW b, Good(b)
  PROVE  /\ b.mARegionPointer + b.mARegionSize <= Capacity
         /\ b.mARegionSize = 0 => b.mARegionPointer = 0 /\ ~HasB(b)
         /\ HasB(b) => /\ b.mBRegionPointer = 0
                       /\ b.mBRegionSize <= b.mARegionPointer
                       /\ Capacity - b.mARegionPointer - b.mARegionSize < b.mARegionPointer
         /\ ~HasB(b) => b.mBRegionSize = 0
BY DEF Good, Apart, GetAFreeSpace, GetSpaceBeforeA

(* An empty buffer is good.                                                *)
LEMMA EmptyIsGood ==
  ASSUME NEW array \in [Offsets -> Bytes]
  PROVE  Good(EmptyBuffer(array)) /\ GetStoredSize(EmptyBuffer(array)) = 0
<1>1. EmptyBuffer(array) \in Buffer
  BY CapacityAssumption, SMT DEF EmptyBuffer, Buffer, nullptr
<1> QED BY <1>1, CapacityAssumption, SMT
        DEF EmptyBuffer, Good, Apart, HasB, nullptr, GetStoredSize

(* Switching to region B disturbs no stored byte, and leaves at least half *)
(* of the free room of the buffer within reach.                            *)
LEMMA RoomIsGood ==
  ASSUME NEW b, Good(b)
  PROVE  /\ Good(WithRoom(b))
         /\ WithRoom(b).mBuffer = b.mBuffer
         /\ WithRoom(b).mARegionPointer = b.mARegionPointer
         /\ WithRoom(b).mARegionSize = b.mARegionSize
         /\ WithRoom(b).mBRegionSize = b.mBRegionSize
         /\ b.mBRegionSize > 0 => WithRoom(b).mBRegionPointer = b.mBRegionPointer
         /\ FreeSpace(WithRoom(b)) \in Nat
<1>0. b \in Buffer /\ Apart(b)
  BY DEF Good
<1>1. CASE ~HasB(b) /\ GetAFreeSpace(b) < GetSpaceBeforeA(b)
  <2>1. WithRoom(b) = [b EXCEPT !.mBRegionPointer = 0]
    BY <1>1 DEF WithRoom
  <2>2. /\ WithRoom(b) \in Buffer
        /\ WithRoom(b).mBuffer = b.mBuffer
        /\ WithRoom(b).mARegionPointer = b.mARegionPointer
        /\ WithRoom(b).mARegionSize = b.mARegionSize
        /\ WithRoom(b).mBRegionPointer = 0
        /\ WithRoom(b).mBRegionSize = b.mBRegionSize
    BY <1>0, <2>1, CapacityAssumption, SMT DEF Buffer, nullptr
  <2>3. b.mBRegionSize = 0
    BY <1>0, <1>1 DEF Apart
  <2>4. b.mARegionSize > 0
    BY <1>0, <1>1, BufferFields, SMT DEF Apart, GetAFreeSpace, GetSpaceBeforeA
  <2> QED BY <1>0, <1>1, <2>2, <2>3, <2>4, BufferFields, SMT
          DEF Good, Apart, HasB, nullptr, FreeSpace, GetAFreeSpace, GetBFreeSpace,
              GetSpaceBeforeA
<1>2. CASE ~(~HasB(b) /\ GetAFreeSpace(b) < GetSpaceBeforeA(b))
  <2>1. WithRoom(b) = b
    BY <1>2 DEF WithRoom
  <2>2. FreeSpace(b) \in Nat
    BY <1>0, BufferFields, SMT DEF Apart, HasB, FreeSpace, GetAFreeSpace, GetBFreeSpace
  <2> QED BY <2>1, <2>2 DEF Good
<1> QED BY <1>1, <1>2

(* At most half full, a buffer accepts.                                    *)
LEMMA HalfFits ==
  ASSUME NEW b, Good(b), NEW n \in Nat, 2 * (GetStoredSize(b) + n) <= Capacity
  PROVE  n <= FreeSpace(WithRoom(b))
<1>0. b \in Buffer /\ Apart(b)
  BY DEF Good
<1>1. CASE ~HasB(b) /\ GetAFreeSpace(b) < GetSpaceBeforeA(b)
  <2>1. WithRoom(b) = [b EXCEPT !.mBRegionPointer = 0]
    BY <1>1 DEF WithRoom
  <2>2. /\ WithRoom(b).mARegionPointer = b.mARegionPointer
        /\ WithRoom(b).mBRegionPointer = 0
        /\ WithRoom(b).mBRegionSize = b.mBRegionSize
    BY <1>0, <2>1, SMT DEF Buffer
  <2> QED BY <1>0, <1>1, <2>2, BufferFields, SMT
          DEF Apart, HasB, nullptr, FreeSpace, GetAFreeSpace, GetBFreeSpace,
              GetSpaceBeforeA, GetStoredSize
<1>2. CASE ~(~HasB(b) /\ GetAFreeSpace(b) < GetSpaceBeforeA(b))
  <2>1. WithRoom(b) = b
    BY <1>2 DEF WithRoom
  <2> QED BY <1>0, <1>2, <2>1, BufferFields, SMT
          DEF Apart, HasB, nullptr, FreeSpace, GetAFreeSpace, GetBFreeSpace,
              GetSpaceBeforeA, GetStoredSize
<1> QED BY <1>1, <1>2

(* What Peek copies is a sequence of stored bytes.                         *)
LEMMA PeekIsSeq ==
  ASSUME NEW b, Good(b), NEW n \in 0 .. GetStoredSize(b)
  PROVE  /\ PeekBytes(b, n) \in Seq(Bytes) /\ Len(PeekBytes(b, n)) = n
         /\ n \in Nat /\ GetStoredSize(b) \in Nat
<1>0. b \in Buffer /\ Apart(b)
  BY DEF Good
<1>1. n \in Nat /\ GetStoredSize(b) \in Nat
  BY <1>0, BufferFields, SMT DEF GetStoredSize
<1>2. ASSUME NEW i \in 1 .. n
      PROVE  (IF i <= b.mARegionSize THEN b.mBuffer[b.mARegionPointer + i - 1]
              ELSE b.mBuffer[b.mBRegionPointer + i - 1 - b.mARegionSize]) \in Bytes
  <2>1. CASE i <= b.mARegionSize
    <3>1. b.mARegionPointer + i - 1 \in Offsets
      BY <1>0, <1>1, <2>1, BufferFields, SMT DEF Apart, Offsets
    <3> QED BY <1>0, <2>1, <3>1, BufferFields
  <2>2. CASE ~(i <= b.mARegionSize)
    <3>1. b.mBRegionPointer + i - 1 - b.mARegionSize \in Offsets
      <4>1. /\ i \in Int /\ 1 <= i /\ i <= b.mARegionSize + b.mBRegionSize
            /\ b.mARegionPointer <= Capacity /\ Capacity \in Nat
            /\ b.mARegionSize \in Nat /\ b.mBRegionSize \in Nat
        BY <1>0, <1>1, <1>2, BufferFields, SMT DEF GetStoredSize
      <4>2. HasB(b)
        BY <2>2, <4>1, GoodRegions, SMT
      <4>3. b.mBRegionPointer = 0 /\ b.mBRegionSize <= b.mARegionPointer
        BY <4>2, GoodRegions
      <4> QED BY <1>0, <2>2, <4>1, <4>3, BufferFields, SMT DEF Offsets
    <3> QED BY <1>0, <2>2, <3>1, BufferFields
  <2> QED BY <2>1, <2>2
<1>3. PeekBytes(b, n) \in [1 .. n -> Bytes]
  BY <1>2 DEF PeekBytes
<1> QED BY <1>1, <1>3

(* The content is the sequence of all stored bytes; peeking takes a prefix.*)
LEMMA ContentIsSeq ==
  ASSUME NEW b, Good(b)
  PROVE  /\ Content(b) \in Seq(Bytes) /\ Len(Content(b)) = GetStoredSize(b)
         /\ GetStoredSize(b) \in Nat
         /\ \A i \in 1 .. GetStoredSize(b) :
              Content(b)[i] = IF i <= b.mARegionSize THEN b.mBuffer[b.mARegionPointer + i - 1]
                              ELSE b.mBuffer[b.mBRegionPointer + i - 1 - b.mARegionSize]
<1>1. GetStoredSize(b) \in 0 .. GetStoredSize(b)
  BY BufferFields, SMT DEF Good, GetStoredSize
<1>2. \A i \in 1 .. GetStoredSize(b) :
        Content(b)[i] = IF i <= b.mARegionSize THEN b.mBuffer[b.mARegionPointer + i - 1]
                        ELSE b.mBuffer[b.mBRegionPointer + i - 1 - b.mARegionSize]
  BY DEF Content, PeekBytes
<1> QED BY <1>1, <1>2, PeekIsSeq DEF Content

(* Peeking shows the oldest bytes.                                         *)
LEMMA PeekIsPrefix ==
  ASSUME NEW b, Good(b), NEW n \in 0 .. GetStoredSize(b)
  PROVE  PeekBytes(b, n) = SubSeq(Content(b), 1, n)
<1>1. /\ PeekBytes(b, n) \in Seq(Bytes) /\ Len(PeekBytes(b, n)) = n /\ n \in Nat
  BY PeekIsSeq
<1>2. ASSUME NEW i \in 1 .. n
      PROVE  /\ Content(b)[i] \in Bytes /\ PeekBytes(b, n)[i] = Content(b)[i]
  <2>1. i \in 1 .. GetStoredSize(b)
    BY <1>1, ContentIsSeq, SMT
  <2>2. Content(b)[i] \in Bytes
    BY <2>1, ContentIsSeq, ElementOfSeq
  <2> QED BY <2>1, <2>2 DEF Content, PeekBytes
<1>3. /\ SubSeq(Content(b), 1, n) \in Seq(Bytes)
      /\ Len(SubSeq(Content(b), 1, n)) = n
      /\ \A i \in 1 .. n : SubSeq(Content(b), 1, n)[i] = Content(b)[i]
  <2>1. \A i \in 1 .. n : Content(b)[i] \in Bytes
    BY <1>2
  <2>2. /\ SubSeq(Content(b), 1, n) \in Seq(Bytes)
        /\ Len(SubSeq(Content(b), 1, n)) = IF 1 <= n THEN n - 1 + 1 ELSE 0
        /\ \A i \in 1 .. n - 1 + 1 : SubSeq(Content(b), 1, n)[i] = Content(b)[1 + i - 1]
    BY <1>1, <2>1, SubSeqProperties
  <2> QED BY <1>1, <2>2, SMT
<1> QED BY <1>1, <1>2, <1>3, SeqEqual

(* Storing and committing what fits keeps the regions apart.  Done where   *)
(* GetBuffer points, what was stored stays, followed by the new bytes.     *)
LEMMA AppendIsGood ==
  ASSUME NEW r, Good(r), NEW data \in Seq(Bytes), Len(data) <= FreeSpace(r), NEW p \in Int,
         NEW w, w = Commit(Store(r, p, data), Len(data))
  PROVE  Good(w) /\ (p = GetBuffer(r) => Content(w) = Content(r) \o data)
<1> DEFINE n == Len(data)
           array == [i \in Offsets |-> IF i \in p .. p + n - 1 THEN data[i - p + 1]
                                       ELSE r.mBuffer[i]]
<1>0. /\ r \in Buffer /\ Apart(r) /\ data \in Seq(Bytes) /\ n \in Nat /\ n <= FreeSpace(r)
  BY DEF Good
<1>1. Store(r, p, data) = [r EXCEPT !.mBuffer = array]
  BY DEF Store
<1>2. array \in [Offsets -> Bytes]
  <2>1. ASSUME NEW i \in Offsets, i \in p .. p + n - 1 PROVE data[i - p + 1] \in Bytes
    <3>2. i - p + 1 \in 1 .. n
      BY <1>0, <2>1, SMT DEF Offsets
    <3> QED BY <1>0, <3>2, ElementOfSeq
  <2>2. \A i \in Offsets : r.mBuffer[i] \in Bytes
    BY <1>0, BufferFields
  <2> QED BY <2>1, <2>2
<1> HIDE DEF array
<1>3. /\ w.mBuffer = array
      /\ w = [mBuffer |-> w.mBuffer, mARegionPointer |-> w.mARegionPointer,
              mARegionSize |-> w.mARegionSize, mBRegionPointer |-> w.mBRegionPointer,
              mBRegionSize |-> w.mBRegionSize]
      /\ w.mARegionPointer = r.mARegionPointer
      /\ w.mBRegionPointer = r.mBRegionPointer
      /\ w.mARegionSize = IF HasB(r) THEN r.mARegionSize ELSE r.mARegionSize + n
      /\ w.mBRegionSize = IF HasB(r) THEN r.mBRegionSize + n ELSE r.mBRegionSize
  <2> DEFINE q == Store(r, p, data)
  <2>0. q = [r EXCEPT !.mBuffer = array] /\ r \in Buffer
    BY <1>0, <1>1
  <2> HIDE DEF q
  <2>1. /\ q \in Buffer /\ q.mBuffer = array
        /\ q.mARegionPointer = r.mARegionPointer /\ q.mARegionSize = r.mARegionSize
        /\ q.mBRegionPointer = r.mBRegionPointer /\ q.mBRegionSize = r.mBRegionSize
    BY <2>0, <1>2, SMT DEF Buffer
  <2>2. HasB(q) <=> HasB(r)
    BY <2>1 DEF HasB
  <2>3. w = IF HasB(r) THEN [q EXCEPT !.mBRegionSize = @ + n]
                       ELSE [q EXCEPT !.mARegionSize = @ + n]
    BY <2>2 DEF Commit, q
  <2> QED BY <2>1, <2>3, SMT DEF Buffer
<1>4. w \in Buffer
  BY <1>0, <1>2, <1>3, BufferFields, SMT
  DEF Buffer, Apart, HasB, FreeSpace, GetAFreeSpace, GetBFreeSpace
<1>5. Apart(w)
  <2>0. /\ w.mARegionPointer \in Nat /\ w.mARegionSize \in Nat /\ w.mBRegionSize \in Nat
        /\ r.mARegionPointer \in Nat /\ r.mARegionSize \in Nat /\ r.mBRegionSize \in Nat
        /\ Capacity \in Nat /\ (HasB(w) <=> HasB(r))
    BY <1>0, <1>3, <1>4, BufferFields DEF HasB
  <2>1. CASE HasB(r)
    <3>1. r.mBRegionPointer = 0 /\ n <= r.mARegionPointer - r.mBRegionSize
      BY <1>0, <2>0, <2>1, GoodRegions, SMT DEF FreeSpace, GetBFreeSpace
    <3>2. Capacity - r.mARegionPointer - r.mARegionSize < r.mARegionPointer
      BY <2>1, GoodRegions
    <3>3. /\ w.mARegionPointer = r.mARegionPointer /\ w.mARegionSize = r.mARegionSize
          /\ w.mBRegionPointer = 0 /\ w.mBRegionSize = r.mBRegionSize + n
          /\ r.mARegionSize # 0 /\ r.mARegionPointer + r.mARegionSize <= Capacity
      BY <1>3, <2>1, <3>1, GoodRegions
    <3> HIDE DEF n
    <3> QED BY <1>0, <2>0, <2>1, <3>1, <3>2, <3>3, SMT
            DEF Apart, GetAFreeSpace, GetSpaceBeforeA
  <2>2. CASE ~HasB(r)
    <3>1. n <= Capacity - r.mARegionPointer - r.mARegionSize
      BY <1>0, <2>2 DEF FreeSpace, GetAFreeSpace
    <3>2. /\ w.mARegionPointer = r.mARegionPointer /\ w.mARegionSize = r.mARegionSize + n
          /\ w.mBRegionSize = 0 /\ (r.mARegionSize = 0 => r.mARegionPointer = 0)
      BY <1>3, <2>2, GoodRegions
    <3> HIDE DEF n
    <3> QED BY <1>0, <2>0, <2>2, <3>1, <3>2, SMT DEF Apart
  <2> QED BY <2>1, <2>2
<1>6. GetStoredSize(w) = GetStoredSize(r) + n
  BY <1>0, <1>3, BufferFields, SMT DEF GetStoredSize
<1>7. ASSUME p = GetBuffer(r), NEW i \in 1 .. GetStoredSize(r) + n
      PROVE  Content(w)[i] = IF i <= GetStoredSize(r) THEN Content(r)[i]
                             ELSE data[i - GetStoredSize(r)]
  <2> DEFINE old == IF i <= r.mARegionSize THEN r.mARegionPointer + i - 1
                    ELSE r.mBRegionPointer + i - 1 - r.mARegionSize
             at == IF i <= w.mARegionSize THEN w.mARegionPointer + i - 1
                   ELSE w.mBRegionPointer + i - 1 - w.mARegionSize
  <2>1. Content(w)[i] = array[at]
    BY <1>3, <1>4, <1>5, <1>6, ContentIsSeq DEF Good
  <2>0. /\ i \in Int /\ 1 <= i /\ i <= r.mARegionSize + r.mBRegionSize + n
        /\ n \in Nat /\ Capacity \in Nat
        /\ r.mARegionPointer \in Nat /\ r.mARegionSize \in Nat
        /\ r.mBRegionPointer \in Int /\ r.mBRegionSize \in Nat
    BY <1>0, <1>7, BufferFields, SMT DEF GetStoredSize
  <2>b. /\ at \in Int /\ p \in Int /\ 0 <= at /\ at < Capacity
        /\ i <= r.mARegionSize + r.mBRegionSize => at = old /\ ~(p <= at /\ at < p + n)
        /\ ~(i <= r.mARegionSize + r.mBRegionSize) =>
             /\ p <= at /\ at < p + n
             /\ at - p + 1 = i - (r.mARegionSize + r.mBRegionSize)
    <3>1. CASE HasB(r)
      <4>1. /\ w.mARegionSize = r.mARegionSize /\ w.mARegionPointer = r.mARegionPointer
            /\ w.mBRegionPointer = r.mBRegionPointer /\ p = r.mBRegionPointer + r.mBRegionSize
        BY <1>3, <1>7, <3>1 DEF GetBuffer
      <4>2. /\ r.mBRegionPointer = 0 /\ r.mBRegionSize + n <= r.mARegionPointer
            /\ r.mARegionPointer + r.mARegionSize <= Capacity
        BY <1>0, <2>0, <3>1, SMT DEF Apart, FreeSpace, GetBFreeSpace
      <4>3. CASE i <= r.mARegionSize
        <5>1. at = r.mARegionPointer + i - 1 /\ old = r.mARegionPointer + i - 1
          BY <4>1, <4>3
        <5> HIDE DEF at, old, n
        <5> QED BY <2>0, <4>1, <4>2, <4>3, <5>1, SMTT(60)
      <4>4. CASE ~(i <= r.mARegionSize)
        <5>1. at = i - 1 - r.mARegionSize /\ old = i - 1 - r.mARegionSize
          BY <2>0, <4>1, <4>2, <4>4, SMTT(60)
        <5> HIDE DEF at, old, n
        <5> QED BY <2>0, <4>1, <4>2, <4>4, <5>1, SMTT(60)
      <4> QED BY <4>3, <4>4
    <3>2. CASE ~HasB(r)
      <4>1. /\ w.mARegionSize = r.mARegionSize + n /\ w.mARegionPointer = r.mARegionPointer
            /\ p = r.mARegionPointer + r.mARegionSize
        BY <1>3, <1>7, <3>2 DEF GetBuffer
      <4>2. /\ r.mBRegionSize = 0
            /\ r.mARegionPointer + r.mARegionSize + n <= Capacity
        BY <1>0, <2>0, <3>2, SMT DEF Apart, FreeSpace, GetAFreeSpace
      <4>3. at = r.mARegionPointer + i - 1
        BY <2>0, <4>1, <4>2, SMTT(60)
      <4>4. i <= r.mARegionSize => old = r.mARegionPointer + i - 1
        OBVIOUS
      <4> HIDE DEF at, old, n
      <4> QED BY <2>0, <4>1, <4>2, <4>3, <4>4, SMTT(60)
    <3> QED BY <3>1, <3>2
  <2>2. /\ at \in Offsets
        /\ at \in p .. p + n - 1 <=> ~(i <= GetStoredSize(r))
        /\ i <= GetStoredSize(r) => at = old
        /\ ~(i <= GetStoredSize(r)) => at - p + 1 = i - GetStoredSize(r)
    <3> HIDE DEF at, old, n
    <3> QED BY <2>0, <2>b, SMT DEF Offsets, GetStoredSize
  <2>3. array[at] = IF at \in p .. p + n - 1 THEN data[at - p + 1] ELSE r.mBuffer[at]
    BY <2>2 DEF array
  <2>4. CASE i <= GetStoredSize(r)
    <3>1. i \in 1 .. GetStoredSize(r)
      BY <2>0, <2>4, SMT DEF GetStoredSize
    <3>2. Content(r)[i] = r.mBuffer[old]
      BY <3>1, ContentIsSeq
    <3> QED BY <2>1, <2>2, <2>3, <2>4, <3>2
  <2>5. CASE ~(i <= GetStoredSize(r))
    BY <2>1, <2>2, <2>3, <2>5
  <2> QED BY <2>4, <2>5
<1>8. Good(w)
  BY <1>4, <1>5 DEF Good
<1>9. /\ Content(w) \in Seq(Bytes) /\ Len(Content(w)) = GetStoredSize(r) + n
      /\ Content(r) \in Seq(Bytes) /\ Len(Content(r)) = GetStoredSize(r)
  BY <1>6, <1>8, ContentIsSeq
<1>10. /\ Content(r) \o data \in Seq(Bytes)
       /\ Len(Content(r) \o data) = GetStoredSize(r) + n
       /\ \A i \in 1 .. GetStoredSize(r) + n :
            (Content(r) \o data)[i] = IF i <= GetStoredSize(r) THEN Content(r)[i]
                                      ELSE data[i - GetStoredSize(r)]
  <2> DEFINE sr == Content(r)
             N == GetStoredSize(r)
  <2>1. sr \in Seq(Bytes) /\ Len(sr) = N /\ data \in Seq(Bytes) /\ Len(data) = n
    BY <1>0, <1>9
  <2> HIDE DEF sr, N, n
  <2>2. /\ sr \o data \in Seq(Bytes)
        /\ Len(sr \o data) = N + n
        /\ \A i \in 1 .. N + n :
             (sr \o data)[i] = IF i <= N THEN sr[i] ELSE data[i - N]
    BY <2>1, ConcatProperties
  <2> QED BY <2>2 DEF sr, N
<1>11. ASSUME p = GetBuffer(r) PROVE Content(w) = Content(r) \o data
  <2> DEFINE sw == Content(w)
             sr == Content(r) \o data
  <2>1. sw \in Seq(Bytes) /\ sr \in Seq(Bytes) /\ Len(sw) = Len(sr)
    BY <1>9, <1>10
  <2>2. \A i \in 1 .. Len(sw) : sw[i] = sr[i]
    BY <1>7, <1>9, <1>10, <1>11
  <2> HIDE DEF sw, sr
  <2>3. sw = sr
    BY <2>1, <2>2, SeqEqual
  <2> QED BY <2>3 DEF sw, sr
<1> QED BY <1>8, <1>11

(* Dropping n bytes leaves the rest, in order, in regions that are apart.  *)
LEMMA ConsumeIsGood ==
  ASSUME NEW b, Good(b), NEW n \in 0 .. GetStoredSize(b), NEW c, c = Consume(b, n)
  PROVE  Good(c) /\ Content(c) = SubSeq(Content(b), n + 1, GetStoredSize(b))
<1> DEFINE k == n - b.mARegionSize
           sB == Content(b)
<1>0. /\ b \in Buffer /\ Apart(b) /\ n \in Nat
      /\ n <= b.mARegionSize + b.mBRegionSize
  BY PeekIsSeq, BufferFields, SMT DEF Good, GetStoredSize
<1>1. /\ sB \in Seq(Bytes) /\ Len(sB) = GetStoredSize(b) /\ GetStoredSize(b) \in Nat
      /\ \A i \in 1 .. GetStoredSize(b) :
           sB[i] = IF i <= b.mARegionSize THEN b.mBuffer[b.mARegionPointer + i - 1]
                   ELSE b.mBuffer[b.mBRegionPointer + i - 1 - b.mARegionSize]
  BY ContentIsSeq
<1>n. /\ Capacity \in Nat
      /\ b.mARegionPointer \in Nat /\ b.mARegionSize \in Nat
      /\ b.mBRegionPointer \in Int /\ b.mBRegionSize \in Nat
      /\ b.mARegionPointer + b.mARegionSize <= Capacity
      /\ b.mBRegionSize > 0 => /\ b.mBRegionPointer = 0
                               /\ b.mBRegionSize <= b.mARegionPointer
  BY <1>0, BufferFields, SMT DEF Apart, HasB
<1>2. /\ Good(c) /\ GetStoredSize(c) = GetStoredSize(b) - n
      /\ \A i \in 1 .. GetStoredSize(b) - n : Content(c)[i] = sB[n + i]
  <2>1. CASE n < b.mARegionSize
    <3>1. c = [ mBuffer |-> b.mBuffer, mARegionPointer |-> b.mARegionPointer + n,
                mARegionSize |-> b.mARegionSize - n,
                mBRegionPointer |-> b.mBRegionPointer, mBRegionSize |-> b.mBRegionSize ]
      BY <1>0, <2>1, BufferFields, SMT DEF Consume
    <3>2. c \in Buffer
      BY <1>0, <2>1, <3>1, BufferFields, SMT DEF Buffer, Apart
    <3>3. Apart(c)
      BY <1>0, <2>1, <3>1, BufferFields, SMT
      DEF Apart, HasB, GetAFreeSpace, GetSpaceBeforeA
    <3>4. GetStoredSize(c) = GetStoredSize(b) - n
      BY <1>0, <3>1, BufferFields, SMT DEF GetStoredSize
    <3>5. ASSUME NEW i \in 1 .. GetStoredSize(b) - n PROVE Content(c)[i] = sB[n + i]
      <4>1. n + i \in 1 .. GetStoredSize(b)
        BY <1>0, <1>1, SMT
      <4>2. Content(c)[i] = IF i <= c.mARegionSize THEN c.mBuffer[c.mARegionPointer + i - 1]
                            ELSE c.mBuffer[c.mBRegionPointer + i - 1 - c.mARegionSize]
        BY <3>2, <3>3, <3>4, ContentIsSeq DEF Good
      <4>3. /\ i <= c.mARegionSize <=> n + i <= b.mARegionSize
            /\ c.mARegionPointer + i - 1 = b.mARegionPointer + (n + i) - 1
            /\ c.mBRegionPointer + i - 1 - c.mARegionSize
                = b.mBRegionPointer + (n + i) - 1 - b.mARegionSize
            /\ c.mBuffer = b.mBuffer
        <5>1. /\ c.mARegionSize = b.mARegionSize - n /\ c.mBuffer = b.mBuffer
              /\ c.mARegionPointer = b.mARegionPointer + n
              /\ c.mBRegionPointer = b.mBRegionPointer
          BY <3>1
        <5>2. i \in Int
          BY <1>0, <1>1, SMT
        <5> QED BY <1>0, <1>n, <5>1, <5>2, SMT
      <4> HIDE DEF sB
      <4> QED BY <1>1, <4>1, <4>2, <4>3
    <3> QED BY <3>2, <3>3, <3>4, <3>5 DEF Good
  <2>2. CASE ~(n < b.mARegionSize)
    <3> DEFINE from == IF k > 0 THEN b.mBRegionPointer + k ELSE b.mBRegionPointer
               array == [i \in Offsets |-> IF i < b.mBRegionSize - k
                                           THEN b.mBuffer[from + i] ELSE b.mBuffer[i]]
    <3>1. /\ k \in Nat /\ k <= b.mBRegionSize /\ from = b.mBRegionPointer + k
          /\ n = b.mARegionSize + k
      BY <1>0, <2>2, BufferFields, SMT
    <3>2. c = [ mBuffer |-> array, mARegionPointer |-> 0,
                mARegionSize |-> b.mBRegionSize - k,
                mBRegionPointer |-> nullptr, mBRegionSize |-> 0 ]
      <4> DEFINE a == IF n > b.mARegionSize THEN b.mARegionSize ELSE n
      <4>1. a = b.mARegionSize /\ (n > a <=> k > 0) /\ n - a = k
        BY <1>0, <2>2, <3>1, BufferFields, SMT
      <4>2. b.mARegionSize - a = 0
        BY <1>0, <4>1, BufferFields, SMT
      <4> HIDE DEF a, k
      <4> QED BY <4>1, <4>2 DEF Consume, Switch, a
    <3>3. \A i \in Offsets : i < b.mBRegionSize - k => from + i \in Offsets
      <4> SUFFICES ASSUME NEW i \in Offsets, i < b.mBRegionSize - k
                   PROVE  from + i \in Offsets
        OBVIOUS
      <4> HIDE DEF from
      <4> QED BY <1>0, <1>n, <3>1, SMT DEF Offsets
    <3>4. array \in [Offsets -> Bytes]
      BY <1>0, <3>3, BufferFields
    <3> HIDE DEF from, array
    <3>5. c \in Buffer
      <4>1. /\ 0 \in 0 .. Capacity /\ nullptr \in nullptr .. Capacity
            /\ b.mBRegionSize - k \in 0 .. Capacity
        BY <1>0, <3>1, BufferFields, SMT DEF nullptr
      <4> QED BY <3>2, <3>4, <4>1 DEF Buffer
    <3>6. Apart(c)
      BY <1>0, <3>1, <3>2, BufferFields, SMT DEF Apart, HasB
    <3>7. GetStoredSize(c) = GetStoredSize(b) - n
      BY <1>0, <3>1, <3>2, BufferFields, SMT DEF GetStoredSize
    <3>8. ASSUME NEW i \in 1 .. GetStoredSize(b) - n PROVE Content(c)[i] = sB[n + i]
      <4>1. n + i \in 1 .. GetStoredSize(b)
        BY <1>0, <1>1, SMT
      <4>2. Content(c)[i] = IF i <= c.mARegionSize THEN c.mBuffer[c.mARegionPointer + i - 1]
                            ELSE c.mBuffer[c.mBRegionPointer + i - 1 - c.mARegionSize]
        BY <3>5, <3>6, <3>7, ContentIsSeq DEF Good
      <4>3. /\ i - 1 \in Offsets /\ i - 1 < b.mBRegionSize - k
            /\ i <= c.mARegionSize /\ c.mARegionPointer + i - 1 = i - 1
            /\ ~(n + i <= b.mARegionSize)
            /\ from + (i - 1) = b.mBRegionPointer + (n + i) - 1 - b.mARegionSize
        <5>1. c.mARegionSize = b.mBRegionSize - k /\ c.mARegionPointer = 0
          BY <3>2
        <5>2. i \in Int /\ 1 <= i /\ i <= b.mARegionSize + b.mBRegionSize - n
          BY <1>0, <1>1, <1>n, SMT DEF GetStoredSize
        <5>3. i <= b.mBRegionSize - k
          BY <1>0, <1>n, <3>1, <5>2, SMT
        <5> HIDE DEF k
        <5> QED BY <1>0, <1>n, <3>1, <5>1, <5>2, <5>3, SMT DEF Offsets
      <4>4. array[i - 1] = b.mBuffer[from + (i - 1)]
        BY <4>3 DEF array
      <4> HIDE DEF sB
      <4> QED BY <1>1, <3>2, <4>1, <4>2, <4>3, <4>4
    <3> QED BY <3>5, <3>6, <3>7, <3>8 DEF Good
  <2> QED BY <2>1, <2>2
<1>3. /\ Content(c) \in Seq(Bytes) /\ Len(Content(c)) = GetStoredSize(b) - n
  BY <1>2, ContentIsSeq
<1>4. /\ SubSeq(sB, n + 1, GetStoredSize(b)) \in Seq(Bytes)
      /\ Len(SubSeq(sB, n + 1, GetStoredSize(b))) = GetStoredSize(b) - n
      /\ \A i \in 1 .. GetStoredSize(b) - n :
           SubSeq(sB, n + 1, GetStoredSize(b))[i] = sB[n + i]
  <2> HIDE DEF sB
  <2>1. \A i \in n + 1 .. GetStoredSize(b) : sB[i] \in Bytes
    <3>1. \A i \in n + 1 .. GetStoredSize(b) : i \in 1 .. GetStoredSize(b)
      BY <1>0, <1>1, SMT
    <3> QED BY <1>1, <3>1, ElementOfSeq
  <2>2. n + 1 \in Nat \ {0} /\ n + 1 <= GetStoredSize(b) + 1 /\ n + 1 \in Int
    BY <1>0, <1>1, SMT DEF GetStoredSize
  <2> DEFINE m == n + 1
             N == GetStoredSize(b)
  <2>3. /\ SubSeq(sB, m, N) \in Seq(Bytes)
        /\ Len(SubSeq(sB, m, N)) = IF m <= N THEN N - m + 1 ELSE 0
        /\ \A i \in 1 .. N - m + 1 : SubSeq(sB, m, N)[i] = sB[m + i - 1]
    <3> HIDE DEF m
    <3> QED BY <1>1, <2>1, <2>2, SubSeqProperties DEF m
  <2>4. /\ (IF m <= N THEN N - m + 1 ELSE 0) = N - n
        /\ \A i \in 1 .. N - n : i \in 1 .. N - m + 1 /\ m + i - 1 = n + i
    BY <1>0, <1>1, <2>2, SMT DEF GetStoredSize
  <2> QED BY <2>3, <2>4
<1>5. Content(c) = SubSeq(sB, n + 1, GetStoredSize(b))
  <2> DEFINE s1 == Content(c)
             s2 == SubSeq(sB, n + 1, GetStoredSize(b))
  <2>1. s1 \in Seq(Bytes) /\ s2 \in Seq(Bytes) /\ Len(s1) = Len(s2)
    BY <1>3, <1>4
  <2>2. \A i \in 1 .. Len(s1) : s1[i] = s2[i]
    BY <1>2, <1>3, <1>4
  <2> HIDE DEF s1, s2
  <2>3. s1 = s2
    BY <2>1, <2>2, SeqEqual
  <2> QED BY <2>3 DEF s1, s2
<1> QED BY <1>2, <1>5

(* Switching to region B is invisible.                                     *)
LEMMA RoomKeepsContent ==
  ASSUME NEW b, Good(b)
  PROVE  Good(WithRoom(b)) /\ Content(WithRoom(b)) = Content(b)
<1> DEFINE r == WithRoom(b)
<1>0. b \in Buffer
  BY DEF Good
<1>1. /\ Good(r) /\ r.mBuffer = b.mBuffer
      /\ r.mARegionPointer = b.mARegionPointer
      /\ r.mARegionSize = b.mARegionSize /\ r.mBRegionSize = b.mBRegionSize
      /\ b.mBRegionSize > 0 => r.mBRegionPointer = b.mBRegionPointer
  BY RoomIsGood
<1> HIDE DEF r
<1>2. GetStoredSize(r) = GetStoredSize(b) /\ GetStoredSize(b) = b.mARegionSize + b.mBRegionSize
  BY <1>1 DEF GetStoredSize
<1>3. ASSUME NEW i \in 1 .. GetStoredSize(b)
      PROVE  \/ i <= b.mARegionSize
             \/ r.mBRegionPointer = b.mBRegionPointer
  BY <1>0, <1>1, <1>2, BufferFields, SMT
<1> QED BY <1>1, <1>2, <1>3 DEF Content, PeekBytes, r

(* What send is offered is the oldest bytes.                               *)
LEMMA SendIsPeek ==
  ASSUME NEW b, Good(b), NEW n \in Nat, n <= GetContiguiousBytes(b)
  PROVE  /\ n \in 0 .. GetStoredSize(b)
         /\ [i \in 1 .. n |-> b.mBuffer[GetBufferStart(b) + i - 1]] = PeekBytes(b, n)
<1>0. b \in Buffer /\ Apart(b)
  BY DEF Good
<1>1. CASE b.mARegionSize > 0
  <2>1. /\ n \in 0 .. GetStoredSize(b)
        /\ \A i \in 1 .. n : i <= b.mARegionSize
    BY <1>0, <1>1, BufferFields, SMT DEF GetContiguiousBytes, GetStoredSize
  <2> QED BY <1>1, <2>1 DEF PeekBytes, GetBufferStart
<1>2. CASE ~(b.mARegionSize > 0)
  <2>1. n = 0 /\ 0 \in 0 .. GetStoredSize(b)
    BY <1>0, <1>2, BufferFields, SMT DEF GetContiguiousBytes, GetStoredSize, Apart
  <2>2. \A i \in 1 .. 0 : FALSE
    BY SMT
  <2> QED BY <2>1, <2>2 DEF PeekBytes
<1> QED BY <1>1, <1>2

(* Write keeps the regions apart.  What fits is appended; what does not    *)
(* fit leaves the content as it was, and the buffer is more than half full.*)
LEMMA WriteIsGood ==
  ASSUME NEW b, Good(b), NEW data \in Seq(Bytes)
  PROVE  /\ Good(WriteBuffer(b, data))
         /\ Fits(b, data) => Content(WriteBuffer(b, data)) = Content(b) \o data
         /\ ~Fits(b, data) => /\ Content(WriteBuffer(b, data)) = Content(b)
                              /\ 2 * (Len(Content(b)) + Len(data)) > Capacity
<1> DEFINE r == WithRoom(b)
<1>1. Good(r) /\ Content(r) = Content(b)
  BY RoomKeepsContent
<1>2. CASE Fits(b, data)
  <2>1. /\ Len(data) <= FreeSpace(r)
        /\ WriteBuffer(b, data) = Commit(Store(r, GetBuffer(r), data), Len(data))
    BY <1>2 DEF Fits, WriteBuffer
  <2>2. GetBuffer(r) \in Int
    BY <1>1, BufferFields, SMT DEF Good, GetBuffer
  <2> HIDE DEF r
  <2> QED BY <1>1, <1>2, <2>1, <2>2, AppendIsGood
<1>3. CASE ~Fits(b, data)
  <2>1. WriteBuffer(b, data) = r
    BY <1>3 DEF WriteBuffer
  <2>2. /\ Len(Content(b)) = GetStoredSize(b) /\ GetStoredSize(b) \in Nat
        /\ Len(data) \in Nat /\ Capacity \in Nat
    BY ContentIsSeq, CapacityAssumption
  <2>3. 2 * (GetStoredSize(b) + Len(data)) > Capacity
    <3>1. ~(2 * (GetStoredSize(b) + Len(data)) <= Capacity)
      BY <1>3, <2>2, HalfFits DEF Fits
    <3> QED BY <2>2, <3>1, SMT
  <2> QED BY <1>1, <1>3, <2>1, <2>2, <2>3
<1> QED BY <1>2, <1>3

(* RemoveBytes drops the oldest n bytes, or all there are.                 *)
LEMMA RemoveIsGood ==
  ASSUME NEW b, Good(b), NEW n \in Nat
  PROVE  /\ Good(RemoveBytes(b, n))
         /\ n \in 0 .. GetStoredSize(b) =>
              Content(RemoveBytes(b, n)) = SubSeq(Content(b), n + 1, GetStoredSize(b))
<1>1. GetStoredSize(b) \in Nat
  BY ContentIsSeq
<1> DEFINE m == IF CanRead(b, n) THEN n ELSE GetStoredSize(b)
<1>2. /\ m \in 0 .. GetStoredSize(b) /\ RemoveBytes(b, m) = Consume(b, m)
      /\ RemoveBytes(b, n) = Consume(b, m)
      /\ n \in 0 .. GetStoredSize(b) => m = n
  BY <1>1, SMT DEF CanRead, RemoveBytes
<1> QED BY <1>2, ConsumeIsGood
=============================================================================
