--------------------------- MODULE CircularBuffer ---------------------------
(***************************************************************************)
(* The class CircularBuffer: a byte queue in two regions of one array.     *)
(* Bytes are read from region A, then from region B; bytes are appended to *)
(* B once it exists.  B appears at the front of the array when there is    *)
(* more room before A than after it, and becomes A when A is used up.      *)
(*                                                                         *)
(* A buffer is a record with the fields of the class; a pointer is its     *)
(* offset from mBuffer.  mBufferEnd is offset Capacity.                    *)
(***************************************************************************)
EXTENDS Integers, Sequences

CONSTANTS
  Capacity,   \* bytes of the array
  Bytes       \* values of a byte

ASSUME CapacityAssumption == Capacity \in Nat \ {0}

Offsets == 0 .. Capacity - 1
nullptr == -1

Buffer ==
  [ mBuffer : [Offsets -> Bytes],
    mARegionPointer : 0 .. Capacity, mARegionSize : 0 .. Capacity,
    mBRegionPointer : nullptr .. Capacity, mBRegionSize : 0 .. Capacity ]

\* The constructor and BufferReset, over the array they find or clear.
EmptyBuffer(array) ==
  [ mBuffer |-> array,
    mARegionPointer |-> 0, mARegionSize |-> 0,
    mBRegionPointer |-> nullptr, mBRegionSize |-> 0 ]

HasB(b)              == b.mBRegionPointer # nullptr
GetStoredSize(b)     == b.mARegionSize + b.mBRegionSize
GetAFreeSpace(b)     == Capacity - b.mARegionPointer - b.mARegionSize
GetSpaceBeforeA(b)   == b.mARegionPointer
\* Seeded mistake: bytes stored in B are not counted.
GetBRoom(b) == b.mARegionPointer - b.mBRegionPointer

GetBFreeSpace(b)     == b.mARegionPointer - b.mBRegionPointer - b.mBRegionSize
FreeSpace(b)         == IF HasB(b) THEN GetBFreeSpace(b) ELSE GetAFreeSpace(b)

\* Where the next byte goes.
GetBuffer(b) == IF HasB(b) THEN b.mBRegionPointer + b.mBRegionSize
                           ELSE b.mARegionPointer + b.mARegionSize

\* The bytes a reader may take without a copy, and where they start.
GetContiguiousBytes(b) == IF b.mARegionSize > 0 THEN b.mARegionSize ELSE b.mBRegionSize
GetBufferStart(b)      == IF b.mARegionSize > 0 THEN b.mARegionPointer ELSE b.mBRegionPointer

\* What Peek and Read copy out: the bytes of A, then the rest from B.
PeekBytes(b, n) ==
  [i \in 1 .. n |->
     IF i <= b.mARegionSize THEN b.mBuffer[b.mARegionPointer + i - 1]
     ELSE b.mBuffer[b.mBRegionPointer + i - 1 - b.mARegionSize]]

\* All the bytes stored, oldest first.
Content(b) == PeekBytes(b, GetStoredSize(b))

----------------------------------------------------------------------------
(* Writing                                                                 *)

\* Seeded mistake: region B is never opened.
WithRoomInA(b) == b

\* Write and GetFreeSpaceSize switch to region B when it has more room, and
\* stay switched when they then find too little.
WithRoom(b) ==
  IF ~HasB(b) /\ GetAFreeSpace(b) < GetSpaceBeforeA(b)
  THEN [b EXCEPT !.mBRegionPointer = 0]
  ELSE b

\* memcpy, or what recv does: data goes to the array from offset p on.
Store(b, p, data) ==
  [b EXCEPT !.mBuffer = [i \in Offsets |->
     IF i \in p .. p + Len(data) - 1 THEN data[i - p + 1] ELSE @[i]]]

Commit(b, len) == IF HasB(b) THEN [b EXCEPT !.mBRegionSize = @ + len]
                             ELSE [b EXCEPT !.mARegionSize = @ + len]

Fits(b, data) == Len(data) <= FreeSpace(WithRoom(b))

WriteBuffer(b, data) ==
  LET r == WithRoom(b)
  IN  IF Fits(b, data) THEN Commit(Store(r, GetBuffer(r), data), Len(data)) ELSE r

----------------------------------------------------------------------------
(* Reading                                                                 *)

\* Seeded mistake: the old region B is not forgotten when it becomes A.
SwitchKeepingB(b) ==
  [b EXCEPT !.mARegionPointer = 0, !.mARegionSize = b.mBRegionSize, !.mBRegionSize = 0]

\* Region A is used up: B moves to the front of the array and becomes A.
Switch(b) ==
  [ mBuffer |-> [i \in Offsets |-> IF i < b.mBRegionSize
                                   THEN b.mBuffer[b.mBRegionPointer + i]
                                   ELSE b.mBuffer[i]],
    mARegionPointer |-> 0, mARegionSize |-> b.mBRegionSize,
    mBRegionPointer |-> nullptr, mBRegionSize |-> 0 ]

\* Seeded mistake: bytes taken from B shorten it, but its start stays.
ConsumeFromTail(b, n) ==
  LET a == IF n > b.mARegionSize THEN b.mARegionSize ELSE n
      ra == [b EXCEPT !.mARegionPointer = @ + a, !.mARegionSize = @ - a,
                      !.mBRegionSize = @ - (n - a)]
  IN  IF ra.mARegionSize = 0 THEN Switch(ra) ELSE ra

\* Drop the first n bytes, n <= GetStoredSize(b).
Consume(b, n) ==
  LET a == IF n > b.mARegionSize THEN b.mARegionSize ELSE n
      ra == [ mBuffer |-> b.mBuffer,
              mARegionPointer |-> b.mARegionPointer + a,
              mARegionSize |-> b.mARegionSize - a,
              mBRegionPointer |-> IF n > a THEN b.mBRegionPointer + (n - a)
                                           ELSE b.mBRegionPointer,
              mBRegionSize |-> b.mBRegionSize - (n - a) ]
  IN  IF ra.mARegionSize = 0 THEN Switch(ra) ELSE ra

CanRead(b, n) == n <= GetStoredSize(b)

ReadBuffer(b, n) == IF CanRead(b, n) THEN Consume(b, n) ELSE b

\* Remove never fails: it drops what there is.
RemoveBytes(b, n) == Consume(b, IF CanRead(b, n) THEN n ELSE GetStoredSize(b))

----------------------------------------------------------------------------
\* How the regions lie: inside the array, B at the front and before A, B
\* only while A holds bytes and only when it had more room than A.
Apart(b) ==
  /\ b.mARegionPointer + b.mARegionSize <= Capacity
  /\ b.mARegionSize = 0 => b.mARegionPointer = 0 /\ ~HasB(b)
  /\ HasB(b) => /\ b.mBRegionPointer = 0
                /\ b.mBRegionSize <= b.mARegionPointer
                /\ GetAFreeSpace(b) < GetSpaceBeforeA(b)
  /\ ~HasB(b) => b.mBRegionSize = 0
=============================================================================
