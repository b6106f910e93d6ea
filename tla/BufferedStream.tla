--------------------------- MODULE BufferedStream ---------------------------
(***************************************************************************)
(* A CircularBuffer under every call its owners make.  The server appends  *)
(* packets with Write and sends them from GetBufferStart, removing what    *)
(* send took; it receives into GetBuffer and commits, and parses with Peek *)
(* and Read; the client writes what it receives.  The calls implement      *)
(* ByteStream: no owner can see the regions.                               *)
(***************************************************************************)
EXTENDS CircularBuffer

CONSTANTS
  Zero,        \* what BufferReset fills the array with
  SizeFirst    \* does recv(.., GetBuffer(), GetFreeSpaceSize(), ..) evaluate
               \* its third argument before its second?

ASSUME StreamAssumption == Zero \in Bytes /\ SizeFirst \in BOOLEAN

VARIABLES
  buf,
  call   \* the last call, for the refinement: its kind and the bytes it moved

vars == <<buf, call>>

Chunks == UNION {[1 .. n -> Bytes] : n \in 0 .. Capacity}

\* The n bytes from offset p on.
BytesAt(b, p, n) == [i \in 1 .. n |-> b.mBuffer[p + i - 1]]

\* new char[] is not initialized.
Init ==
  /\ \E array \in [Offsets -> Bytes] : buf = EmptyBuffer(array)
  /\ call = <<"none", << >> >>

BufferReset ==
  /\ buf' = EmptyBuffer([i \in Offsets |-> Zero])
  /\ call' = <<"reset", << >> >>

Write(data) ==
  /\ buf' = WriteBuffer(buf, data)
  /\ call' = <<IF Fits(buf, data) THEN "append" ELSE "reject", data>>

Peek(n) ==
  /\ UNCHANGED buf
  /\ call' = IF CanRead(buf, n) THEN <<"peek", PeekBytes(buf, n)>>
                                ELSE <<"short", << >> >>

Read(n) ==
  /\ buf' = ReadBuffer(buf, n)
  /\ call' = IF CanRead(buf, n) THEN <<"take", PeekBytes(buf, n)>>
                                ELSE <<"short", << >> >>

\* One turn of SendFlush: send takes n of the bytes it is offered.
SendFlush(n) ==
  /\ n <= GetContiguiousBytes(buf)
  /\ buf' = RemoveBytes(buf, n)
  /\ call' = <<"take", BytesAt(buf, GetBufferStart(buf), n)>>

\* One turn of OnReceive: recv copies into the array, then Commit.
OnReceive(data) ==
  LET r == WithRoom(buf)
      p == GetBuffer(IF SizeFirst THEN r ELSE buf)
  IN  /\ data # << >>
      /\ Len(data) <= FreeSpace(r)
      /\ buf' = Commit(Store(r, p, data), Len(data))
      /\ call' = <<"append", data>>

\* The last turn of OnReceive: no more data.
WouldBlock ==
  /\ buf' = WithRoom(buf)
  /\ call' = <<"short", << >> >>

Next ==
  \/ BufferReset
  \/ \E data \in Chunks : Write(data) \/ OnReceive(data)
  \/ \E n \in 0 .. Capacity : Peek(n) \/ Read(n) \/ SendFlush(n)
  \/ WouldBlock

Spec == Init /\ [][Next]_vars

----------------------------------------------------------------------------
(* Type invariant of the buffer.                                           *)
TypeOK == buf \in Buffer

(* The regions lie inside the array and never overlap.                     *)
RegionsApart == Apart(buf)

(* Half of the buffer can always be used, whatever the calls before: a     *)
(* chunk is accepted when it leaves the buffer at most half full.  The     *)
(* other half may be out of reach behind region A.  The client asserts     *)
(* that its Write never fails; SendRequest disconnects when it does.       *)
HalfIsAccepted ==
  \A n \in 0 .. Capacity :
    2 * (GetStoredSize(buf) + n) <= Capacity => n <= FreeSpace(WithRoom(buf))

(* Refinement: the regions are invisible.  Reads, peeks and sends see the  *)
(* bytes written, in order, across the switch of regions and the move of B *)
(* to the front; and only a buffer more than half full turns a write away. *)
Stream == INSTANCE ByteStream WITH stream <- Content(buf)

ImplementsByteStream == Stream!Spec
=============================================================================
