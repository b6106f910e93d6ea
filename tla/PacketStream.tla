---------------------------- MODULE PacketStream ----------------------------
(***************************************************************************)
(* Packets over a TCP connection: how requests and responses are cut into  *)
(* the pieces that send and recv take, and put together again.             *)
(*                                                                         *)
(* The two directions share nothing, and the initial state chooses one:    *)
(*   "requests"   the client's Send, the server's OnReceive/DispatchPacket *)
(*   "responses"  SendRequest and SendFlush of the server's session, the   *)
(*                client's NetworkProcess and ProcessPacket                *)
(*                                                                         *)
(* A packet is a header, which says how long the packet is and of which    *)
(* type, and a payload.  The unit of length is a field.                    *)
(***************************************************************************)
EXTENDS CircularBuffer, SequencesExt

CONSTANTS
  Payload,     \* the values of a field of a payload
  WireSize,    \* what TCP takes before send would block
  ChunkSize,   \* what NetworkProcess receives at once
  MaxPackets   \* bound: packets sent

PKT_NONE           == 0
PKT_CS_START       == 1
PKT_SC_START       == 2
PKT_CS_RACKET      == 21
PKT_SC_GAME_STATUS == 22
PKT_CS_EXIT        == 31
PKT_MAX            == 1024

VARIABLES
  way,          \* the direction
  sending,      \* requests: what Send works on
  mSendBuffer,  \* responses: the session's
  wire,         \* what TCP carries
  mRecvBuffer,  \* the receiver's
  at,           \* what the receiver does: "idle", "recv", "parse" or "aborted"
  mConnected,   \* the session's
  sent,         \* the packets handed to Send or SendRequest, from the first on
  got,          \* the packets dispatched
  whole         \* has every Send handed over all of its packet, or nothing?

vars == <<way, sending, mSendBuffer, wire, mRecvBuffer, at, mConnected, sent, got, whole>>

----------------------------------------------------------------------------
(* Packets                                                                 *)

HeaderSize == 2
mSize(header) == header[1]
mType(header) == header[2]

\* sizeof, by type.
SizeOf ==
  [t \in {PKT_CS_START, PKT_SC_START, PKT_CS_RACKET, PKT_SC_GAME_STATUS, PKT_CS_EXIT} |->
     HeaderSize + CASE t = PKT_CS_START -> 0
                    [] t \in {PKT_SC_START, PKT_CS_EXIT} -> 1
                    [] OTHER -> 2]

PacketsOf(types) ==
  UNION {{<<SizeOf[t], t>> \o data : data \in [1 .. SizeOf[t] - HeaderSize -> Payload]} : t \in types}

FromClient == {PKT_CS_START, PKT_CS_RACKET, PKT_CS_EXIT}
FromServer == {PKT_SC_START, PKT_SC_GAME_STATUS}

\* A chunk fits into half of the array behind all but the last field of a packet:
\* the client's array has 32768 bytes, its chunks at most 4096, no packet has 100.
ASSUME PacketAssumption ==
  /\ WireSize \in Nat /\ ChunkSize \in Nat /\ MaxPackets \in Nat
  /\ {0} \cup Payload \cup DOMAIN SizeOf \cup Range(SizeOf) \subseteq Bytes
  /\ \A t \in DOMAIN SizeOf : 2 * (SizeOf[t] - 1 + ChunkSize) <= Capacity

Nothing == [data |-> << >>, count |-> 0, length |-> 0]
Clear   == EmptyBuffer([i \in Offsets |-> 0])
Room    == WireSize - Len(wire)

Init ==
  /\ way \in {"requests", "responses"}
  /\ sending = Nothing
  /\ mSendBuffer = Clear /\ mRecvBuffer = Clear
  /\ wire = << >>
  /\ at = "idle"
  /\ mConnected = TRUE
  /\ sent = << >> /\ got = << >>
  /\ whole = TRUE

----------------------------------------------------------------------------
(* The client sends                                                        *)

Request ==
  /\ way = "requests" /\ sending = Nothing
  /\ Len(sent) < MaxPackets
  /\ \E packet \in PacketsOf(FromClient) :
       sending' = [data |-> packet, count |-> 0, length |-> Len(packet)]
  /\ UNCHANGED <<way, mSendBuffer, wire, mRecvBuffer, at, mConnected, sent, got, whole>>

\* A turn of the loop in Send, in which send takes n fields.  The loop compares
\* what it has sent with what is left, and ends when that is no more.
Send(n) ==
  LET count  == sending.count + n
      length == sending.length - n
  IN  /\ n \in 1 .. sending.length /\ n <= Room
      /\ wire' = wire \o SubSeq(sending.data, sending.count + 1, count)
      /\ sent' = IF sending.count = 0 THEN Append(sent, sending.data) ELSE sent
      /\ IF count < length
         THEN /\ sending' = [sending EXCEPT !.count = count, !.length = length]
              /\ UNCHANGED whole
         ELSE /\ sending' = Nothing
              /\ whole' = (whole /\ length = 0)
      /\ UNCHANGED <<way, mSendBuffer, mRecvBuffer, at, mConnected, got>>

\* SOCKET_ERROR, also when send would block.
SendError ==
  /\ sending # Nothing
  /\ sending' = Nothing
  /\ whole' = (whole /\ sending.count = 0)
  /\ UNCHANGED <<way, mSendBuffer, wire, mRecvBuffer, at, mConnected, sent, got>>

----------------------------------------------------------------------------
(* The server receives                                                     *)

OnReceive ==
  /\ way = "requests" /\ at = "idle" /\ wire # << >> /\ mConnected
  /\ at' = "recv"
  /\ UNCHANGED <<way, sending, mSendBuffer, wire, mRecvBuffer, mConnected, sent, got, whole>>

\* recv takes n fields, none when there is no room for them.
Recv(n) ==
  LET r == WithRoom(mRecvBuffer)
  IN  /\ at = "recv" /\ wire # << >>
      /\ n <= Len(wire) /\ n <= FreeSpace(r) /\ (n = 0 => FreeSpace(r) = 0)
      /\ mRecvBuffer' = Commit(Store(r, GetBuffer(r), SubSeq(wire, 1, n)), n)
      /\ wire' = SubSeq(wire, n + 1, Len(wire))
      /\ at' = "parse"
      /\ UNCHANGED <<way, sending, mSendBuffer, mConnected, sent, got, whole>>

NoMoreData ==
  /\ at = "recv" /\ wire = << >>
  /\ at' = "idle"
  /\ mRecvBuffer' = WithRoom(mRecvBuffer)
  /\ UNCHANGED <<way, sending, mSendBuffer, wire, mConnected, sent, got, whole>>

Header == PeekBytes(mRecvBuffer, HeaderSize)

\* Seeded mistake: a packet is taken for complete when its header is.
CompleteByHeader == CanRead(mRecvBuffer, HeaderSize)

Complete ==
  CanRead(mRecvBuffer, HeaderSize) /\ mSize(Header) <= GetStoredSize(mRecvBuffer)

\* ParsePacket reads a packet by the size of its type.  When that fails nothing
\* is consumed, and the caller goes round.
Parse(types) ==
  /\ mType(Header) \in types
  /\ IF CanRead(mRecvBuffer, SizeOf[mType(Header)])
     THEN /\ got' = Append(got, PeekBytes(mRecvBuffer, SizeOf[mType(Header)]))
          /\ mRecvBuffer' = ReadBuffer(mRecvBuffer, SizeOf[mType(Header)])
     ELSE UNCHANGED <<got, mRecvBuffer>>
  /\ UNCHANGED at

\* A turn of the loop.  The DefaultHandler of a type that clients do not send
\* disconnects and consumes nothing; for a number that is no type the loop ends.
DispatchPacket ==
  /\ way = "requests" /\ at = "parse"
  /\ \/ ~Complete /\ at' = "recv" /\ UNCHANGED <<mRecvBuffer, got, mConnected>>
     \/ Complete /\ Parse(FromClient) /\ UNCHANGED mConnected
     \/ /\ Complete /\ mType(Header) \notin FromClient
        /\ at' = IF mType(Header) \in PKT_NONE + 1 .. PKT_MAX - 1 THEN "parse" ELSE "recv"
        /\ mConnected' = FALSE
        /\ UNCHANGED <<mRecvBuffer, got>>
  /\ UNCHANGED <<way, sending, mSendBuffer, wire, sent, whole>>

----------------------------------------------------------------------------
(* The server sends                                                        *)

\* A packet that does not fit disconnects the session.
SendRequest ==
  /\ way = "responses" /\ mConnected
  /\ Len(sent) < MaxPackets
  /\ \E packet \in PacketsOf(FromServer) :
       /\ mSendBuffer' = WriteBuffer(mSendBuffer, packet)
       /\ IF Fits(mSendBuffer, packet)
          THEN sent' = Append(sent, packet) /\ UNCHANGED mConnected
          ELSE mConnected' = FALSE /\ UNCHANGED sent
  /\ UNCHANGED <<way, sending, wire, mRecvBuffer, at, got, whole>>

\* Seeded mistake: what was offered to send is removed, not what it took.
SendFlushAll(n) ==
  LET from == GetBufferStart(mSendBuffer)
  IN  /\ way = "responses" /\ mConnected
      /\ n \in 1 .. GetContiguiousBytes(mSendBuffer) /\ n <= Room
      /\ wire' = wire \o [i \in 1 .. n |-> mSendBuffer.mBuffer[from + i - 1]]
      /\ mSendBuffer' = RemoveBytes(mSendBuffer, GetContiguiousBytes(mSendBuffer))
      /\ UNCHANGED <<way, sending, mRecvBuffer, at, mConnected, sent, got, whole>>

\* A turn of the loop in SendFlush.
SendFlush(n) ==
  LET from == GetBufferStart(mSendBuffer)
  IN  /\ way = "responses" /\ mConnected
      /\ n \in 1 .. GetContiguiousBytes(mSendBuffer) /\ n <= Room
      /\ wire' = wire \o [i \in 1 .. n |-> mSendBuffer.mBuffer[from + i - 1]]
      /\ mSendBuffer' = RemoveBytes(mSendBuffer, n)
      /\ UNCHANGED <<way, sending, mRecvBuffer, at, mConnected, sent, got, whole>>

----------------------------------------------------------------------------
(* The client receives                                                     *)

\* It asserts that the buffer takes every chunk, ...
NetworkProcess(n) ==
  LET chunk == SubSeq(wire, 1, n)
  IN  /\ way = "responses" /\ at = "idle"
      /\ n \in 1 .. ChunkSize /\ n <= Len(wire)
      /\ wire' = SubSeq(wire, n + 1, Len(wire))
      /\ mRecvBuffer' = WriteBuffer(mRecvBuffer, chunk)
      /\ at' = IF Fits(mRecvBuffer, chunk) THEN "parse" ELSE "aborted"
      /\ UNCHANGED <<way, sending, mSendBuffer, mConnected, sent, got, whole>>

\* ... and that a complete packet is one it knows and can be read.
ProcessPacket ==
  /\ way = "responses" /\ at = "parse"
  /\ \/ ~Complete /\ at' = "idle" /\ UNCHANGED <<mRecvBuffer, got>>
     \/ Complete /\ Parse(FromServer) /\ CanRead(mRecvBuffer, SizeOf[mType(Header)])
     \/ /\ Complete
        /\ mType(Header) \in FromServer => ~CanRead(mRecvBuffer, SizeOf[mType(Header)])
        /\ at' = "aborted"
        /\ UNCHANGED <<mRecvBuffer, got>>
  /\ UNCHANGED <<way, sending, mSendBuffer, wire, mConnected, sent, whole>>

----------------------------------------------------------------------------
Sends    == \E n \in 1 .. WireSize : Send(n)
Flushes  == \E n \in 1 .. WireSize : SendFlush(n)
Receives == \E n \in 0 .. WireSize : Recv(n)
Takes    == \E n \in 1 .. ChunkSize : NetworkProcess(n)

Next ==
  \/ Request \/ Sends \/ SendError
  \/ OnReceive \/ Receives \/ NoMoreData \/ DispatchPacket
  \/ SendRequest \/ Flushes
  \/ Takes \/ ProcessPacket

\* Both programs go on; the server flushes every turn of its loop.
Spec ==
  /\ Init /\ [][Next]_vars
  /\ WF_vars(Sends \/ SendError)
  /\ WF_vars(OnReceive \/ Receives \/ NoMoreData \/ DispatchPacket)
  /\ WF_vars(Flushes)
  /\ WF_vars(Takes \/ ProcessPacket)

----------------------------------------------------------------------------
(* Properties                                                              *)

(* Type invariant of the connection: among other things both buffers keep  *)
(* their regions apart, however much each send and recv takes.             *)
TypeOK ==
  /\ way \in {"requests", "responses"}
  /\ mSendBuffer \in Buffer /\ Apart(mSendBuffer)
  /\ mRecvBuffer \in Buffer /\ Apart(mRecvBuffer)
  /\ Len(wire) <= WireSize /\ Range(wire) \subseteq Bytes
  /\ at \in {"idle", "recv", "parse", "aborted"}
  /\ sending.count <= Len(sending.data)

(* However send and recv cut the stream, the receiver dispatches the       *)
(* packets that were sent, whole and in order: the size in a header and    *)
(* the size of the type agree on where the next one begins.  (As long as   *)
(* the client's Send never leaves a packet half sent.)                     *)
WholeInOrder == whole => IsPrefix(got, sent)

(* The client's assertions about its receive buffer hold: it takes every   *)
(* chunk though part of a packet is left in it, and every complete packet  *)
(* can be read.                                                            *)
NeverAborts == at # "aborted"

(* Every packet that was sent is dispatched, unless a Send left one half   *)
(* sent or the server disconnected: no wait for fields that do not come,   *)
(* no loop over a packet that cannot be read, no room that is never freed. *)
EverythingArrives ==
  [](whole /\ mConnected) =>
    \A i \in 1 .. MaxPackets : (Len(sent) >= i) ~> (Len(got) >= i)
=============================================================================
