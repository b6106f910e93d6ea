----------------------------- MODULE ByteStream -----------------------------
(***************************************************************************)
(* What a connection's buffer promises its owner, call by call: bytes      *)
(* leave in the order they came, none lost, repeated or invented; a chunk  *)
(* enters whole or not at all; and one that leaves the buffer at most half *)
(* full is never turned away.                                              *)
(***************************************************************************)
EXTENDS Integers, Sequences

CONSTANTS Bytes, Capacity

VARIABLES
  stream,   \* the bytes stored, oldest first
  call      \* the last call: what it was and what passed through it

vars == <<stream, call>>

Chunks == UNION {[1 .. n -> Bytes] : n \in 0 .. Capacity}

Oldest(n)   == SubSeq(stream, 1, n)
Without(n)  == SubSeq(stream, n + 1, Len(stream))

Init == stream = << >> /\ call = <<"none", << >> >>

Put(data) ==
  /\ stream' = stream \o data
  /\ call' = <<"append", data>>

Reject(data) ==
  /\ 2 * (Len(stream) + Len(data)) > Capacity
  /\ UNCHANGED stream
  /\ call' = <<"reject", data>>

Take(n) ==
  /\ n <= Len(stream)
  /\ stream' = Without(n)
  /\ call' = <<"take", Oldest(n)>>

Peek(n) ==
  /\ n <= Len(stream)
  /\ UNCHANGED stream
  /\ call' = <<"peek", Oldest(n)>>

TooShort ==
  /\ UNCHANGED stream
  /\ call' = <<"short", << >> >>

Reset ==
  /\ stream' = << >>
  /\ call' = <<"reset", << >> >>

Next ==
  \/ \E data \in Chunks : Put(data) \/ Reject(data)
  \/ \E n \in 0 .. Capacity : Take(n) \/ Peek(n)
  \/ TooShort
  \/ Reset

Spec == Init /\ [][Next]_vars
=============================================================================
