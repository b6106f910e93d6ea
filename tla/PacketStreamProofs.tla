------------------------- MODULE PacketStreamProofs -------------------------
(***************************************************************************)
(* For every buffer, chunk and window of the network, and any number of    *)
(* packets: both buffers stay in order, packets are dispatched whole and   *)
(* in order, and the client's assertions hold.                             *)
(*                                                                         *)
(* The argument: what the receiver holds, what TCP carries and what the    *)
(* sender has not handed over yet are, one after the other, the packets    *)
(* sent and not dispatched yet, joined.  So the receiver's content begins  *)
(* with a packet, and the header it sees is the header of that packet.     *)
(***************************************************************************)
EXTENDS PacketStream, CircularBufferProofs, WellFoundedInduction

----------------------------------------------------------------------------
(* Joined sequences, by induction.  The induction theorems of the library  *)
(* take a predicate as a parameter; here the predicate is a set.           *)

(* A set of numbers with 0, and with n + 1 for each n in it, has them all. *)
LEMMA SetInduction ==
  ASSUME NEW T, 0 \in T, \A n \in Nat : n \in T => n + 1 \in T
  PROVE  \A n \in Nat : n \in T
<1> DEFINE Rest == {n \in Nat : n \notin T}
           R == OpToRel(<, Nat)
<1>1. SUFFICES ASSUME Rest # {} PROVE FALSE
  BY DEF Rest
<1>2. PICK x \in Rest : \A y \in Rest : <<y, x>> \notin R
  <2>1. Rest \subseteq Nat /\ IsWellFoundedOn(R, Nat)
    BY NatLessThanWellFounded
  <2> HIDE DEF Rest, R
  <2> QED BY <1>1, <2>1, WFMin
<1>3. x \in Nat /\ x # 0 /\ x \notin T
  BY <1>2
<1>4. x - 1 \in Nat /\ x - 1 < x /\ (x - 1) + 1 = x
  BY <1>3, SMT
<1>5. x - 1 \notin Rest
  <2>1. <<x - 1, x>> \in R
    BY <1>3, <1>4 DEF OpToRel
  <2> QED BY <1>2, <2>1
<1> QED BY <1>3, <1>4, <1>5

(* The parts of a joined sequence of sequences: f[m] is its first m joined.*)
Joins(f, m, q) == f[0] = << >> /\ \A i \in 1 .. m : f[i] = f[i - 1] \o q[i]

(* There always are such parts.                                            *)
LEMMA JoinsExist ==
  ASSUME NEW S, NEW P, P \subseteq Seq(S), NEW q \in Seq(P)
  PROVE  \E f \in [0 .. Len(q) -> Seq(S)] : Joins(f, Len(q), q)
<1> DEFINE n == Len(q)
           T == {m \in Nat : m <= n => \E f \in [0 .. m -> Seq(S)] : Joins(f, m, q)}
<1>0. n \in Nat
  BY LenProperties
<1>1. 0 \in T
  <2> DEFINE f == [i \in 0 .. 0 |-> << >>]
  <2>1. f \in [0 .. 0 -> Seq(S)] /\ Joins(f, 0, q)
    BY EmptySeq, SMT DEF Joins
  <2> QED BY <2>1
<1>2. ASSUME NEW m \in Nat, m \in T PROVE m + 1 \in T
  <2> SUFFICES ASSUME m + 1 <= n
               PROVE  \E f \in [0 .. m + 1 -> Seq(S)] : Joins(f, m + 1, q)
    OBVIOUS
  <2>1. PICK g \in [0 .. m -> Seq(S)] : Joins(g, m, q)
    BY <1>0, <1>2, SMT
  <2> DEFINE f == [i \in 0 .. m + 1 |-> IF i = m + 1 THEN g[m] \o q[m + 1] ELSE g[i]]
  <2>2. g[m] \o q[m + 1] \in Seq(S)
    <3>1. m + 1 \in 1 .. Len(q) /\ m \in 0 .. m
      BY <1>0, SMT
    <3>2. q[m + 1] \in Seq(S)
      BY <3>1, ElementOfSeq
    <3> QED BY <2>1, <3>1, <3>2, ConcatProperties
  <2>3. f \in [0 .. m + 1 -> Seq(S)]
    BY <2>1, <2>2, SMT
  <2>4. f[0] = << >>
    BY <2>1, SMT DEF Joins
  <2>5. ASSUME NEW i \in 1 .. m + 1 PROVE f[i] = f[i - 1] \o q[i]
    <3>1. i \in 0 .. m + 1 /\ i - 1 \in 0 .. m /\ i - 1 \in 0 .. m + 1 /\ i - 1 # m + 1
      BY SMT
    <3>2. f[i - 1] = g[i - 1]
      BY <3>1
    <3>3. CASE i = m + 1
      <4>1. i - 1 = m
        BY <3>3, SMT
      <4> QED BY <3>1, <3>2, <3>3, <4>1
    <3>4. CASE i # m + 1
      <4>1. i \in 1 .. m
        BY <3>4, SMT
      <4>2. f[i] = g[i]
        BY <3>1, <3>4
      <4> QED BY <2>1, <3>2, <4>1, <4>2 DEF Joins
    <3> QED BY <3>3, <3>4
  <2> HIDE DEF f
  <2> QED BY <2>3, <2>4, <2>5 DEF Joins
<1>3. n \in T
  <2> HIDE DEF T
  <2> QED BY <1>0, <1>1, <1>2, SetInduction
<1> QED BY <1>0, <1>3

(* FlattenSeq is the last of them.                                         *)
LEMMA FlattenIsJoin ==
  ASSUME NEW S, NEW P, P \subseteq Seq(S), NEW q \in Seq(P), NEW f \in [0 .. Len(q) -> Seq(S)], Joins(f, Len(q), q)
  PROVE  FlattenSeq(q) = f[Len(q)]
<1> DEFINE n == Len(q)
<1>0. n \in Nat /\ \A i \in 1 .. n : q[i] \in Seq(S)
  BY LenProperties, ElementOfSeq
<1>1. CASE n = 0
  <2>1. q = << >>
    BY <1>1, EmptySeq
  <2> QED BY <1>1, <2>1 DEF FlattenSeq, Joins
<1>2. CASE n # 0
  <2> DEFINE Eqn(h) == h = [i \in 1 .. n |-> IF i = 1 THEN q[i] ELSE h[i - 1] \o q[i]]
             r == [i \in 1 .. n |-> f[i]]
             h == CHOOSE g : Eqn(g)
  <2>1. Eqn(r)
    <3>1. ASSUME NEW i \in 1 .. n
          PROVE  f[i] = IF i = 1 THEN q[i] ELSE r[i - 1] \o q[i]
      <4>1. f[i] = f[i - 1] \o q[i]
        BY DEF Joins
      <4>2. CASE i = 1
        <5>1. i - 1 = 0
          BY <4>2, SMT
        <5>2. f[i] = << >> \o q[i]
          BY <4>1, <5>1 DEF Joins
        <5> QED BY <1>0, <4>2, <5>2, ConcatEmptySeq
      <4>3. CASE i # 1
        <5>1. i - 1 \in 1 .. n
          BY <1>0, <4>3, SMT
        <5> QED BY <4>1, <4>3, <5>1
      <4> QED BY <4>2, <4>3
    <3> QED BY <3>1
  <2>2. Eqn(h)
    <3> HIDE DEF r
    <3> QED BY <2>1
  <2>3. FlattenSeq(q) = h[n]
    BY <1>2 DEF FlattenSeq
  <2> HIDE DEF h, n
  <2>4. \A i \in 1 .. n : h[i] = IF i = 1 THEN q[i] ELSE h[i - 1] \o q[i]
    BY <2>2
  <2> HIDE DEF Eqn
  <2> DEFINE T == {i \in Nat : i \in 1 .. n => h[i] = f[i]}
  <2>5. 0 \in T
    BY <1>0, SMT
  <2>6. ASSUME NEW i \in Nat, i \in T PROVE i + 1 \in T
    <3> SUFFICES ASSUME NEW j, j = i + 1, j \in 1 .. n PROVE h[j] = f[j]
      OBVIOUS
    <3>1. h[j] = IF j = 1 THEN q[j] ELSE h[j - 1] \o q[j]
      BY <2>4
    <3>2. f[j] = f[j - 1] \o q[j] /\ f[0] = << >>
      BY DEF Joins, n
    <3>3. CASE j = 1
      <4>1. j - 1 = 0
        BY <3>3, SMT
      <4>2. f[j] = << >> \o q[j]
        BY <3>2, <4>1
      <4> QED BY <1>0, <3>1, <3>3, <4>2, ConcatEmptySeq
    <3>4. CASE j # 1
      <4>1. j - 1 = i /\ i \in 1 .. n
        BY <1>0, <3>4, SMT
      <4>2. h[i] = f[i]
        BY <2>6, <4>1
      <4> QED BY <3>1, <3>2, <3>4, <4>1, <4>2
    <3> QED BY <3>3, <3>4
  <2>7. n \in T
    <3> HIDE DEF T
    <3> QED BY <1>0, <2>5, <2>6, SetInduction
  <2>8. n \in 1 .. n
    BY <1>0, <1>2, SMT
  <2> QED BY <2>3, <2>7, <2>8 DEF n
<1> QED BY <1>1, <1>2

(* Joining one sequence more.                                              *)
LEMMA FlattenAppend ==
  ASSUME NEW S, NEW P, P \subseteq Seq(S), NEW q \in Seq(P), NEW p \in P
  PROVE  /\ FlattenSeq(q) \in Seq(S)
         /\ FlattenSeq(Append(q, p)) = FlattenSeq(q) \o p
<1> DEFINE n == Len(q)
           t == Append(q, p)
<1>0. n \in Nat
  BY LenProperties
<1>1. PICK f \in [0 .. n -> Seq(S)] : Joins(f, n, q)
  BY JoinsExist
<1>2. FlattenSeq(q) = f[n] /\ f[n] \in Seq(S)
  <2>1. n \in 0 .. n
    BY <1>0, SMT
  <2> QED BY <1>1, <2>1, FlattenIsJoin
<1>3. /\ t \in Seq(P) /\ Len(t) = n + 1 /\ t[n + 1] = p
      /\ \A i \in 1 .. n : t[i] = q[i]
  BY AppendProperties
<1> DEFINE g == [i \in 0 .. n + 1 |-> IF i = n + 1 THEN f[n] \o p ELSE f[i]]
<1> HIDE DEF t, n
<1>4. g \in [0 .. n + 1 -> Seq(S)]
  <2>1. f[n] \o p \in Seq(S)
    BY <1>2, ConcatProperties
  <2> QED BY <1>0, <1>1, <2>1, SMT
<1>5. Joins(g, n + 1, t)
  <2>1. g[0] = << >>
    BY <1>0, <1>1, SMT DEF Joins
  <2>2. ASSUME NEW i \in 1 .. n + 1 PROVE g[i] = g[i - 1] \o t[i]
    <3>1. i \in 0 .. n + 1 /\ i - 1 \in 0 .. n + 1 /\ i - 1 # n + 1
      BY <1>0, SMT
    <3>2. g[i - 1] = f[i - 1]
      BY <3>1
    <3>3. CASE i = n + 1
      <4>1. i - 1 = n
        BY <1>0, <3>3, SMT
      <4> QED BY <1>3, <3>1, <3>2, <3>3, <4>1
    <3>4. CASE i # n + 1
      <4>1. i \in 1 .. n
        BY <1>0, <3>4, SMT
      <4>2. g[i] = f[i]
        BY <3>1, <3>4
      <4> QED BY <1>1, <1>3, <3>2, <4>1, <4>2 DEF Joins
    <3> QED BY <3>3, <3>4
  <2> QED BY <2>1, <2>2 DEF Joins
<1>6. g[n + 1] = f[n] \o p
  BY <1>0, SMT
<1> HIDE DEF g
<1>7. FlattenSeq(t) = g[n + 1]
  BY <1>3, <1>4, <1>5, FlattenIsJoin
<1> QED BY <1>2, <1>6, <1>7 DEF t

(* Nothing joined is nothing.                                              *)
LEMMA FlattenNothing == FlattenSeq(<< >>) = << >>
BY SMT DEF FlattenSeq

(* The first sequence comes first.                                         *)
LEMMA FlattenHead ==
  ASSUME NEW S, NEW P, P \subseteq Seq(S)
  PROVE  \A q \in Seq(P) : q # << >> =>
           /\ Head(q) \in P /\ Tail(q) \in Seq(P)
           /\ FlattenSeq(q) = Head(q) \o FlattenSeq(Tail(q))
<1>a. \A s, t, u \in Seq(S) : (s \o t) \o u = s \o (t \o u)
  BY ConcatAssociative
<1>b. \A v \in Seq(P), e \in P : /\ FlattenSeq(v) \in Seq(S)
                                /\ FlattenSeq(Append(v, e)) = FlattenSeq(v) \o e
  BY FlattenAppend
<1> DEFINE First(r) == FlattenSeq(r) = Head(r) \o FlattenSeq(Tail(r))
           T == {n \in Nat : \A r \in Seq(P) : Len(r) = n /\ r # << >> => First(r)}
<1>1. 0 \in T
  BY EmptySeq
<1>2. ASSUME NEW n \in Nat, n \in T PROVE n + 1 \in T
  <2> SUFFICES ASSUME NEW r \in Seq(P), Len(r) = n + 1, r # << >>
               PROVE  First(r)
    OBVIOUS
  <2>1. PICK u \in Seq(P), e \in P : r = Append(u, e)
    BY SequenceEmptyOrAppend
  <2>2. FlattenSeq(r) = FlattenSeq(u) \o e
    BY <1>b, <2>1
  <2>3. CASE u = << >>
    <3>1. Head(r) = e /\ Tail(r) = << >>
      BY <2>1, <2>3, HeadTailAppend
    <3>2. << >> \o e = e /\ e \o << >> = e
      BY ConcatEmptySeq
    <3> QED BY <2>2, <2>3, <3>1, <3>2, FlattenNothing
  <2>4. CASE u # << >>
    <3>1. Head(r) = Head(u) /\ Tail(r) = Append(Tail(u), e)
      BY <2>1, <2>4, HeadTailAppend
    <3>2. Head(u) \in P /\ Head(u) \in Seq(S) /\ Tail(u) \in Seq(P)
      BY <2>4, HeadTailProperties
    <3>3. Len(u) = n
      <4>1. Len(r) = Len(u) + 1 /\ Len(u) \in Nat
        BY <2>1, AppendProperties, LenProperties
      <4> QED BY <4>1, SMT
    <3>4. First(u)
      BY <1>2, <2>4, <3>3
    <3>5. /\ FlattenSeq(Tail(u)) \in Seq(S)
          /\ FlattenSeq(Append(Tail(u), e)) = FlattenSeq(Tail(u)) \o e
      BY <1>b, <3>2
    <3>6. (Head(u) \o FlattenSeq(Tail(u))) \o e = Head(u) \o (FlattenSeq(Tail(u)) \o e)
      BY <3>2, <3>5, <1>a, <1>b
    <3> QED BY <2>2, <3>1, <3>4, <3>5, <3>6
  <2> QED BY <2>3, <2>4
<1>3. \A n \in Nat : n \in T
  <2> HIDE DEF T
  <2> QED BY <1>1, <1>2, SetInduction
<1>4. ASSUME NEW q \in Seq(P), q # << >> PROVE First(q) /\ Head(q) \in P /\ Tail(q) \in Seq(P)
  <2>1. Len(q) \in Nat
    BY LenProperties
  <2>2. Len(q) \in T
    BY <1>3, <2>1
  <2> QED BY <1>4, <2>2, HeadTailProperties
<1> QED BY <1>4

----------------------------------------------------------------------------
(* Packets.                                                                *)

Types(w)   == IF w = "requests" THEN FromClient ELSE FromServer
Packets(w) == PacketsOf(Types(w))

(* The types of a direction, and how long their packets are.               *)
LEMMA SizeOfTypes ==
  /\ DOMAIN SizeOf = {PKT_CS_START, PKT_SC_START, PKT_CS_RACKET, PKT_SC_GAME_STATUS, PKT_CS_EXIT}
  /\ \A w : Types(w) \subseteq DOMAIN SizeOf
  /\ \A t \in DOMAIN SizeOf : /\ SizeOf[t] \in Nat /\ SizeOf[t] >= HeaderSize
                              /\ SizeOf[t] \in Bytes /\ t \in Bytes
<1>1. DOMAIN SizeOf = {PKT_CS_START, PKT_SC_START, PKT_CS_RACKET, PKT_SC_GAME_STATUS, PKT_CS_EXIT}
  BY DEF SizeOf
<1>2. \A w : Types(w) \subseteq DOMAIN SizeOf
  BY <1>1 DEF Types, FromClient, FromServer
<1>3. ASSUME NEW t \in DOMAIN SizeOf PROVE SizeOf[t] \in {2, 3, 4}
  <2>1. SizeOf[t] = HeaderSize + CASE t = PKT_CS_START -> 0
                                   [] t \in {PKT_SC_START, PKT_CS_EXIT} -> 1
                                   [] OTHER -> 2
    BY <1>3, <1>1 DEF SizeOf
  <2> QED BY <2>1, SMT DEF HeaderSize, PKT_CS_START, PKT_SC_START, PKT_CS_EXIT
<1>4. ASSUME NEW t \in DOMAIN SizeOf PROVE SizeOf[t] \in Bytes /\ t \in Bytes
  BY <1>4, PacketAssumption DEF Range
<1> QED BY <1>1, <1>2, <1>3, <1>4, SMT DEF HeaderSize

(* A packet is as long as its header says, and as its type is.             *)
LEMMA PacketShape ==
  ASSUME NEW w, NEW packet \in Packets(w)
  PROVE  /\ packet \in Seq(Bytes) /\ packet # << >>
         /\ packet[2] \in Types(w) /\ packet[2] \in DOMAIN SizeOf
         /\ packet[1] = SizeOf[packet[2]] /\ Len(packet) = SizeOf[packet[2]]
<1>0. PICK t \in Types(w) :
        \E data \in [1 .. SizeOf[t] - HeaderSize -> Payload] : packet = <<SizeOf[t], t>> \o data
  BY DEF Packets, PacketsOf
<1>1. PICK data \in [1 .. SizeOf[t] - HeaderSize -> Payload] : packet = <<SizeOf[t], t>> \o data
  BY <1>0
<1>2. /\ t \in DOMAIN SizeOf /\ SizeOf[t] \in Nat /\ SizeOf[t] >= 2
      /\ SizeOf[t] \in Bytes /\ t \in Bytes /\ HeaderSize = 2
  BY <1>1, SizeOfTypes DEF HeaderSize
<1> DEFINE n == SizeOf[t] - 2
           header == <<SizeOf[t], t>>
<1>3. n \in Nat
  BY <1>2, SMT
<1>4. data \in Seq(Bytes) /\ Len(data) = n
  <2>1. data \in [1 .. n -> Payload] /\ Payload \subseteq Bytes
    BY <1>1, <1>2, PacketAssumption
  <2> HIDE DEF n
  <2>2. data \in [1 .. n -> Bytes]
    BY <2>1
  <2> QED BY <1>3, <2>2, SMT
<1>5. header \in Seq(Bytes) /\ Len(header) = 2 /\ header[1] = SizeOf[t] /\ header[2] = t
  BY <1>2
<1> HIDE DEF header, n
<1>6. /\ header \o data \in Seq(Bytes) /\ Len(header \o data) = 2 + n
      /\ (header \o data)[1] = header[1] /\ (header \o data)[2] = header[2]
  <2>1. /\ header \o data \in Seq(Bytes) /\ Len(header \o data) = Len(header) + Len(data)
        /\ \A i \in 1 .. Len(header) + Len(data) :
             (header \o data)[i] = IF i <= Len(header) THEN header[i] ELSE data[i - Len(header)]
    BY <1>4, <1>5, ConcatProperties
  <2> QED BY <1>3, <1>4, <1>5, <2>1, SMT
<1>7. packet = header \o data /\ 2 + n = SizeOf[t]
  BY <1>1, <1>2, SMT DEF header, n
<1>8. packet # << >>
  BY <1>2, <1>6, <1>7, EmptySeq, SMT
<1> QED BY <1>1, <1>2, <1>5, <1>6, <1>7, <1>8

(* Packets joined, for the set of packets of a direction.                  *)
LEMMA JoinedPackets ==
  ASSUME NEW w
  PROVE  /\ \A q \in Seq(Packets(w)) : FlattenSeq(q) \in Seq(Bytes)
         /\ \A q \in Seq(Packets(w)), packet \in Packets(w) :
              FlattenSeq(Append(q, packet)) = FlattenSeq(q) \o packet
         /\ \A q \in Seq(Packets(w)) : q # << >> =>
              /\ Head(q) \in Packets(w) /\ Tail(q) \in Seq(Packets(w))
              /\ FlattenSeq(q) = Head(q) \o FlattenSeq(Tail(q))
<1>1. Packets(w) \subseteq Seq(Bytes)
  BY PacketShape
<1> DEFINE P == Packets(w)
<1> HIDE DEF P
<1>2. P \subseteq Seq(Bytes)
  BY <1>1 DEF P
<1>3. \A q \in Seq(P) : q # << >> => /\ Head(q) \in P /\ Tail(q) \in Seq(P)
                                     /\ FlattenSeq(q) = Head(q) \o FlattenSeq(Tail(q))
  BY <1>2, FlattenHead
<1>4. \A q \in Seq(P), packet \in P : FlattenSeq(Append(q, packet)) = FlattenSeq(q) \o packet
  BY <1>2, FlattenAppend
<1>5. ASSUME NEW q \in Seq(P) PROVE FlattenSeq(q) \in Seq(Bytes)
  <2>1. PICK f \in [0 .. Len(q) -> Seq(Bytes)] : Joins(f, Len(q), q)
    BY <1>2, JoinsExist
  <2>2. FlattenSeq(q) = f[Len(q)]
    BY <1>2, <2>1, FlattenIsJoin
  <2>3. Len(q) \in 0 .. Len(q)
    BY LenProperties, SMT
  <2> QED BY <2>1, <2>2, <2>3
<1> QED BY <1>3, <1>4, <1>5 DEF P

(* Concatenation, for the steps that must not unfold it into elements.     *)
Cat(s, t) == s \o t

LEMMA CatAssociative ==
  ASSUME NEW S, NEW s \in Seq(S), NEW t \in Seq(S), NEW v \in Seq(S)
  PROVE  Cat(Cat(s, t), v) = Cat(s, Cat(t, v))
BY ConcatAssociative DEF Cat

LEMMA CatCancel ==
  ASSUME NEW S, NEW s \in Seq(S), NEW t \in Seq(S), NEW v \in Seq(S), Cat(s, t) = Cat(s, v)
  PROVE  t = v
BY ConcatSimplifications DEF Cat

LEMMA CatFacts ==
  ASSUME NEW S
  PROVE  /\ \A s, t \in Seq(S) : Cat(s, t) \in Seq(S)
         /\ \A s, t, v \in Seq(S) : Cat(Cat(s, t), v) = Cat(s, Cat(t, v))
         /\ \A s, t, v \in Seq(S) : Cat(s, t) = Cat(s, v) => t = v
         /\ \A s \in Seq(S) : Cat(s, << >>) = s /\ Cat(<< >>, s) = s
<1>1. ASSUME NEW s \in Seq(S), NEW t \in Seq(S) PROVE Cat(s, t) \in Seq(S)
  BY ConcatProperties DEF Cat
<1>2. ASSUME NEW s \in Seq(S) PROVE Cat(s, << >>) = s /\ Cat(<< >>, s) = s
  BY ConcatEmptySeq DEF Cat
<1>3. ASSUME NEW s \in Seq(S), NEW t \in Seq(S), NEW v \in Seq(S)
      PROVE  Cat(Cat(s, t), v) = Cat(s, Cat(t, v))
  BY CatAssociative
<1>4. ASSUME NEW s \in Seq(S), NEW t \in Seq(S), NEW v \in Seq(S), Cat(s, t) = Cat(s, v)
      PROVE  t = v
  BY <1>4, CatCancel
<1> QED BY <1>1, <1>2, <1>3, <1>4

(* An element appended to, or moved over from, what follows a sequence.    *)
LEMMA AppendAfter ==
  ASSUME NEW S, NEW s \in Seq(S), NEW t \in Seq(S), NEW e \in S
  PROVE  Append(Cat(s, t), e) = Cat(s, Append(t, e))
<1> DEFINE one == <<e>>
<1>1. one \in Seq(S)
  OBVIOUS
<1>2. Cat(s, t) \in Seq(S)
  BY CatFacts
<1>3. Append(Cat(s, t), e) = Cat(Cat(s, t), one) /\ Append(t, e) = Cat(t, one)
  BY <1>2, AppendIsConcat DEF Cat
<1> HIDE DEF one
<1>4. Cat(Cat(s, t), one) = Cat(s, Cat(t, one))
  BY <1>1, CatFacts
<1> QED BY <1>3, <1>4

LEMMA MoveHead ==
  ASSUME NEW S, NEW s \in Seq(S), NEW t \in Seq(S), t # << >>
  PROVE  /\ Append(s, Head(t)) \in Seq(S)
         /\ Cat(Append(s, Head(t)), Tail(t)) = Cat(s, t)
<1>1. Head(t) \in S /\ Tail(t) \in Seq(S)
  BY HeadTailProperties
<1> DEFINE one == <<Head(t)>>
           rest == Tail(t)
<1>2. one \in Seq(S) /\ rest \in Seq(S)
  BY <1>1
<1>3. Append(s, Head(t)) \in Seq(S) /\ Append(s, Head(t)) = Cat(s, one)
  BY <1>1, AppendIsConcat, AppendProperties DEF Cat
<1>4. t = Cat(one, rest)
  BY <1>1, <1>2 DEF Cat
<1> HIDE DEF one, rest
<1>5. Cat(Cat(s, one), rest) = Cat(s, Cat(one, rest))
  BY <1>2, CatFacts
<1> QED BY <1>3, <1>4, <1>5 DEF rest

(* The rest of a sequence from a place on.                                 *)
LEMMA RestIsSeq ==
  ASSUME NEW S, NEW D \in Seq(S), NEW m \in Nat
  PROVE  SubSeq(D, m + 1, Len(D)) \in Seq(S)
<1> DEFINE a == m + 1
<1>1. Len(D) \in Nat /\ a \in Nat \ {0} /\ \A i \in a .. Len(D) : i \in 1 .. Len(D)
  BY LenProperties, SMT
<1>2. \A i \in a .. Len(D) : D[i] \in S
  BY <1>1, ElementOfSeq
<1> HIDE DEF a
<1>3. SubSeq(D, a, Len(D)) \in Seq(S)
  BY <1>1, <1>2, SubSeqProperties
<1> QED BY <1>3 DEF a

(* A sequence cut in two, as send and recv cut the stream.                 *)
LEMMA CutAt ==
  ASSUME NEW S, NEW s \in Seq(S), NEW n \in Nat, n <= Len(s)
  PROVE  /\ SubSeq(s, 1, n) \in Seq(S) /\ Len(SubSeq(s, 1, n)) = n
         /\ SubSeq(s, n + 1, Len(s)) \in Seq(S)
         /\ Len(SubSeq(s, n + 1, Len(s))) = Len(s) - n
         /\ Cat(SubSeq(s, 1, n), SubSeq(s, n + 1, Len(s))) = s
<1>0. Len(s) \in Nat
  BY LenProperties
<1>1. SubSeq(s, 1, n) \in Seq(S) /\ Len(SubSeq(s, 1, n)) = n
  <2>1. \A i \in 1 .. n : s[i] \in S
    BY <1>0, ElementOfSeq, SMT
  <2>2. /\ SubSeq(s, 1, n) \in Seq(S)
        /\ Len(SubSeq(s, 1, n)) = IF 1 <= n THEN n - 1 + 1 ELSE 0
    BY <2>1, SubSeqProperties
  <2> QED BY <2>2, SMT
<1>2. SubSeq(s, n + 1, Len(s)) \in Seq(S)
  BY RestIsSeq
<1>3. SubSeq(s, 1, n) \o SubSeq(s, n + 1, Len(s)) = s
  <2>1. 1 \in 1 .. Len(s) + 1 /\ n \in 1 - 1 .. Len(s) /\ Len(s) \in n .. Len(s)
    BY <1>0, SMT
  <2>2. SubSeq(s, 1, n) \o SubSeq(s, n + 1, Len(s)) = SubSeq(s, 1, Len(s))
    BY <2>1, ConcatAdjacentSubSeq
  <2> QED BY <2>2, SubSeqFull
<1> DEFINE f == SubSeq(s, 1, n)
           d == SubSeq(s, n + 1, Len(s))
<1> HIDE DEF f, d
<1>4. Len(d) = Len(s) - n
  <2>1. Len(f \o d) = Len(f) + Len(d) /\ Len(d) \in Nat /\ Len(f) = n /\ f \o d = s
    BY <1>1, <1>2, <1>3, ConcatProperties, LenProperties DEF f, d
  <2> QED BY <1>0, <2>1, SMT
<1> QED BY <1>1, <1>2, <1>3, <1>4 DEF f, d, Cat

(* Two ways to cut a sequence in two: the shorter first part is a prefix   *)
(* of the longer one.                                                      *)
LEMMA CutTwice ==
  ASSUME NEW S, NEW c \in Seq(S), NEW u \in Seq(S), NEW h \in Seq(S), NEW r \in Seq(S)
  PROVE  c \o u = h \o r =>
           /\ \A i \in 1 .. Len(c) : i <= Len(h) => c[i] = h[i]
           /\ Len(h) <= Len(c) => /\ SubSeq(c, 1, Len(h)) = h
                                  /\ SubSeq(c, Len(h) + 1, Len(c)) \o u = r
<1> SUFFICES ASSUME c \o u = h \o r
             PROVE  /\ \A i \in 1 .. Len(c) : i <= Len(h) => c[i] = h[i]
                    /\ Len(h) <= Len(c) => /\ SubSeq(c, 1, Len(h)) = h
                                           /\ SubSeq(c, Len(h) + 1, Len(c)) \o u = r
  OBVIOUS
<1>0. Len(c) \in Nat /\ Len(u) \in Nat /\ Len(h) \in Nat /\ Len(r) \in Nat
  BY LenProperties
<1>1. /\ \A i \in 1 .. Len(c) + Len(u) : (c \o u)[i] = IF i <= Len(c) THEN c[i] ELSE u[i - Len(c)]
      /\ \A i \in 1 .. Len(h) + Len(r) : (h \o r)[i] = IF i <= Len(h) THEN h[i] ELSE r[i - Len(h)]
      /\ Len(c \o u) = Len(c) + Len(u) /\ Len(h \o r) = Len(h) + Len(r)
  BY ConcatProperties
<1>2. ASSUME NEW i \in 1 .. Len(c), i <= Len(h) PROVE c[i] = h[i]
  <2>1. i \in 1 .. Len(c) + Len(u) /\ i \in 1 .. Len(h) + Len(r) /\ i <= Len(c)
    BY <1>0, <1>2, SMT
  <2> QED BY <1>1, <1>2, <2>1
<1>3. ASSUME Len(h) <= Len(c)
      PROVE  SubSeq(c, 1, Len(h)) = h /\ SubSeq(c, Len(h) + 1, Len(c)) \o u = r
  <2> DEFINE k == Len(h)
             f == SubSeq(c, 1, k)
             d == SubSeq(c, k + 1, Len(c))
  <2>0. k \in Nat /\ k <= Len(c)
    BY <1>0, <1>3
  <2>1. f \in Seq(S) /\ Len(f) = k /\ \A i \in 1 .. k : f[i] = c[i]
    <3>1. \A i \in 1 .. k : c[i] \in S
      BY <1>0, <2>0, ElementOfSeq, SMT
    <3> HIDE DEF k
    <3>2. /\ SubSeq(c, 1, k) \in Seq(S)
          /\ Len(SubSeq(c, 1, k)) = IF 1 <= k THEN k - 1 + 1 ELSE 0
          /\ \A i \in 1 .. k - 1 + 1 : SubSeq(c, 1, k)[i] = c[1 + i - 1]
      BY <2>0, <3>1, SubSeqProperties
    <3> QED BY <2>0, <3>2, SMT
  <2>2. f = h
    <3>1. \A i \in 1 .. Len(f) : f[i] = h[i]
      <4>1. \A i \in 1 .. k : i \in 1 .. Len(c) /\ i <= Len(h)
        BY <1>0, <2>0, SMT
      <4> QED BY <1>2, <2>1, <4>1
    <3> HIDE DEF f
    <3> QED BY <2>1, <3>1, SeqEqual
  <2>3. d \in Seq(S) /\ f \o d = c
    <3>1. /\ 1 \in 1 .. Len(c) + 1 /\ k \in 1 - 1 .. Len(c) /\ Len(c) \in k .. Len(c)
      BY <1>0, <2>0, SMT
    <3>2. SubSeq(c, 1, k) \o SubSeq(c, k + 1, Len(c)) = SubSeq(c, 1, Len(c))
      BY <3>1, ConcatAdjacentSubSeq
    <3>3. SubSeq(c, 1, Len(c)) = c
      BY SubSeqFull
    <3>4. \A i \in k + 1 .. Len(c) : c[i] \in S
      BY <1>0, <2>0, ElementOfSeq, SMT
    <3>5. d \in Seq(S)
      BY <1>0, <2>0, <3>4, SubSeqProperties, SMT
    <3> QED BY <3>2, <3>3, <3>5
  <2> HIDE DEF f, d
  <2>4. Cat(Cat(h, d), u) = Cat(h, r)
    BY <2>2, <2>3 DEF Cat
  <2>5. Cat(d, u) = r
    BY <2>3, <2>4, CatFacts
  <2> QED BY <2>2, <2>5 DEF f, d, Cat
<1> QED BY <1>2, <1>3

(* A receiver whose content and what follows it are packets joined: the    *)
(* header it sees is that of the first of them, and when it holds that     *)
(* packet it takes exactly that packet, leaving the others joined.         *)
LEMMA FrontPacket ==
  ASSUME NEW w, NEW b, Good(b), NEW u \in Seq(Bytes), NEW q \in Seq(Packets(w)),
         Content(b) \o u = FlattenSeq(q)
  PROVE  /\ GetStoredSize(b) \in Nat
         /\ q = << >> => GetStoredSize(b) = 0
         /\ CanRead(b, HeaderSize) =>
              /\ q # << >>
              /\ PeekBytes(b, HeaderSize)[1] = Head(q)[1]
              /\ PeekBytes(b, HeaderSize)[2] = Head(q)[2]
         /\ q # << >> /\ CanRead(b, Len(Head(q))) =>
              /\ PeekBytes(b, Len(Head(q))) = Head(q)
              /\ Content(ReadBuffer(b, Len(Head(q)))) \o u = FlattenSeq(Tail(q))
<1> DEFINE c == Content(b)
           size == GetStoredSize(b)
<1>0. c \in Seq(Bytes) /\ Len(c) = size /\ size \in Nat
  BY ContentIsSeq
<1>1. ASSUME q = << >> PROVE size = 0
  <2>1. c \o u = << >>
    BY <1>1, FlattenNothing
  <2>2. c = << >>
    <3> HIDE DEF c
    <3> QED BY <1>0, <2>1, ConcatEqualIffEmpty
  <2> QED BY <1>0, <2>2, EmptySeq
<1>2. ASSUME q # << >>
      PROVE  /\ Head(q) \in Seq(Bytes) /\ Len(Head(q)) \in Nat /\ Len(Head(q)) >= HeaderSize
             /\ \A i \in 1 .. size : i <= Len(Head(q)) => c[i] = Head(q)[i]
             /\ Len(Head(q)) <= size =>
                  /\ SubSeq(c, 1, Len(Head(q))) = Head(q)
                  /\ SubSeq(c, Len(Head(q)) + 1, size) \o u = FlattenSeq(Tail(q))
  <2>1. /\ Head(q) \in Packets(w) /\ Tail(q) \in Seq(Packets(w))
        /\ FlattenSeq(q) = Head(q) \o FlattenSeq(Tail(q))
    BY <1>2, JoinedPackets
  <2>2. FlattenSeq(Tail(q)) \in Seq(Bytes) /\ Head(q) \in Seq(Bytes)
    BY <2>1, JoinedPackets, PacketShape
  <2>3. Len(Head(q)) \in Nat /\ Len(Head(q)) >= HeaderSize
    <3>1. \A packet \in Packets(w) : Len(packet) \in Nat /\ Len(packet) >= HeaderSize
      BY PacketShape, SizeOfTypes
    <3> QED BY <2>1, <3>1
  <2> DEFINE h == Head(q)
             r == FlattenSeq(Tail(q))
  <2> HIDE DEF c, h, r
  <2>4. /\ \A i \in 1 .. Len(c) : i <= Len(h) => c[i] = h[i]
        /\ Len(h) <= Len(c) => /\ SubSeq(c, 1, Len(h)) = h
                               /\ SubSeq(c, Len(h) + 1, Len(c)) \o u = r
    <3>1. h \in Seq(Bytes) /\ r \in Seq(Bytes) /\ c \o u = h \o r
      BY <2>1, <2>2 DEF c, h, r
    <3> QED BY <1>0, <3>1, CutTwice
  <2> QED BY <1>0, <2>2, <2>3, <2>4 DEF h, r
<1>3. ASSUME CanRead(b, HeaderSize)
      PROVE  /\ q # << >>
             /\ PeekBytes(b, HeaderSize)[1] = Head(q)[1]
             /\ PeekBytes(b, HeaderSize)[2] = Head(q)[2]
  <2>1. HeaderSize = 2 /\ 2 <= size
    BY <1>3 DEF CanRead, HeaderSize
  <2>2. q # << >>
    BY <1>0, <1>1, <2>1, SMT
  <2>3. 2 \in 0 .. size /\ 1 \in 1 .. size /\ 2 \in 1 .. size
    BY <1>0, <2>1, SMT
  <2>4. PeekBytes(b, 2)[1] = c[1] /\ PeekBytes(b, 2)[2] = c[2]
    BY <1>0, <2>3, SMT DEF Content, PeekBytes
  <2>5. 1 <= Len(Head(q)) /\ 2 <= Len(Head(q))
    BY <1>2, <2>1, <2>2, SMT
  <2>6. c[1] = Head(q)[1] /\ c[2] = Head(q)[2]
    BY <1>2, <2>2, <2>3, <2>5
  <2> QED BY <2>1, <2>2, <2>4, <2>6
<1>4. ASSUME q # << >>, CanRead(b, Len(Head(q)))
      PROVE  /\ PeekBytes(b, Len(Head(q))) = Head(q)
             /\ Content(ReadBuffer(b, Len(Head(q)))) \o u = FlattenSeq(Tail(q))
  <2> DEFINE n == Len(Head(q))
  <2>1. n \in 0 .. size
    BY <1>0, <1>2, <1>4, SMT DEF CanRead
  <2>2. PeekBytes(b, n) = SubSeq(c, 1, n)
    <3> HIDE DEF n
    <3> QED BY <2>1, PeekIsPrefix
  <2>3. ReadBuffer(b, n) = Consume(b, n)
    BY <1>4 DEF ReadBuffer
  <2>4. Content(Consume(b, n)) = SubSeq(c, n + 1, size)
    <3> HIDE DEF n
    <3> QED BY <2>1, ConsumeIsGood
  <2>5. n <= size
    BY <1>4 DEF CanRead
  <2> QED BY <1>2, <1>4, <2>2, <2>3, <2>4, <2>5
<1> QED BY <1>0, <1>1, <1>3, <1>4

----------------------------------------------------------------------------
(* The inductive invariant.                                                *)

\* What the sender has of the packets it has begun to hand over.
Waiting ==
  IF way = "requests"
  THEN IF sending.count = 0 THEN << >>
       ELSE SubSeq(sending.data, sending.count + 1, Len(sending.data))
  ELSE Content(mSendBuffer)

InFlight == Cat(Content(mRecvBuffer), Cat(wire, Waiting))

\* Send is at work on a packet, part of which it may have handed over.
SendingOK ==
  \/ sending = Nothing
  \/ /\ way = "requests"
     /\ sending \in [data : Packets(way), count : Nat, length : Nat \ {0}]
     /\ sending.count + sending.length = Len(sending.data)

Steps(w) == IF w = "requests" THEN {"idle", "recv", "parse"} ELSE {"idle", "parse"}

StateOK ==
  /\ way \in {"requests", "responses"}
  /\ Good(mSendBuffer) /\ Good(mRecvBuffer)
  /\ wire \in Seq(Bytes) /\ Len(wire) <= WireSize
  /\ at \in Steps(way)
  /\ whole \in BOOLEAN /\ (way = "responses" => whole)
  /\ SendingOK

\* The packets sent are those dispatched and those in flight.
Delivered ==
  whole => \E rest \in Seq(Packets(way)) :
             /\ got \in Seq(Packets(way)) /\ sent = Cat(got, rest)
             /\ InFlight = FlattenSeq(rest)

\* The client leaves less than a packet in its buffer.
LittleLeft ==
  way = "responses" /\ at = "idle" =>
    \E t \in FromServer : GetStoredSize(mRecvBuffer) < SizeOf[t]

IInv == StateOK /\ Delivered /\ LittleLeft

(* What is in flight is made of bytes.                                     *)
LEMMA FlightTypes ==
  ASSUME StateOK
  PROVE  /\ Content(mRecvBuffer) \in Seq(Bytes) /\ wire \in Seq(Bytes)
         /\ Waiting \in Seq(Bytes) /\ Cat(wire, Waiting) \in Seq(Bytes)
         /\ InFlight \in Seq(Bytes)
<1>1. Content(mRecvBuffer) \in Seq(Bytes) /\ wire \in Seq(Bytes)
  BY ContentIsSeq DEF StateOK
<1>2. Waiting \in Seq(Bytes)
  <2>1. CASE way # "requests"
    BY <2>1, ContentIsSeq DEF StateOK, Waiting
  <2>2. CASE way = "requests" /\ sending.count = 0
    BY <2>2, EmptySeq DEF Waiting
  <2>3. CASE way = "requests" /\ sending.count # 0
    <3>1. sending # Nothing
      BY <2>3 DEF Nothing
    <3>2. sending.data \in Seq(Bytes) /\ sending.count \in Nat
      BY <3>1, PacketShape DEF StateOK, SendingOK
    <3>3. SubSeq(sending.data, sending.count + 1, Len(sending.data)) \in Seq(Bytes)
      BY <3>2, RestIsSeq
    <3> QED BY <2>3, <3>3 DEF Waiting
  <2> QED BY <2>1, <2>2, <2>3
<1> QED BY <1>1, <1>2, CatFacts DEF InFlight

(* A step that only moves what is in flight.                               *)
LEMMA MoveKeeps ==
  ASSUME Delivered, way' = way, whole' => whole, got' = got, sent' = sent,
         whole' => InFlight' = InFlight
  PROVE  Delivered'
BY DEF Delivered

(* A step that adds a packet to what is in flight.                         *)
LEMMA AddKeeps ==
  ASSUME StateOK, Delivered, way' = way, whole' => whole, got' = got,
         NEW packet \in Packets(way), sent' = Append(sent, packet),
         whole' => InFlight' = Cat(InFlight, packet)
  PROVE  Delivered'
<1> SUFFICES ASSUME whole'
             PROVE  \E rest \in Seq(Packets(way)) :
                      /\ got \in Seq(Packets(way)) /\ sent' = Cat(got, rest)
                      /\ InFlight' = FlattenSeq(rest)
  BY DEF Delivered
<1>1. PICK rest \in Seq(Packets(way)) :
        /\ got \in Seq(Packets(way)) /\ sent = Cat(got, rest)
        /\ InFlight = FlattenSeq(rest)
  BY DEF Delivered
<1> DEFINE P == Packets(way)
<1>2. /\ Append(rest, packet) \in Seq(P)
      /\ FlattenSeq(Append(rest, packet)) = Cat(FlattenSeq(rest), packet)
  BY <1>1, JoinedPackets, AppendProperties DEF Cat
<1>3. Append(Cat(got, rest), packet) = Cat(got, Append(rest, packet))
  <2> HIDE DEF P
  <2>1. got \in Seq(P) /\ rest \in Seq(P) /\ packet \in P
    BY <1>1 DEF P
  <2> QED BY <2>1, AppendAfter
<1> QED BY <1>1, <1>2, <1>3

----------------------------------------------------------------------------
(* Sending.                                                                *)

(* The connection starts with nothing in flight.                           *)
LEMMA InitInvariant == Init => IInv
<1> SUFFICES ASSUME Init PROVE IInv
  OBVIOUS
<1>1. Good(Clear) /\ GetStoredSize(Clear) = 0
  <2>1. [i \in Offsets |-> 0] \in [Offsets -> Bytes]
    BY PacketAssumption
  <2> QED BY <2>1, EmptyIsGood DEF Clear
<1>2. Content(Clear) = << >>
  <2>1. Content(Clear) \in Seq(Bytes) /\ Len(Content(Clear)) = 0
    BY <1>1, ContentIsSeq
  <2> QED BY <2>1, EmptySeq
<1>3. << >> \in Seq(Bytes) /\ Len(<< >>) = 0 /\ \A w : << >> \in Seq(Packets(w))
  BY EmptySeq
<1>4. StateOK
  <2>1. Len(wire) <= WireSize /\ wire \in Seq(Bytes)
    BY <1>3, PacketAssumption, SMT DEF Init
  <2> QED BY <1>1, <2>1 DEF Init, StateOK, SendingOK, Steps
<1>5. Delivered
  <2>1. Waiting = << >>
    BY <1>2 DEF Init, Waiting, Nothing
  <2>2. InFlight = << >>
    BY <1>2, <1>3, <2>1, CatFacts DEF Init, InFlight
  <2>3. Cat(<< >>, << >>) = << >>
    BY <1>3, CatFacts
  <2> QED BY <1>3, <2>2, <2>3, FlattenNothing DEF Delivered, Init
<1>6. LittleLeft
  <2>1. PKT_SC_START \in FromServer /\ PKT_SC_START \in DOMAIN SizeOf
    BY SizeOfTypes DEF FromServer
  <2>2. SizeOf[PKT_SC_START] > 0
    BY <2>1, SizeOfTypes, SMT DEF HeaderSize
  <2> QED BY <1>1, <2>1, <2>2 DEF LittleLeft, Init
<1> QED BY <1>4, <1>5, <1>6 DEF IInv

(* A request is not in flight before send takes some of it.                *)
LEMMA RequestKeeps == IInv /\ Request => IInv'
<1> SUFFICES ASSUME IInv, Request PROVE IInv'
  OBVIOUS
<1>1. PICK packet \in PacketsOf(FromClient) :
        sending' = [data |-> packet, count |-> 0, length |-> Len(packet)]
  BY DEF Request
<1>2. packet \in Packets(way) /\ way = "requests" /\ way' = way
  BY DEF Request, Packets, Types
<1>3. Len(packet) \in Nat \ {0}
  <2>1. packet \in Seq(Bytes) /\ packet # << >>
    BY <1>2, PacketShape
  <2> QED BY <2>1, EmptySeq
<1>4. SendingOK'
  BY <1>1, <1>2, <1>3, SMT DEF SendingOK
<1>5. StateOK'
  BY <1>4 DEF IInv, StateOK, Request
<1>6. Delivered'
  <2>1. Waiting' = Waiting
    BY <1>1, <1>2 DEF Waiting, Request, Nothing
  <2>2. InFlight' = InFlight
    BY <2>1 DEF InFlight, Request
  <2> QED BY <2>2, MoveKeeps DEF IInv, Request
<1>7. LittleLeft'
  BY <1>2 DEF LittleLeft
<1> QED BY <1>5, <1>6, <1>7 DEF IInv

(* Each turn of Send moves a piece of the packet from what waits to the    *)
(* wire; the first one adds the packet to what is in flight.  When Send    *)
(* stops short it leaves the packet half sent.                             *)
LEMMA SendKeeps ==
  ASSUME IInv, NEW n \in 1 .. WireSize, Send(n)
  PROVE  IInv'
<1> DEFINE D == sending.data
           c == sending.count
           l == sending.length
           X == SubSeq(D, c + 1, c + n)
           Z == SubSeq(D, c + 1, Len(D))
<1>0. n \in 1 .. l /\ n <= Room /\ wire' = wire \o X
  BY DEF Send
<1>1. sending # Nothing
  <2>1. Nothing.length = 0
    BY DEF Nothing
  <2> QED BY <1>0, <2>1, SMT
<1>2. /\ way = "requests" /\ D \in Packets(way) /\ c \in Nat /\ l \in Nat \ {0}
      /\ c + l = Len(D) /\ n \in Nat \ {0} /\ n <= l
      /\ sending = [data |-> D, count |-> c, length |-> l]
  <2>1. /\ way = "requests" /\ c + l = Len(D)
        /\ sending \in [data : Packets(way), count : Nat, length : Nat \ {0}]
    BY <1>1 DEF IInv, StateOK, SendingOK
  <2>2. /\ D \in Packets(way) /\ c \in Nat /\ l \in Nat \ {0}
        /\ sending = [data |-> D, count |-> c, length |-> l]
    BY <2>1
  <2> HIDE DEF D, c, l
  <2>3. n \in Nat \ {0} /\ n <= l
    BY <1>0, <2>2, SMT
  <2> QED BY <2>1, <2>2, <2>3
<1>3. /\ way' = way /\ mSendBuffer' = mSendBuffer /\ mRecvBuffer' = mRecvBuffer
      /\ at' = at /\ got' = got
      /\ sent' = IF c = 0 THEN Append(sent, D) ELSE sent
      /\ IF c + n < l - n
         THEN sending' = [sending EXCEPT !.count = c + n, !.length = l - n] /\ whole' = whole
         ELSE sending' = Nothing /\ whole' = (whole /\ l - n = 0)
  BY DEF Send
<1>4. D \in Seq(Bytes) /\ Len(D) \in Nat
  BY <1>2, PacketShape, LenProperties
<1> HIDE DEF D, c, l
<1>5. X \in Seq(Bytes) /\ Len(X) = n
  <2> DEFINE a == c + 1
             b == c + n
  <2>1. a \in Int /\ b \in Int /\ a <= b /\ b - a + 1 = n
        /\ \A i \in a .. b : i \in 1 .. Len(D)
    BY <1>2, <1>4, SMT
  <2>2. \A i \in a .. b : D[i] \in Bytes
    BY <1>4, <2>1, ElementOfSeq
  <2> HIDE DEF a, b
  <2>3. SubSeq(D, a, b) \in Seq(Bytes) /\ Len(SubSeq(D, a, b)) = b - a + 1
    BY <2>1, <2>2, SubSeqProperties
  <2> QED BY <2>1, <2>3 DEF a, b
<1> HIDE DEF X
<1>6. wire' \in Seq(Bytes) /\ Len(wire') <= WireSize
  <2>1. wire \in Seq(Bytes) /\ Len(wire) \in Nat /\ WireSize \in Nat
    BY LenProperties, PacketAssumption DEF IInv, StateOK
  <2>2. wire' \in Seq(Bytes) /\ Len(wire') = Len(wire) + Len(X)
    BY <1>0, <1>5, <2>1, ConcatProperties
  <2> QED BY <1>0, <1>2, <1>5, <2>1, <2>2, SMT DEF Room
<1>7. SendingOK' /\ whole' \in BOOLEAN
  <2>1. CASE c + n < l - n
    <3>1. sending' = [data |-> D, count |-> c + n, length |-> l - n]
      BY <1>2, <1>3, <2>1
    <3>2. c + n \in Nat /\ l - n \in Nat \ {0} /\ c + n + (l - n) = Len(D)
      BY <1>2, <2>1, SMT
    <3> QED BY <1>2, <1>3, <2>1, <3>1, <3>2 DEF SendingOK, IInv, StateOK
  <2>2. CASE ~(c + n < l - n)
    BY <1>3, <2>2 DEF SendingOK, IInv, StateOK
  <2> QED BY <2>1, <2>2
<1>8. StateOK'
  BY <1>2, <1>3, <1>6, <1>7 DEF IInv, StateOK
<1>9. ASSUME whole' PROVE whole /\ Waiting' \in Seq(Bytes) /\ Cat(X, Waiting') = Z
  <2>1. CASE c + n < l - n
    <3>1. sending' = [data |-> D, count |-> c + n, length |-> l - n]
      BY <1>2, <1>3, <2>1
    <3>2. Waiting' = SubSeq(D, c + n + 1, Len(D))
      <4>1. c + n # 0
        BY <1>2, SMT
      <4> QED BY <1>2, <1>3, <3>1, <4>1 DEF Waiting
    <3>3. X \o SubSeq(D, c + n + 1, Len(D)) = Z
      <4> DEFINE m == c + 1
                 k == c + n
      <4>1. m \in 1 .. Len(D) + 1 /\ k \in m - 1 .. Len(D) /\ Len(D) \in k .. Len(D)
        BY <1>2, <1>4, SMT
      <4>2. SubSeq(D, m, k) \o SubSeq(D, k + 1, Len(D)) = SubSeq(D, m, Len(D))
        <5> HIDE DEF m, k
        <5> QED BY <1>4, <4>1, ConcatAdjacentSubSeq
      <4> QED BY <4>2 DEF X
    <3>4. SubSeq(D, c + n + 1, Len(D)) \in Seq(Bytes)
      BY <1>2, <1>4, RestIsSeq
    <3> QED BY <1>3, <1>9, <2>1, <3>2, <3>3, <3>4 DEF Cat
  <2>2. CASE ~(c + n < l - n)
    <3>1. whole /\ l - n = 0 /\ sending' = Nothing
      BY <1>3, <1>9, <2>2
    <3>2. Waiting' = << >>
      BY <1>2, <1>3, <3>1 DEF Waiting, Nothing
    <3>3. c + n = Len(D)
      BY <1>2, <3>1, SMT
    <3>4. X = Z
      BY <3>3 DEF X
    <3>5. Cat(X, << >>) = X /\ << >> \in Seq(Bytes)
      BY <1>5, CatFacts, EmptySeq
    <3> HIDE DEF Z
    <3> QED BY <3>1, <3>2, <3>4, <3>5
  <2> QED BY <2>1, <2>2
<1> HIDE DEF Z
<1>10. StateOK /\ Delivered
  BY DEF IInv
<1>f. ASSUME whole'
      PROVE  InFlight' = Cat(Content(mRecvBuffer), Cat(wire, Z))
  <2>0. Waiting' \in Seq(Bytes)
    BY <1>9, <1>f
  <2>1. Cat(wire', Waiting') = Cat(wire, Cat(X, Waiting'))
    <3>1. wire \in Seq(Bytes) /\ wire' = Cat(wire, X)
      BY <1>0, <1>10 DEF StateOK, Cat
    <3> QED BY <1>5, <2>0, <3>1, CatFacts
  <2> QED BY <1>3, <1>9, <1>f, <2>1 DEF InFlight
<1>11. Delivered'
  <2>1. CASE c = 0
    <3>1. Waiting = << >> /\ Z = D
      <4>1. Waiting = << >>
        BY <1>2, <2>1 DEF Waiting, c
      <4>2. c + 1 = 1 /\ SubSeq(D, 1, Len(D)) = D
        BY <1>4, <2>1, SubSeqFull, SMT
      <4> QED BY <4>1, <4>2 DEF Z
    <3>2. InFlight = Cat(Content(mRecvBuffer), wire)
      BY <1>10, <3>1, FlightTypes, CatFacts DEF InFlight
    <3>3. whole' => InFlight' = Cat(InFlight, D)
      BY <1>4, <1>10, <1>f, <3>1, <3>2, FlightTypes, CatFacts
    <3> QED BY <1>2, <1>3, <1>9, <1>10, <2>1, <3>3, AddKeeps
  <2>2. CASE c # 0
    <3>1. Waiting = Z
      BY <1>2, <2>2 DEF Waiting, Z, c, D
    <3>2. whole' => InFlight' = InFlight
      BY <1>f, <3>1 DEF InFlight
    <3> QED BY <1>3, <1>9, <1>10, <2>2, <3>2, MoveKeeps
  <2> QED BY <2>1, <2>2
<1>12. LittleLeft'
  BY <1>2, <1>3 DEF LittleLeft
<1> QED BY <1>8, <1>11, <1>12 DEF IInv

(* When Send fails before it has handed over anything, nothing is lost.    *)
LEMMA SendErrorKeeps == IInv /\ SendError => IInv'
<1> SUFFICES ASSUME IInv, SendError PROVE IInv'
  OBVIOUS
<1>1. /\ way = "requests" /\ way' = way /\ sending' = Nothing
      /\ whole' = (whole /\ sending.count = 0) /\ whole \in BOOLEAN
      /\ mSendBuffer' = mSendBuffer /\ mRecvBuffer' = mRecvBuffer /\ wire' = wire
      /\ at' = at /\ got' = got /\ sent' = sent
  BY DEF SendError, IInv, StateOK, SendingOK
<1>2. StateOK'
  BY <1>1 DEF IInv, StateOK, SendingOK
<1>3. whole' => InFlight' = InFlight
  BY <1>1 DEF InFlight, Waiting, Nothing
<1>4. Delivered'
  BY <1>1, <1>3, MoveKeeps DEF IInv
<1>5. LittleLeft'
  BY <1>1 DEF LittleLeft
<1> QED BY <1>2, <1>4, <1>5 DEF IInv

----------------------------------------------------------------------------
(* The server receives.                                                    *)

(* Being told of data moves nothing.                                       *)
LEMMA OnReceiveKeeps == IInv /\ OnReceive => IInv'
<1> SUFFICES ASSUME IInv, OnReceive PROVE IInv'
  OBVIOUS
<1>1. /\ way = "requests" /\ way' = way /\ at' = "recv"
      /\ UNCHANGED <<sending, mSendBuffer, wire, mRecvBuffer, sent, got, whole>>
  BY DEF OnReceive
<1>2. StateOK'
  BY <1>1 DEF IInv, StateOK, SendingOK, Steps
<1>3. InFlight' = InFlight
  BY <1>1 DEF InFlight, Waiting
<1>4. Delivered'
  BY <1>1, <1>3, MoveKeeps DEF IInv
<1>5. LittleLeft'
  BY <1>1 DEF LittleLeft
<1> QED BY <1>2, <1>4, <1>5 DEF IInv

(* recv moves the front of the wire to the end of the buffer.              *)
LEMMA RecvKeeps ==
  ASSUME IInv, NEW n \in 0 .. WireSize, Recv(n)
  PROVE  IInv'
<1> DEFINE r == WithRoom(mRecvBuffer)
           X == SubSeq(wire, 1, n)
           Z == SubSeq(wire, n + 1, Len(wire))
           C == Content(mRecvBuffer)
<1>1. /\ at = "recv" /\ n <= Len(wire) /\ n <= FreeSpace(r)
      /\ mRecvBuffer' = Commit(Store(r, GetBuffer(r), X), n)
      /\ wire' = Z /\ at' = "parse"
      /\ UNCHANGED <<way, sending, mSendBuffer, sent, got, whole>>
  BY DEF Recv
<1>2. way = "requests" /\ way' = way
  BY <1>1 DEF IInv, StateOK, Steps
<1>3. /\ Good(mRecvBuffer) /\ wire \in Seq(Bytes) /\ Len(wire) <= WireSize
      /\ Len(wire) \in Nat /\ WireSize \in Nat /\ n \in Nat
  BY LenProperties, PacketAssumption, SMT DEF IInv, StateOK
<1>4. X \in Seq(Bytes) /\ Len(X) = n /\ Z \in Seq(Bytes) /\ Len(Z) = Len(wire) - n /\ Cat(X, Z) = wire
  BY <1>1, <1>3, CutAt
<1>5. Good(r) /\ Content(r) = C /\ C \in Seq(Bytes)
  BY <1>3, RoomKeepsContent, ContentIsSeq
<1>6. GetBuffer(r) \in Int
  BY <1>5, BufferFields, SMT DEF Good, GetBuffer
<1> HIDE DEF r, X, Z
<1>7. Good(mRecvBuffer') /\ Content(mRecvBuffer') = Cat(C, X)
  <2>1. mRecvBuffer' = Commit(Store(r, GetBuffer(r), X), Len(X)) /\ Len(X) <= FreeSpace(r)
    BY <1>1, <1>4
  <2>2. Good(mRecvBuffer') /\ Content(mRecvBuffer') = Content(r) \o X
    BY <1>4, <1>5, <1>6, <2>1, AppendIsGood
  <2> QED BY <1>5, <2>2 DEF Cat
<1>8. StateOK'
  <2>1. Len(Z) <= WireSize
    BY <1>3, <1>4, SMT
  <2> QED BY <1>1, <1>2, <1>4, <1>7, <2>1 DEF IInv, StateOK, SendingOK, Steps
<1>9. InFlight' = InFlight
  <2>1. Waiting' = Waiting /\ Waiting \in Seq(Bytes)
    <3>1. Waiting \in Seq(Bytes)
      BY FlightTypes DEF IInv
    <3> QED BY <1>1, <3>1 DEF Waiting
  <2>2. InFlight' = Cat(Cat(C, X), Cat(Z, Waiting))
    BY <1>1, <1>7, <2>1 DEF InFlight
  <2>3. InFlight = Cat(C, Cat(Cat(X, Z), Waiting))
    BY <1>4 DEF InFlight
  <2> HIDE DEF C
  <2>4. Cat(Cat(X, Z), Waiting) = Cat(X, Cat(Z, Waiting)) /\ Cat(Z, Waiting) \in Seq(Bytes)
    BY <1>4, <2>1, CatFacts
  <2>5. Cat(Cat(C, X), Cat(Z, Waiting)) = Cat(C, Cat(X, Cat(Z, Waiting)))
    BY <1>4, <1>5, <2>4, CatFacts
  <2> QED BY <2>2, <2>3, <2>4, <2>5
<1>10. Delivered'
  BY <1>1, <1>9, MoveKeeps DEF IInv
<1>11. LittleLeft'
  BY <1>2 DEF LittleLeft
<1> QED BY <1>8, <1>10, <1>11 DEF IInv

(* When there is nothing to receive, looking for room changes no content.  *)
LEMMA NoMoreDataKeeps == IInv /\ NoMoreData => IInv'
<1> SUFFICES ASSUME IInv, NoMoreData PROVE IInv'
  OBVIOUS
<1>1. /\ at = "recv" /\ at' = "idle" /\ mRecvBuffer' = WithRoom(mRecvBuffer)
      /\ UNCHANGED <<way, sending, mSendBuffer, wire, sent, got, whole>>
  BY DEF NoMoreData
<1>2. way = "requests" /\ way' = way
  BY <1>1 DEF IInv, StateOK, Steps
<1>3. Good(mRecvBuffer') /\ Content(mRecvBuffer') = Content(mRecvBuffer)
  BY <1>1, RoomKeepsContent DEF IInv, StateOK
<1>4. StateOK'
  BY <1>1, <1>2, <1>3 DEF IInv, StateOK, SendingOK, Steps
<1>5. InFlight' = InFlight
  BY <1>1, <1>3 DEF InFlight, Waiting
<1>6. Delivered'
  BY <1>1, <1>5, MoveKeeps DEF IInv
<1>7. LittleLeft'
  BY <1>2 DEF LittleLeft
<1> QED BY <1>4, <1>6, <1>7 DEF IInv

(* The header the receiver sees is that of a packet that was sent.         *)
LEMMA HeaderIsSent ==
  ASSUME StateOK, Delivered, whole, CanRead(mRecvBuffer, HeaderSize)
  PROVE  /\ mType(Header) \in Types(way) /\ mType(Header) \in DOMAIN SizeOf
         /\ mSize(Header) = SizeOf[mType(Header)]
<1>1. PICK rest \in Seq(Packets(way)) :
        got \in Seq(Packets(way)) /\ sent = Cat(got, rest) /\ InFlight = FlattenSeq(rest)
  BY DEF Delivered
<1> DEFINE u == Cat(wire, Waiting)
<1>2. Good(mRecvBuffer) /\ u \in Seq(Bytes) /\ Content(mRecvBuffer) \o u = FlattenSeq(rest)
  BY <1>1, FlightTypes DEF StateOK, InFlight, Cat
<1> HIDE DEF u
<1>3. /\ rest # << >>
      /\ PeekBytes(mRecvBuffer, HeaderSize)[1] = Head(rest)[1]
      /\ PeekBytes(mRecvBuffer, HeaderSize)[2] = Head(rest)[2]
  BY <1>2, FrontPacket
<1>4. Head(rest) \in Packets(way)
  BY <1>3, JoinedPackets
<1>5. /\ Head(rest)[2] \in Types(way) /\ Head(rest)[2] \in DOMAIN SizeOf
      /\ Head(rest)[1] = SizeOf[Head(rest)[2]]
  BY <1>4, PacketShape
<1> QED BY <1>3, <1>5 DEF Header, mType, mSize

(* Reading a packet by the size of its type takes the first packet in      *)
(* flight, or nothing.                                                     *)
LEMMA ParseKeeps ==
  ASSUME StateOK, Delivered, Complete, Parse(Types(way)),
         UNCHANGED <<way, sending, mSendBuffer, wire, sent, whole>>
  PROVE  Delivered' /\ Good(mRecvBuffer')
<1> DEFINE t == mType(Header)
<1>0. t \in Types(way) /\ t \in DOMAIN SizeOf /\ SizeOf[t] \in Nat
  BY SizeOfTypes DEF Parse
<1>1. CASE ~CanRead(mRecvBuffer, SizeOf[t])
  <2>1. UNCHANGED <<got, mRecvBuffer>>
    BY <1>1 DEF Parse
  <2>2. InFlight' = InFlight
    BY <2>1 DEF InFlight, Waiting
  <2> QED BY <2>1, <2>2, MoveKeeps DEF StateOK
<1>2. CASE CanRead(mRecvBuffer, SizeOf[t])
  <2>1. /\ got' = Append(got, PeekBytes(mRecvBuffer, SizeOf[t]))
        /\ mRecvBuffer' = ReadBuffer(mRecvBuffer, SizeOf[t])
    BY <1>2 DEF Parse
  <2>2. Good(mRecvBuffer) /\ Good(mRecvBuffer')
    <3> HIDE DEF t
    <3>1. Good(mRecvBuffer) /\ GetStoredSize(mRecvBuffer) \in Nat
      BY ContentIsSeq DEF StateOK
    <3>2. SizeOf[t] \in 0 .. GetStoredSize(mRecvBuffer)
      BY <1>0, <1>2, <3>1, SMT DEF CanRead
    <3>3. mRecvBuffer' = Consume(mRecvBuffer, SizeOf[t])
      BY <1>2, <2>1 DEF ReadBuffer
    <3> QED BY <3>1, <3>2, <3>3, ConsumeIsGood
  <2>3. ASSUME whole'
        PROVE  \E rest \in Seq(Packets(way)) :
                 /\ got' \in Seq(Packets(way)) /\ sent = Cat(got', rest)
                 /\ InFlight' = FlattenSeq(rest)
    <3>1. PICK rest \in Seq(Packets(way)) :
            /\ got \in Seq(Packets(way)) /\ sent = Cat(got, rest)
            /\ InFlight = FlattenSeq(rest)
      BY <2>3 DEF Delivered
    <3> DEFINE u == Cat(wire, Waiting)
    <3>2. u \in Seq(Bytes) /\ Content(mRecvBuffer) \o u = FlattenSeq(rest)
      BY <3>1, FlightTypes DEF InFlight, Cat
    <3>3. InFlight' = Content(mRecvBuffer') \o u
      BY DEF InFlight, Waiting, Cat
    <3> HIDE DEF u
    <3>4. /\ rest # << >>
          /\ PeekBytes(mRecvBuffer, HeaderSize)[2] = Head(rest)[2]
      BY <2>2, <3>2, FrontPacket DEF Complete
    <3>5. Head(rest) \in Packets(way) /\ Tail(rest) \in Seq(Packets(way))
      BY <3>4, JoinedPackets
    <3>6. Len(Head(rest)) = SizeOf[t]
      BY <3>4, <3>5, PacketShape DEF Header, mType
    <3>7. /\ PeekBytes(mRecvBuffer, Len(Head(rest))) = Head(rest)
          /\ Content(ReadBuffer(mRecvBuffer, Len(Head(rest)))) \o u = FlattenSeq(Tail(rest))
      <4>1. CanRead(mRecvBuffer, Len(Head(rest)))
        BY <1>2, <3>6
      <4> QED BY <2>2, <3>2, <3>4, <4>1, FrontPacket
    <3>8. got' = Append(got, Head(rest)) /\ InFlight' = FlattenSeq(Tail(rest))
      BY <2>1, <3>3, <3>6, <3>7
    <3>9. /\ Append(got, Head(rest)) \in Seq(Packets(way))
          /\ Cat(Append(got, Head(rest)), Tail(rest)) = Cat(got, rest)
      BY <3>1, <3>4, MoveHead
    <3> QED BY <3>1, <3>5, <3>8, <3>9
  <2> QED BY <2>2, <2>3 DEF Delivered
<1> QED BY <1>1, <1>2

(* A turn of the server's loop.                                            *)
LEMMA DispatchKeeps == IInv /\ DispatchPacket => IInv'
<1> SUFFICES ASSUME IInv, DispatchPacket PROVE IInv'
  OBVIOUS
<1>1. /\ way = "requests" /\ way' = way /\ at = "parse"
      /\ UNCHANGED <<sending, mSendBuffer, wire, sent, whole>>
  BY DEF DispatchPacket
<1>2. CASE UNCHANGED <<mRecvBuffer, got>> /\ at' \in {"recv", "parse"}
  <2>1. InFlight' = InFlight
    BY <1>1, <1>2 DEF InFlight, Waiting
  <2>2. Delivered'
    BY <1>1, <1>2, <2>1, MoveKeeps DEF IInv
  <2>3. StateOK'
    BY <1>1, <1>2 DEF IInv, StateOK, SendingOK, Steps
  <2> QED BY <1>1, <2>2, <2>3 DEF IInv, LittleLeft
<1>3. CASE Complete /\ Parse(FromClient)
  <2>1. Parse(Types(way)) /\ at' = at
    BY <1>1, <1>3 DEF Types, Parse
  <2>2. Delivered' /\ Good(mRecvBuffer')
    BY <1>1, <1>3, <2>1, ParseKeeps DEF IInv
  <2>3. StateOK'
    BY <1>1, <2>1, <2>2 DEF IInv, StateOK, SendingOK
  <2> QED BY <1>1, <2>2, <2>3 DEF IInv, LittleLeft
<1> QED BY <1>2, <1>3 DEF DispatchPacket

----------------------------------------------------------------------------
(* The server sends, the client receives.                                  *)

(* A response that fits joins what waits in the session's buffer.          *)
LEMMA SendRequestKeeps == IInv /\ SendRequest => IInv'
<1> SUFFICES ASSUME IInv, SendRequest PROVE IInv'
  OBVIOUS
<1>1. PICK packet \in PacketsOf(FromServer) :
        /\ mSendBuffer' = WriteBuffer(mSendBuffer, packet)
        /\ IF Fits(mSendBuffer, packet) THEN sent' = Append(sent, packet) ELSE sent' = sent
  BY DEF SendRequest
<1>2. /\ way = "responses" /\ way' = way
      /\ UNCHANGED <<sending, wire, mRecvBuffer, at, got, whole>>
  BY DEF SendRequest
<1>3. packet \in Packets(way) /\ packet \in Seq(Bytes)
  <2>1. packet \in Packets(way)
    BY <1>2 DEF Packets, Types
  <2> QED BY <2>1, PacketShape
<1>4. /\ Good(mSendBuffer) /\ Good(mSendBuffer')
      /\ Fits(mSendBuffer, packet) => Content(mSendBuffer') = Content(mSendBuffer) \o packet
      /\ ~Fits(mSendBuffer, packet) => Content(mSendBuffer') = Content(mSendBuffer)
  BY <1>1, <1>3, WriteIsGood DEF IInv, StateOK
<1>5. StateOK'
  BY <1>2, <1>4 DEF IInv, StateOK, SendingOK
<1>6. Waiting = Content(mSendBuffer) /\ Waiting' = Content(mSendBuffer')
  BY <1>2 DEF Waiting
<1>7. Delivered'
  <2>1. CASE Fits(mSendBuffer, packet)
    <3>1. Waiting' = Cat(Waiting, packet)
      BY <1>4, <1>6, <2>1 DEF Cat
    <3> DEFINE C == Content(mRecvBuffer)
    <3>2. InFlight' = Cat(C, Cat(wire, Cat(Waiting, packet))) /\ InFlight = Cat(C, Cat(wire, Waiting))
      BY <1>2, <3>1 DEF InFlight
    <3>3. C \in Seq(Bytes) /\ wire \in Seq(Bytes) /\ Waiting \in Seq(Bytes)
      BY FlightTypes DEF IInv
    <3> HIDE DEF C
    <3>4. InFlight' = Cat(InFlight, packet)
      BY <1>3, <3>2, <3>3, CatFacts
    <3> QED BY <1>1, <1>2, <1>3, <2>1, <3>4, AddKeeps DEF IInv
  <2>2. CASE ~Fits(mSendBuffer, packet)
    <3>1. InFlight' = InFlight
      BY <1>2, <1>4, <1>6, <2>2 DEF InFlight
    <3> QED BY <1>1, <1>2, <2>2, <3>1, MoveKeeps DEF IInv
  <2> QED BY <2>1, <2>2
<1>8. LittleLeft'
  BY <1>2 DEF IInv, LittleLeft
<1> QED BY <1>5, <1>7, <1>8 DEF IInv

(* Flushing moves the front of the session's buffer to the end of the wire.*)
LEMMA FlushKeeps ==
  ASSUME IInv, NEW n \in 1 .. WireSize, SendFlush(n)
  PROVE  IInv'
<1> DEFINE D == Content(mSendBuffer)
           X == SubSeq(D, 1, n)
           Z == SubSeq(D, n + 1, Len(D))
           C == Content(mRecvBuffer)
<1>1. /\ way = "responses" /\ way' = way
      /\ n \in 1 .. GetContiguiousBytes(mSendBuffer) /\ n <= Room
      /\ wire' = wire \o [i \in 1 .. n |-> mSendBuffer.mBuffer[GetBufferStart(mSendBuffer) + i - 1]]
      /\ mSendBuffer' = RemoveBytes(mSendBuffer, n)
      /\ UNCHANGED <<sending, mRecvBuffer, at, sent, got, whole>>
  BY DEF SendFlush
<1>2. /\ Good(mSendBuffer) /\ n \in Nat /\ n <= GetContiguiousBytes(mSendBuffer)
      /\ D \in Seq(Bytes) /\ Len(D) = GetStoredSize(mSendBuffer) /\ Len(D) \in Nat
  <2>1. Good(mSendBuffer)
    BY DEF IInv, StateOK
  <2>2. n \in Nat /\ n <= GetContiguiousBytes(mSendBuffer)
    BY <1>1, PacketAssumption, SMT
  <2> QED BY <2>1, <2>2, ContentIsSeq
<1>3. /\ n \in 0 .. GetStoredSize(mSendBuffer)
      /\ wire' = wire \o PeekBytes(mSendBuffer, n)
  BY <1>1, <1>2, SendIsPeek
<1>4. PeekBytes(mSendBuffer, n) = X
  BY <1>2, <1>3, PeekIsPrefix
<1>5. Good(mSendBuffer') /\ Content(mSendBuffer') = Z
  BY <1>1, <1>2, <1>3, RemoveIsGood
<1> HIDE DEF D
<1>6. X \in Seq(Bytes) /\ Len(X) = n /\ Z \in Seq(Bytes) /\ Cat(X, Z) = D
  <2>1. n <= Len(D)
    BY <1>2, <1>3, SMT
  <2> QED BY <1>2, <2>1, CutAt
<1> HIDE DEF X, Z
<1>7. wire' = Cat(wire, X) /\ wire \in Seq(Bytes) /\ wire' \in Seq(Bytes) /\ Len(wire') <= WireSize
  <2>1. wire \in Seq(Bytes) /\ Len(wire) \in Nat /\ WireSize \in Nat
    BY LenProperties, PacketAssumption DEF IInv, StateOK
  <2>2. wire' = wire \o X
    BY <1>3, <1>4
  <2>3. wire' \in Seq(Bytes) /\ Len(wire') = Len(wire) + Len(X)
    BY <1>6, <2>1, <2>2, ConcatProperties
  <2>4. Len(wire') <= WireSize
    BY <1>1, <1>2, <1>6, <2>1, <2>3, SMT DEF Room
  <2> QED BY <2>1, <2>2, <2>3, <2>4 DEF Cat
<1>8. StateOK'
  BY <1>1, <1>5, <1>7 DEF IInv, StateOK, SendingOK
<1>9. InFlight' = InFlight
  <2>1. Waiting = D /\ Waiting' = Z
    BY <1>1, <1>5 DEF Waiting, D
  <2>2. C \in Seq(Bytes)
    BY FlightTypes DEF IInv
  <2>3. InFlight = Cat(C, Cat(wire, Cat(X, Z))) /\ InFlight' = Cat(C, Cat(Cat(wire, X), Z))
    BY <1>1, <1>6, <1>7, <2>1 DEF InFlight
  <2>4. Cat(Cat(wire, X), Z) = Cat(wire, Cat(X, Z))
    BY <1>6, <1>7, CatFacts
  <2> QED BY <2>3, <2>4
<1>10. Delivered'
  BY <1>1, <1>9, MoveKeeps DEF IInv
<1>11. LittleLeft'
  BY <1>1 DEF IInv, LittleLeft
<1> QED BY <1>8, <1>10, <1>11 DEF IInv

(* The client leaves so little in its buffer that every chunk fits.        *)
LEMMA NetworkProcessKeeps ==
  ASSUME IInv, NEW n \in 1 .. ChunkSize, NetworkProcess(n)
  PROVE  IInv'
<1> DEFINE X == SubSeq(wire, 1, n)
           Z == SubSeq(wire, n + 1, Len(wire))
           C == Content(mRecvBuffer)
<1>1. /\ way = "responses" /\ way' = way /\ at = "idle" /\ n <= Len(wire)
      /\ wire' = Z /\ mRecvBuffer' = WriteBuffer(mRecvBuffer, X)
      /\ at' = IF Fits(mRecvBuffer, X) THEN "parse" ELSE "aborted"
      /\ UNCHANGED <<sending, mSendBuffer, sent, got, whole>>
  BY DEF NetworkProcess
<1>2. /\ Good(mRecvBuffer) /\ wire \in Seq(Bytes) /\ Len(wire) <= WireSize
      /\ Len(wire) \in Nat /\ WireSize \in Nat /\ n \in Nat /\ n <= ChunkSize /\ ChunkSize \in Nat
  BY LenProperties, PacketAssumption, SMT DEF IInv, StateOK
<1>3. X \in Seq(Bytes) /\ Len(X) = n /\ Z \in Seq(Bytes) /\ Len(Z) = Len(wire) - n /\ Cat(X, Z) = wire
  BY <1>1, <1>2, CutAt
<1> HIDE DEF X, Z
<1>4. C \in Seq(Bytes) /\ Len(C) = GetStoredSize(mRecvBuffer) /\ GetStoredSize(mRecvBuffer) \in Nat
  BY <1>2, ContentIsSeq
<1>5. Fits(mRecvBuffer, X)
  <2>1. PICK t \in FromServer : GetStoredSize(mRecvBuffer) < SizeOf[t]
    BY <1>1 DEF IInv, LittleLeft
  <2>2. /\ SizeOf[t] \in Nat /\ Capacity \in Nat
        /\ 2 * (SizeOf[t] - 1 + ChunkSize) <= Capacity
    BY SizeOfTypes, PacketAssumption, CapacityAssumption DEF FromServer
  <2> HIDE DEF C
  <2>3. ~(2 * (Len(C) + Len(X)) > Capacity)
    <3> DEFINE k == SizeOf[t]
    <3>1. k \in Nat /\ 2 * (k - 1 + ChunkSize) <= Capacity /\ GetStoredSize(mRecvBuffer) < k
      BY <2>1, <2>2
    <3> HIDE DEF k
    <3> QED BY <1>2, <1>3, <1>4, <2>2, <3>1, SMT
  <2> QED BY <1>2, <1>3, <2>3, WriteIsGood DEF C
<1>6. Good(mRecvBuffer') /\ Content(mRecvBuffer') = Cat(C, X) /\ at' = "parse"
  BY <1>1, <1>2, <1>3, <1>5, WriteIsGood DEF Cat
<1>7. StateOK'
  <2>1. Len(Z) <= WireSize
    BY <1>2, <1>3, SMT
  <2> QED BY <1>1, <1>3, <1>6, <2>1 DEF IInv, StateOK, SendingOK, Steps
<1>8. InFlight' = InFlight
  <2>1. Waiting' = Waiting /\ Waiting \in Seq(Bytes)
    <3>1. Waiting \in Seq(Bytes)
      BY FlightTypes DEF IInv
    <3> QED BY <1>1, <3>1 DEF Waiting
  <2>2. InFlight' = Cat(Cat(C, X), Cat(Z, Waiting))
    BY <1>1, <1>6, <2>1 DEF InFlight
  <2>3. InFlight = Cat(C, Cat(Cat(X, Z), Waiting))
    BY <1>3 DEF InFlight
  <2> HIDE DEF C
  <2>4. Cat(Cat(X, Z), Waiting) = Cat(X, Cat(Z, Waiting)) /\ Cat(Z, Waiting) \in Seq(Bytes)
    BY <1>3, <2>1, CatFacts
  <2>5. Cat(Cat(C, X), Cat(Z, Waiting)) = Cat(C, Cat(X, Cat(Z, Waiting)))
    BY <1>3, <1>4, <2>4, CatFacts
  <2> QED BY <2>2, <2>3, <2>4, <2>5
<1>9. Delivered'
  BY <1>1, <1>8, MoveKeeps DEF IInv
<1>10. LittleLeft'
  BY <1>6 DEF LittleLeft
<1> QED BY <1>7, <1>9, <1>10 DEF IInv

(* The client's loop ends with less than a packet in the buffer, and its   *)
(* assertions hold: the type is one of the server's, and since header and  *)
(* type agree on the length, a complete packet can be read.                *)
LEMMA ProcessPacketKeeps == IInv /\ ProcessPacket => IInv'
<1> SUFFICES ASSUME IInv, ProcessPacket PROVE IInv'
  OBVIOUS
<1>1. /\ way = "responses" /\ way' = way /\ at = "parse" /\ whole
      /\ UNCHANGED <<sending, mSendBuffer, wire, sent, whole>>
  BY DEF ProcessPacket, IInv, StateOK
<1>2. ASSUME CanRead(mRecvBuffer, HeaderSize)
      PROVE  /\ mType(Header) \in FromServer /\ mSize(Header) = SizeOf[mType(Header)]
  BY <1>1, <1>2, HeaderIsSent DEF IInv, Types
<1>3. CASE ~Complete /\ at' = "idle" /\ UNCHANGED <<mRecvBuffer, got>>
  <2>1. InFlight' = InFlight
    BY <1>1, <1>3 DEF InFlight, Waiting
  <2>2. Delivered'
    BY <1>1, <1>3, <2>1, MoveKeeps DEF IInv
  <2>3. StateOK'
    BY <1>1, <1>3 DEF IInv, StateOK, SendingOK, Steps
  <2>4. \E t \in FromServer : GetStoredSize(mRecvBuffer) < SizeOf[t]
    <3>0. GetStoredSize(mRecvBuffer) \in Nat
      BY ContentIsSeq DEF IInv, StateOK
    <3>1. CASE CanRead(mRecvBuffer, HeaderSize)
      <4>1. SizeOf[mType(Header)] \in Nat
        BY <1>2, <3>1, SizeOfTypes DEF FromServer
      <4>2. ~(SizeOf[mType(Header)] <= GetStoredSize(mRecvBuffer))
        BY <1>2, <1>3, <3>1 DEF Complete
      <4> DEFINE k == SizeOf[mType(Header)]
      <4> HIDE DEF k
      <4>3. GetStoredSize(mRecvBuffer) < k
        BY <3>0, <4>1, <4>2, SMT DEF k
      <4> QED BY <1>2, <3>1, <4>3 DEF k
    <3>2. CASE ~CanRead(mRecvBuffer, HeaderSize)
      <4>1. PKT_SC_START \in FromServer /\ PKT_SC_START \in DOMAIN SizeOf
        BY SizeOfTypes DEF FromServer
      <4> DEFINE k == SizeOf[PKT_SC_START]
      <4>2. k \in Nat /\ k >= HeaderSize
        BY <4>1, SizeOfTypes
      <4> HIDE DEF k
      <4>3. GetStoredSize(mRecvBuffer) < k
        BY <3>0, <3>2, <4>2, SMT DEF CanRead, HeaderSize
      <4> QED BY <4>1, <4>3 DEF k
    <3> QED BY <3>1, <3>2
  <2>5. LittleLeft'
    BY <1>3, <2>4 DEF LittleLeft
  <2> QED BY <2>2, <2>3, <2>5 DEF IInv
<1>4. CASE Complete /\ Parse(FromServer)
  <2>1. Parse(Types(way)) /\ at' = at
    BY <1>1, <1>4 DEF Types, Parse
  <2>2. Delivered' /\ Good(mRecvBuffer')
    BY <1>1, <1>4, <2>1, ParseKeeps DEF IInv
  <2>3. StateOK'
    BY <1>1, <2>1, <2>2 DEF IInv, StateOK, SendingOK
  <2> QED BY <1>1, <2>1, <2>2, <2>3 DEF IInv, LittleLeft
<1>5. ASSUME Complete, mType(Header) \in FromServer => ~CanRead(mRecvBuffer, SizeOf[mType(Header)])
      PROVE  FALSE
  BY <1>2, <1>5 DEF Complete, CanRead
<1> QED BY <1>3, <1>4, <1>5 DEF ProcessPacket

----------------------------------------------------------------------------
(* The invariant.                                                          *)

LEMMA NextInvariant == IInv /\ [Next]_vars => IInv'
<1> SUFFICES ASSUME IInv, [Next]_vars PROVE IInv'
  OBVIOUS
<1>1. CASE Request
  BY <1>1, RequestKeeps
<1>2. CASE Sends
  BY <1>2, SendKeeps DEF Sends
<1>3. CASE SendError
  BY <1>3, SendErrorKeeps
<1>4. CASE OnReceive
  BY <1>4, OnReceiveKeeps
<1>5. CASE Receives
  BY <1>5, RecvKeeps DEF Receives
<1>6. CASE NoMoreData
  BY <1>6, NoMoreDataKeeps
<1>7. CASE DispatchPacket
  BY <1>7, DispatchKeeps
<1>8. CASE SendRequest
  BY <1>8, SendRequestKeeps
<1>9. CASE Flushes
  BY <1>9, FlushKeeps DEF Flushes
<1>10. CASE Takes
  BY <1>10, NetworkProcessKeeps DEF Takes
<1>11. CASE ProcessPacket
  BY <1>11, ProcessPacketKeeps
<1>12. CASE UNCHANGED vars
  <2>1. InFlight' = InFlight
    BY <1>12 DEF vars, InFlight, Waiting
  <2>2. Delivered'
    BY <1>12, <2>1, MoveKeeps DEF IInv, vars
  <2> QED BY <1>12, <2>2 DEF IInv, StateOK, SendingOK, LittleLeft, vars
<1> QED BY <1>1, <1>2, <1>3, <1>4, <1>5, <1>6, <1>7, <1>8, <1>9, <1>10, <1>11, <1>12 DEF Next

(* The packets sent are those dispatched and those in flight, both buffers *)
(* keep their regions apart, and the client's buffer never holds a packet  *)
(* when it receives: for every size of the buffers, the chunks and the     *)
(* network's window, and every number of packets.                          *)
THEOREM PacketInvariant == Spec => []IInv
<1> QED BY InitInvariant, NextInvariant, PTL DEF Spec

(* The connection keeps its type, and both buffers keep their regions      *)
(* apart, however much each send and recv takes.                           *)
THEOREM PacketTypeCorrect == Spec => []TypeOK
<1>1. ASSUME IInv PROVE TypeOK
  <2>1. /\ mSendBuffer \in Buffer /\ Apart(mSendBuffer)
        /\ mRecvBuffer \in Buffer /\ Apart(mRecvBuffer)
    BY <1>1 DEF IInv, StateOK, Good
  <2>2. Len(wire) <= WireSize /\ Range(wire) \subseteq Bytes
    <3>1. wire \in Seq(Bytes) /\ Len(wire) <= WireSize
      BY <1>1 DEF IInv, StateOK
    <3>2. \A i \in DOMAIN wire : wire[i] \in Bytes
      BY <3>1, LenProperties, ElementOfSeq
    <3> QED BY <3>1, <3>2 DEF Range
  <2>3. at \in {"idle", "recv", "parse", "aborted"} /\ way \in {"requests", "responses"}
    BY <1>1 DEF IInv, StateOK, Steps
  <2>4. sending.count <= Len(sending.data)
    <3>1. CASE sending = Nothing
      BY <3>1, EmptySeq, SMT DEF Nothing
    <3>2. CASE sending # Nothing
      <4>1. /\ sending.count \in Nat /\ sending.length \in Nat
            /\ sending.count + sending.length = Len(sending.data)
        BY <1>1, <3>2 DEF IInv, StateOK, SendingOK
      <4> QED BY <4>1, SMT
    <3> QED BY <3>1, <3>2
  <2> QED BY <2>1, <2>2, <2>3, <2>4 DEF TypeOK
<1> QED BY <1>1, PacketInvariant, PTL

(* However send and recv cut the stream, the packets dispatched are a      *)
(* prefix of those sent.                                                   *)
THEOREM PacketsWholeInOrder == Spec => []WholeInOrder
<1>1. ASSUME IInv PROVE WholeInOrder
  <2> SUFFICES ASSUME whole PROVE IsPrefix(got, sent)
    BY DEF WholeInOrder
  <2> DEFINE P == Packets(way)
  <2>1. PICK rest \in Seq(P) : got \in Seq(P) /\ sent = Cat(got, rest)
    BY <1>1 DEF IInv, Delivered
  <2> HIDE DEF P
  <2>2. /\ Len(got) <= Len(sent) /\ Len(got) \in Nat /\ Len(sent) \in Nat
        /\ \A i \in 1 .. Len(got) : got[i] = sent[i]
    BY <2>1, SMT DEF Cat
  <2> QED BY <2>1, <2>2, SMT DEF IsPrefix
<1> QED BY <1>1, PacketInvariant, PTL

(* Every chunk fits into the client's receive buffer, and every complete   *)
(* packet can be read.                                                     *)
THEOREM ClientNeverAborts == Spec => []NeverAborts
<1>1. IInv => NeverAborts
  BY DEF IInv, StateOK, Steps, NeverAborts
<1> QED BY <1>1, PacketInvariant, PTL
=============================================================================
