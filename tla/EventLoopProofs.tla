--------------------------- MODULE EventLoopProofs ---------------------------
(***************************************************************************)
(* The server's thread, for any sockets, clients, packets, jobs, delays    *)
(* and faults: who owns a session and a handle, what epoll has on file of  *)
(* them, and what the driver has been asked.                               *)
(*                                                                         *)
(* In this order: the inductive invariant; sequences, folds and walks; the *)
(* sessions and jobs; the port; the steps of the loop and of the peers;    *)
(* the theorems.                                                           *)
(***************************************************************************)
EXTENDS EventLoop, FiniteSetTheorems, SequenceTheorems, WellFoundedInduction, TLAPS

----------------------------------------------------------------------------
(* The invariant: sessions and jobs                                        *)

IsServer(v) ==
  v = [mClientList |-> v.mClientList, session |-> v.session, mTaskQueue |-> v.mTaskQueue,
       open |-> v.open, port |-> v.port]

IsFcn(f) == f = [x \in DOMAIN f |-> f[x]]

IsSession(s) == s = [mSocket |-> s.mSocket, mConnected |-> s.mConnected, sending |-> s.sending]

Jobs == [mOwner : Nat, mTask : {"SendGameStatus", "RacketAction"}, mExecutionTick : Int]

\* The session u, listed under its own handle.
Listed(v, u) ==
  v.session[u].mSocket \in DOMAIN v.mClientList /\ v.mClientList[v.session[u].mSocket] = u

\* A session is connected as long as it is listed; no two have the same handle.
SessionsAre(v) ==
  /\ \A u \in DOMAIN v.session :
       /\ u \in Nat \ {0} /\ IsSession(v.session[u])
       /\ v.session[u].mSocket \in SOCKETs \ {mListenSocket}
       /\ v.session[u].mConnected \in BOOLEAN
       /\ v.session[u].mConnected <=> Listed(v, u)
  /\ \A u, w \in DOMAIN v.session : v.session[u].mSocket = v.session[w].mSocket => u = w

ListIs(v) ==
  \A h \in DOMAIN v.mClientList :
    v.mClientList[h] \in DOMAIN v.session /\ v.session[v.mClientList[h]].mSocket = h

\* The sessions among held may be owned by nobody but who works on them.
SessionsOK(v, held) ==
  /\ IsServer(v) /\ IsFcn(v.mClientList) /\ IsFcn(v.session) /\ v.mTaskQueue \in Seq(Jobs)
  /\ SessionsAre(v) /\ ListIs(v)
  /\ Owners(v) \subseteq DOMAIN v.session
  /\ DOMAIN v.session \subseteq Owners(v) \cup held
  /\ v.open = {mListenSocket} \cup {v.session[u].mSocket : u \in DOMAIN v.session}

\* Due times: in order, and each within the delays there are.
InOrder(q) == \A i, j \in DOMAIN q : i < j => q[i].mExecutionTick <= q[j].mExecutionTick
InTime(q)  == \A i \in DOMAIN q : \E delay \in Delays :
                q[i].mExecutionTick = delay \/ q[i].mExecutionTick \in 1 .. delay
Aged(q)    == \A i \in DOMAIN q : \E delay \in Delays : q[i].mExecutionTick <= delay

----------------------------------------------------------------------------
(* The invariant: the port                                                 *)

Asked   == {"EPOLLIN"} \cup AlwaysReported
Watched == _epoll_events_to_afd_events(Asked)

IsPort(p) ==
  p = [sock |-> p.sock, tree |-> p.tree, update |-> p.update, deleted |-> p.deleted,
       groups |-> p.groups, active |-> p.active, open |-> p.open, iocp |-> p.iocp, afd |-> p.afd]

\* An ep_sock that waits to be polled, or is.
IsSock(s) ==
  /\ s = [socket |-> s.socket, poll_group |-> s.poll_group, user_data |-> s.socket,
          user_events |-> Asked, pending_events |-> s.pending_events,
          poll_status |-> s.poll_status, delete_pending |-> FALSE]
  /\ \/ s.poll_status = IDLE
     \/ s.poll_status = PENDING /\ s.pending_events = Asked

Idle(p, id) == p.sock[id].poll_status = IDLE

\* The tree and the ep_socks name each other.
TreeOK(p) ==
  /\ \A h \in DOMAIN p.tree : p.tree[h] \in DOMAIN p.sock /\ p.sock[p.tree[h]].socket = h
  /\ \A id \in DOMAIN p.sock :
       p.sock[id].socket \in DOMAIN p.tree /\ p.tree[p.sock[id].socket] = id

\* Those that are not polled queue, once each.
QueueOK(p) ==
  /\ p.update \in Seq(SockIds) /\ IsInjective(p.update) /\ p.deleted = << >>
  /\ ToSet(p.update) = {id \in DOMAIN p.sock : Idle(p, id)}

Sound(p) ==
  /\ IsPort(p) /\ p.open
  /\ DOMAIN p.sock \subseteq SockIds /\ IsFcn(p.sock) /\ \A id \in DOMAIN p.sock : IsSock(p.sock[id])
  /\ DOMAIN p.tree \subseteq SOCKETs /\ IsFcn(p.tree)
  /\ TreeOK(p) /\ QueueOK(p)

\* An ep_sock that is polled has one poll, with the driver or among the packets got.
Owed(p, got) ==
  /\ \A r \in p.afd : r = [sock |-> r.sock, mask |-> Watched]
  /\ \A c \in got : c = [sock |-> c.sock, outcome |-> c.outcome]
                    /\ c.outcome \subseteq Conditions \cup {"LOCAL_CLOSE"}
  /\ \A r \in p.afd \cup got : r.sock \in DOMAIN p.sock /\ ~Idle(p, r.sock)
  /\ \A c, d \in got : c.sock = d.sock => c = d
  /\ \A r \in p.afd, c \in got : r.sock # c.sock
  /\ \A id \in DOMAIN p.sock : ~Idle(p, id) => \E r \in p.afd \cup got : r.sock = id

\* What a poll of the driver waits for has not happened.
Waiting(p, open, cond) ==
  \A r \in p.afd : p.sock[r.sock].socket \in open /\ cond[p.sock[r.sock].socket] = {}

\* The poll of a live handle is over because something has happened.
Over(p, live, cond, got) ==
  \A c \in got : p.sock[c.sock].socket \in live =>
                   c.outcome \subseteq Conditions /\ cond[p.sock[c.sock].socket] # {}

\* The port of a server with these handles open, in these conditions.
PortOK(p, open, live, cond, got) ==
  /\ Sound(p) /\ Owed(p, got) /\ Waiting(p, open, cond) /\ Over(p, live, cond, got)
  /\ live \subseteq open /\ live \subseteq DOMAIN p.tree

\* The packets of the completion port.
Arrived(p) == ToSet(p.iocp)
IocpOK(p)  == p.iocp \in Seq(Arrived(p)) /\ IsInjective(p.iocp)

----------------------------------------------------------------------------
(* The invariant: the loop                                                 *)

Conds(peers) == [h \in SOCKETs |-> ConditionsOf(h, peers[h])]

PeersOK(peers) ==
  /\ peers = [h \in SOCKETs |-> peers[h]]
  /\ \A h \in SOCKETs :
       /\ peers[h] = [unread |-> peers[h].unread, shut |-> peers[h].shut, reset |-> peers[h].reset]
       /\ peers[h].shut \in BOOLEAN /\ peers[h].reset \in BOOLEAN
       /\ peers[h].unread \in Seq(IF h = mListenSocket THEN {"connect"} ELSE Packets)
  /\ ~peers[mListenSocket].shut /\ ~peers[mListenSocket].reset

\* Is every handle known to epoll under its own name?
NoReuse == ~ReuseAtOnce /\ Cardinality(SOCKETs) <= Cardinality(SockIds)

\* The handles whose polls are theirs.
Live(v) == IF NoReuse THEN v.open ELSE {mListenSocket}

WatchedOK(v, peers) ==
  PortOK(v.port, v.open, Live(v), Conds(peers), Arrived(v.port)) /\ IocpOK(v.port)

\* What holds of the server between two calls.
ServerOK(v, peers) == SessionsOK(v, {}) /\ WatchedOK(v, peers)

\* A handle with events not looked at yet, or that is read from, is not polled.
Unpolled(v, h) == h \in DOMAIN v.port.tree /\ Idle(v.port, v.port.tree[h])

BatchOK ==
  /\ batch \in Seq(SOCKETs) /\ IsInjective(batch)
  /\ \A h \in ToSet(batch) : Unpolled(server, h)
  /\ mListenSocket \in ToSet(batch) => net[mListenSocket].unread # << >>
  /\ phase \in {"entering", "polling", "updating", "flushing"} => batch = << >>

ReceivingOK ==
  IF phase = "receiving"
  THEN receiving \in DOMAIN server.session /\ Unpolled(server, server.session[receiving].mSocket)
  ELSE receiving = NoSession

PollingOK ==
  /\ server.port.active = IF phase = "polling" THEN 1 ELSE 0
  /\ phase = "polling" => server.port.update = << >>

TimesOK ==
  /\ untilUpdate \in -MaxTurn .. UPDATE_INTERVAL /\ (phase # "updating" => untilUpdate >= 0)
  /\ InOrder(server.mTaskQueue) /\ InTime(server.mTaskQueue)

IssuedOK ==
  /\ mCurrentIssuedId \in Nat
  /\ mCurrentIssuedId + Len(net[mListenSocket].unread) <= MaxConnects
  /\ \A u \in DOMAIN server.session : u <= mCurrentIssuedId

(* The inductive invariant.                                                *)
IInv ==
  /\ phase \in Phases
  /\ ServerOK(server, net) /\ PeersOK(net)
  /\ BatchOK /\ ReceivingOK /\ PollingOK /\ TimesOK /\ IssuedOK

----------------------------------------------------------------------------
(* Sequences.                                                              *)

(* A set of numbers with 0 and with the successor of each of its members has
   every number: the induction behind each loop over a queue.              *)
LEMMA SetInduction ==
  ASSUME NEW T, 0 \in T, \A n \in Nat : n \in T => n + 1 \in T
  PROVE  \A n \in Nat : n \in T
<1> DEFINE Rest == {n \in Nat : n \notin T}
           R == OpToRel(<, Nat)
<1>1. SUFFICES ASSUME Rest # {} PROVE FALSE
  BY DEF Rest
<1>2. PICK x \in Rest : \A y \in Rest : <<y, x>> \notin R
  <2>1. Rest \subseteq Nat /\ IsWellFoundedOn(R, Nat)
    BY NatLessThanWellFounded
  <2> HIDE DEF Rest, R
  <2> QED BY <1>1, <2>1, WFMin
<1>3. x \in Nat /\ x # 0 /\ x \notin T
  BY <1>2
<1>4. x - 1 \in Nat /\ x - 1 < x /\ (x - 1) + 1 = x
  BY <1>3, SMT
<1>5. x - 1 \notin Rest
  <2>1. <<x - 1, x>> \in R
    BY <1>3, <1>4 DEF OpToRel
  <2> QED BY <1>2, <2>1
<1> QED BY <1>3, <1>4, <1>5

(* A sequence of states that starts well and goes on well ends well.       *)
LEMMA EndsWell ==
  ASSUME NEW n \in Nat, NEW X, NEW f, f[0] \in X[0],
         \A i \in 1 .. n : f[i - 1] \in X[i - 1] => f[i] \in X[i]
  PROVE  f[n] \in X[n]
<1> DEFINE T == {m \in Nat : m <= n => f[m] \in X[m]}
<1>1. 0 \in T
  OBVIOUS
<1>2. ASSUME NEW m \in Nat, m \in T PROVE m + 1 \in T
  <2> SUFFICES ASSUME m + 1 <= n PROVE f[m + 1] \in X[m + 1]
    OBVIOUS
  <2>1. m + 1 \in 1 .. n /\ (m + 1) - 1 = m /\ f[m] \in X[m]
    BY <1>2
  <2> HIDE DEF T
  <2> QED BY <2>1
<1>3. \A m \in Nat : m \in T
  <2> HIDE DEF T
  <2> QED BY <1>1, <1>2, SetInduction
<1> QED BY <1>3

(* A sequence that has each element of a finite set once.                  *)
LEMMA SetToSeqIs ==
  ASSUME NEW S, IsFiniteSet(S)
  PROVE  /\ SetToSeq(S) \in Seq(S) /\ IsInjective(SetToSeq(S)) /\ ToSet(SetToSeq(S)) = S
         /\ DOMAIN SetToSeq(S) = 1 .. Len(SetToSeq(S)) /\ Len(SetToSeq(S)) \in Nat
<1> DEFINE n == Cardinality(S)
           s == SetToSeq(S)
<1>1. n \in Nat /\ \E f \in [1 .. n -> S] : IsInjective(f)
  <2>1. n \in Nat /\ ExistsBijection(1 .. n, S)
    BY FS_CardinalityType
  <2>2. PICK f \in Bijection(1 .. n, S) : TRUE
    BY <2>1 DEF ExistsBijection
  <2> HIDE DEF n
  <2>3. f \in [1 .. n -> S] /\ IsInjective(f)
    BY <2>2 DEF Bijection, Injection
  <2> QED BY <2>1, <2>3
<1>2. s \in [1 .. n -> S] /\ IsInjective(s)
  BY <1>1 DEF SetToSeq
<1>3. IsFiniteSet(1 .. n) /\ Cardinality(1 .. n) = n
  BY <1>1, FS_Interval
<1> HIDE DEF s
<1>4. s \in Injection(1 .. n, S)
  BY <1>2 DEF Injection
<1>5. s \in Surjection(1 .. n, S)
  BY <1>3, <1>4, FS_Injection
<1> HIDE DEF n
<1>6. ToSet(s) = S
  BY <1>2, <1>5 DEF ToSet, Surjection
<1>7. s \in Seq(S) /\ Len(s) = n /\ DOMAIN s = 1 .. n
  BY <1>1, <1>2
<1> QED BY <1>1, <1>2, <1>6, <1>7 DEF s

(* Appending an element that a queue does not have.                        *)
LEMMA AppendIs ==
  ASSUME NEW S, NEW q \in Seq(S), NEW e \in S
  PROVE  /\ Append(q, e) \in Seq(S) /\ ToSet(Append(q, e)) = ToSet(q) \cup {e}
         /\ IsInjective(q) /\ e \notin ToSet(q) => IsInjective(Append(q, e))
<1>1. /\ Len(q) \in Nat /\ DOMAIN q = 1 .. Len(q)
      /\ Append(q, e) \in Seq(S) /\ Len(Append(q, e)) = Len(q) + 1
      /\ \A i \in 1 .. Len(q) : Append(q, e)[i] = q[i]
      /\ Append(q, e)[Len(q) + 1] = e
  BY LenProperties, AppendProperties
<1>2. DOMAIN Append(q, e) = 1 .. Len(q) + 1
  BY <1>1, LenProperties
<1>3. ToSet(Append(q, e)) = ToSet(q) \cup {e}
  BY <1>1, <1>2 DEF ToSet
<1>4. ASSUME IsInjective(q), e \notin ToSet(q) PROVE IsInjective(Append(q, e))
  BY <1>1, <1>2, <1>4 DEF IsInjective, ToSet
<1> QED BY <1>1, <1>3, <1>4

(* A queue without its head.                                               *)
LEMMA TailIs ==
  ASSUME NEW S, NEW q \in Seq(S), q # << >>
  PROVE  /\ Tail(q) \in Seq(S) /\ Head(q) = q[1] /\ Head(q) \in ToSet(q)
         /\ Len(Tail(q)) = Len(q) - 1 /\ Len(q) \in Nat \ {0}
         /\ \A j \in 1 .. Len(q) - 1 : Tail(q)[j] = q[j + 1]
         /\ ToSet(q) = ToSet(Tail(q)) \cup {Head(q)}
         /\ IsInjective(q) => IsInjective(Tail(q)) /\ Head(q) \notin ToSet(Tail(q))
<1>1. Len(q) \in Nat /\ DOMAIN q = 1 .. Len(q) /\ Len(q) # 0
  BY LenProperties, EmptySeq
<1>2. /\ Tail(q) \in Seq(S) /\ Len(Tail(q)) = Len(q) - 1 /\ Head(q) = q[1]
      /\ \A j \in 1 .. Len(q) - 1 : Tail(q)[j] = q[j + 1]
  BY HeadTailProperties
<1>3. PICK n \in Nat, t \in Seq(S) : n = Len(q) - 1 /\ t = Tail(q)
  <2>1. Len(q) - 1 \in Nat
    BY <1>1
  <2> QED BY <1>2, <2>1
<1>4. /\ DOMAIN t = 1 .. n /\ DOMAIN q = 1 .. n + 1 /\ \A j \in 1 .. n : t[j] = q[j + 1]
      /\ Head(q) = q[1]
  <2>1. DOMAIN t = 1 .. Len(t)
    BY LenProperties
  <2> QED BY <1>1, <1>2, <1>3, <2>1
<1>5. Head(q) \in ToSet(q)
  BY <1>4 DEF ToSet
<1>6. ToSet(q) = ToSet(t) \cup {Head(q)}
  <2>1. ASSUME NEW x \in ToSet(q) PROVE x \in ToSet(t) \cup {Head(q)}
    <3>1. PICK i \in 1 .. n + 1 : x = q[i]
      BY <1>4 DEF ToSet
    <3>2. i = 1 \/ (i - 1 \in 1 .. n /\ (i - 1) + 1 = i)
      OBVIOUS
    <3> QED BY <1>4, <3>1, <3>2 DEF ToSet
  <2>2. ToSet(t) \subseteq ToSet(q)
    <3>1. \A j \in 1 .. n : j + 1 \in 1 .. n + 1
      OBVIOUS
    <3> QED BY <1>4, <3>1 DEF ToSet
  <2> QED BY <1>5, <2>1, <2>2
<1>7. IsInjective(q) => IsInjective(t) /\ Head(q) \notin ToSet(t)
  <2>1. \A j \in 1 .. n : j + 1 \in 1 .. n + 1 /\ j + 1 # 1 /\ 1 \in 1 .. n + 1
    OBVIOUS
  <2>2. \A i, j \in 1 .. n : i + 1 = j + 1 => i = j
    OBVIOUS
  <2>3. ASSUME IsInjective(q) PROVE IsInjective(t) /\ Head(q) \notin ToSet(t)
    <3>1. \A a, b \in 1 .. n + 1 : q[a] = q[b] => a = b
      BY <1>4, <2>3 DEF IsInjective
    <3>2. IsInjective(t)
      <4> SUFFICES ASSUME NEW a \in 1 .. n, NEW b \in 1 .. n, t[a] = t[b] PROVE a = b
        BY <1>4 DEF IsInjective
      <4>1. q[a + 1] = q[b + 1]
        BY <1>4
      <4> QED BY <2>1, <2>2, <3>1, <4>1
    <3>3. ASSUME NEW j \in 1 .. n PROVE t[j] # q[1]
      BY <1>4, <2>1, <3>1
    <3> QED BY <1>4, <3>2, <3>3 DEF ToSet
  <2> QED BY <2>3
<1> QED BY <1>1, <1>2, <1>3, <1>5, <1>6, <1>7

(* Removing the head leaves the tail, and removing what is not there, all. *)
LEMMA RemovedIs ==
  ASSUME NEW S, NEW q \in Seq(S), NEW e
  PROVE  /\ e \notin ToSet(q) => RemoveFirst(q, e) = q
         /\ q # << >> /\ e = q[1] => RemoveFirst(q, e) = Tail(q)
<1>1. Len(q) \in Nat /\ DOMAIN q = 1 .. Len(q)
  BY LenProperties
<1>2. e \notin ToSet(q) => RemoveFirst(q, e) = q
  BY <1>1 DEF RemoveFirst, ToSet
<1>3. ASSUME q # << >>, e = q[1] PROVE RemoveFirst(q, e) = Tail(q)
  <2>1. Len(q) # 0 /\ 1 \in 1 .. Len(q)
    BY <1>1, <1>3, EmptySeq
  <2>2. RemoveFirst(q, e) = RemoveAt(q, 1)
    <3>1. 1 \in {i \in 1 .. Len(q) : q[i] = e}
      BY <1>3, <2>1
    <3>2. Min({i \in 1 .. Len(q) : q[i] = e}) = 1
      BY <1>1, <3>1 DEF Min
    <3>3. {i \in 1 .. Len(q) : q[i] = e} # {} /\ \E i \in 1 .. Len(q) : q[i] = e
      BY <3>1
    <3> QED BY <3>2, <3>3 DEF RemoveFirst, SelectInSeq
  <2>3. RemoveFirst(q, e) = SubSeq(q, 1, 0) \o SubSeq(q, 2, Len(q))
    <3>1. 1 - 1 = 0 /\ 1 + 1 = 2
      OBVIOUS
    <3> QED BY <2>2, <3>1 DEF RemoveAt
  <2>4. SubSeq(q, 1, 0) = << >>
    BY SubSeqEmpty
  <2>5. Tail(q) = SubSeq(q, 2, Len(q)) /\ Tail(q) \in Seq(S)
    BY <1>3, TailIsSubSeq, HeadTailProperties
  <2> QED BY <2>3, <2>4, <2>5, ConcatEmptySeq
<1> QED BY <1>2, <1>3

\* e comes at place m of q.
Inserted(q, m, e, r) ==
  /\ DOMAIN r = 1 .. Len(q) + 1 /\ ToSet(r) = ToSet(q) \cup {e}
  /\ \A i \in 1 .. Len(q) + 1 :
       r[i] = IF i < m THEN q[i] ELSE IF i = m THEN e ELSE q[i - 1]

(* A queue with an element put in.                                         *)
LEMMA InsertedIs ==
  ASSUME NEW S, NEW q \in Seq(S), NEW e \in S, NEW m \in 1 .. Len(q) + 1,
         NEW r, r = InsertAt(q, m, e)
  PROVE  r \in Seq(S) /\ Inserted(q, m, e, r)
<1>1. PICK n \in Nat : n = Len(q) /\ DOMAIN q = 1 .. n /\ \A i \in 1 .. n : q[i] \in S
  BY LenProperties, ElementOfSeq
<1>2. PICK a, b : a = SubSeq(q, 1, m - 1) /\ b = SubSeq(q, m, n)
  OBVIOUS
<1>3. m \in Nat /\ 1 <= m /\ m <= n + 1
  BY <1>1
<1>4. a \in Seq(S) /\ Len(a) = m - 1 /\ \A i \in 1 .. m - 1 : a[i] = q[i]
  <2>1. \A i \in 1 .. m - 1 : q[i] \in S
    BY <1>1, <1>3
  <2>2. 1 \in Int /\ m - 1 \in Int
    BY <1>3
  <2>3. /\ a \in Seq(S) /\ Len(a) = IF 1 <= m - 1 THEN (m - 1) - 1 + 1 ELSE 0
        /\ \A i \in 1 .. (m - 1) - 1 + 1 : a[i] = q[1 + i - 1]
    BY <1>2, <2>1, <2>2, SubSeqProperties
  <2>4. (m - 1) - 1 + 1 = m - 1 /\ \A i \in 1 .. m - 1 : 1 + i - 1 = i
    BY <1>3
  <2>5. (IF 1 <= m - 1 THEN m - 1 ELSE 0) = m - 1
    BY <1>3
  <2> QED BY <2>3, <2>4, <2>5
<1>5. b \in Seq(S) /\ Len(b) = n - m + 1 /\ \A i \in 1 .. n - m + 1 : b[i] = q[m + i - 1]
  <2>1. \A i \in m .. n : q[i] \in S
    BY <1>1, <1>3
  <2>2. m \in Int /\ n \in Int
    BY <1>1, <1>3
  <2>3. /\ b \in Seq(S) /\ Len(b) = IF m <= n THEN n - m + 1 ELSE 0
        /\ \A i \in 1 .. n - m + 1 : b[i] = q[m + i - 1]
    BY <1>2, <2>1, <2>2, SubSeqProperties
  <2>4. (IF m <= n THEN n - m + 1 ELSE 0) = n - m + 1
    BY <1>1, <1>3
  <2> QED BY <2>3, <2>4
<1>6. PICK c : c = a \o <<e>>
  OBVIOUS
<1>7. /\ c \in Seq(S) /\ Len(c) = m /\ \A i \in 1 .. m : c[i] = IF i < m THEN q[i] ELSE e
  <2>1. <<e>> \in Seq(S) /\ Len(<<e>>) = 1 /\ <<e>>[1] = e
    OBVIOUS
  <2>2. /\ c \in Seq(S) /\ Len(c) = Len(a) + 1
        /\ \A i \in 1 .. Len(a) + 1 : c[i] = IF i <= Len(a) THEN a[i] ELSE <<e>>[i - Len(a)]
    BY <1>4, <1>6, <2>1, ConcatProperties
  <2>3. Len(a) + 1 = m
    BY <1>3, <1>4
  <2>4. ASSUME NEW i \in 1 .. m PROVE c[i] = IF i < m THEN q[i] ELSE e
    <3>1. CASE i < m
      <4>1. i <= Len(a) /\ i \in 1 .. m - 1
        BY <1>3, <1>4, <3>1
      <4> QED BY <1>4, <2>2, <2>3, <3>1, <4>1
    <3>2. CASE ~(i < m)
      <4>1. ~(i <= Len(a)) /\ i - Len(a) = 1
        BY <1>3, <1>4, <3>2
      <4> QED BY <2>1, <2>2, <2>3, <3>2, <4>1
    <3> QED BY <3>1, <3>2
  <2> QED BY <2>2, <2>3, <2>4
<1>8. r = c \o b
  BY <1>1, <1>2, <1>6 DEF InsertAt
<1>9. /\ r \in Seq(S) /\ Len(r) = m + (n - m + 1)
      /\ \A i \in 1 .. m + (n - m + 1) : r[i] = IF i <= m THEN c[i] ELSE b[i - m]
  <2>1. /\ r \in Seq(S) /\ Len(r) = Len(c) + Len(b)
        /\ \A i \in 1 .. Len(c) + Len(b) : r[i] = IF i <= Len(c) THEN c[i] ELSE b[i - Len(c)]
    <3>1. c \in Seq(S) /\ b \in Seq(S)
      BY <1>5, <1>7
    <3>2. c \o b \in Seq(S) /\ Len(c \o b) = Len(c) + Len(b)
      BY <3>1, ConcatProperties
    <3>3. \A i \in 1 .. Len(c) + Len(b) : (c \o b)[i] = IF i <= Len(c) THEN c[i] ELSE b[i - Len(c)]
      BY <3>1, ConcatProperties
    <3> QED BY <1>8, <3>2, <3>3
  <2>2. Len(c) = m /\ Len(b) = n - m + 1
    BY <1>5, <1>7
  <2> QED BY <2>1, <2>2
<1>10. m + (n - m + 1) = n + 1
  BY <1>1, <1>3
<1>11. r \in Seq(S) /\ Len(r) = n + 1 /\ DOMAIN r = 1 .. n + 1
  BY <1>9, <1>10, LenProperties
<1>12. ASSUME NEW i \in 1 .. n + 1
       PROVE  r[i] = IF i < m THEN q[i] ELSE IF i = m THEN e ELSE q[i - 1]
  <2>1. r[i] = IF i <= m THEN c[i] ELSE b[i - m]
    BY <1>9, <1>10
  <2>2. CASE i <= m
    <3>1. i \in 1 .. m /\ (i < m \/ i = m)
      BY <1>3, <2>2
    <3> QED BY <1>7, <2>1, <2>2, <3>1
  <2>3. CASE ~(i <= m)
    <3>1. i - m \in 1 .. n - m + 1 /\ m + (i - m) - 1 = i - 1 /\ ~(i < m) /\ i # m
      BY <1>3, <2>3
    <3> QED BY <1>5, <2>1, <2>3, <3>1
  <2> QED BY <2>2, <2>3
<1>13. ToSet(r) = ToSet(q) \cup {e}
  <2>1. ASSUME NEW x \in ToSet(r) PROVE x \in ToSet(q) \cup {e}
    <3>1. PICK i \in 1 .. n + 1 : x = r[i]
      BY <1>11, <2>1 DEF ToSet
    <3>2. (i < m => i \in 1 .. n) /\ (i > m => i - 1 \in 1 .. n)
      BY <1>3
    <3>3. i < m \/ i = m \/ i > m
      BY <1>3
    <3> QED BY <1>1, <1>12, <3>1, <3>2, <3>3 DEF ToSet
  <2>2. ASSUME NEW x \in ToSet(q) PROVE x \in ToSet(r)
    <3>1. PICK i \in 1 .. n : x = q[i]
      BY <1>1, <2>2 DEF ToSet
    <3>2. CASE i < m
      <4>1. i \in 1 .. n + 1
        OBVIOUS
      <4> QED BY <1>11, <1>12, <3>1, <3>2, <4>1 DEF ToSet
    <3>3. CASE ~(i < m)
      <4>1. i + 1 \in 1 .. n + 1 /\ ~(i + 1 < m) /\ i + 1 # m /\ (i + 1) - 1 = i
        BY <1>3, <3>3
      <4> QED BY <1>11, <1>12, <3>1, <4>1 DEF ToSet
    <3> QED BY <3>2, <3>3
  <2>3. e \in ToSet(r)
    <3>1. m \in 1 .. n + 1
      BY <1>3
    <3>2. r[m] = e
      BY <1>3, <1>12, <3>1
    <3> QED BY <1>11, <3>1, <3>2 DEF ToSet
  <2> QED BY <2>1, <2>2, <2>3
<1> QED BY <1>1, <1>11, <1>12, <1>13 DEF Inserted

(* Numbers have a least one.                                               *)
LEMMA LeastIs ==
  ASSUME NEW S \in SUBSET Nat, S # {}
  PROVE  \E x \in S : \A y \in S : x <= y
<1> DEFINE R == OpToRel(<, Nat)
<1>1. IsWellFoundedOn(R, Nat)
  BY NatLessThanWellFounded
<1> HIDE DEF R
<1>2. PICK x \in S : \A y \in S : <<y, x>> \notin R
  BY <1>1, WFMin
<1>3. ASSUME NEW y \in S, ~(x <= y) PROVE FALSE
  <2>1. y < x /\ x \in Nat /\ y \in Nat
    BY <1>3
  <2>2. <<y, x>> \in R
    BY <2>1 DEF R, OpToRel
  <2> QED BY <1>2, <2>2
<1> QED BY <1>3

(* A finite set of handles can be walked in order, each handle once.       *)
LEMMA AscendingIs ==
  ASSUME NEW H \in SUBSET Nat, IsFiniteSet(H), NEW s, s = Ascending(H)
  PROVE  s \in Seq(H) /\ IsInjective(s)
<1> DEFINE Rises(m, f) == \A i, j \in 1 .. m : i < j => f[i] < f[j]
           T == {m \in Nat : \A S \in SUBSET Nat :
                  IsFiniteSet(S) /\ Cardinality(S) = m => \E f \in [1 .. m -> S] : Rises(m, f)}
<1>1. 0 \in T
  <2> DEFINE f == [i \in 1 .. 0 |-> 0]
  <2>1. \A S : f \in [1 .. 0 -> S]
    OBVIOUS
  <2>2. Rises(0, f)
    OBVIOUS
  <2> QED BY <2>1, <2>2
<1>2. ASSUME NEW m \in Nat, m \in T PROVE m + 1 \in T
  <2> SUFFICES ASSUME NEW S \in SUBSET Nat, IsFiniteSet(S), Cardinality(S) = m + 1
               PROVE  \E f \in [1 .. m + 1 -> S] : Rises(m + 1, f)
    OBVIOUS
  <2>1. S # {}
    BY FS_EmptySet
  <2>2. PICK x \in S : \A y \in S : x <= y
    BY <2>1, LeastIs
  <2>3. IsFiniteSet(S \ {x}) /\ Cardinality(S \ {x}) = m
    <3>1. IsFiniteSet(S \ {x}) /\ Cardinality(S \ {x}) = Cardinality(S) - 1
      <4> HIDE DEF T
      <4> QED BY <2>2, FS_RemoveElement
    <3>2. (m + 1) - 1 = m
      OBVIOUS
    <3> QED BY <3>1, <3>2
  <2>4. PICK g \in [1 .. m -> S \ {x}] : Rises(m, g)
    BY <1>2, <2>3
  <2> DEFINE f == [i \in 1 .. m + 1 |-> IF i = 1 THEN x ELSE g[i - 1]]
  <2>5. \A i \in 1 .. m + 1 : i # 1 => i - 1 \in 1 .. m
    OBVIOUS
  <2>6. f \in [1 .. m + 1 -> S]
    BY <2>4, <2>5
  <2>7. ASSUME NEW i \in 1 .. m + 1, NEW j \in 1 .. m + 1, i < j PROVE f[i] < f[j]
    <3>1. j # 1 /\ j - 1 \in 1 .. m /\ f[j] = g[j - 1] /\ g[j - 1] \in S \ {x}
      BY <2>4, <2>5, <2>7
    <3>2. CASE i = 1
      <4>1. x <= g[j - 1] /\ x # g[j - 1] /\ x \in Nat /\ g[j - 1] \in Nat
        BY <2>2, <3>1
      <4> QED BY <3>1, <3>2, <4>1
    <3>3. CASE i # 1
      <4>1. i - 1 \in 1 .. m /\ i - 1 < j - 1
        BY <2>5, <2>7, <3>3
      <4> QED BY <2>4, <3>1, <3>3, <4>1
    <3> QED BY <3>2, <3>3
  <2> QED BY <2>6, <2>7
<1>3. Cardinality(H) \in Nat
  BY FS_CardinalityType
<1>4. PICK n \in Nat : n = Cardinality(H)
  BY <1>3
<1>5. n \in T
  <2> HIDE DEF T
  <2> QED BY <1>1, <1>2, SetInduction
<1>6. \E f \in [1 .. n -> H] : Rises(n, f)
  BY <1>4, <1>5
<1>7. s \in [1 .. n -> H] /\ \A i, j \in DOMAIN s : i < j => s[i] < s[j]
  BY <1>4, <1>6 DEF Ascending
<1>8. IsInjective(s)
  <2> SUFFICES ASSUME NEW i \in 1 .. n, NEW j \in 1 .. n, s[i] = s[j] PROVE i = j
    BY <1>7 DEF IsInjective
  <2>1. s[i] \in Nat /\ s[j] \in Nat
    BY <1>7
  <2>2. ~(i < j) /\ ~(j < i)
    BY <1>7, <2>1
  <2> QED BY <2>2
<1> QED BY <1>7, <1>8

(* The jobs that are due no later than a new one come first.               *)
LEMMA DueFirst ==
  ASSUME NEW q \in Seq(Jobs), InOrder(q), NEW after \in Int,
         NEW m, m = Cardinality({i \in DOMAIN q : q[i].mExecutionTick <= after})
  PROVE  /\ m \in 0 .. Len(q)
         /\ \A i \in 1 .. Len(q) : q[i].mExecutionTick <= after <=> i <= m
<1> DEFINE B == {i \in DOMAIN q : q[i].mExecutionTick <= after}
           C == {i \in 1 .. Len(q) + 1 : i \notin B}
<1>1. Len(q) \in Nat /\ DOMAIN q = 1 .. Len(q) /\ \A i \in 1 .. Len(q) : q[i].mExecutionTick \in Int
  <2>1. \A i \in 1 .. Len(q) : q[i] \in Jobs
    BY ElementOfSeq
  <2> QED BY <2>1, LenProperties DEF Jobs
<1>2. PICK n \in Nat : n = Len(q)
  BY <1>1
<1>3. n + 1 \in C /\ C \in SUBSET Nat
  BY <1>1, <1>2
<1>4. PICK x \in C : \A y \in C : x <= y
  <2> HIDE DEF C
  <2> QED BY <1>3, LeastIs
<1>5. x \in 1 .. n + 1 /\ x \notin B
  BY <1>2, <1>4
<1>6. ASSUME NEW i \in 1 .. n PROVE i \in B <=> i < x
  <2>1. CASE i < x
    <3>1. i \notin C /\ i \in 1 .. n + 1
      BY <1>3, <1>4, <1>5, <2>1
    <3> QED BY <1>2, <2>1, <3>1
  <2>2. CASE ~(i < x)
    <3>1. x <= i /\ x \in 1 .. n
      BY <1>5, <2>2
    <3>2. q[x].mExecutionTick <= q[i].mExecutionTick /\ ~(q[x].mExecutionTick <= after)
      BY <1>1, <1>2, <1>5, <3>1 DEF InOrder
    <3> QED BY <1>1, <1>2, <2>2, <3>1, <3>2
  <2> QED BY <2>1, <2>2
<1>7. B = 1 .. x - 1
  <2>1. B \subseteq 1 .. n
    BY <1>1, <1>2
  <2>2. \A i \in 1 .. n : i < x <=> i \in 1 .. x - 1
    BY <1>5
  <2>3. 1 .. x - 1 \subseteq 1 .. n
    BY <1>5
  <2> HIDE DEF B
  <2> QED BY <1>6, <2>1, <2>2, <2>3
<1>8. m = x - 1
  <2>1. 1 \in Int /\ x - 1 \in Int /\ x - 1 >= 0
    BY <1>5
  <2>2. Cardinality(1 .. x - 1) = IF 1 > x - 1 THEN 0 ELSE (x - 1) - 1 + 1
    BY <2>1, FS_Interval
  <2>3. m = Cardinality(B)
    OBVIOUS
  <2> HIDE DEF B
  <2> QED BY <1>5, <1>7, <2>1, <2>2, <2>3
<1>9. m \in 0 .. n
  BY <1>5, <1>8
<1>10. ASSUME NEW i \in 1 .. n PROVE q[i].mExecutionTick <= after <=> i <= m
  BY <1>1, <1>2, <1>5, <1>6, <1>8
<1> QED BY <1>2, <1>9, <1>10

(* A sequence of a set's elements is one of what it holds.                 *)
LEMMA SeqOfItsOwn ==
  ASSUME NEW S, NEW q \in Seq(S)
  PROVE  q \in Seq(ToSet(q))
<1>1. DOMAIN q = 1 .. Len(q) /\ Len(q) \in Nat /\ q = [i \in 1 .. Len(q) |-> q[i]]
  BY LenProperties
<1>2. \A i \in 1 .. Len(q) : q[i] \in ToSet(q)
  BY <1>1 DEF ToSet
<1> QED BY <1>1, <1>2, IsASeq

(* A sequence and another one, with other elements, after it.              *)
LEMMA ConcatIs ==
  ASSUME NEW S, NEW a \in Seq(S), NEW b \in Seq(S), IsInjective(a), IsInjective(b),
         ToSet(a) \cap ToSet(b) = {}, NEW c, c = a \o b
  PROVE  /\ IsInjective(c) /\ c \in Seq(ToSet(c))
         /\ \A x : x \in ToSet(c) <=> x \in ToSet(a) \/ x \in ToSet(b)
<1>1. PICK m \in Nat, n \in Nat : m = Len(a) /\ n = Len(b)
  BY LenProperties
<1>2. /\ c \in Seq(S) /\ Len(c) = m + n /\ DOMAIN c = 1 .. m + n
      /\ DOMAIN a = 1 .. m /\ DOMAIN b = 1 .. n
      /\ \A i \in 1 .. m + n : c[i] = IF i <= m THEN a[i] ELSE b[i - m]
  <2>1. c \in Seq(S) /\ Len(c) = Len(a) + Len(b)
    BY ConcatProperties
  <2>2. \A i \in 1 .. Len(a) + Len(b) : c[i] = IF i <= Len(a) THEN a[i] ELSE b[i - Len(a)]
    BY ConcatProperties
  <2>3. DOMAIN c = 1 .. Len(c) /\ DOMAIN a = 1 .. Len(a) /\ DOMAIN b = 1 .. Len(b)
    BY <2>1, LenProperties
  <2> QED BY <1>1, <2>1, <2>2, <2>3
<1>3. ASSUME NEW i \in 1 .. m + n
      PROVE  \/ i \in 1 .. m /\ c[i] = a[i]
             \/ i - m \in 1 .. n /\ c[i] = b[i - m]
  BY <1>2
<1>4. \A i \in 1 .. n : m + i \in 1 .. m + n /\ c[m + i] = b[i]
  <2> SUFFICES ASSUME NEW i \in 1 .. n PROVE m + i \in 1 .. m + n /\ c[m + i] = b[i]
    OBVIOUS
  <2>1. m + i \in 1 .. m + n /\ ~(m + i <= m) /\ (m + i) - m = i
    OBVIOUS
  <2> QED BY <1>2, <2>1
<1>5. \A i \in 1 .. m : i \in 1 .. m + n /\ c[i] = a[i]
  BY <1>2
<1>6. \A i \in 1 .. m, j \in 1 .. n : a[i] # b[j]
  BY <1>2 DEF ToSet
<1>7. \A i, j \in 1 .. m : a[i] = a[j] => i = j
  BY <1>2 DEF IsInjective
<1>8. \A i, j \in 1 .. n : b[i] = b[j] => i = j
  BY <1>2 DEF IsInjective
<1>9. ASSUME NEW i \in 1 .. m + n, NEW j \in 1 .. m + n, c[i] = c[j] PROVE i = j
  <2>1. CASE i \in 1 .. m /\ c[i] = a[i] /\ j \in 1 .. m /\ c[j] = a[j]
    BY <1>7, <1>9, <2>1
  <2>2. CASE i - m \in 1 .. n /\ c[i] = b[i - m] /\ j - m \in 1 .. n /\ c[j] = b[j - m]
    <3>1. i - m = j - m
      BY <1>8, <1>9, <2>2
    <3> QED BY <3>1
  <2>3. ~(i \in 1 .. m /\ c[i] = a[i] /\ j - m \in 1 .. n /\ c[j] = b[j - m])
    BY <1>9, <1>6
  <2>4. ~(j \in 1 .. m /\ c[j] = a[j] /\ i - m \in 1 .. n /\ c[i] = b[i - m])
    BY <1>9, <1>6
  <2> QED BY <1>3, <2>1, <2>2, <2>3, <2>4
<1>10. ToSet(c) \subseteq ToSet(a) \cup ToSet(b)
  BY <1>2, <1>3 DEF ToSet
<1>11. ToSet(a) \subseteq ToSet(c)
  BY <1>2, <1>5 DEF ToSet
<1>12. ToSet(b) \subseteq ToSet(c)
  <2>1. ASSUME NEW i \in 1 .. n PROVE b[i] \in ToSet(c)
    <3>1. m + i \in DOMAIN c /\ c[m + i] = b[i]
      BY <1>2, <1>4
    <3> QED BY <3>1 DEF ToSet
  <2>2. ToSet(b) = {b[i] : i \in 1 .. n}
    <3>1. DOMAIN b = 1 .. n
      BY <1>2
    <3> QED BY <3>1 DEF ToSet
  <2> QED BY <2>1, <2>2
<1>13. IsInjective(c)
  BY <1>2, <1>9 DEF IsInjective
<1>14. c \in Seq(ToSet(c))
  BY <1>2, SeqOfItsOwn
<1> QED BY <1>10, <1>11, <1>12, <1>13, <1>14

----------------------------------------------------------------------------
(* The port: the driver.                                                   *)

\* Everything but the driver's side is the same.
ButDriver(p, q) ==
  /\ IsPort(q) /\ q.sock = p.sock /\ q.tree = p.tree /\ q.update = p.update
  /\ q.deleted = p.deleted /\ q.active = p.active /\ q.open = p.open

\* The packets of polls that are over.
Finished(R, outcome) == {Completion(r.sock, outcome[r]) : r \in R}

(* What the user has asked for does not depend on what the driver does.    *)
LEMMA DriverApart ==
  ASSUME NEW p, NEW q, Sound(p), ButDriver(p, q)
  PROVE  Sound(q)
BY DEF Sound, ButDriver, TreeOK, QueueOK, Idle

DriverDid(p, R, outcome, q) ==
  /\ Sound(q) /\ Owed(q, Arrived(q)) /\ IocpOK(q) /\ ButDriver(p, q)
  /\ q.afd = p.afd \ R /\ Arrived(q) = Arrived(p) \cup Finished(R, outcome)

(* The driver finishes some of the polls it has.                           *)
LEMMA FinishedIs ==
  ASSUME NEW p, Sound(p), Owed(p, Arrived(p)), IocpOK(p), NEW R \in SUBSET p.afd,
         NEW outcome \in [R -> SUBSET (Conditions \cup {"LOCAL_CLOSE"})],
         NEW q, q = DriverCompletes(p, outcome)
  PROVE  DriverDid(p, R, outcome, q)
<1>1. PICK C : C = Finished(R, outcome)
  OBVIOUS
<1>2. \A r \in p.afd : r = [sock |-> r.sock, mask |-> Watched] /\ r.sock \in SockIds
  BY DEF Owed, Sound
<1>3. IsFiniteSet(C)
  <2> DEFINE f == [r \in R |-> r.sock]
             g == [r \in R |-> Completion(r.sock, outcome[r])]
  <2>1. f \in Injection(R, SockIds)
    <3>1. \A a, b \in R : a.sock = b.sock => a = b
      BY <1>2
    <3> QED BY <1>2, <3>1 DEF Injection, IsInjective
  <2>2. IsFiniteSet(R)
    <3> HIDE DEF f
    <3> QED BY <2>1, SockIdsAssumption, FS_Injection
  <2>3. g \in Surjection(R, C)
    BY <1>1 DEF Surjection, Finished
  <2> HIDE DEF g
  <2> QED BY <2>2, <2>3, FS_Surjection
<1>4. PICK s : s = SetToSeq(C)
  OBVIOUS
<1>5. s \in Seq(C) /\ IsInjective(s) /\ ToSet(s) = C
  BY <1>3, <1>4, SetToSeqIs
<1>6. \A c \in C : \E r \in R : c = [sock |-> r.sock, outcome |-> outcome[r]]
  BY <1>1 DEF Finished, Completion
<1>7. Arrived(p) \cap C = {}
  <2>1. \A c \in C : \E r \in p.afd : c.sock = r.sock
    BY <1>6
  <2> QED BY <2>1 DEF Owed
<1>8. PICK iocp : iocp = p.iocp \o s
  OBVIOUS
<1>9. IsInjective(iocp) /\ ToSet(iocp) = ToSet(p.iocp) \cup ToSet(s) /\ iocp \in Seq(ToSet(iocp))
  <2>1. PICK A, a : A = Arrived(p) \cup C /\ a = p.iocp
    OBVIOUS
  <2>2. a \in Seq(A) /\ s \in Seq(A)
    <3>1. a \in Seq(Arrived(p)) /\ s \in Seq(C)
      BY <1>5, <2>1 DEF IocpOK
    <3> QED BY <2>1, <3>1, SeqMonotonic
  <2>3. /\ IsInjective(iocp) /\ iocp \in Seq(ToSet(iocp))
        /\ \A x : x \in ToSet(iocp) <=> x \in ToSet(a) \/ x \in ToSet(s)
    <3>1. IsInjective(a) /\ IsInjective(s) /\ ToSet(a) \cap ToSet(s) = {} /\ iocp = a \o s
      BY <1>5, <1>7, <1>8, <2>1 DEF IocpOK, Arrived
    <3> QED BY <2>2, <3>1, ConcatIs
  <2> QED BY <2>1, <2>3
<1>10. q = [p EXCEPT !.afd = p.afd \ R, !.iocp = iocp]
  <2>1. DOMAIN outcome = R /\ p.open
    BY DEF Sound
  <2>2. {Completion(r.sock, outcome[r]) : r \in DOMAIN outcome} = C
    BY <1>1, <2>1 DEF Finished
  <2> QED BY <1>4, <1>8, <2>1, <2>2 DEF DriverCompletes
<1>11. q.afd = p.afd \ R /\ q.iocp = iocp /\ ButDriver(p, q)
  <2>1. IsPort(p)
    BY DEF Sound
  <2>2. q = [sock |-> p.sock, tree |-> p.tree, update |-> p.update, deleted |-> p.deleted,
             groups |-> p.groups, active |-> p.active, open |-> p.open, iocp |-> iocp,
             afd |-> p.afd \ R]
    BY <1>10, <2>1 DEF IsPort
  <2> QED BY <2>2 DEF ButDriver, IsPort
<1>12. Sound(q)
  BY <1>11, DriverApart
<1>13. Arrived(q) = Arrived(p) \cup C /\ IocpOK(q)
  BY <1>5, <1>9, <1>11 DEF Arrived, IocpOK
<1>14. Owed(q, Arrived(q))
  <2>1. q.sock = p.sock /\ \A id : Idle(q, id) = Idle(p, id)
    BY <1>11 DEF ButDriver, Idle
  <2>2. \A r \in q.afd : r \in p.afd /\ r \notin R
    BY <1>11
  <2>3. ASSUME NEW c \in C
        PROVE  \E r \in R : c = [sock |-> c.sock, outcome |-> c.outcome] /\ c.sock = r.sock
                            /\ c.outcome \subseteq Conditions \cup {"LOCAL_CLOSE"}
                            /\ c.outcome = outcome[r]
    BY <1>6, <2>3
  <2>4. \A c, d \in C : c.sock = d.sock => c = d
    <3> SUFFICES ASSUME NEW c \in C, NEW d \in C, c.sock = d.sock PROVE c = d
      OBVIOUS
    <3>1. PICK r \in R : c = [sock |-> r.sock, outcome |-> outcome[r]]
      BY <1>6
    <3>2. PICK t \in R : d = [sock |-> t.sock, outcome |-> outcome[t]]
      BY <1>6
    <3>3. r = t
      BY <1>2, <3>1, <3>2
    <3> QED BY <3>1, <3>2, <3>3
  <2>5. \A c \in C, d \in Arrived(p) : c.sock # d.sock
    BY <1>6 DEF Owed
  <2>6. \A c \in C, r \in q.afd : c.sock # r.sock
    BY <1>2, <1>6, <2>2
  <2>7. \A r \in q.afd \cup Arrived(q) : r.sock \in DOMAIN p.sock /\ ~Idle(p, r.sock)
    BY <1>6, <1>13, <2>2 DEF Owed
  <2>8. ASSUME NEW id \in DOMAIN p.sock, ~Idle(p, id)
        PROVE  \E r \in q.afd \cup Arrived(q) : r.sock = id
    <3>1. PICK r \in p.afd \cup Arrived(p) : r.sock = id
      BY <2>8 DEF Owed
    <3>2. CASE r \in R
      <4>1. PICK c : c = Completion(r.sock, outcome[r])
        OBVIOUS
      <4>2. c \in C /\ c.sock = r.sock
        BY <1>1, <3>2, <4>1 DEF Finished, Completion
      <4> QED BY <1>13, <3>1, <4>2
    <3>3. CASE r \notin R
      BY <1>11, <1>13, <3>1, <3>3
    <3> QED BY <3>2, <3>3
  <2>9. /\ \A r \in p.afd : r = [sock |-> r.sock, mask |-> Watched]
        /\ \A c \in Arrived(p) : c = [sock |-> c.sock, outcome |-> c.outcome]
                                 /\ c.outcome \subseteq Conditions \cup {"LOCAL_CLOSE"}
        /\ \A c, d \in Arrived(p) : c.sock = d.sock => c = d
        /\ \A r \in p.afd, c \in Arrived(p) : r.sock # c.sock
    BY DEF Owed
  <2>10. \A c \in Arrived(q) : c \in Arrived(p) \/ c \in C
    BY <1>13
  <2>11. /\ \A c \in Arrived(q) : c = [sock |-> c.sock, outcome |-> c.outcome]
                                  /\ c.outcome \subseteq Conditions \cup {"LOCAL_CLOSE"}
         /\ \A c, d \in Arrived(q) : c.sock = d.sock => c = d
         /\ \A r \in q.afd, c \in Arrived(q) : r.sock # c.sock
    BY <2>2, <2>3, <2>4, <2>5, <2>6, <2>9, <2>10
  <2>12. /\ \A r \in q.afd \cup Arrived(q) : r.sock \in DOMAIN q.sock /\ ~Idle(q, r.sock)
         /\ \A id \in DOMAIN q.sock : ~Idle(q, id) => \E r \in q.afd \cup Arrived(q) : r.sock = id
    BY <2>1, <2>7, <2>8
  <2> QED BY <2>2, <2>9, <2>11, <2>12 DEF Owed
<1> QED BY <1>1, <1>11, <1>12, <1>13, <1>14 DEF DriverDid

(* A port can be looked at with other handles open, live and in other      *)
(* conditions, if these differ for handles only that are not polled.       *)
LEMMA PortMeets ==
  ASSUME NEW p, NEW open, NEW live, NEW cond, NEW got, PortOK(p, open, live, cond, got),
         NEW open2, NEW live2, NEW cond2, live2 \subseteq open2, live2 \subseteq DOMAIN p.tree,
         \A id \in DOMAIN p.sock : ~Idle(p, id) =>
           /\ p.sock[id].socket \in open =>
                p.sock[id].socket \in open2 /\ cond2[p.sock[id].socket] = cond[p.sock[id].socket]
           /\ p.sock[id].socket \in live2 => p.sock[id].socket \in live
  PROVE  PortOK(p, open2, live2, cond2, got)
<1>1. Sound(p) /\ Owed(p, got) /\ Waiting(p, open, cond) /\ Over(p, live, cond, got) /\ live \subseteq open
  BY DEF PortOK
<1>2. \A r \in p.afd \cup got : r.sock \in DOMAIN p.sock /\ ~Idle(p, r.sock)
  BY <1>1 DEF Owed
<1>3. Waiting(p, open2, cond2)
  BY <1>1, <1>2 DEF Waiting
<1>4. Over(p, live2, cond2, got)
  <2> SUFFICES ASSUME NEW c \in got, p.sock[c.sock].socket \in live2
               PROVE  c.outcome \subseteq Conditions /\ cond2[p.sock[c.sock].socket] # {}
    BY DEF Over
  <2>1. c.sock \in DOMAIN p.sock /\ ~Idle(p, c.sock)
    BY <1>2
  <2>2. p.sock[c.sock].socket \in live /\ p.sock[c.sock].socket \in open
    BY <1>1, <2>1
  <2> QED BY <1>1, <2>1, <2>2 DEF Over
<1> QED BY <1>1, <1>3, <1>4 DEF PortOK

\* The polls of a handle that is closed, and how they end; the handles after it.
Closing(p, h, R, outcome) ==
  R = {r \in p.afd : p.sock[r.sock].socket = h} /\ outcome = [r \in R |-> {"LOCAL_CLOSE"}]

WithoutHandle(open, live, h, open2, live2) ==
  open2 = open \ {h} /\ live2 \subseteq live /\ h \notin live2

(* A handle is closed: its polls are over, and it is not live.             *)
LEMMA HandleClosed ==
  ASSUME NEW p, NEW open, NEW live, NEW cond, PortOK(p, open, live, cond, Arrived(p)), IocpOK(p),
         NEW h, NEW R, NEW outcome, Closing(p, h, R, outcome), NEW q, q = DriverCompletes(p, outcome),
         NEW open2, NEW live2, WithoutHandle(open, live, h, open2, live2)
  PROVE  PortOK(q, open2, live2, cond, Arrived(q)) /\ IocpOK(q) /\ ButDriver(p, q)
<1>1. R = {r \in p.afd : p.sock[r.sock].socket = h} /\ outcome = [r \in R |-> {"LOCAL_CLOSE"}]
  BY DEF Closing
<1>2. open2 = open \ {h} /\ live2 \subseteq live /\ h \notin live2
  BY DEF WithoutHandle
<1>3. R \in SUBSET p.afd /\ outcome \in [R -> SUBSET (Conditions \cup {"LOCAL_CLOSE"})]
  BY <1>1
<1>4. /\ Sound(p) /\ Owed(p, Arrived(p)) /\ Waiting(p, open, cond) /\ Over(p, live, cond, Arrived(p))
      /\ live \subseteq open /\ live \subseteq DOMAIN p.tree
  BY DEF PortOK
<1>5. DriverDid(p, R, outcome, q)
  BY <1>3, <1>4, FinishedIs
<1>6. q.sock = p.sock /\ q.tree = p.tree
  BY <1>5 DEF DriverDid, ButDriver
<1>7. Waiting(q, open2, cond)
  BY <1>1, <1>2, <1>4, <1>5, <1>6 DEF Waiting, DriverDid
<1>8. Over(q, live2, cond, Arrived(q))
  <2>1. \A c \in Finished(R, outcome) : p.sock[c.sock].socket = h
    BY <1>1 DEF Finished, Completion
  <2> QED BY <1>2, <1>4, <1>5, <1>6, <2>1 DEF Over, DriverDid
<1>9. live2 \subseteq open2 /\ live2 \subseteq DOMAIN q.tree
  BY <1>2, <1>4, <1>6
<1> QED BY <1>5, <1>7, <1>8, <1>9 DEF PortOK, DriverDid

\* Something happens to a handle, and nothing to the others.
Becomes(open, h, cond, cond2, now) ==
  /\ now = cond2[h] /\ now # {} /\ now \subseteq Watched \cap Conditions
  /\ \A g \in open : g # h => cond2[g] = cond[g]

\* The polls that wait for it are over.
Happened(p, h, now, q) ==
  LET Met(r) == r.mask \cap now
      R == {r \in p.afd : p.sock[r.sock].socket = h /\ Met(r) # {}}
  IN  q = DriverCompletes(p, [r \in R |-> Met(r)])

(* Something happens to a handle: its polls are over.                      *)
LEMMA HandleReady ==
  ASSUME NEW p, NEW open, NEW live, NEW cond, PortOK(p, open, live, cond, Arrived(p)), IocpOK(p),
         NEW h \in open, NEW cond2, NEW now, Becomes(open, h, cond, cond2, now),
         NEW q, Happened(p, h, now, q)
  PROVE  PortOK(q, open, live, cond2, Arrived(q)) /\ IocpOK(q) /\ ButDriver(p, q)
<1>1. PICK R : /\ R = {r \in p.afd : p.sock[r.sock].socket = h /\ r.mask \cap now # {}}
               /\ q = DriverCompletes(p, [r \in R |-> r.mask \cap now])
  BY DEF Happened
<1>2. /\ now = cond2[h] /\ now # {} /\ now \subseteq Watched \cap Conditions
      /\ \A g \in open \ {h} : cond2[g] = cond[g]
  BY DEF Becomes
<1>3. /\ Sound(p) /\ Owed(p, Arrived(p)) /\ Waiting(p, open, cond) /\ Over(p, live, cond, Arrived(p))
      /\ live \subseteq open /\ live \subseteq DOMAIN p.tree
  BY DEF PortOK
<1>4. \A r \in p.afd : r.mask = Watched
  <2>1. \A r \in p.afd : r = [sock |-> r.sock, mask |-> Watched]
    BY <1>3 DEF Owed
  <2> QED BY <2>1
<1>5. R = {r \in p.afd : p.sock[r.sock].socket = h}
  BY <1>1, <1>2, <1>4
<1>6. PICK outcome : outcome = [r \in R |-> r.mask \cap now]
  OBVIOUS
<1>7. \A r \in R : outcome[r] = now
  BY <1>1, <1>2, <1>4, <1>6
<1>8. R \in SUBSET p.afd /\ outcome \in [R -> SUBSET (Conditions \cup {"LOCAL_CLOSE"})]
  BY <1>1, <1>2, <1>6, <1>7
<1>9. DriverDid(p, R, outcome, q)
  BY <1>1, <1>3, <1>6, <1>8, FinishedIs
<1>10. q.sock = p.sock /\ q.tree = p.tree
  BY <1>9 DEF DriverDid, ButDriver
<1>11. Waiting(q, open, cond2)
  BY <1>2, <1>3, <1>5, <1>9, <1>10 DEF Waiting, DriverDid
<1>12. Over(q, live, cond2, Arrived(q))
  <2>1. \A c \in Finished(R, outcome) : p.sock[c.sock].socket = h /\ c.outcome = now
    BY <1>5, <1>7 DEF Finished, Completion
  <2>2. \A c \in Arrived(p) : p.sock[c.sock].socket \in live =>
          c.outcome \subseteq Conditions /\ cond2[p.sock[c.sock].socket] # {}
    BY <1>2, <1>3, <1>10 DEF Over
  <2>3. \A c \in Arrived(q) : c \in Arrived(p) \/ c \in Finished(R, outcome)
    BY <1>9 DEF DriverDid
  <2>4. \A c \in Finished(R, outcome) :
          c.outcome \subseteq Conditions /\ cond2[p.sock[c.sock].socket] # {}
    BY <1>2, <2>1
  <2> QED BY <1>10, <2>2, <2>3, <2>4 DEF Over
<1> QED BY <1>3, <1>9, <1>10, <1>11, <1>12 DEF PortOK, DriverDid

----------------------------------------------------------------------------
(* The port: an ep_sock is polled, or goes.                                *)

\* Everything of the rest of the port is the same.
SameRest(p, q) ==
  /\ IsPort(q) /\ q.deleted = p.deleted /\ q.active = p.active /\ q.open = p.open

Without(p, id, q) ==
  /\ q.sock = [i \in DOMAIN p.sock \ {id} |-> p.sock[i]]
  /\ q.tree = [h \in DOMAIN p.tree \ {p.sock[id].socket} |-> p.tree[h]]

(* An idle ep_sock that does not queue is freed.                           *)
LEMMA DroppedIs ==
  ASSUME NEW p, IsPort(p), p.deleted = << >>, p.update \in Seq(SockIds),
         NEW id \in DOMAIN p.sock, id \notin ToSet(p.update), IsFcn(p.sock),
         IsSock(p.sock[id]), Idle(p, id), NEW q, q = ep_sock_delete(p, id)
  PROVE  /\ SameRest(p, q) /\ Without(p, id, q) /\ q.update = p.update
         /\ q.iocp = p.iocp /\ q.afd = p.afd
<1>1. RemoveFirst(p.update, id) = p.update
  BY RemovedIs
<1>2. RemoveFirst(<< >>, id) = << >>
  <2>1. << >> \in Seq(SockIds) /\ id \notin ToSet(<< >>)
    BY DEF ToSet
  <2> QED BY <2>1, RemovedIs
<1>3. Dequeued(p, id) = p
  <2>1. PICK U : U = p.update
    OBVIOUS
  <2>2. p = [sock |-> p.sock, tree |-> p.tree, update |-> U, deleted |-> << >>,
             groups |-> p.groups, active |-> p.active, open |-> p.open, iocp |-> p.iocp, afd |-> p.afd]
    BY <2>1 DEF IsPort
  <2>3. Dequeued(p, id) = [p EXCEPT !.update = U, !.deleted = << >>]
    BY <1>1, <1>2, <2>1 DEF Dequeued
  <2> QED BY <2>2, <2>3
<1>4. p.sock[id].poll_status # PENDING /\ p.sock[id].delete_pending = FALSE
  BY DEF Idle, IsSock, IDLE, PENDING
<1>5. PICK u : u = Unlisted(p, id)
  OBVIOUS
<1>6. Unregistered(p, id) = u
  BY <1>3, <1>4, <1>5 DEF Unregistered
<1>7. PICK T, K : /\ T = [h \in DOMAIN p.tree \ {p.sock[id].socket} |-> p.tree[h]]
                  /\ K = [p.sock EXCEPT ![id].delete_pending = TRUE]
  OBVIOUS
<1>8. u = [sock |-> K, tree |-> T, update |-> p.update, deleted |-> << >>,
           groups |-> p.groups, active |-> p.active, open |-> p.open, iocp |-> p.iocp, afd |-> p.afd]
  <2>1. u = [[p EXCEPT !.tree = T] EXCEPT !.sock = K]
    BY <1>5, <1>7 DEF Unlisted, IsPort
  <2> QED BY <2>1 DEF IsPort
<1>9. Dequeued(u, id) = u
  <2>1. PICK U : U = p.update
    OBVIOUS
  <2>2. u = [sock |-> K, tree |-> T, update |-> U, deleted |-> << >>,
             groups |-> p.groups, active |-> p.active, open |-> p.open, iocp |-> p.iocp, afd |-> p.afd]
    BY <1>8, <2>1
  <2>3. u.update = U /\ u.deleted = << >>
    BY <2>2
  <2>4. Dequeued(u, id) = [u EXCEPT !.update = U, !.deleted = << >>]
    BY <1>1, <1>2, <2>1, <2>3 DEF Dequeued
  <2> QED BY <2>2, <2>4
<1>10. DOMAIN K = DOMAIN p.sock /\ K[id].poll_status = IDLE /\ \A i \in DOMAIN p.sock \ {id} : K[i] = p.sock[i]
  BY <1>7 DEF Idle, IsSock, IsFcn
<1>11. q = Forgotten(u, id)
  <2>1. u.sock[id].poll_status = IDLE
    BY <1>8, <1>10
  <2> QED BY <1>4, <1>6, <1>9, <2>1 DEF ep_sock_delete, _ep_sock_delete, Freed
<1>12. PICK G : G = Release(u.groups, u.sock[id].poll_group)
  OBVIOUS
<1>13. PICK M : M = [i \in DOMAIN p.sock \ {id} |-> p.sock[i]]
  OBVIOUS
<1>14. [i \in DOMAIN u.sock \ {id} |-> u.sock[i]] = M
  BY <1>8, <1>10, <1>13
<1>15. q = [[u EXCEPT !.groups = G] EXCEPT !.sock = M]
  BY <1>8, <1>11, <1>12, <1>14 DEF Forgotten
<1>16. q = [sock |-> M, tree |-> T, update |-> p.update, deleted |-> << >>,
            groups |-> G, active |-> p.active, open |-> p.open, iocp |-> p.iocp, afd |-> p.afd]
  BY <1>8, <1>15
<1> QED BY <1>7, <1>13, <1>16 DEF SameRest, Without, IsPort

(* A port without one of its ep_socks, which is not live nor polled.       *)
LEMMA SockGone ==
  ASSUME NEW p, NEW open, NEW live, NEW cond, NEW got, PortOK(p, open, live, cond, got),
         NEW id \in DOMAIN p.sock, p.sock[id].socket \notin live, \A r \in p.afd : r.sock # id,
         NEW got2, \A c : c \in got2 <=> c \in got /\ c.sock # id,
         NEW q, IsPort(q), Without(p, id, q), q.deleted = << >>, q.open, q.afd = p.afd,
         q.update \in Seq(SockIds), IsInjective(q.update),
         \A i : i \in ToSet(q.update) <=> i \in ToSet(p.update) /\ i # id
  PROVE  PortOK(q, open, live, cond, got2)
<1>1. /\ Sound(p) /\ Owed(p, got) /\ Waiting(p, open, cond) /\ Over(p, live, cond, got)
      /\ live \subseteq open /\ live \subseteq DOMAIN p.tree
  BY DEF PortOK
<1>2. PICK h : h = p.sock[id].socket
  OBVIOUS
<1>3. /\ DOMAIN q.sock = DOMAIN p.sock \ {id} /\ \A i \in DOMAIN p.sock \ {id} : q.sock[i] = p.sock[i]
      /\ DOMAIN q.tree = DOMAIN p.tree \ {h} /\ \A g \in DOMAIN p.tree \ {h} : q.tree[g] = p.tree[g]
      /\ IsFcn(q.sock) /\ IsFcn(q.tree)
  BY <1>2 DEF Without, IsFcn
<1>4. \A i \in DOMAIN p.sock \ {id} : Idle(q, i) = Idle(p, i) /\ p.sock[i].socket # h
  BY <1>1, <1>2, <1>3 DEF Idle, Sound, TreeOK
<1>5. TreeOK(q)
  <2>1. ASSUME NEW g \in DOMAIN q.tree
        PROVE  q.tree[g] \in DOMAIN q.sock /\ q.sock[q.tree[g]].socket = g
    <3>1. p.tree[g] \in DOMAIN p.sock /\ p.sock[p.tree[g]].socket = g /\ g # h /\ q.tree[g] = p.tree[g]
      BY <1>1, <1>3 DEF Sound, TreeOK
    <3>2. p.tree[g] # id
      BY <1>2, <3>1
    <3> QED BY <1>3, <3>1, <3>2
  <2>2. ASSUME NEW i \in DOMAIN q.sock
        PROVE  q.sock[i].socket \in DOMAIN q.tree /\ q.tree[q.sock[i].socket] = i
    <3>1. i \in DOMAIN p.sock /\ p.sock[i].socket \in DOMAIN p.tree /\ p.tree[p.sock[i].socket] = i
      BY <1>1, <1>3 DEF Sound, TreeOK
    <3> QED BY <1>3, <1>4, <3>1
  <2> QED BY <2>1, <2>2 DEF TreeOK
<1>6. QueueOK(q)
  <2>1. ToSet(q.update) = {i \in DOMAIN q.sock : Idle(q, i)}
    <3>1. ToSet(p.update) = {i \in DOMAIN p.sock : Idle(p, i)}
      BY <1>1 DEF Sound, QueueOK
    <3> QED BY <1>3, <1>4, <3>1
  <2> QED BY <2>1 DEF QueueOK
<1>7. Sound(q)
  <2>1. DOMAIN q.sock \subseteq SockIds /\ \A i \in DOMAIN q.sock : IsSock(q.sock[i])
    BY <1>1, <1>3 DEF Sound
  <2>2. DOMAIN q.tree \subseteq SOCKETs
    BY <1>1, <1>3 DEF Sound
  <2> QED BY <1>3, <1>5, <1>6, <2>1, <2>2 DEF Sound
<1>8. Owed(q, got2)
  <2>1. \A r \in q.afd \cup got2 : r \in p.afd \cup got /\ r.sock # id
    OBVIOUS
  <2>2. \A r \in q.afd \cup got2 : r.sock \in DOMAIN q.sock /\ ~Idle(q, r.sock)
    BY <1>1, <1>3, <1>4, <2>1 DEF Owed
  <2>3. ASSUME NEW i \in DOMAIN q.sock, ~Idle(q, i) PROVE \E r \in q.afd \cup got2 : r.sock = i
    <3>1. i \in DOMAIN p.sock /\ i # id /\ ~Idle(p, i)
      BY <1>3, <1>4, <2>3
    <3>2. PICK r \in p.afd \cup got : r.sock = i
      BY <1>1, <3>1 DEF Owed
    <3>3. r \in q.afd \cup got2
      BY <3>1, <3>2
    <3> QED BY <3>2, <3>3
  <2>4. \A c \in got2 : c \in got
    OBVIOUS
  <2>5. /\ \A r \in q.afd : r = [sock |-> r.sock, mask |-> Watched]
        /\ \A c \in got2 : c = [sock |-> c.sock, outcome |-> c.outcome]
                          /\ c.outcome \subseteq Conditions \cup {"LOCAL_CLOSE"}
        /\ \A c, d \in got2 : c.sock = d.sock => c = d
        /\ \A r \in q.afd, c \in got2 : r.sock # c.sock
    BY <1>1, <2>4 DEF Owed
  <2> QED BY <2>2, <2>3, <2>5 DEF Owed
<1>9. \A r \in q.afd \cup got2 : q.sock[r.sock] = p.sock[r.sock]
  BY <1>1, <1>3 DEF Owed
<1>10. Waiting(q, open, cond)
  BY <1>1, <1>9 DEF Waiting
<1>11. Over(q, live, cond, got2)
  BY <1>1, <1>9 DEF Over
<1>12. live \subseteq DOMAIN q.tree
  BY <1>1, <1>2, <1>3
<1> QED BY <1>1, <1>7, <1>8, <1>10, <1>11, <1>12 DEF PortOK

HeadOff(p, q) == q = [p EXCEPT !.update = Tail(p.update)]

(* The ep_sock at the head of the queue leaves it.                         *)
LEMMA HeadDequeued ==
  ASSUME NEW p, IsPort(p), p.deleted = << >>, p.update \in Seq(SockIds), p.update # << >>,
         NEW id, id = Head(p.update), NEW q, q = Dequeued(p, id)
  PROVE  HeadOff(p, q)
<1>1. PICK U : U = Tail(p.update)
  OBVIOUS
<1>2. RemoveFirst(p.update, id) = U
  BY <1>1, TailIs, RemovedIs
<1>3. RemoveFirst(<< >>, id) = << >>
  <2>1. << >> \in Seq(SockIds) /\ id \notin ToSet(<< >>)
    BY DEF ToSet
  <2> QED BY <2>1, RemovedIs
<1>4. q = [p EXCEPT !.update = U, !.deleted = << >>]
  BY <1>2, <1>3 DEF Dequeued
<1>5. p = [sock |-> p.sock, tree |-> p.tree, update |-> p.update, deleted |-> << >>,
           groups |-> p.groups, active |-> p.active, open |-> p.open, iocp |-> p.iocp, afd |-> p.afd]
  BY DEF IsPort
<1>6. q = [p EXCEPT !.update = U]
  BY <1>4, <1>5
<1> QED BY <1>1, <1>6 DEF HeadOff

(* The ep_sock at the head of the queue is polled.                         *)
LEMMA SockPolled ==
  ASSUME NEW p, Sound(p), p.update # << >>, NEW id, id = Head(p.update),
         NEW s, IsSock(s), s.poll_status = PENDING, s.socket = p.sock[id].socket,
         NEW K, K = [p.sock EXCEPT ![id] = s],
         NEW q, IsPort(q), q.sock = K, q.tree = p.tree, q.update = Tail(p.update),
         q.deleted = << >>, q.open
  PROVE  /\ Sound(q) /\ id \in DOMAIN p.sock /\ Idle(p, id) /\ ~Idle(q, id)
         /\ DOMAIN q.sock = DOMAIN p.sock
         /\ \A i \in DOMAIN p.sock : q.sock[i].socket = p.sock[i].socket
         /\ \A i \in DOMAIN p.sock \ {id} : Idle(q, i) = Idle(p, i)
<1>1. /\ p.update \in Seq(SockIds) /\ IsInjective(p.update)
      /\ ToSet(p.update) = {i \in DOMAIN p.sock : Idle(p, i)} /\ IsFcn(p.sock)
  BY DEF Sound, QueueOK
<1>2. id \in ToSet(p.update) /\ id \in DOMAIN p.sock /\ Idle(p, id)
  BY <1>1, TailIs
<1>3. /\ DOMAIN q.sock = DOMAIN p.sock /\ q.sock[id] = s /\ IsFcn(q.sock)
      /\ \A i \in DOMAIN p.sock \ {id} : q.sock[i] = p.sock[i]
  BY <1>1, <1>2 DEF IsFcn
<1>4. ~Idle(q, id) /\ \A i \in DOMAIN p.sock \ {id} : Idle(q, i) = Idle(p, i)
  BY <1>3 DEF Idle, IDLE, PENDING
<1>5. \A i \in DOMAIN p.sock : q.sock[i].socket = p.sock[i].socket
  BY <1>3
<1>6. TreeOK(q)
  BY <1>3, <1>5 DEF TreeOK, Sound
<1>7. QueueOK(q)
  <2>1. /\ Tail(p.update) \in Seq(SockIds) /\ IsInjective(Tail(p.update))
        /\ ToSet(p.update) = ToSet(Tail(p.update)) \cup {Head(p.update)}
        /\ Head(p.update) \notin ToSet(Tail(p.update))
    BY <1>1, TailIs
  <2>2. PICK U : U = Tail(p.update)
    OBVIOUS
  <2>3. \A i : i \in ToSet(U) <=> i \in DOMAIN p.sock /\ Idle(p, i) /\ i # id
    BY <1>1, <2>1, <2>2
  <2>4. \A i : i \in ToSet(U) <=> i \in DOMAIN q.sock /\ Idle(q, i)
    BY <1>3, <1>4, <2>3
  <2> QED BY <2>1, <2>2, <2>4 DEF QueueOK
<1>8. Sound(q)
  <2>1. DOMAIN q.sock \subseteq SockIds /\ \A i \in DOMAIN q.sock : IsSock(q.sock[i])
    BY <1>3 DEF Sound
  <2> QED BY <1>3, <1>6, <1>7, <2>1 DEF Sound
<1> QED BY <1>2, <1>3, <1>4, <1>5, <1>8

\* The head of the queue has been dealt with.
HeadDone(p, q) == IsPort(q) /\ q.update = Tail(p.update) /\ q.active = p.active

(* What there is to an ep_sock.                                            *)
LEMMA SockIs ==
  ASSUME NEW s, IsSock(s)
  PROVE  /\ s.user_events = Asked /\ s.user_data = s.socket /\ s.delete_pending = FALSE
         /\ s.poll_status = IDLE \/ s.poll_status = PENDING
BY DEF IsSock

(* A poll is submitted for the head of the queue, whose handle is open.    *)
LEMMA SubmittedIs ==
  ASSUME NEW p, NEW open, NEW live, NEW cond, PortOK(p, open, live, cond, Arrived(p)), IocpOK(p),
         \A g \in SOCKETs : cond[g] \subseteq Watched \cap Conditions,
         NEW kernel, kernel.ready = cond, p.update # << >>, NEW id, id = Head(p.update),
         p.sock[id].socket \in open, NEW q, q = Dequeued(_poll_req_submit(p, kernel, id), id)
  PROVE  PortOK(q, open, live, cond, Arrived(q)) /\ IocpOK(q) /\ HeadDone(p, q)
<1>1. /\ Sound(p) /\ Owed(p, Arrived(p)) /\ Waiting(p, open, cond) /\ Over(p, live, cond, Arrived(p))
      /\ live \subseteq open /\ live \subseteq DOMAIN p.tree
  BY DEF PortOK
<1>2. /\ IsPort(p) /\ p.open /\ p.deleted = << >> /\ p.update \in Seq(SockIds)
      /\ ToSet(p.update) = {i \in DOMAIN p.sock : Idle(p, i)} /\ IsFcn(p.sock)
      /\ \A i \in DOMAIN p.sock : IsSock(p.sock[i])
  BY <1>1 DEF Sound, QueueOK
<1>3. id \in DOMAIN p.sock /\ IsSock(p.sock[id]) /\ p.sock[id].user_events = Asked
  <2>1. id \in DOMAIN p.sock /\ IsSock(p.sock[id])
    BY <1>2, TailIs
  <2> QED BY <2>1, SockIs
<1>4. PICK h, now, request : /\ h = p.sock[id].socket /\ now = Watched \cap cond[h]
                             /\ request = [sock |-> id, mask |-> Watched]
  OBVIOUS
<1>5. h \in SOCKETs /\ now = cond[h] /\ now \subseteq Conditions
  <2>1. h \in DOMAIN p.tree /\ DOMAIN p.tree \subseteq SOCKETs
    BY <1>1, <1>3, <1>4 DEF Sound, TreeOK
  <2> QED BY <1>4, <2>1
<1>6. PICK s : s = [p.sock[id] EXCEPT !.poll_status = PENDING, !.pending_events = Asked]
  OBVIOUS
<1>7. IsSock(s) /\ s.poll_status = PENDING /\ s.socket = h
  <2>1. PICK t, a, b, c : t = p.sock[id] /\ a = t.poll_group /\ b = t.pending_events /\ c = t.poll_status
    OBVIOUS
  <2>2. t = [socket |-> h, poll_group |-> a, user_data |-> h, user_events |-> Asked,
             pending_events |-> b, poll_status |-> c, delete_pending |-> FALSE]
    BY <1>3, <1>4, <2>1 DEF IsSock
  <2>3. s = [[t EXCEPT !.poll_status = PENDING] EXCEPT !.pending_events = Asked]
    BY <1>6, <2>1, <2>2
  <2>4. s = [socket |-> h, poll_group |-> a, user_data |-> h, user_events |-> Asked,
             pending_events |-> Asked, poll_status |-> PENDING, delete_pending |-> FALSE]
    BY <2>2, <2>3
  <2> QED BY <2>4 DEF IsSock
<1>8. PICK K, A, U : K = [p.sock EXCEPT ![id] = s] /\ A = p.afd \cup {request} /\ U = Tail(p.update)
  OBVIOUS
<1>9. PICK held, one : /\ held = [SetPoll(p, id, PENDING, Asked) EXCEPT !.afd = @ \cup {request}]
                      /\ one = [r \in {request} |-> now]
  OBVIOUS
<1>10. held = [sock |-> K, tree |-> p.tree, update |-> p.update, deleted |-> << >>,
               groups |-> p.groups, active |-> p.active, open |-> p.open, iocp |-> p.iocp, afd |-> A]
  <2>1. SetPoll(p, id, PENDING, Asked) = [p EXCEPT !.sock = K]
    <3>1. PICK K1, K2 : /\ K1 = [p.sock EXCEPT ![id].poll_status = PENDING]
                        /\ K2 = [K1 EXCEPT ![id].pending_events = Asked]
      OBVIOUS
    <3>2. K2 = K
      BY <1>2, <1>3, <1>6, <1>8, <3>1 DEF IsFcn, IsSock
    <3>3. SetPoll(p, id, PENDING, Asked) = [[p EXCEPT !.sock = K1] EXCEPT !.sock = K2]
      BY <1>2, <3>1 DEF SetPoll, IsPort
    <3> QED BY <1>2, <3>2, <3>3 DEF IsPort
  <2>2. held = [[p EXCEPT !.sock = K] EXCEPT !.afd = A]
    <3>1. PICK p2 : p2 = [p EXCEPT !.sock = K]
      OBVIOUS
    <3>2. p2.afd = p.afd
      BY <1>2, <3>1 DEF IsPort
    <3>3. held = [p2 EXCEPT !.afd = A]
      BY <1>8, <1>9, <2>1, <3>1, <3>2
    <3> QED BY <3>1, <3>3
  <2> QED BY <1>2, <2>2 DEF IsPort
<1>11. _poll_req_submit(p, kernel, id) = IF now = {} THEN held ELSE DriverCompletes(held, one)
  <2>1. _epoll_events_to_afd_events(p.sock[id].user_events) = Watched
    BY <1>3 DEF Watched
  <2>2. request.mask = Watched
    BY <1>4
  <2>3. request.mask \cap kernel.ready[p.sock[id].socket] = now
    BY <1>4, <2>2
  <2> QED BY <1>3, <1>4, <1>9, <2>1, <2>3 DEF _poll_req_submit
<1>12. PICK mid : mid = [sock |-> K, tree |-> p.tree, update |-> U, deleted |-> << >>,
                         groups |-> p.groups, active |-> p.active, open |-> p.open,
                         iocp |-> p.iocp, afd |-> A]
  OBVIOUS
<1>13. /\ Sound(mid) /\ Idle(p, id) /\ ~Idle(mid, id) /\ DOMAIN mid.sock = DOMAIN p.sock
       /\ \A i \in DOMAIN p.sock : mid.sock[i].socket = p.sock[i].socket
       /\ \A i \in DOMAIN p.sock \ {id} : Idle(mid, i) = Idle(p, i)
       /\ IsPort(mid) /\ mid.tree = p.tree /\ mid.update = U /\ mid.active = p.active
       /\ mid.iocp = p.iocp /\ mid.open
  <2>1. mid.update = U /\ mid.active = p.active /\ mid.iocp = p.iocp /\ mid.afd = A
    BY <1>12
  <2>2. IsPort(mid) /\ mid.sock = K /\ mid.tree = p.tree /\ mid.update = Tail(p.update)
        /\ mid.deleted = << >> /\ mid.open
    BY <1>2, <1>8, <1>12 DEF IsPort
  <2> QED BY <1>1, <1>4, <1>7, <1>8, <2>1, <2>2, SockPolled
<1>14. mid.afd = A /\ Arrived(mid) = Arrived(p) /\ IocpOK(mid)
  <2>1. mid.afd = A /\ mid.iocp = p.iocp
    BY <1>12
  <2> QED BY <2>1 DEF Arrived, IocpOK
<1>15. Owed(mid, Arrived(mid))
  <2>1. \A r \in p.afd \cup Arrived(p) : r.sock # id
    BY <1>1, <1>13 DEF Owed
  <2>2. \A r \in A : r = request \/ r \in p.afd
    BY <1>8
  <2>3. request.sock = id /\ request = [sock |-> request.sock, mask |-> Watched]
    BY <1>4
  <2>4. \A r \in A \cup Arrived(p) : r.sock \in DOMAIN mid.sock /\ ~Idle(mid, r.sock)
    BY <1>1, <1>3, <1>13, <2>1, <2>2, <2>3 DEF Owed
  <2>5. \A i \in DOMAIN mid.sock : ~Idle(mid, i) => \E r \in A \cup Arrived(p) : r.sock = i
    <3> SUFFICES ASSUME NEW i \in DOMAIN p.sock, ~Idle(mid, i)
                 PROVE  \E r \in A \cup Arrived(p) : r.sock = i
      BY <1>13
    <3>1. CASE i = id
      BY <1>8, <2>3, <3>1
    <3>2. CASE i # id
      BY <1>1, <1>8, <1>13, <3>2 DEF Owed
    <3> QED BY <3>1, <3>2
  <2>6. \A r \in A, c \in Arrived(p) : r.sock # c.sock
    BY <1>1, <2>1, <2>2, <2>3 DEF Owed
  <2>7. \A r \in A : r = [sock |-> r.sock, mask |-> Watched]
    BY <1>1, <2>2, <2>3 DEF Owed
  <2>8. /\ \A c \in Arrived(p) : c = [sock |-> c.sock, outcome |-> c.outcome]
                                 /\ c.outcome \subseteq Conditions \cup {"LOCAL_CLOSE"}
        /\ \A c, d \in Arrived(p) : c.sock = d.sock => c = d
    BY <1>1 DEF Owed
  <2> QED BY <1>14, <2>4, <2>5, <2>6, <2>7, <2>8 DEF Owed
<1>16. \A r \in p.afd \cup Arrived(p) : r.sock \in DOMAIN p.sock
  BY <1>1 DEF Owed
<1>17. Over(mid, live, cond, Arrived(p))
  BY <1>1, <1>13, <1>16 DEF Over
<1>18. \A r \in p.afd : mid.sock[r.sock].socket \in open /\ cond[mid.sock[r.sock].socket] = {}
  BY <1>1, <1>13, <1>16 DEF Waiting
<1>19. CASE now = {}
  <2>1. q = Dequeued(held, id)
    BY <1>19, <1>11
  <2>2. q = [held EXCEPT !.update = U]
    <3>1. IsPort(held) /\ held.deleted = << >> /\ held.update = p.update
      BY <1>10 DEF IsPort
    <3>2. HeadOff(held, q)
      BY <1>2, <2>1, <3>1, HeadDequeued
    <3> QED BY <1>8, <3>1, <3>2 DEF HeadOff
  <2>3. q = mid
    BY <1>10, <1>12, <2>2
  <2>4. Waiting(q, open, cond)
    <3>1. mid.sock[id].socket = h /\ h \in open /\ cond[h] = {}
      BY <1>3, <1>4, <1>5, <1>13, <1>19
    <3>2. \A r \in A : r.sock = id \/ r \in p.afd
      BY <1>4, <1>8
    <3> QED BY <1>14, <1>18, <2>3, <3>1, <3>2 DEF Waiting
  <2>5. HeadDone(p, q)
    BY <1>8, <1>13, <2>3 DEF HeadDone
  <2>6. q.tree = p.tree
    BY <1>13, <2>3
  <2> QED BY <1>1, <1>13, <1>14, <1>15, <1>17, <2>3, <2>4, <2>5, <2>6 DEF PortOK
<1>20. CASE now # {}
  <2>1. PICK outcome, R : outcome = [r \in {request} |-> now] /\ R = {request}
    OBVIOUS
  <2>2. q = Dequeued(DriverCompletes(held, outcome), id)
    BY <1>9, <1>20, <1>11, <2>1
  <2>3. PICK B, I : /\ B = A \ DOMAIN outcome
                    /\ I = p.iocp \o SetToSeq({Completion(r.sock, outcome[r]) : r \in DOMAIN outcome})
    OBVIOUS
  <2>4. PICK d : d = DriverCompletes(held, outcome)
    OBVIOUS
  <2>5. d = [sock |-> K, tree |-> p.tree, update |-> p.update, deleted |-> << >>,
             groups |-> p.groups, active |-> p.active, open |-> p.open, iocp |-> I, afd |-> B]
    <3>1. held.open /\ held.iocp = p.iocp /\ held.afd = A
      BY <1>2, <1>10
    <3>2. d = [held EXCEPT !.afd = B, !.iocp = I]
      BY <2>3, <2>4, <3>1 DEF DriverCompletes
    <3> QED BY <1>10, <3>2
  <2>6. q = [d EXCEPT !.update = U]
    <3>1. IsPort(d) /\ d.deleted = << >> /\ d.update = p.update
      BY <2>5 DEF IsPort
    <3>2. HeadOff(d, q)
      BY <1>2, <2>2, <2>4, <3>1, HeadDequeued
    <3> QED BY <1>8, <3>1, <3>2 DEF HeadOff
  <2>7. q = DriverCompletes(mid, outcome)
    <3>1. mid.open /\ mid.iocp = p.iocp /\ mid.afd = A
      BY <1>2, <1>12
    <3>2. DriverCompletes(mid, outcome) = [mid EXCEPT !.afd = B, !.iocp = I]
      BY <2>3, <3>1 DEF DriverCompletes
    <3>3. q = [sock |-> K, tree |-> p.tree, update |-> U, deleted |-> << >>,
               groups |-> p.groups, active |-> p.active, open |-> p.open, iocp |-> I, afd |-> B]
      BY <2>5, <2>6
    <3>4. DriverCompletes(mid, outcome) =
              [sock |-> K, tree |-> p.tree, update |-> U, deleted |-> << >>,
               groups |-> p.groups, active |-> p.active, open |-> p.open, iocp |-> I, afd |-> B]
      BY <1>12, <3>2
    <3> QED BY <3>3, <3>4
  <2>8. R \in SUBSET mid.afd /\ outcome \in [R -> SUBSET (Conditions \cup {"LOCAL_CLOSE"})]
    BY <1>5, <1>8, <1>14, <2>1
  <2>9. DriverDid(mid, R, outcome, q)
    BY <1>13, <1>14, <1>15, <2>7, <2>8, FinishedIs
  <2>10. q.sock = mid.sock /\ q.tree = p.tree /\ q.update = U /\ q.active = p.active /\ IsPort(q)
    BY <1>13, <2>9 DEF DriverDid, ButDriver
  <2>11. Waiting(q, open, cond)
    <3>1. \A r \in q.afd : r \in p.afd
      BY <1>8, <1>14, <2>1, <2>9 DEF DriverDid
    <3> QED BY <1>18, <2>10, <3>1 DEF Waiting
  <2>12. Over(q, live, cond, Arrived(q))
    <3>1. mid.sock[id].socket = h
      BY <1>3, <1>4, <1>13
    <3>2. \A c \in Finished(R, outcome) : c.sock = id /\ c.outcome = now
      BY <1>4, <2>1 DEF Finished, Completion
    <3>3. \A c \in Arrived(q) : c \in Arrived(p) \/ c \in Finished(R, outcome)
      BY <1>14, <2>9 DEF DriverDid
    <3>4. cond[h] # {}
      BY <1>5, <1>20
    <3> QED BY <1>5, <1>17, <2>10, <3>1, <3>2, <3>3, <3>4 DEF Over
  <2>13. PortOK(q, open, live, cond, Arrived(q)) /\ IocpOK(q)
    BY <1>1, <2>9, <2>10, <2>11, <2>12 DEF PortOK, DriverDid
  <2> QED BY <1>8, <2>10, <2>13 DEF HeadDone
<1> QED BY <1>19, <1>20

(* The head of the queue is polled, or goes when its handle is closed.     *)
LEMMA SockUpdated ==
  ASSUME NEW p, NEW open, NEW live, NEW cond, PortOK(p, open, live, cond, Arrived(p)), IocpOK(p),
         \A g \in SOCKETs : cond[g] \subseteq Watched \cap Conditions,
         NEW kernel, kernel.ready = cond, kernel.open = open, kernel.broken = {},
         p.update # << >>, NEW id, id = Head(p.update), NEW r, r = ep_sock_update(p, kernel, id)
  PROVE  r.ok /\ PortOK(r.port, open, live, cond, Arrived(r.port)) /\ IocpOK(r.port)
         /\ HeadDone(p, r.port)
<1>1. /\ IsPort(p) /\ p.open /\ p.deleted = << >> /\ p.update \in Seq(SockIds) /\ IsInjective(p.update)
      /\ ToSet(p.update) = {i \in DOMAIN p.sock : Idle(p, i)} /\ IsFcn(p.sock)
      /\ \A i \in DOMAIN p.sock : IsSock(p.sock[i])
  BY DEF PortOK, Sound, QueueOK
<1>2. id \in DOMAIN p.sock /\ Idle(p, id) /\ IsSock(p.sock[id])
  BY <1>1, TailIs
<1>3. /\ p.sock[id].poll_status = IDLE
      /\ p.sock[id].poll_status # PENDING /\ p.sock[id].poll_status # CANCELLED
  BY <1>2 DEF Idle, IDLE, PENDING, CANCELLED
<1>4. CASE p.sock[id].socket \in open
  <2>1. r = [ok |-> TRUE, port |-> Dequeued(_poll_req_submit(p, kernel, id), id)]
    BY <1>3, <1>4 DEF ep_sock_update
  <2>2. PICK q : q = Dequeued(_poll_req_submit(p, kernel, id), id)
    OBVIOUS
  <2>3. PortOK(q, open, live, cond, Arrived(q)) /\ IocpOK(q) /\ HeadDone(p, q)
    BY <1>4, <2>2, SubmittedIs
  <2> QED BY <2>1, <2>2, <2>3
<1>5. CASE p.sock[id].socket \notin open
  <2>1. PICK d, q : d = Dequeued(p, id) /\ q = ep_sock_delete(d, id)
    OBVIOUS
  <2>2. r = [ok |-> TRUE, port |-> q]
    BY <1>3, <1>5, <2>1 DEF ep_sock_update
  <2>3. d = [p EXCEPT !.update = Tail(p.update)]
    BY <1>1, <2>1, HeadDequeued DEF HeadOff
  <2>4. /\ Tail(p.update) \in Seq(SockIds) /\ IsInjective(Tail(p.update)) /\ id \notin ToSet(Tail(p.update))
        /\ \A i : i \in ToSet(Tail(p.update)) <=> i \in ToSet(p.update) /\ i # id
    <3>1. /\ Tail(p.update) \in Seq(SockIds) /\ ToSet(p.update) = ToSet(Tail(p.update)) \cup {Head(p.update)}
          /\ IsInjective(Tail(p.update)) /\ Head(p.update) \notin ToSet(Tail(p.update))
      BY <1>1, TailIs
    <3> QED BY <3>1
  <2>5. /\ IsPort(d) /\ d.sock = p.sock /\ d.tree = p.tree /\ d.deleted = << >> /\ d.active = p.active
        /\ d.open = p.open /\ d.update = Tail(p.update) /\ d.iocp = p.iocp /\ d.afd = p.afd
    BY <1>1, <2>3 DEF IsPort
  <2>6. SameRest(d, q) /\ Without(d, id, q) /\ q.update = d.update /\ q.iocp = d.iocp /\ q.afd = d.afd
    <3>1. IsPort(d) /\ d.deleted = << >> /\ d.update \in Seq(SockIds) /\ id \in DOMAIN d.sock
          /\ id \notin ToSet(d.update) /\ IsFcn(d.sock) /\ IsSock(d.sock[id]) /\ Idle(d, id)
      BY <1>1, <1>2, <2>4, <2>5 DEF Idle
    <3> QED BY <2>1, <3>1, DroppedIs
  <2>7. Without(p, id, q) /\ IsPort(q) /\ q.deleted = << >> /\ q.open /\ q.active = p.active
        /\ q.afd = p.afd /\ q.iocp = p.iocp /\ q.update = Tail(p.update)
    BY <1>1, <2>5, <2>6 DEF Without, SameRest
  <2>8. Arrived(q) = Arrived(p) /\ IocpOK(q)
    BY <2>7 DEF Arrived, IocpOK
  <2>9. \A c \in p.afd \cup Arrived(p) : c.sock # id
    BY <1>2 DEF PortOK, Owed
  <2>10. PortOK(q, open, live, cond, Arrived(q))
    <3>1. p.sock[id].socket \notin live
      BY <1>5 DEF PortOK
    <3>2. \A c : c \in Arrived(q) <=> c \in Arrived(p) /\ c.sock # id
      BY <2>8, <2>9
    <3> QED BY <1>2, <2>4, <2>7, <2>9, <3>1, <3>2, SockGone
  <2> QED BY <2>2, <2>7, <2>8, <2>10 DEF HeadDone
<1> QED BY <1>4, <1>5


(* Every ep_sock that queues is polled, or goes.                           *)
LEMMA PortUpdated ==
  ASSUME NEW p, NEW open, NEW live, NEW cond, PortOK(p, open, live, cond, Arrived(p)), IocpOK(p),
         \A g \in SOCKETs : cond[g] \subseteq Watched \cap Conditions,
         NEW kernel, kernel.ready = cond, kernel.open = open, kernel.broken = {},
         NEW q, q = _ep_port_update_events(p, kernel).port
  PROVE  /\ PortOK(q, open, live, cond, Arrived(q)) /\ IocpOK(q)
         /\ q.active = p.active /\ q.update = << >>
<1> DEFINE n == Len(p.update)
           Op(x, id) == IF x.ok THEN ep_sock_update(x.port, kernel, id) ELSE x
           start == [ok |-> TRUE, port |-> p]
           Good(i, x) == /\ x.ok /\ PortOK(x.port, open, live, cond, Arrived(x.port)) /\ IocpOK(x.port)
                         /\ x.port.active = p.active /\ Len(x.port.update) = n - i
                         /\ \A j \in 1 .. n - i : x.port.update[j] = p.update[i + j]
           Eqn(f) == f = [i \in 0 .. n |->
                            IF i = 0 THEN start
                            ELSE CHOOSE x \in {Op(before, p.update[i]) : before \in {f[i - 1]}} : TRUE]
           Run(m, f) == /\ f = [i \in 0 .. m |-> f[i]] /\ f[0] = start
                        /\ \A i \in 1 .. m : f[i] = Op(f[i - 1], p.update[i])
           T == {m \in Nat : \E f : Run(m, f)}
           h == CHOOSE f : Eqn(f)
           G == {m \in Nat : m <= n => Good(m, h[m])}
<1>1. p.update \in Seq(SockIds) /\ n \in Nat
  <2>1. p.update \in Seq(SockIds)
    BY DEF PortOK, Sound, QueueOK
  <2> QED BY <2>1, LenProperties
<1>2. q = h[n].port
  BY DEF _ep_port_update_events, Through
<1> HIDE DEF n
<1>3. Good(0, start)
  <2>1. start.ok /\ start.port = p
    OBVIOUS
  <2>2. Len(p.update) = n - 0 /\ \A j \in 1 .. n - 0 : p.update[j] = p.update[0 + j]
    BY <1>1 DEF n
  <2> HIDE DEF start
  <2> QED BY <2>1, <2>2
<1>4. ASSUME NEW i \in 0 .. n - 1, NEW x, Good(i, x) PROVE Good(i + 1, Op(x, p.update[i + 1]))
  <2>1. PICK pt, u, id : pt = x.port /\ u = x.port.update /\ id = p.update[i + 1]
    OBVIOUS
  <2>2. u \in Seq(SockIds) /\ Len(u) = n - i /\ n - i \in Nat \ {0}
    <3>1. PortOK(x.port, open, live, cond, Arrived(x.port))
      BY <1>4
    <3>2. u \in Seq(SockIds)
      BY <2>1, <3>1 DEF PortOK, Sound, QueueOK
    <3> QED BY <1>1, <1>4, <2>1, <3>2
  <2>3. u # << >>
    BY <2>2
  <2>4. /\ Head(u) = u[1] /\ Len(Tail(u)) = Len(u) - 1
        /\ \A j \in 1 .. Len(u) - 1 : Tail(u)[j] = u[j + 1]
    BY <2>2, <2>3, TailIs
  <2>5. id = Head(u)
    <3>1. 1 \in 1 .. n - i
      BY <2>2
    <3> QED BY <1>4, <2>1, <2>4, <3>1
  <2>6. PICK y : y = ep_sock_update(pt, kernel, id)
    OBVIOUS
  <2>7. y.ok /\ PortOK(y.port, open, live, cond, Arrived(y.port)) /\ IocpOK(y.port) /\ HeadDone(pt, y.port)
    <3>1. PortOK(pt, open, live, cond, Arrived(pt)) /\ IocpOK(pt) /\ pt.update # << >> /\ id = Head(pt.update)
      BY <1>4, <2>1, <2>3, <2>5
    <3> HIDE DEF Good, Op, start
    <3> QED BY <2>6, <3>1, SockUpdated
  <2>8. y.port.update = Tail(u) /\ y.port.active = p.active
    BY <1>4, <2>1, <2>7 DEF HeadDone
  <2>9. Len(Tail(u)) = n - (i + 1)
    BY <1>1, <2>2, <2>4
  <2>10. \A j \in 1 .. n - (i + 1) : Tail(u)[j] = p.update[(i + 1) + j]
    <3> SUFFICES ASSUME NEW j \in 1 .. n - (i + 1) PROVE Tail(u)[j] = p.update[(i + 1) + j]
      OBVIOUS
    <3>1. j \in 1 .. Len(u) - 1 /\ j + 1 \in 1 .. n - i /\ i + (j + 1) = (i + 1) + j
      BY <1>1, <2>2
    <3>2. u[j + 1] = p.update[i + (j + 1)]
      BY <1>4, <2>1, <3>1
    <3> QED BY <2>4, <3>1, <3>2
  <2>11. Op(x, p.update[i + 1]) = y
    BY <1>4, <2>1, <2>6
  <2>12. Good(i + 1, y)
    <3> HIDE DEF Op, start
    <3> QED BY <2>7, <2>8, <2>9, <2>10
  <2> QED BY <2>11, <2>12
<1> HIDE DEF Good, Op, start
<1>5. n \in T
  <2>1. 0 \in T
    <3>1. PICK f : f = [i \in 0 .. 0 |-> start]
      OBVIOUS
    <3>2. Run(0, f)
      BY <3>1
    <3> QED BY <3>2
  <2>2. ASSUME NEW m \in Nat, m \in T PROVE m + 1 \in T
    <3>1. PICK f : Run(m, f)
      BY <2>2
    <3>2. PICK new : new = Op(f[m], p.update[m + 1])
      OBVIOUS
    <3>3. PICK g : g = [i \in 0 .. m + 1 |-> IF i = m + 1 THEN new ELSE f[i]]
      OBVIOUS
    <3>4. g[m + 1] = new /\ \A i \in 0 .. m : g[i] = f[i]
      BY <3>3
    <3>5. ASSUME NEW i \in 1 .. m + 1 PROVE g[i] = Op(g[i - 1], p.update[i])
      <4>1. CASE i = m + 1
        <5>1. i - 1 = m /\ m \in 0 .. m
          BY <4>1
        <5> QED BY <3>2, <3>4, <4>1, <5>1
      <4>2. CASE i # m + 1
        <5>1. i \in 1 .. m /\ i \in 0 .. m /\ i - 1 \in 0 .. m
          BY <4>2
        <5> QED BY <3>1, <3>4, <5>1
      <4> QED BY <4>1, <4>2
    <3>6. g = [i \in 0 .. m + 1 |-> g[i]]
      BY <3>3
    <3>7. g[0] = start
      BY <3>1, <3>4
    <3>8. Run(m + 1, g)
      BY <3>5, <3>6, <3>7
    <3> HIDE DEF Run
    <3> QED BY <3>8
  <2> HIDE DEF T
  <2> QED BY <1>1, <2>1, <2>2, SetInduction
<1>6. Eqn(h)
  <2>1. PICK g : Run(n, g)
    BY <1>5
  <2>2. ASSUME NEW i \in 1 .. n
        PROVE  g[i] = CHOOSE x \in {Op(before, p.update[i]) : before \in {g[i - 1]}} : TRUE
    <3>1. {Op(before, p.update[i]) : before \in {g[i - 1]}} = {g[i]}
      BY <2>1, <2>2
    <3> QED BY <3>1
  <2>3. \A i \in 0 .. n : i = 0 \/ i \in 1 .. n
    BY <1>1
  <2>4. \A i \in 0 .. n :
          g[i] = IF i = 0 THEN start
                 ELSE CHOOSE x \in {Op(before, p.update[i]) : before \in {g[i - 1]}} : TRUE
    BY <2>1, <2>2, <2>3
  <2>5. Eqn(g)
    BY <2>1, <2>4
  <2> QED BY <2>5
<1> HIDE DEF h
<1>7. h[0] = start /\ \A i \in 1 .. n : h[i] = Op(h[i - 1], p.update[i])
  BY <1>1, <1>6
<1>8. n \in G
  <2>1. 0 \in G
    BY <1>3, <1>7
  <2>2. ASSUME NEW m \in Nat, m \in G PROVE m + 1 \in G
    <3> SUFFICES ASSUME m + 1 <= n PROVE Good(m + 1, h[m + 1])
      OBVIOUS
    <3>1. m \in 0 .. n - 1 /\ m + 1 \in 1 .. n /\ (m + 1) - 1 = m /\ m <= n
      BY <1>1
    <3> QED BY <1>4, <1>7, <2>2, <3>1
  <2> HIDE DEF G
  <2> QED BY <1>1, <2>1, <2>2, SetInduction
<1>9. Good(n, h[n])
  BY <1>1, <1>8
<1>10. PICK y : y = h[n]
  OBVIOUS
<1>11. Good(n, y)
  BY <1>9, <1>10
<1>12. PortOK(q, open, live, cond, Arrived(q)) /\ IocpOK(q) /\ q.active = p.active /\ Len(q.update) = n - n
  BY <1>2, <1>10, <1>11 DEF Good
<1>13. q.update \in Seq(SockIds)
  BY <1>12 DEF PortOK, Sound, QueueOK
<1>14. q.update = << >>
  BY <1>1, <1>12, <1>13, EmptySeq
<1> QED BY <1>12, <1>14

----------------------------------------------------------------------------
(* The port: the packets are taken.                                        *)

\* Everything of an ep_sock but whether it is polled is the same.
SameSocks(p, q) ==
  /\ DOMAIN q.sock = DOMAIN p.sock /\ \A i \in DOMAIN p.sock : q.sock[i].socket = p.sock[i].socket
  /\ q.tree = p.tree

(* An ep_sock whose poll is over queues to be polled again.                *)
LEMMA SockIdled ==
  ASSUME NEW p, Sound(p), NEW id \in DOMAIN p.sock, ~Idle(p, id),
         NEW s, IsSock(s), s.poll_status = IDLE, s.socket = p.sock[id].socket,
         NEW K, K = [p.sock EXCEPT ![id] = s],
         NEW q, IsPort(q), q.sock = K, q.tree = p.tree, q.update = Append(p.update, id),
         q.deleted = << >>, q.open
  PROVE  /\ Sound(q) /\ Idle(q, id) /\ SameSocks(p, q)
         /\ \A i \in DOMAIN p.sock \ {id} : Idle(q, i) = Idle(p, i)
<1>1. /\ p.update \in Seq(SockIds) /\ IsInjective(p.update) /\ id \in SockIds
      /\ ToSet(p.update) = {i \in DOMAIN p.sock : Idle(p, i)} /\ IsFcn(p.sock)
  BY DEF Sound, QueueOK
<1>2. /\ DOMAIN q.sock = DOMAIN p.sock /\ q.sock[id] = s /\ IsFcn(q.sock)
      /\ \A i \in DOMAIN p.sock \ {id} : q.sock[i] = p.sock[i]
  BY <1>1 DEF IsFcn
<1>3. Idle(q, id) /\ \A i \in DOMAIN p.sock \ {id} : Idle(q, i) = Idle(p, i)
  BY <1>2 DEF Idle, IDLE
<1>4. SameSocks(p, q)
  BY <1>2 DEF SameSocks
<1>5. TreeOK(q)
  BY <1>2, <1>4 DEF TreeOK, Sound, SameSocks
<1>6. QueueOK(q)
  <2>1. PICK U, V : U = p.update /\ V = Append(U, id)
    OBVIOUS
  <2>2. U \in Seq(SockIds) /\ IsInjective(U) /\ id \notin ToSet(U)
    BY <1>1, <2>1
  <2>3. V \in Seq(SockIds) /\ IsInjective(V) /\ ToSet(V) = ToSet(U) \cup {id}
    BY <1>1, <2>1, <2>2, AppendIs
  <2>4. \A i : i \in ToSet(V) <=> i \in DOMAIN q.sock /\ Idle(q, i)
    BY <1>1, <1>2, <1>3, <2>1, <2>3
  <2> QED BY <2>1, <2>3, <2>4 DEF QueueOK
<1>7. Sound(q)
  <2>1. DOMAIN q.sock \subseteq SockIds /\ \A i \in DOMAIN q.sock : IsSock(q.sock[i])
    BY <1>2 DEF Sound
  <2> QED BY <1>2, <1>5, <1>6, <2>1 DEF Sound
<1> QED BY <1>3, <1>4, <1>7

\* The rest of the port when the packet of an ep_sock has been taken.
Heard(p, id, q) ==
  /\ q.active = p.active /\ q.iocp = p.iocp
  /\ \A h \in DOMAIN p.tree : p.tree[h] # id =>
       h \in DOMAIN q.tree /\ q.tree[h] = p.tree[h] /\ Idle(q, p.tree[h]) = Idle(p, p.tree[h])

\* What is reported of it, if anything.
Told(p, id, q, events) ==
  \/ events = << >>
  \/ \E e : /\ events = <<e>> /\ e.data = p.sock[id].socket
            /\ e.data \in DOMAIN q.tree /\ q.tree[e.data] = id /\ Idle(q, id)

\* The handle reported is in some condition, if it is live.
Justly(p, id, live, cond, events) ==
  events # << >> /\ p.sock[id].socket \in live => cond[p.sock[id].socket] # {}

\* How an ep_sock is while its packet is taken.
HeardSock(p, id, q) ==
  \E s : /\ IsSock(s) /\ s.poll_status = IDLE /\ s.socket = p.sock[id].socket
         /\ q = [sock |-> [p.sock EXCEPT ![id] = s], tree |-> p.tree, update |-> p.update,
                 deleted |-> p.deleted, groups |-> p.groups, active |-> p.active, open |-> p.open,
                 iocp |-> p.iocp, afd |-> p.afd]

(* An ep_sock whose poll is over.                                          *)
LEMMA IdledIs ==
  ASSUME NEW p, IsPort(p), IsFcn(p.sock), NEW id \in DOMAIN p.sock, IsSock(p.sock[id]),
         NEW q, q = Idled(p, id)
  PROVE  HeardSock(p, id, q)
<1>1. PICK t, a, b, c, h : /\ t = p.sock[id] /\ a = t.poll_group /\ b = t.pending_events
                           /\ c = t.poll_status /\ h = t.socket
  OBVIOUS
<1>2. t = [socket |-> h, poll_group |-> a, user_data |-> h, user_events |-> Asked,
           pending_events |-> b, poll_status |-> c, delete_pending |-> FALSE]
  BY <1>1 DEF IsSock
<1>3. PICK s : s = [socket |-> h, poll_group |-> a, user_data |-> h, user_events |-> Asked,
                    pending_events |-> {}, poll_status |-> IDLE, delete_pending |-> FALSE]
  OBVIOUS
<1>4. PICK K1, K2 : /\ K1 = [p.sock EXCEPT ![id].poll_status = IDLE]
                    /\ K2 = [K1 EXCEPT ![id].pending_events = {}]
  OBVIOUS
<1>5. K2 = [p.sock EXCEPT ![id] = s]
  <2>1. PICK t1 : t1 = [t EXCEPT !.poll_status = IDLE]
    OBVIOUS
  <2>2. K1 = [p.sock EXCEPT ![id] = t1]
    BY <1>1, <1>4, <2>1
  <2>3. K1[id] = t1 /\ DOMAIN K1 = DOMAIN p.sock
    BY <2>2
  <2>4. K2 = [K1 EXCEPT ![id] = [t1 EXCEPT !.pending_events = {}]]
    BY <1>4, <2>3
  <2>5. [t1 EXCEPT !.pending_events = {}] = s
    <3>1. t1 = [socket |-> h, poll_group |-> a, user_data |-> h, user_events |-> Asked,
                pending_events |-> b, poll_status |-> IDLE, delete_pending |-> FALSE]
      BY <1>2, <2>1
    <3>2. PICK t2 : t2 = [t1 EXCEPT !.pending_events = {}]
      OBVIOUS
    <3>3. t2 = [socket |-> h, poll_group |-> a, user_data |-> h, user_events |-> Asked,
                pending_events |-> {}, poll_status |-> IDLE, delete_pending |-> FALSE]
      BY <3>1, <3>2
    <3> QED BY <1>3, <3>2, <3>3
  <2> QED BY <2>2, <2>4, <2>5 DEF IsFcn
<1>6. q = [[p EXCEPT !.sock = K1] EXCEPT !.sock = K2]
  BY <1>4 DEF Idled, SetPoll, IsPort
<1>7. q = [sock |-> K2, tree |-> p.tree, update |-> p.update, deleted |-> p.deleted,
           groups |-> p.groups, active |-> p.active, open |-> p.open, iocp |-> p.iocp, afd |-> p.afd]
  BY <1>6 DEF IsPort
<1>8. IsSock(s) /\ s.poll_status = IDLE /\ s.socket = p.sock[id].socket
  BY <1>1, <1>3 DEF IsSock
<1> QED BY <1>5, <1>7, <1>8 DEF HeardSock

(* A packet is taken.                                                      *)
LEMMA PacketTaken ==
  ASSUME NEW p, NEW open, NEW live, NEW cond, NEW got, PortOK(p, open, live, cond, got),
         NEW c \in got, NEW got2, \A d : d \in got2 <=> d \in got /\ d # c,
         NEW r, r = ep_sock_feed_event(p, c),
         NEW q, q = r.port, NEW events, events = r.events
  PROVE  /\ PortOK(q, open, live, cond, got2) /\ Heard(p, c.sock, q) /\ Told(p, c.sock, q, events)
         /\ Justly(p, c.sock, live, cond, events)
<1>1. PICK id, s : id = c.sock /\ s = p.sock[id]
  OBVIOUS
<1>2. /\ Sound(p) /\ Owed(p, got) /\ Waiting(p, open, cond) /\ Over(p, live, cond, got)
      /\ live \subseteq open /\ live \subseteq DOMAIN p.tree
  BY DEF PortOK
<1>3. /\ IsPort(p) /\ p.open /\ p.deleted = << >> /\ p.update \in Seq(SockIds) /\ IsInjective(p.update)
      /\ ToSet(p.update) = {i \in DOMAIN p.sock : Idle(p, i)} /\ IsFcn(p.sock)
      /\ id \in DOMAIN p.sock /\ IsSock(s) /\ ~Idle(p, id) /\ id \notin ToSet(p.update)
      /\ c.outcome \subseteq Conditions \cup {"LOCAL_CLOSE"} /\ TreeOK(p)
  BY <1>1, <1>2 DEF Sound, QueueOK, Owed
<1>4. s.delete_pending = FALSE /\ s.user_data = s.socket /\ s.user_events = Asked
  BY <1>3, SockIs
<1>5. PICK E, heard : E = Reported(s, c.outcome) /\ heard = Idled(p, id)
  OBVIOUS
<1>6. /\ events = IF E = {} THEN << >> ELSE <<[data |-> s.socket, events |-> E]>>
      /\ q = IF "LOCAL_CLOSE" \in c.outcome THEN ep_sock_delete(heard, id)
             ELSE ep_port_request_socket_update(heard, id)
  <2>1. "EPOLLONESHOT" \notin s.user_events
    BY <1>4 DEF Asked, AlwaysReported
  <2>2. r = [events |-> IF E = {} THEN << >> ELSE <<[data |-> s.socket, events |-> E]>>,
             port |-> IF "LOCAL_CLOSE" \in c.outcome THEN ep_sock_delete(heard, id)
                      ELSE ep_port_request_socket_update(heard, id)]
    BY <1>1, <1>4, <1>5, <2>1 DEF ep_sock_feed_event
  <2> QED BY <2>2
<1>7. PICK t : /\ IsSock(t) /\ t.poll_status = IDLE /\ t.socket = p.sock[id].socket
               /\ heard = [sock |-> [p.sock EXCEPT ![id] = t], tree |-> p.tree, update |-> p.update,
                           deleted |-> p.deleted, groups |-> p.groups, active |-> p.active,
                           open |-> p.open, iocp |-> p.iocp, afd |-> p.afd]
  <2>1. HeardSock(p, id, heard)
    BY <1>1, <1>3, <1>5, IdledIs
  <2> QED BY <2>1 DEF HeardSock
<1>8. PICK K : K = [p.sock EXCEPT ![id] = t]
  OBVIOUS
<1>9. /\ heard.sock = K /\ heard.tree = p.tree /\ heard.update = p.update /\ heard.deleted = << >>
      /\ heard.active = p.active /\ heard.open = p.open /\ heard.iocp = p.iocp /\ heard.afd = p.afd
      /\ IsPort(heard)
  BY <1>3, <1>7, <1>8 DEF IsPort
<1>10. /\ DOMAIN K = DOMAIN p.sock /\ K[id] = t /\ IsFcn(K)
       /\ \A i \in DOMAIN p.sock \ {id} : K[i] = p.sock[i]
  BY <1>3, <1>8 DEF IsFcn
<1>11. \A d : d \in got2 <=> d \in got /\ d.sock # id
  BY <1>1, <1>2 DEF Owed
<1>12. \A a \in p.afd : a.sock # id
  BY <1>1, <1>2 DEF Owed
<1>13. CASE "LOCAL_CLOSE" \in c.outcome
  <2>1. q = ep_sock_delete(heard, id)
    BY <1>6, <1>13
  <2>2. SameRest(heard, q) /\ Without(heard, id, q) /\ q.update = heard.update
        /\ q.iocp = heard.iocp /\ q.afd = heard.afd
    <3>1. /\ heard.update \in Seq(SockIds) /\ id \in DOMAIN heard.sock /\ id \notin ToSet(heard.update)
          /\ IsFcn(heard.sock) /\ IsSock(heard.sock[id]) /\ Idle(heard, id)
      BY <1>3, <1>7, <1>9, <1>10 DEF Idle
    <3> QED BY <1>9, <2>1, <3>1, DroppedIs
  <2>3. Without(p, id, q)
    <3>1. K[id].socket = p.sock[id].socket
      BY <1>7, <1>10
    <3>2. q.tree = [h \in DOMAIN p.tree \ {p.sock[id].socket} |-> p.tree[h]]
      BY <1>9, <2>2, <3>1 DEF Without
    <3>3. q.sock = [i \in DOMAIN p.sock \ {id} |-> p.sock[i]]
      <4>1. q.sock = [i \in DOMAIN K \ {id} |-> K[i]]
        BY <1>9, <2>2 DEF Without
      <4> QED BY <1>10, <4>1
    <3> QED BY <3>2, <3>3 DEF Without
  <2>4. IsPort(q) /\ q.deleted = << >> /\ q.open /\ q.active = p.active /\ q.iocp = p.iocp
        /\ q.afd = p.afd /\ q.update = p.update
    BY <1>3, <1>9, <2>2 DEF SameRest
  <2>5. "LOCAL_CLOSE" \notin Conditions
    BY DEF Conditions
  <2>6. p.sock[id].socket \notin live
    BY <1>1, <1>2, <1>13, <2>5 DEF Over
  <2>7. PortOK(q, open, live, cond, got2)
    BY <1>3, <1>11, <1>12, <2>3, <2>4, <2>6, SockGone
  <2>8. events = << >>
    <3>1. "FAILED" \notin c.outcome
      BY <1>3 DEF Conditions
    <3>2. E = {}
      BY <1>5, <1>13, <3>1 DEF Reported
    <3> QED BY <1>6, <3>2
  <2>9. Heard(p, id, q)
    <3>1. ASSUME NEW h \in DOMAIN p.tree, p.tree[h] # id
          PROVE  h \in DOMAIN q.tree /\ q.tree[h] = p.tree[h] /\ Idle(q, p.tree[h]) = Idle(p, p.tree[h])
      <4>1. p.tree[h] \in DOMAIN p.sock /\ p.sock[p.tree[h]].socket = h /\ p.tree[p.sock[id].socket] = id
        BY <1>3 DEF TreeOK
      <4>2. h # p.sock[id].socket
        BY <3>1, <4>1
      <4> QED BY <2>3, <3>1, <4>1, <4>2 DEF Without, Idle
    <3> QED BY <2>4, <3>1 DEF Heard
  <2> QED BY <1>1, <2>7, <2>8, <2>9 DEF Told, Justly
<1>14. CASE "LOCAL_CLOSE" \notin c.outcome
  <2>1. PICK U : U = Append(p.update, id)
    OBVIOUS
  <2>2. q = [sock |-> K, tree |-> p.tree, update |-> U, deleted |-> << >>, groups |-> p.groups,
             active |-> p.active, open |-> p.open, iocp |-> p.iocp, afd |-> p.afd]
    <3>1. ~Enqueued(heard, id)
      BY <1>3, <1>9 DEF Enqueued, ToSet
    <3>2. q = [heard EXCEPT !.update = U]
      <4>1. heard.update = p.update /\ q = ep_port_request_socket_update(heard, id)
        BY <1>6, <1>9, <1>14
      <4>2. q = [heard EXCEPT !.update = Append(heard.update, id)]
        BY <3>1, <4>1 DEF ep_port_request_socket_update
      <4>3. Append(heard.update, id) = U
        BY <2>1, <4>1
      <4> QED BY <4>2, <4>3
    <3>3. heard = [sock |-> K, tree |-> p.tree, update |-> p.update, deleted |-> << >>,
                   groups |-> p.groups, active |-> p.active, open |-> p.open, iocp |-> p.iocp,
                   afd |-> p.afd]
      BY <1>3, <1>7, <1>8
    <3> QED BY <3>2, <3>3
  <2>3. IsPort(q) /\ q.sock = K /\ q.tree = p.tree /\ q.update = Append(p.update, id)
        /\ q.deleted = << >> /\ q.open
    BY <1>3, <2>1, <2>2 DEF IsPort
  <2>4. q.active = p.active /\ q.iocp = p.iocp /\ q.afd = p.afd
    BY <2>2
  <2>5. /\ Sound(q) /\ Idle(q, id) /\ SameSocks(p, q)
        /\ \A i \in DOMAIN p.sock \ {id} : Idle(q, i) = Idle(p, i)
    BY <1>2, <1>3, <1>7, <1>8, <2>3, SockIdled
  <2>6. Owed(q, got2)
    <3>1. \A a \in q.afd \cup got2 : a \in p.afd \cup got /\ a.sock # id
      BY <1>11, <1>12, <2>4
    <3>2. \A a \in q.afd \cup got2 : a.sock \in DOMAIN q.sock /\ ~Idle(q, a.sock)
      BY <1>2, <2>5, <3>1 DEF Owed, SameSocks
    <3>3. ASSUME NEW i \in DOMAIN q.sock, ~Idle(q, i) PROVE \E a \in q.afd \cup got2 : a.sock = i
      <4>1. i \in DOMAIN p.sock /\ i # id /\ ~Idle(p, i)
        BY <2>5, <3>3 DEF SameSocks
      <4>2. PICK a \in p.afd \cup got : a.sock = i
        BY <1>2, <4>1 DEF Owed
      <4>3. a \in q.afd \cup got2
        BY <1>11, <2>4, <4>1, <4>2
      <4> QED BY <4>2, <4>3
    <3>4. \A d \in got2 : d \in got
      BY <1>11
    <3>5. /\ \A a \in q.afd : a = [sock |-> a.sock, mask |-> Watched]
          /\ \A d \in got2 : d = [sock |-> d.sock, outcome |-> d.outcome]
                            /\ d.outcome \subseteq Conditions \cup {"LOCAL_CLOSE"}
          /\ \A d, e \in got2 : d.sock = e.sock => d = e
          /\ \A a \in q.afd, d \in got2 : a.sock # d.sock
      BY <1>2, <2>4, <3>4 DEF Owed
    <3> QED BY <3>2, <3>3, <3>5 DEF Owed
  <2>7. \A a \in p.afd \cup got : q.sock[a.sock].socket = p.sock[a.sock].socket
    BY <1>2, <2>5 DEF Owed, SameSocks
  <2>8. Waiting(q, open, cond)
    BY <1>2, <2>4, <2>7 DEF Waiting
  <2>9. Over(q, live, cond, got2)
    BY <1>2, <1>11, <2>7 DEF Over
  <2>10. PortOK(q, open, live, cond, got2)
    BY <1>2, <2>3, <2>5, <2>6, <2>8, <2>9 DEF PortOK
  <2>11. Heard(p, id, q)
    <3>1. ASSUME NEW h \in DOMAIN p.tree, p.tree[h] # id
          PROVE  Idle(q, p.tree[h]) = Idle(p, p.tree[h])
      BY <1>3, <2>5, <3>1 DEF TreeOK
    <3> QED BY <2>3, <2>4, <3>1 DEF Heard
  <2>12. Told(p, id, q, events)
    <3>1. CASE E = {}
      BY <1>6, <3>1 DEF Told
    <3>2. CASE E # {}
      <4>1. PICK e : e = [data |-> s.socket, events |-> E]
        OBVIOUS
      <4>2. e.data = s.socket /\ events = <<e>>
        BY <1>6, <3>2, <4>1
      <4>3. s.socket \in DOMAIN q.tree /\ q.tree[s.socket] = id
        BY <1>1, <1>3, <2>3 DEF TreeOK
      <4> QED BY <1>1, <2>5, <4>2, <4>3 DEF Told
    <3> QED BY <3>1, <3>2
  <2>13. p.sock[id].socket \in live => cond[p.sock[id].socket] # {}
    BY <1>1, <1>2 DEF Over
  <2> QED BY <1>1, <2>10, <2>11, <2>12, <2>13 DEF Justly
<1> QED BY <1>13, <1>14

\* What has been reported: each handle once, none of them polled.
EventsOK(p, cond, events) ==
  /\ events \in Seq(ToSet(events))
  /\ \A i \in DOMAIN events :
       /\ events[i].data \in DOMAIN p.tree /\ Idle(p, p.tree[events[i].data])
       /\ events[i].data = mListenSocket => cond[mListenSocket] # {}
  /\ \A i, j \in DOMAIN events : events[i].data = events[j].data => i = j

(* It stays so when one more packet is taken.                              *)
LEMMA EventsGrow ==
  ASSUME NEW p, NEW cond, NEW id \in DOMAIN p.sock, ~Idle(p, id), TreeOK(p),
         NEW all, EventsOK(p, cond, all), NEW q, Heard(p, id, q),
         NEW events, Told(p, id, q, events),
         events # << >> /\ p.sock[id].socket = mListenSocket => cond[mListenSocket] # {},
         NEW all2, all2 = all \o events
  PROVE  EventsOK(q, cond, all2)
<1>1. all \in Seq(ToSet(all))
  BY DEF EventsOK
<1>2. PICK n \in Nat : n = Len(all) /\ DOMAIN all = 1 .. n
  BY <1>1, LenProperties
<1>3. \A i \in 1 .. n :
        /\ all[i].data \in DOMAIN q.tree /\ Idle(q, q.tree[all[i].data]) /\ p.tree[all[i].data] # id
        /\ all[i].data = mListenSocket => cond[mListenSocket] # {}
  BY <1>2 DEF EventsOK, Heard
<1>4. \A i, j \in 1 .. n : all[i].data = all[j].data => i = j
  BY <1>2 DEF EventsOK
<1>5. CASE events = << >>
  <2>1. all2 = all
    BY <1>1, <1>5, ConcatEmptySeq
  <2> QED BY <1>1, <1>2, <1>3, <1>4, <2>1 DEF EventsOK
<1>6. CASE events # << >>
  <2>1. PICK e : /\ events = <<e>> /\ e.data = p.sock[id].socket
                 /\ e.data \in DOMAIN q.tree /\ q.tree[e.data] = id /\ Idle(q, id)
    BY <1>6 DEF Told
  <2>2. PICK S : S = ToSet(all) \cup {e}
    OBVIOUS
  <2>3. all \in Seq(S) /\ e \in S
    <3>1. ToSet(all) \subseteq S
      BY <2>2
    <3> QED BY <1>1, <2>2, <3>1, SeqMonotonic
  <2>4. all2 = Append(all, e)
    BY <2>1, <2>3, AppendIsConcat
  <2>5. /\ all2 \in Seq(S) /\ Len(all2) = n + 1 /\ all2[n + 1] = e
        /\ \A i \in 1 .. n : all2[i] = all[i]
    BY <1>2, <2>3, <2>4, AppendProperties
  <2>6. DOMAIN all2 = 1 .. n + 1 /\ all2 \in Seq(ToSet(all2))
    BY <2>5, LenProperties, SeqOfItsOwn
  <2>7. \A i \in 1 .. n : all[i].data # e.data
    <3>1. p.tree[e.data] = id
      BY <2>1 DEF TreeOK
    <3> QED BY <1>3, <3>1
  <2>8. \A i \in 1 .. n + 1 : i \in 1 .. n \/ i = n + 1
    OBVIOUS
  <2>9. ASSUME NEW i \in 1 .. n + 1
        PROVE  /\ all2[i].data \in DOMAIN q.tree /\ Idle(q, q.tree[all2[i].data])
               /\ all2[i].data = mListenSocket => cond[mListenSocket] # {}
    <3>1. CASE i \in 1 .. n
      BY <1>3, <2>5, <3>1
    <3>2. CASE i = n + 1
      BY <1>6, <2>1, <2>5, <3>2
    <3> QED BY <2>8, <3>1, <3>2
  <2>10. ASSUME NEW i \in 1 .. n + 1, NEW j \in 1 .. n + 1, all2[i].data = all2[j].data PROVE i = j
    BY <1>4, <2>5, <2>7, <2>8, <2>10
  <2> QED BY <2>6, <2>9, <2>10 DEF EventsOK
<1> QED BY <1>5, <1>6

\* All the packets are taken off the completion port, and reported.
Fed(p, fed) ==
  fed = _ep_port_feed_events([p EXCEPT !.active = 0, !.iocp = << >>], p.iocp)

(* All the packets are taken.                                              *)
LEMMA PortFed ==
  ASSUME NEW p, NEW open, NEW live, NEW cond, PortOK(p, open, live, cond, Arrived(p)), IocpOK(p),
         mListenSocket \in live, NEW fed, Fed(p, fed),
         NEW q, q = fed.port, NEW events, events = fed.events
  PROVE  /\ PortOK(q, open, live, cond, Arrived(q)) /\ IocpOK(q) /\ q.active = 0
         /\ EventsOK(q, cond, events)
<1>1. PICK p0, packets : p0 = [p EXCEPT !.active = 0, !.iocp = << >>] /\ packets = p.iocp
  OBVIOUS
<1> DEFINE n == Len(packets)
           Op(x, c) == LET new == ep_sock_feed_event(x.port, c)
                       IN  [events |-> x.events \o new.events, port |-> new.port]
           start == [events |-> << >>, port |-> p0]
           Left(i) == {packets[j] : j \in i + 1 .. n}
           Good(i, x) == /\ PortOK(x.port, open, live, cond, Left(i))
                         /\ x.port.active = 0 /\ x.port.iocp = << >>
                         /\ EventsOK(x.port, cond, x.events)
           Eqn(f) == f = [i \in 0 .. n |->
                            IF i = 0 THEN start
                            ELSE CHOOSE x \in {Op(before, packets[i]) : before \in {f[i - 1]}} : TRUE]
           Run(m, f) == /\ f = [i \in 0 .. m |-> f[i]] /\ f[0] = start
                        /\ \A i \in 1 .. m : f[i] = Op(f[i - 1], packets[i])
           T == {m \in Nat : \E f : Run(m, f)}
           h == CHOOSE f : Eqn(f)
           G == {m \in Nat : m <= n => Good(m, h[m])}
<1>2. n \in Nat /\ DOMAIN packets = 1 .. n /\ IsInjective(packets) /\ Arrived(p) = ToSet(packets)
  <2>1. packets \in Seq(Arrived(p)) /\ IsInjective(packets)
    BY <1>1 DEF IocpOK
  <2> QED BY <1>1, <2>1, LenProperties DEF Arrived
<1>3. fed = h[n]
  <2>1. fed = _ep_port_feed_events(p0, packets)
    BY <1>1 DEF Fed
  <2> QED BY <2>1 DEF _ep_port_feed_events, Through
<1> HIDE DEF n
<1>4. Good(0, start)
  <2>1. IsPort(p)
    BY DEF PortOK, Sound
  <2>2. p0 = [sock |-> p.sock, tree |-> p.tree, update |-> p.update, deleted |-> p.deleted,
              groups |-> p.groups, active |-> 0, open |-> p.open, iocp |-> << >>, afd |-> p.afd]
    BY <1>1, <2>1 DEF IsPort
  <2>3. /\ p0.sock = p.sock /\ p0.tree = p.tree /\ p0.update = p.update /\ p0.deleted = p.deleted
        /\ p0.open = p.open /\ p0.active = 0 /\ p0.iocp = << >> /\ p0.afd = p.afd /\ IsPort(p0)
    BY <2>2 DEF IsPort
  <2>4. Left(0) = Arrived(p)
    <3>1. \A j : j \in 0 + 1 .. n <=> j \in 1 .. n
      BY <1>2
    <3> QED BY <1>2, <3>1 DEF ToSet
  <2> HIDE DEF Left
  <2>5. PortOK(p0, open, live, cond, Arrived(p))
    <3>1. Sound(p0)
      BY <2>3 DEF PortOK, Sound, TreeOK, QueueOK, Idle
    <3>2. Owed(p0, Arrived(p)) /\ Waiting(p0, open, cond) /\ Over(p0, live, cond, Arrived(p))
      BY <2>3 DEF PortOK, Owed, Waiting, Over, Idle
    <3> QED BY <2>3, <3>1, <3>2 DEF PortOK
  <2>6. EventsOK(p0, cond, << >>)
    <3>1. << >> \in Seq(ToSet(<< >>))
      BY EmptySeq
    <3>2. DOMAIN << >> = {}
      OBVIOUS
    <3> QED BY <3>1, <3>2 DEF EventsOK
  <2>7. start.events = << >> /\ start.port = p0
    OBVIOUS
  <2> HIDE DEF start
  <2> QED BY <2>3, <2>4, <2>5, <2>6, <2>7
<1>5. ASSUME NEW i \in 0 .. n - 1, NEW x, Good(i, x) PROVE Good(i + 1, Op(x, packets[i + 1]))
  <2>1. PICK w, c, new : w = x.port /\ c = packets[i + 1] /\ new = ep_sock_feed_event(w, c)
    OBVIOUS
  <2>2. PICK w2, events2, all2 : w2 = new.port /\ events2 = new.events /\ all2 = x.events \o events2
    OBVIOUS
  <2>3. PICK got, got2 : got = Left(i) /\ got2 = got \ {c}
    OBVIOUS
  <2>4. PortOK(w, open, live, cond, got) /\ w.active = 0 /\ w.iocp = << >> /\ EventsOK(w, cond, x.events)
    BY <1>5, <2>1, <2>3
  <2>5. c \in got
    <3>1. i + 1 \in i + 1 .. n
      BY <1>2
    <3> QED BY <2>1, <2>3, <3>1
  <2>6. got2 = Left(i + 1)
    <3>1. ASSUME NEW j \in i + 1 .. n, packets[j] # c PROVE j \in (i + 1) + 1 .. n
      <4>1. j # i + 1
        BY <2>1, <3>1
      <4> QED BY <1>2, <4>1
    <3>2. ASSUME NEW j \in (i + 1) + 1 .. n PROVE j \in i + 1 .. n /\ packets[j] # c
      <4>1. j \in 1 .. n /\ i + 1 \in 1 .. n /\ j # i + 1 /\ j \in i + 1 .. n
        BY <1>2
      <4> QED BY <1>2, <2>1, <4>1 DEF IsInjective
    <3>3. got2 \subseteq Left(i + 1)
      BY <2>3, <3>1
    <3>4. Left(i + 1) \subseteq got2
      BY <2>3, <3>2
    <3> QED BY <3>3, <3>4
  <2> HIDE DEF Left
  <2>7. /\ PortOK(w2, open, live, cond, got2) /\ Heard(w, c.sock, w2) /\ Told(w, c.sock, w2, events2)
        /\ Justly(w, c.sock, live, cond, events2)
    <3>1. \A d : d \in got2 <=> d \in got /\ d # c
      BY <2>3
    <3>2. PortOK(w, open, live, cond, got) /\ new = ep_sock_feed_event(w, c)
          /\ w2 = new.port /\ events2 = new.events
      BY <2>1, <2>2, <2>4
    <3> HIDE DEF Good, Op, start
    <3> QED BY <2>5, <3>1, <3>2, PacketTaken
  <2>8. EventsOK(w2, cond, all2)
    <3>1. c.sock \in DOMAIN w.sock /\ ~Idle(w, c.sock) /\ TreeOK(w)
      BY <2>4, <2>5 DEF PortOK, Owed, Sound
    <3>2. events2 # << >> /\ w.sock[c.sock].socket = mListenSocket => cond[mListenSocket] # {}
      BY <2>7 DEF Justly
    <3> HIDE DEF Good, Op, start
    <3> QED BY <2>2, <2>4, <2>7, <3>1, <3>2, EventsGrow
  <2>9. Op(x, packets[i + 1]) = [events |-> all2, port |-> w2]
    BY <2>1, <2>2
  <2>10. w2.active = 0 /\ w2.iocp = << >>
    BY <2>4, <2>7 DEF Heard
  <2>11. PICK y : y = [events |-> all2, port |-> w2]
    OBVIOUS
  <2>12. y.events = all2 /\ y.port = w2
    BY <2>11
  <2>13. Good(i + 1, y)
    <3> HIDE DEF Op, start
    <3> QED BY <2>6, <2>7, <2>8, <2>10, <2>12
  <2> QED BY <2>9, <2>11, <2>13
<1> HIDE DEF Good, Op, start
<1>6. n \in T
  <2>1. 0 \in T
    <3>1. PICK f : f = [i \in 0 .. 0 |-> start]
      OBVIOUS
    <3>2. Run(0, f)
      BY <3>1
    <3> QED BY <3>2
  <2>2. ASSUME NEW m \in Nat, m \in T PROVE m + 1 \in T
    <3>1. PICK f : Run(m, f)
      BY <2>2
    <3>2. PICK new : new = Op(f[m], packets[m + 1])
      OBVIOUS
    <3>3. PICK g : g = [i \in 0 .. m + 1 |-> IF i = m + 1 THEN new ELSE f[i]]
      OBVIOUS
    <3>4. g[m + 1] = new /\ \A i \in 0 .. m : g[i] = f[i]
      BY <3>3
    <3>5. ASSUME NEW i \in 1 .. m + 1 PROVE g[i] = Op(g[i - 1], packets[i])
      <4>1. CASE i = m + 1
        <5>1. i - 1 = m /\ m \in 0 .. m
          BY <4>1
        <5> QED BY <3>2, <3>4, <4>1, <5>1
      <4>2. CASE i # m + 1
        <5>1. i \in 1 .. m /\ i \in 0 .. m /\ i - 1 \in 0 .. m
          BY <4>2
        <5> QED BY <3>1, <3>4, <5>1
      <4> QED BY <4>1, <4>2
    <3>6. g = [i \in 0 .. m + 1 |-> g[i]]
      BY <3>3
    <3>7. g[0] = start
      BY <3>1, <3>4
    <3>8. Run(m + 1, g)
      BY <3>5, <3>6, <3>7
    <3> HIDE DEF Run
    <3> QED BY <3>8
  <2> HIDE DEF T
  <2> QED BY <1>2, <2>1, <2>2, SetInduction
<1>7. Eqn(h)
  <2>1. PICK g : Run(n, g)
    BY <1>6
  <2>2. ASSUME NEW i \in 1 .. n
        PROVE  g[i] = CHOOSE x \in {Op(before, packets[i]) : before \in {g[i - 1]}} : TRUE
    <3>1. {Op(before, packets[i]) : before \in {g[i - 1]}} = {g[i]}
      BY <2>1, <2>2
    <3> QED BY <3>1
  <2>3. \A i \in 0 .. n : i = 0 \/ i \in 1 .. n
    BY <1>2
  <2>4. \A i \in 0 .. n :
          g[i] = IF i = 0 THEN start
                 ELSE CHOOSE x \in {Op(before, packets[i]) : before \in {g[i - 1]}} : TRUE
    BY <2>1, <2>2, <2>3
  <2>5. Eqn(g)
    BY <2>1, <2>4
  <2> QED BY <2>5
<1> HIDE DEF h
<1>8. h[0] = start /\ \A i \in 1 .. n : h[i] = Op(h[i - 1], packets[i])
  BY <1>2, <1>7
<1>9. n \in G
  <2>1. 0 \in G
    BY <1>4, <1>8
  <2>2. ASSUME NEW m \in Nat, m \in G PROVE m + 1 \in G
    <3> SUFFICES ASSUME m + 1 <= n PROVE Good(m + 1, h[m + 1])
      OBVIOUS
    <3>1. m \in 0 .. n - 1 /\ m + 1 \in 1 .. n /\ (m + 1) - 1 = m /\ m <= n
      BY <1>2
    <3> QED BY <1>5, <1>8, <2>2, <3>1
  <2> HIDE DEF G
  <2> QED BY <1>2, <2>1, <2>2, SetInduction
<1>10. Good(n, fed)
  BY <1>2, <1>3, <1>9
<1>11. PortOK(q, open, live, cond, Left(n)) /\ q.active = 0 /\ q.iocp = << >> /\ EventsOK(q, cond, events)
  BY <1>10 DEF Good
<1>12. Left(n) = {} /\ Arrived(q) = {}
  <2>1. n + 1 .. n = {}
    BY <1>2
  <2>2. Arrived(q) = {}
    BY <1>11 DEF Arrived, ToSet
  <2> QED BY <2>1, <2>2
<1>13. IocpOK(q)
  <2>1. << >> \in Seq(Arrived(q)) /\ IsInjective(<< >>)
    BY EmptySeq DEF IsInjective
  <2> QED BY <1>11, <2>1 DEF IocpOK
<1> QED BY <1>11, <1>12, <1>13

----------------------------------------------------------------------------
(* The port: epoll_ctl.                                                    *)

\* The ep_socks there were are as they were.
Others(p, q) ==
  \A g \in DOMAIN p.tree :
    g \in DOMAIN q.tree /\ q.tree[g] = p.tree[g] /\ Idle(q, p.tree[g]) = Idle(p, p.tree[g])

With(p, h, id, s, q) ==
  /\ q.sock = [i \in DOMAIN p.sock \cup {id} |-> IF i = id THEN s ELSE p.sock[i]]
  /\ q.tree = [g \in DOMAIN p.tree \cup {h} |-> IF g = h THEN id ELSE p.tree[g]]

(* A port that has one more ep_sock, which queues.                         *)
LEMMA SockAdded ==
  ASSUME NEW p, NEW open, NEW live, NEW cond, NEW got, PortOK(p, open, live, cond, got),
         NEW h \in SOCKETs \ DOMAIN p.tree, NEW id \in SockIds \ DOMAIN p.sock,
         NEW s, IsSock(s), s.poll_status = IDLE, s.socket = h,
         NEW q, IsPort(q), With(p, h, id, s, q), q.update = Append(p.update, id),
         q.deleted = << >>, q.open, q.afd = p.afd
  PROVE  /\ PortOK(q, open, live, cond, got) /\ Others(p, q)
         /\ h \in DOMAIN q.tree /\ Idle(q, q.tree[h])
<1>1. /\ Sound(p) /\ Owed(p, got) /\ Waiting(p, open, cond) /\ Over(p, live, cond, got)
      /\ live \subseteq open /\ live \subseteq DOMAIN p.tree
  BY DEF PortOK
<1>2. /\ p.update \in Seq(SockIds) /\ IsInjective(p.update)
      /\ ToSet(p.update) = {i \in DOMAIN p.sock : Idle(p, i)} /\ TreeOK(p)
      /\ DOMAIN p.sock \subseteq SockIds /\ DOMAIN p.tree \subseteq SOCKETs
      /\ \A i \in DOMAIN p.sock : IsSock(p.sock[i])
  BY <1>1 DEF Sound, QueueOK
<1>3. /\ DOMAIN q.sock = DOMAIN p.sock \cup {id} /\ q.sock[id] = s /\ IsFcn(q.sock)
      /\ \A i \in DOMAIN p.sock : q.sock[i] = p.sock[i]
  BY DEF IsFcn, With
<1>4. /\ DOMAIN q.tree = DOMAIN p.tree \cup {h} /\ q.tree[h] = id /\ IsFcn(q.tree)
      /\ \A g \in DOMAIN p.tree : q.tree[g] = p.tree[g]
  BY DEF IsFcn, With
<1>5. Idle(q, id) /\ \A i \in DOMAIN p.sock : Idle(q, i) = Idle(p, i)
  BY <1>3 DEF Idle
<1>6. TreeOK(q)
  BY <1>2, <1>3, <1>4 DEF TreeOK
<1>7. QueueOK(q)
  <2>1. PICK U, V : U = p.update /\ V = Append(U, id)
    OBVIOUS
  <2>2. U \in Seq(SockIds) /\ IsInjective(U) /\ id \notin ToSet(U)
    BY <1>2, <2>1
  <2>3. V \in Seq(SockIds) /\ IsInjective(V) /\ ToSet(V) = ToSet(U) \cup {id}
    BY <2>1, <2>2, AppendIs
  <2>4. \A i : i \in ToSet(V) <=> i \in DOMAIN q.sock /\ Idle(q, i)
    BY <1>2, <1>3, <1>5, <2>1, <2>3
  <2> QED BY <2>1, <2>3, <2>4 DEF QueueOK
<1>8. Sound(q)
  <2>1. DOMAIN q.sock \subseteq SockIds /\ \A i \in DOMAIN q.sock : IsSock(q.sock[i])
    BY <1>2, <1>3
  <2>2. DOMAIN q.tree \subseteq SOCKETs
    BY <1>2, <1>4
  <2> QED BY <1>3, <1>4, <1>6, <1>7, <2>1, <2>2 DEF Sound
<1>9. \A a \in p.afd \cup got : a.sock \in DOMAIN p.sock
  BY <1>1 DEF Owed
<1>10. Owed(q, got)
  <2>1. \A a \in q.afd \cup got : a.sock \in DOMAIN q.sock /\ ~Idle(q, a.sock)
    BY <1>1, <1>3, <1>5 DEF Owed
  <2>2. \A i \in DOMAIN q.sock : ~Idle(q, i) => \E a \in q.afd \cup got : a.sock = i
    BY <1>1, <1>3, <1>5 DEF Owed
  <2>3. /\ \A a \in q.afd : a = [sock |-> a.sock, mask |-> Watched]
        /\ \A d \in got : d = [sock |-> d.sock, outcome |-> d.outcome]
                          /\ d.outcome \subseteq Conditions \cup {"LOCAL_CLOSE"}
        /\ \A d, e \in got : d.sock = e.sock => d = e
        /\ \A a \in q.afd, d \in got : a.sock # d.sock
    BY <1>1 DEF Owed
  <2> QED BY <2>1, <2>2, <2>3 DEF Owed
<1>11. Waiting(q, open, cond)
  BY <1>1, <1>3, <1>9 DEF Waiting
<1>12. Over(q, live, cond, got)
  <2>1. \A a \in got : q.sock[a.sock] = p.sock[a.sock]
    BY <1>3, <1>9
  <2> QED BY <1>1, <2>1 DEF Over
<1>13. Others(p, q)
  BY <1>2, <1>4, <1>5 DEF Others, TreeOK
<1>14. PortOK(q, open, live, cond, got)
  BY <1>1, <1>4, <1>8, <1>10, <1>11, <1>12 DEF PortOK
<1> QED BY <1>4, <1>5, <1>13, <1>14

\* An ep_sock has been added, if there is one left for it.
AddedTo(p, h, q) ==
  /\ q.active = 0 /\ Others(p, q)
  /\ ~Registered(p, h) /\ DOMAIN p.sock # SockIds => h \in DOMAIN q.tree /\ Idle(q, q.tree[h])

(* A handle is given to epoll while nobody waits.                          *)
LEMMA CtlAdded ==
  ASSUME NEW p, NEW open, NEW live, NEW cond, PortOK(p, open, live, cond, Arrived(p)), IocpOK(p),
         p.active = 0, NEW kernel, NEW h \in SOCKETs,
         NEW q, q = _ep_port_ctl_add(p, kernel, h, Event(h))
  PROVE  PortOK(q, open, live, cond, Arrived(q)) /\ IocpOK(q) /\ AddedTo(p, h, q)
<1>1. /\ Sound(p) /\ Owed(p, Arrived(p)) /\ Waiting(p, open, cond) /\ Over(p, live, cond, Arrived(p))
      /\ live \subseteq open /\ live \subseteq DOMAIN p.tree
  BY DEF PortOK
<1>2. /\ IsPort(p) /\ p.open /\ p.deleted = << >> /\ p.update \in Seq(SockIds)
      /\ ToSet(p.update) = {i \in DOMAIN p.sock : Idle(p, i)} /\ DOMAIN p.sock \subseteq SockIds
  BY <1>1 DEF Sound, QueueOK
<1>3. CASE Registered(p, h) \/ DOMAIN p.sock = SockIds
  <2>1. PICK groups : groups = Release(Acquire(p.groups), Grown(p.groups).id)
    OBVIOUS
  <2>2. q = [p EXCEPT !.groups = groups]
    BY <1>3, <2>1 DEF _ep_port_ctl_add, ep_sock_new_failed
  <2>3. q = [sock |-> p.sock, tree |-> p.tree, update |-> p.update, deleted |-> p.deleted,
             groups |-> groups, active |-> p.active, open |-> p.open, iocp |-> p.iocp, afd |-> p.afd]
    BY <1>2, <2>2 DEF IsPort
  <2>4. /\ q.sock = p.sock /\ q.tree = p.tree /\ q.update = p.update /\ q.deleted = p.deleted
        /\ q.active = p.active /\ q.open = p.open /\ q.iocp = p.iocp /\ q.afd = p.afd /\ IsPort(q)
    BY <2>3 DEF IsPort
  <2>5. Arrived(q) = Arrived(p) /\ IocpOK(q) /\ \A i : Idle(q, i) = Idle(p, i)
    BY <2>4 DEF Arrived, IocpOK, Idle
  <2>6. Sound(q)
    BY <1>1, <2>4, <2>5 DEF Sound, TreeOK, QueueOK
  <2>7. Owed(q, Arrived(q)) /\ Waiting(q, open, cond) /\ Over(q, live, cond, Arrived(q))
    BY <1>1, <2>4, <2>5 DEF Owed, Waiting, Over
  <2>8. AddedTo(p, h, q)
    BY <1>3, <2>4, <2>5 DEF AddedTo, Others
  <2> QED BY <1>1, <2>4, <2>5, <2>6, <2>7, <2>8 DEF PortOK
<1>4. CASE ~(Registered(p, h) \/ DOMAIN p.sock = SockIds)
  <2>1. PICK id : id = CHOOSE i \in SockIds : i \notin DOMAIN p.sock
    OBVIOUS
  <2>2. id \in SockIds \ DOMAIN p.sock
    <3>1. \E i \in SockIds : i \notin DOMAIN p.sock
      BY <1>2, <1>4
    <3> QED BY <2>1, <3>1
  <2>3. h \in SOCKETs \ DOMAIN p.tree
    BY <1>4 DEF Registered
  <2>4. PICK G, a, s0, K0, Tr : /\ G = Acquire(p.groups) /\ a = Grown(p.groups).id
                                /\ s0 = [socket |-> h, poll_group |-> a, user_data |-> h,
                                         user_events |-> {}, pending_events |-> {},
                                         poll_status |-> IDLE, delete_pending |-> FALSE]
                                /\ K0 = [i \in DOMAIN p.sock \cup {id} |-> IF i = id THEN s0 ELSE p.sock[i]]
                                /\ Tr = [g \in DOMAIN p.tree \cup {h} |-> IF g = h THEN id ELSE p.tree[g]]
    OBVIOUS
  <2>5. PICK new : new = ep_sock_new(p, h)
    OBVIOUS
  <2>6. new = [sock |-> K0, tree |-> Tr, update |-> p.update, deleted |-> << >>, groups |-> G,
               active |-> p.active, open |-> p.open, iocp |-> p.iocp, afd |-> p.afd]
    <3>1. new = [p EXCEPT !.groups = G, !.sock = K0, !.tree = Tr]
      BY <2>1, <2>4, <2>5 DEF ep_sock_new
    <3> QED BY <1>2, <3>1 DEF IsPort
  <2>7. new.sock = K0 /\ new.tree = Tr /\ Tr[h] = id /\ new.active = 0 /\ new.update = p.update
        /\ new.deleted = << >>
    BY <2>4, <2>6
  <2>8. PICK s, K1, K : /\ s = [socket |-> h, poll_group |-> a, user_data |-> h,
                                user_events |-> Asked, pending_events |-> {},
                                poll_status |-> IDLE, delete_pending |-> FALSE]
                        /\ K1 = [K0 EXCEPT ![id].user_events = Asked]
                        /\ K = [K1 EXCEPT ![id].user_data = h]
    OBVIOUS
  <2>9. K = [i \in DOMAIN p.sock \cup {id} |-> IF i = id THEN s ELSE p.sock[i]]
    <3>1. K0[id] = s0 /\ DOMAIN K0 = DOMAIN p.sock \cup {id}
      BY <2>4
    <3>2. PICK s1 : s1 = [s0 EXCEPT !.user_events = Asked]
      OBVIOUS
    <3>3. K1 = [K0 EXCEPT ![id] = s1]
      BY <2>8, <3>1, <3>2
    <3>4. K1[id] = s1 /\ DOMAIN K1 = DOMAIN K0
      BY <3>1, <3>3
    <3>5. K = [K1 EXCEPT ![id] = [s1 EXCEPT !.user_data = h]]
      BY <2>8, <3>4
    <3>6. [s1 EXCEPT !.user_data = h] = s
      <4>1. PICK s2 : s2 = [s1 EXCEPT !.user_data = h]
        OBVIOUS
      <4>2. s1 = [socket |-> h, poll_group |-> a, user_data |-> h, user_events |-> Asked,
                  pending_events |-> {}, poll_status |-> IDLE, delete_pending |-> FALSE]
        BY <2>4, <3>2
      <4>3. s2 = [socket |-> h, poll_group |-> a, user_data |-> h, user_events |-> Asked,
                  pending_events |-> {}, poll_status |-> IDLE, delete_pending |-> FALSE]
        BY <4>1, <4>2
      <4> QED BY <2>8, <4>1, <4>3
    <3> QED BY <2>4, <3>1, <3>3, <3>5, <3>6
  <2>10. PICK set : set = SetEvents(new, id, Event(h))
    OBVIOUS
  <2>11. set = [sock |-> K, tree |-> Tr, update |-> p.update, deleted |-> << >>, groups |-> G,
                active |-> p.active, open |-> p.open, iocp |-> p.iocp, afd |-> p.afd]
    <3>1. Event(h).events \cup AlwaysReported = Asked /\ Event(h).data = h
      BY DEF Event, Asked
    <3>2. set = [[new EXCEPT !.sock = K1] EXCEPT !.sock = K]
      BY <2>6, <2>7, <2>8, <2>10, <3>1 DEF SetEvents
    <3> QED BY <2>6, <3>2
  <2>12. PICK U : U = Append(p.update, id)
    OBVIOUS
  <2>13. q = [set EXCEPT !.update = U]
    <3>1. set.sock[id] = s /\ set.active = 0 /\ set.update = p.update /\ set.deleted = << >>
      BY <2>9, <2>11
    <3>2. Unwatched(set.sock[id]) # {}
      <4>1. s.user_events = Asked /\ s.pending_events = {}
        BY <2>8
      <4>2. "EPOLLIN" \in Asked /\ "EPOLLIN" \in _KNOWN_EPOLL_EVENTS
        BY DEF Asked, _KNOWN_EPOLL_EVENTS
      <4>3. "EPOLLIN" \in Unwatched(s)
        BY <4>1, <4>2 DEF Unwatched
      <4> QED BY <3>1, <4>3
    <3>3. ~Enqueued(set, id)
      BY <1>2, <2>2, <3>1 DEF Enqueued, ToSet
    <3>4. PICK r : r = [set EXCEPT !.update = U]
      OBVIOUS
    <3>5. ep_port_request_socket_update(set, id) = r
      <4>1. ep_port_request_socket_update(set, id) = [set EXCEPT !.update = Append(set.update, id)]
        BY <3>3 DEF ep_port_request_socket_update
      <4>2. Append(set.update, id) = U
        BY <2>12, <3>1
      <4> QED BY <3>4, <4>1, <4>2
    <3>6. ep_sock_set_event(new, id, Event(h)) = r
      BY <2>10, <3>2, <3>5 DEF ep_sock_set_event
    <3>7. r.active = 0
      BY <1>2, <2>11, <3>4
    <3>8. q = _ep_port_update_events_if_polling(r, kernel)
      <4>1. q = _ep_port_update_events_if_polling(ep_sock_set_event(new, new.tree[h], Event(h)), kernel)
        BY <1>4, <2>5 DEF _ep_port_ctl_add
      <4>2. new.tree[h] = id
        BY <2>7
      <4> QED BY <3>6, <4>1, <4>2
    <3> QED BY <3>4, <3>7, <3>8 DEF _ep_port_update_events_if_polling
  <2>14. q = [sock |-> K, tree |-> Tr, update |-> U, deleted |-> << >>, groups |-> G,
              active |-> p.active, open |-> p.open, iocp |-> p.iocp, afd |-> p.afd]
    BY <2>11, <2>13
  <2>15. /\ IsPort(q) /\ q.sock = K /\ q.tree = Tr /\ q.update = U /\ q.deleted = << >>
         /\ q.active = 0 /\ q.open /\ q.iocp = p.iocp /\ q.afd = p.afd
    BY <1>2, <2>14 DEF IsPort
  <2>16. Arrived(q) = Arrived(p) /\ IocpOK(q)
    BY <2>15 DEF Arrived, IocpOK
  <2>17. PortOK(q, open, live, cond, Arrived(p)) /\ Others(p, q) /\ h \in DOMAIN q.tree /\ Idle(q, q.tree[h])
    <3>1. IsSock(s) /\ s.poll_status = IDLE /\ s.socket = h
      BY <2>8 DEF IsSock
    <3>2. q.sock = [i \in DOMAIN p.sock \cup {id} |-> IF i = id THEN s ELSE p.sock[i]]
      BY <2>9, <2>15
    <3>3. With(p, h, id, s, q)
      BY <2>4, <2>15, <3>2 DEF With
    <3>4. q.update = Append(p.update, id)
      BY <2>12, <2>15
    <3> QED BY <2>2, <2>3, <2>15, <3>1, <3>3, <3>4, SockAdded
  <2> QED BY <2>15, <2>16, <2>17 DEF AddedTo
<1> QED BY <1>3, <1>4

----------------------------------------------------------------------------
(* Sessions: what a call does to them.                                     *)

SameSockets(v, w) ==
  /\ DOMAIN w.session \subseteq DOMAIN v.session
  /\ \A u \in DOMAIN w.session : w.session[u].mSocket = v.session[u].mSocket

Sublist(v, w) ==
  \A h \in DOMAIN w.mClientList :
    h \in DOMAIN v.mClientList /\ w.mClientList[h] = v.mClientList[h]

\* No more than the session uid may be unlisted, and none is destroyed.
WorkedOn(v, w, uid) ==
  /\ w.port = v.port /\ w.open = v.open /\ w.mTaskQueue = v.mTaskQueue
  /\ DOMAIN w.session = DOMAIN v.session /\ SameSockets(v, w) /\ Sublist(v, w)
  /\ \A h \in DOMAIN v.mClientList : v.mClientList[h] # uid => h \in DOMAIN w.mClientList

(* Who owns a session: the list, or a job.                                 *)
LEMMA OwnersAre ==
  ASSUME NEW v, NEW u
  PROVE  u \in Owners(v) <=> \/ \E h \in DOMAIN v.mClientList : v.mClientList[h] = u
                             \/ \E j \in ToSet(v.mTaskQueue) : j.mOwner = u
BY DEF Owners, Range

\* The list after a session has become s.
ListedAs(v, uid, s, list) ==
  /\ IsSession(s) /\ s.mSocket = v.session[uid].mSocket
  /\ \/ s.mConnected = v.session[uid].mConnected /\ list = v.mClientList
     \/ /\ s.mConnected = FALSE
        /\ list = [h \in DOMAIN v.mClientList \ {s.mSocket} |-> v.mClientList[h]]

(* A session is changed, and perhaps unlisted.                             *)
LEMMA SessionSet ==
  ASSUME NEW v, NEW held, SessionsOK(v, held), NEW uid \in DOMAIN v.session,
         NEW held2, held \subseteq held2, uid \in held2,
         NEW s, NEW list, ListedAs(v, uid, s, list),
         NEW S, S = [v.session EXCEPT ![uid] = s],
         NEW w, w = [v EXCEPT !.session = S, !.mClientList = list]
  PROVE  SessionsOK(w, held2) /\ WorkedOn(v, w, uid)
<1>1. /\ IsServer(v) /\ IsFcn(v.mClientList) /\ IsFcn(v.session) /\ v.mTaskQueue \in Seq(Jobs)
      /\ SessionsAre(v) /\ ListIs(v) /\ Owners(v) \subseteq DOMAIN v.session
      /\ DOMAIN v.session \subseteq Owners(v) \cup held
      /\ v.open = {mListenSocket} \cup {v.session[u].mSocket : u \in DOMAIN v.session}
  BY DEF SessionsOK
<1>2. w = [mClientList |-> list, session |-> S, mTaskQueue |-> v.mTaskQueue,
           open |-> v.open, port |-> v.port]
  BY <1>1 DEF IsServer
<1>3. w.mClientList = list /\ w.session = S /\ w.mTaskQueue = v.mTaskQueue /\ w.open = v.open
      /\ w.port = v.port /\ IsServer(w)
  <2>1. w.mClientList = list /\ w.session = S /\ w.mTaskQueue = v.mTaskQueue /\ w.open = v.open
        /\ w.port = v.port
    BY <1>2
  <2> QED BY <1>2, <2>1 DEF IsServer
<1>4. /\ DOMAIN S = DOMAIN v.session /\ S[uid] = s /\ IsFcn(S)
      /\ \A u \in DOMAIN v.session \ {uid} : S[u] = v.session[u]
  BY <1>1 DEF IsFcn
<1>5. \A u \in DOMAIN v.session : S[u].mSocket = v.session[u].mSocket
  BY <1>4 DEF ListedAs
<1>6. /\ IsFcn(list) /\ DOMAIN list \subseteq DOMAIN v.mClientList
      /\ \A h \in DOMAIN list : list[h] = v.mClientList[h]
      /\ \A h \in DOMAIN v.mClientList : h # s.mSocket => h \in DOMAIN list
  <2>1. CASE list = v.mClientList
    BY <1>1, <2>1
  <2>2. CASE list = [h \in DOMAIN v.mClientList \ {s.mSocket} |-> v.mClientList[h]]
    BY <2>2 DEF IsFcn
  <2> QED BY <2>1, <2>2 DEF ListedAs
<1>7. s.mSocket = v.session[uid].mSocket
  BY DEF ListedAs
<1>8. \A h \in DOMAIN v.mClientList : v.mClientList[h] # uid => h # s.mSocket /\ h \in DOMAIN list
  <2> SUFFICES ASSUME NEW h \in DOMAIN v.mClientList, v.mClientList[h] # uid
               PROVE  h # s.mSocket
    BY <1>6
  <2>1. v.mClientList[h] \in DOMAIN v.session /\ v.session[v.mClientList[h]].mSocket = h
    BY <1>1 DEF ListIs
  <2> QED BY <1>1, <1>7, <2>1 DEF SessionsAre
<1>9. ASSUME NEW u \in DOMAIN w.session
       PROVE  /\ u \in Nat \ {0} /\ IsSession(w.session[u])
              /\ w.session[u].mSocket \in SOCKETs \ {mListenSocket}
              /\ w.session[u].mConnected \in BOOLEAN
              /\ w.session[u].mConnected <=> Listed(w, u)
  <2>1. /\ u \in Nat \ {0} /\ IsSession(v.session[u])
        /\ v.session[u].mSocket \in SOCKETs \ {mListenSocket}
        /\ v.session[u].mConnected \in BOOLEAN
        /\ v.session[u].mConnected <=> Listed(v, u)
    BY <1>1, <1>3, <1>4 DEF SessionsAre
  <2>2. /\ w.session[u] = S[u] /\ S[u].mSocket = v.session[u].mSocket /\ IsSession(S[u])
        /\ u \in DOMAIN v.session
    BY <1>3, <1>4, <1>5, <2>1 DEF ListedAs
  <2>3. CASE u # uid
    <3>1. S[u] = v.session[u]
      BY <1>4, <2>3
    <3>2. Listed(w, u) <=> Listed(v, u)
      <4>1. v.session[u].mSocket \in DOMAIN v.mClientList /\ v.mClientList[v.session[u].mSocket] = u =>
              v.session[u].mSocket \in DOMAIN list
        BY <1>8, <2>3
      <4> QED BY <1>3, <1>6, <2>2, <4>1 DEF Listed
    <3> QED BY <2>1, <2>2, <3>1, <3>2
  <2>4. CASE u = uid
    <3>1. S[u] = s
      BY <1>4, <2>4
    <3>2. CASE s.mConnected = v.session[uid].mConnected /\ list = v.mClientList
      <4>1. Listed(w, u) <=> Listed(v, u)
        BY <1>3, <2>2, <3>2 DEF Listed
      <4> QED BY <2>1, <2>2, <2>4, <3>1, <3>2, <4>1
    <3>3. CASE /\ s.mConnected = FALSE
               /\ list = [h \in DOMAIN v.mClientList \ {s.mSocket} |-> v.mClientList[h]]
      <4>1. s.mSocket \notin DOMAIN list
        BY <3>3
      <4>2. ~Listed(w, u)
        BY <1>3, <3>1, <4>1 DEF Listed
      <4> QED BY <2>1, <2>2, <3>1, <3>3, <4>2
    <3> QED BY <3>2, <3>3 DEF ListedAs
  <2> QED BY <2>3, <2>4
<1>10. SessionsAre(w)
  <2>1. \A u, x \in DOMAIN S : S[u].mSocket = S[x].mSocket => u = x
    BY <1>1, <1>4, <1>5 DEF SessionsAre
  <2>2. \A u, x \in DOMAIN w.session : w.session[u].mSocket = w.session[x].mSocket => u = x
    BY <1>3, <2>1
  <2> QED BY <1>9, <2>2 DEF SessionsAre
<1>11. ListIs(w)
  BY <1>1, <1>3, <1>4, <1>5, <1>6 DEF ListIs
<1>12. Owners(w) \subseteq DOMAIN w.session
  <2> SUFFICES ASSUME NEW u \in Owners(w) PROVE u \in DOMAIN v.session
    BY <1>3, <1>4
  <2>1. \/ \E h \in DOMAIN w.mClientList : w.mClientList[h] = u
        \/ \E j \in ToSet(w.mTaskQueue) : j.mOwner = u
    BY OwnersAre
  <2>2. \/ \E h \in DOMAIN v.mClientList : v.mClientList[h] = u
        \/ \E j \in ToSet(v.mTaskQueue) : j.mOwner = u
    BY <1>3, <1>6, <2>1
  <2>3. u \in Owners(v)
    BY <2>2, OwnersAre
  <2> QED BY <1>1, <2>3
<1>13. DOMAIN w.session \subseteq Owners(w) \cup held2
  <2> SUFFICES ASSUME NEW u \in DOMAIN v.session, u \notin held2 PROVE u \in Owners(w)
    BY <1>3, <1>4
  <2>1. u \in Owners(v) /\ u # uid
    BY <1>1
  <2>2. \/ \E h \in DOMAIN v.mClientList : v.mClientList[h] = u
        \/ \E j \in ToSet(v.mTaskQueue) : j.mOwner = u
    BY <2>1, OwnersAre
  <2>3. \/ \E h \in DOMAIN w.mClientList : w.mClientList[h] = u
        \/ \E j \in ToSet(w.mTaskQueue) : j.mOwner = u
    BY <1>3, <1>6, <1>8, <2>1, <2>2
  <2> QED BY <2>3, OwnersAre
<1>14. w.open = {mListenSocket} \cup {w.session[u].mSocket : u \in DOMAIN w.session}
  BY <1>1, <1>3, <1>4, <1>5
<1>15. WorkedOn(v, w, uid)
  BY <1>3, <1>4, <1>5, <1>6, <1>8 DEF WorkedOn, SameSockets, Sublist
<1> QED BY <1>1, <1>3, <1>4, <1>6, <1>10, <1>11, <1>12, <1>13, <1>14, <1>15 DEF SessionsOK

(* Nothing is done to a session.                                           *)
LEMMA NothingDone ==
  ASSUME NEW v, NEW held, SessionsOK(v, held), NEW uid, NEW held2, held \subseteq held2
  PROVE  SessionsOK(v, held2) /\ WorkedOn(v, v, uid)
BY DEF SessionsOK, WorkedOn, SameSockets, Sublist

(* A session is disconnected, unless it cannot be.                         *)
LEMMA DisconnectIs ==
  ASSUME NEW v, NEW held, SessionsOK(v, held), NEW uid \in DOMAIN v.session,
         NEW held2, held \subseteq held2, uid \in held2, NEW fault,
         NEW w, w = Disconnect(v, uid, fault)
  PROVE  SessionsOK(w, held2) /\ WorkedOn(v, w, uid)
<1>1. CASE ~v.session[uid].mConnected \/ fault.linger
  <2>1. w = v
    BY <1>1 DEF Disconnect
  <2> QED BY <2>1, NothingDone
<1>2. CASE ~(~v.session[uid].mConnected \/ fault.linger)
  <2>1. PICK t, h, n : t = v.session[uid] /\ h = t.mSocket /\ n = t.sending
    OBVIOUS
  <2>2. PICK b : b = t.mConnected
    OBVIOUS
  <2>3. t = [mSocket |-> h, mConnected |-> b, sending |-> n]
    BY <2>1, <2>2 DEF SessionsOK, SessionsAre, IsSession
  <2>4. PICK s : s = [t EXCEPT !.mConnected = FALSE]
    OBVIOUS
  <2>5. s = [mSocket |-> h, mConnected |-> FALSE, sending |-> n]
    BY <2>3, <2>4
  <2>6. IsSession(s) /\ s.mSocket = h /\ s.mConnected = FALSE
    BY <2>5 DEF IsSession
  <2>7. PICK list, S : /\ list = [g \in DOMAIN v.mClientList \ {h} |-> v.mClientList[g]]
                       /\ S = [v.session EXCEPT ![uid] = s]
    OBVIOUS
  <2>8. PICK S1 : S1 = [v.session EXCEPT ![uid].mConnected = FALSE]
    OBVIOUS
  <2>9. S1 = S
    BY <2>1, <2>4, <2>7, <2>8
  <2>10. w = [v EXCEPT !.session = S, !.mClientList = list]
    <3>1. w = [v EXCEPT !.session[uid].mConnected = FALSE, !.mClientList = list]
      BY <1>2, <2>1, <2>7 DEF Disconnect, SessionsOK, IsServer
    <3> QED BY <2>8, <2>9, <3>1 DEF SessionsOK, IsServer
  <2>11. ListedAs(v, uid, s, list)
    BY <2>1, <2>6, <2>7 DEF ListedAs
  <2> QED BY <2>7, <2>10, <2>11, SessionSet
<1> QED BY <1>1, <1>2

(* The number of packets to send is changed.                               *)
LEMMA SendingIs ==
  ASSUME NEW v, NEW held, SessionsOK(v, held), NEW uid \in DOMAIN v.session,
         NEW held2, held \subseteq held2, uid \in held2, NEW number,
         NEW w, w = [v EXCEPT !.session[uid].sending = number]
  PROVE  SessionsOK(w, held2) /\ WorkedOn(v, w, uid)
<1>1. PICK t, h, n, b : t = v.session[uid] /\ h = t.mSocket /\ n = t.sending /\ b = t.mConnected
  OBVIOUS
<1>2. t = [mSocket |-> h, mConnected |-> b, sending |-> n]
  BY <1>1 DEF SessionsOK, SessionsAre, IsSession
<1>3. PICK s : s = [t EXCEPT !.sending = number]
  OBVIOUS
<1>4. s = [mSocket |-> h, mConnected |-> b, sending |-> number]
  BY <1>2, <1>3
<1>5. IsSession(s) /\ s.mSocket = h /\ s.mConnected = b
  BY <1>4 DEF IsSession
<1>6. PICK S, S1, list : /\ S = [v.session EXCEPT ![uid] = s] /\ list = v.mClientList
                         /\ S1 = [v.session EXCEPT ![uid].sending = number]
  OBVIOUS
<1>7. S1 = S
  BY <1>1, <1>3, <1>6
<1>8. w = [v EXCEPT !.session = S, !.mClientList = list]
  <2>1. w = [v EXCEPT !.session = S]
    BY <1>6, <1>7
  <2> QED BY <1>6, <2>1 DEF SessionsOK, IsServer
<1>9. ListedAs(v, uid, s, list)
  BY <1>1, <1>5, <1>6 DEF ListedAs
<1> QED BY <1>6, <1>8, <1>9, SessionSet

(* A packet goes into the buffer, or the client is disconnected.           *)
LEMMA SendRequestIs ==
  ASSUME NEW v, NEW held, SessionsOK(v, held), NEW uid \in DOMAIN v.session,
         NEW held2, held \subseteq held2, uid \in held2, NEW fault,
         NEW w, w = SendRequest(v, uid, fault)
  PROVE  SessionsOK(w, held2) /\ WorkedOn(v, w, uid)
<1>1. PICK n : n = v.session[uid].sending + 1
  OBVIOUS
<1>2. \/ w = v
      \/ w = Disconnect(v, uid, fault)
      \/ w = [v EXCEPT !.session[uid].sending = n]
  <2>1. [v EXCEPT !.session[uid].sending = @ + 1] = [v EXCEPT !.session[uid].sending = n]
    BY <1>1 DEF SessionsOK, IsServer
  <2> QED BY <2>1 DEF SendRequest
<1> QED BY <1>2, NothingDone, DisconnectIs, SendingIs

(* The buffer is sent, or the client is disconnected.                      *)
LEMMA SendFlushIs ==
  ASSUME NEW v, NEW held, SessionsOK(v, held), NEW uid \in DOMAIN v.session,
         NEW held2, held \subseteq held2, uid \in held2, NEW fault,
         NEW w, w = SendFlush(v, uid, fault)
  PROVE  SessionsOK(w, held2) /\ WorkedOn(v, w, uid)
<1>1. \/ w = v
      \/ w = Disconnect(v, uid, fault)
      \/ w = [v EXCEPT !.session[uid].sending = 0]
  BY DEF SendFlush
<1> QED BY <1>1, NothingDone, DisconnectIs, SendingIs

----------------------------------------------------------------------------
(* Sessions: those that nobody owns go.                                    *)

WatchedBy(v, cond) ==
  PortOK(v.port, v.open, Live(v), cond, Arrived(v.port)) /\ IocpOK(v.port)

\* All there is was there before; epoll has the same on file.
Reduced(v, w) ==
  /\ SameSockets(v, w) /\ Sublist(v, w) /\ w.open \subseteq v.open
  /\ w.port.sock = v.port.sock /\ w.port.tree = v.port.tree
  /\ w.port.update = v.port.update /\ w.port.active = v.port.active

(* One call after another.                                                 *)
LEMMA ReducedAgain ==
  ASSUME NEW u, NEW v, NEW w, Reduced(u, v), Reduced(v, w)
  PROVE  Reduced(u, w)
BY DEF Reduced, SameSockets, Sublist

(* A call that touches no session.                                         *)
LEMMA ReducedNot ==
  ASSUME NEW v, NEW w, w.session = v.session, w.mClientList = v.mClientList, w.open = v.open,
         w.port = v.port
  PROVE  Reduced(v, w)
BY DEF Reduced, SameSockets, Sublist

(* Work on one session creates none.                                       *)
LEMMA WorkedReduces ==
  ASSUME NEW v, NEW w, NEW uid, WorkedOn(v, w, uid)
  PROVE  Reduced(v, w)
BY DEF Reduced, WorkedOn

(* Work on a session that stays leaves its port alone.                     *)
LEMMA WatchedStill ==
  ASSUME NEW v, NEW w, NEW cond, WatchedBy(v, cond), w.open = v.open, w.port = v.port
  PROVE  WatchedBy(w, cond)
BY DEF WatchedBy, Live

(* A session that nobody owns closes its socket.                           *)
LEMMA DestroyedIs ==
  ASSUME NEW v, NEW held, SessionsOK(v, held), NEW cond, WatchedBy(v, cond),
         NEW uid \in DOMAIN v.session, uid \notin Owners(v),
         NEW held2, \A u \in held : u \in held2 \/ u = uid,
         NEW w, w = Destroyed(v, uid)
  PROVE  /\ SessionsOK(w, held2) /\ WatchedBy(w, cond) /\ Reduced(v, w)
         /\ w.mTaskQueue = v.mTaskQueue /\ w.mClientList = v.mClientList
<1>1. /\ IsServer(v) /\ IsFcn(v.mClientList) /\ IsFcn(v.session) /\ v.mTaskQueue \in Seq(Jobs)
      /\ SessionsAre(v) /\ ListIs(v) /\ Owners(v) \subseteq DOMAIN v.session
      /\ DOMAIN v.session \subseteq Owners(v) \cup held
      /\ v.open = {mListenSocket} \cup {v.session[u].mSocket : u \in DOMAIN v.session}
  BY DEF SessionsOK
<1>2. PICK h, S, O : /\ h = v.session[uid].mSocket /\ O = v.open \ {h}
                     /\ S = [u \in DOMAIN v.session \ {uid} |-> v.session[u]]
  OBVIOUS
<1>3. PICK p, R, outcome, q : /\ p = v.port
                              /\ R = {r \in p.afd : p.sock[r.sock].socket = h}
                              /\ outcome = [r \in R |-> {"LOCAL_CLOSE"}]
                              /\ q = DriverCompletes(p, outcome)
  OBVIOUS
<1>4. w = [mClientList |-> v.mClientList, session |-> S, mTaskQueue |-> v.mTaskQueue,
           open |-> O, port |-> q]
  <2>1. w = [v EXCEPT !.session = S, !.open = O, !.port = q]
    BY <1>1, <1>2, <1>3 DEF Destroyed, IsServer
  <2> QED BY <1>1, <2>1 DEF IsServer
<1>5. /\ w.mClientList = v.mClientList /\ w.session = S /\ w.mTaskQueue = v.mTaskQueue
      /\ w.open = O /\ w.port = q
  BY <1>4
<1>6. IsServer(w)
  BY <1>4, <1>5 DEF IsServer
<1>7. DOMAIN S = DOMAIN v.session \ {uid} /\ IsFcn(S) /\ \A u \in DOMAIN S : S[u] = v.session[u]
  BY <1>2 DEF IsFcn
<1>8. /\ \A g \in DOMAIN v.mClientList : v.mClientList[g] # uid
      /\ \A j \in ToSet(v.mTaskQueue) : j.mOwner # uid
  BY OwnersAre
<1>9. \A u \in DOMAIN S : Listed(w, u) <=> Listed(v, u)
  BY <1>5, <1>7 DEF Listed
<1>10. SessionsAre(w)
  <2>1. \A u \in DOMAIN w.session : u \in DOMAIN v.session /\ w.session[u] = v.session[u]
    BY <1>5, <1>7
  <2>2. \A u \in DOMAIN w.session : Listed(w, u) <=> Listed(v, u)
    BY <1>5, <1>9
  <2> QED BY <1>1, <2>1, <2>2 DEF SessionsAre
<1>11. ListIs(w)
  BY <1>1, <1>5, <1>7, <1>8 DEF ListIs
<1>12. \A u : u \in Owners(w) <=> u \in Owners(v)
  BY <1>5 DEF Owners
<1>13. Owners(w) \subseteq DOMAIN w.session
  BY <1>1, <1>5, <1>7, <1>12
<1>14. DOMAIN w.session \subseteq Owners(w) \cup held2
  BY <1>1, <1>5, <1>7, <1>12
<1>15. w.open = {mListenSocket} \cup {w.session[u].mSocket : u \in DOMAIN w.session}
  <2>1. h # mListenSocket
    BY <1>1, <1>2 DEF SessionsAre
  <2>2. \A u \in DOMAIN S : S[u].mSocket # h /\ S[u].mSocket \in v.open
    BY <1>1, <1>2, <1>7 DEF SessionsAre
  <2>3. \A g \in v.open : g = mListenSocket \/ \E u \in DOMAIN v.session : v.session[u].mSocket = g
    BY <1>1
  <2>4. \A g \in O : g = mListenSocket \/ \E u \in DOMAIN S : S[u].mSocket = g
    <3> SUFFICES ASSUME NEW g \in O, g # mListenSocket PROVE \E u \in DOMAIN S : S[u].mSocket = g
      OBVIOUS
    <3>1. PICK u \in DOMAIN v.session : v.session[u].mSocket = g
      BY <1>2, <2>3
    <3>2. u # uid
      BY <1>2, <3>1
    <3> QED BY <1>7, <3>1, <3>2
  <2>5. mListenSocket \in O
    BY <1>1, <1>2, <2>1
  <2>6. \A g : g \in O <=> g = mListenSocket \/ \E u \in DOMAIN S : S[u].mSocket = g
    BY <1>2, <2>2, <2>4, <2>5
  <2>7. O = {mListenSocket} \cup {S[u].mSocket : u \in DOMAIN S}
    BY <2>6
  <2> QED BY <1>5, <2>7
<1>16. SessionsOK(w, held2)
  BY <1>1, <1>5, <1>6, <1>7, <1>10, <1>11, <1>13, <1>14, <1>15 DEF SessionsOK
<1>17. PICK live, live2, open, open2 : /\ live = Live(v) /\ live2 = Live(w) /\ open = v.open /\ open2 = O
  OBVIOUS
<1>18. live2 \subseteq live /\ h \notin live2
  <2>1. h # mListenSocket
    BY <1>1, <1>2 DEF SessionsAre
  <2> QED BY <1>2, <1>5, <1>17, <2>1 DEF Live
<1>19. PortOK(q, open2, live2, cond, Arrived(q)) /\ IocpOK(q) /\ ButDriver(p, q)
  <2>1. PortOK(p, open, live, cond, Arrived(p)) /\ IocpOK(p)
    BY <1>3, <1>17 DEF WatchedBy
  <2>2. WithoutHandle(open, live, h, open2, live2)
    BY <1>2, <1>17, <1>18 DEF WithoutHandle
  <2>3. Closing(p, h, R, outcome) /\ q = DriverCompletes(p, outcome)
    BY <1>3 DEF Closing
  <2> QED BY <2>1, <2>2, <2>3, HandleClosed
<1>20. WatchedBy(w, cond)
  BY <1>5, <1>17, <1>19 DEF WatchedBy
<1>21. Reduced(v, w)
  BY <1>2, <1>3, <1>5, <1>7, <1>19 DEF Reduced, SameSockets, Sublist, ButDriver
<1> QED BY <1>5, <1>16, <1>20, <1>21

(* A shared_ptr goes: the session is destroyed if it was the last one.     *)
LEMMA ReleasedIs ==
  ASSUME NEW v, NEW held, SessionsOK(v, held), NEW cond, WatchedBy(v, cond), NEW uid,
         NEW held2, \A u \in held : u \in held2 \/ u = uid,
         NEW w, w = Released(v, uid)
  PROVE  /\ SessionsOK(w, held2) /\ WatchedBy(w, cond) /\ Reduced(v, w)
         /\ w.mTaskQueue = v.mTaskQueue /\ w.mClientList = v.mClientList
<1>1. CASE uid \in DOMAIN v.session \ Owners(v)
  <2>1. w = Destroyed(v, uid)
    BY <1>1 DEF Released
  <2> QED BY <1>1, <2>1, DestroyedIs
<1>2. CASE uid \notin DOMAIN v.session \ Owners(v)
  <2>1. w = v
    BY <1>2 DEF Released
  <2>2. DOMAIN v.session \subseteq Owners(v) \cup held2
    BY <1>2 DEF SessionsOK
  <2>3. SessionsOK(v, held2)
    BY <2>2 DEF SessionsOK
  <2> QED BY <2>1, <2>3, ReducedNot
<1> QED BY <1>1, <1>2

----------------------------------------------------------------------------
(* Sessions: walks over the list.                                          *)

(* The walk meets every client once.                                       *)
LEMMA ListedHandles ==
  ASSUME NEW v, NEW held, SessionsOK(v, held), NEW walk, walk = Ascending(DOMAIN v.mClientList)
  PROVE  /\ DOMAIN v.mClientList \subseteq SOCKETs \ {mListenSocket}
         /\ walk \in Seq(DOMAIN v.mClientList) /\ IsInjective(walk)
<1>1. DOMAIN v.mClientList \subseteq SOCKETs \ {mListenSocket}
  BY DEF SessionsOK, SessionsAre, ListIs
<1>2. PICK H : H = DOMAIN v.mClientList
  OBVIOUS
<1>3. H \in SUBSET Nat /\ IsFiniteSet(H)
  <2>1. H \subseteq SOCKETs
    BY <1>1, <1>2
  <2> QED BY <2>1, LoopAssumption, FS_Subset
<1>4. walk \in Seq(H) /\ IsInjective(walk)
  BY <1>2, <1>3, AscendingIs
<1> QED BY <1>1, <1>2, <1>4

\* The sessions listed under other handles stay.
KeepsOthers(v, h, w) == \A g \in DOMAIN v.mClientList : g # h => g \in DOMAIN w.mClientList

Calls(v, uid, fault, next) == next = SendFlush(v, uid, fault) \/ next = SendRequest(v, uid, fault)

(* A listed session is visited.                                            *)
LEMMA Visited ==
  ASSUME NEW v, SessionsOK(v, {}), NEW cond, WatchedBy(v, cond), NEW h \in DOMAIN v.mClientList,
         NEW uid, uid = v.mClientList[h], NEW fault,
         NEW next, Calls(v, uid, fault, next),
         NEW w, w = Released(next, uid)
  PROVE  /\ SessionsOK(w, {}) /\ WatchedBy(w, cond) /\ Reduced(v, w)
         /\ w.mTaskQueue = v.mTaskQueue /\ KeepsOthers(v, h, w)
<1>1. uid \in DOMAIN v.session /\ \A g \in DOMAIN v.mClientList : g # h => v.mClientList[g] # uid
  BY DEF SessionsOK, ListIs
<1>2. PICK held, none : held = {uid} /\ none = {}
  OBVIOUS
<1>3. none \subseteq held /\ uid \in held
  BY <1>2
<1>4. SessionsOK(next, held) /\ WorkedOn(v, next, uid)
  <2>1. SessionsOK(v, none)
    BY <1>2
  <2> QED BY <1>1, <1>3, <2>1, SendFlushIs, SendRequestIs DEF Calls
<1>5. WatchedBy(next, cond) /\ Reduced(v, next)
  <2>1. next.open = v.open /\ next.port = v.port
    BY <1>4 DEF WorkedOn
  <2> QED BY <1>4, <2>1, WatchedStill, WorkedReduces
<1>6. /\ SessionsOK(w, none) /\ WatchedBy(w, cond) /\ Reduced(next, w)
      /\ w.mTaskQueue = next.mTaskQueue /\ w.mClientList = next.mClientList
  <2>1. \A u \in held : u \in none \/ u = uid
    BY <1>2
  <2> QED BY <1>4, <1>5, <2>1, ReleasedIs
<1>7. Reduced(v, w)
  BY <1>5, <1>6, ReducedAgain
<1>8. w.mTaskQueue = v.mTaskQueue
  BY <1>4, <1>6 DEF WorkedOn
<1>9. \A g \in DOMAIN v.mClientList : g # h => g \in DOMAIN w.mClientList
  BY <1>1, <1>4, <1>6 DEF WorkedOn
<1> QED BY <1>2, <1>6, <1>7, <1>8, <1>9 DEF KeepsOthers

(* Each listed session is visited.                                         *)
LEMMA WalkIs ==
  ASSUME NEW v, SessionsOK(v, {}), NEW cond, WatchedBy(v, cond), NEW call, NEW fault,
         NEW r, r = ForEachClient(v, call, fault), NEW w, w = r.server
  PROVE  SessionsOK(w, {}) /\ WatchedBy(w, cond) /\ Reduced(v, w) /\ w.mTaskQueue = v.mTaskQueue
<1> DEFINE walk == Ascending(DOMAIN v.mClientList)
           n == Len(walk)
           Visit(x, uid) == IF call = "SendFlush" THEN SendFlush(x, uid, fault)
                                                  ELSE SendRequest(x, uid, fault)
           Op(x, g) ==
             IF x.erased /\ fault.ends THEN x
             ELSE LET uid  == v.mClientList[g]
                      next == Visit(x.server, uid)
                  IN  [ server |-> Released(next, uid),
                        erased |-> x.erased \/ g \notin DOMAIN next.mClientList ]
           start == [server |-> v, erased |-> FALSE]
           Good(i, x) == /\ SessionsOK(x.server, {}) /\ WatchedBy(x.server, cond)
                         /\ Reduced(v, x.server) /\ x.server.mTaskQueue = v.mTaskQueue
                         /\ \A j \in i + 1 .. n : walk[j] \in DOMAIN x.server.mClientList
           Eqn(f) == f = [i \in 0 .. n |->
                            IF i = 0 THEN start
                            ELSE CHOOSE x \in {Op(before, walk[i]) : before \in {f[i - 1]}} : TRUE]
           Run(m, f) == /\ f = [i \in 0 .. m |-> f[i]] /\ f[0] = start
                        /\ \A i \in 1 .. m : f[i] = Op(f[i - 1], walk[i])
           T == {m \in Nat : \E f : Run(m, f)}
           h == CHOOSE f : Eqn(f)
           G == {m \in Nat : m <= n => Good(m, h[m])}
<1>1. n \in Nat /\ DOMAIN walk = 1 .. n /\ IsInjective(walk) /\ \A j \in 1 .. n : walk[j] \in DOMAIN v.mClientList
  <2>1. PICK s : s = walk
    OBVIOUS
  <2>2. s \in Seq(DOMAIN v.mClientList) /\ IsInjective(s)
    BY <2>1, ListedHandles
  <2>3. Len(s) \in Nat /\ DOMAIN s = 1 .. Len(s) /\ \A j \in 1 .. Len(s) : s[j] \in DOMAIN v.mClientList
    BY <2>2, LenProperties, ElementOfSeq
  <2> QED BY <2>1, <2>2, <2>3
<1>2. r = h[n]
  BY DEF ForEachClient, Through
<1> HIDE DEF n, walk
<1>3. Good(0, start)
  <2>1. start.server = v
    OBVIOUS
  <2>2. Reduced(v, v)
    BY ReducedNot
  <2>3. \A j \in 0 + 1 .. n : walk[j] \in DOMAIN v.mClientList
    BY <1>1
  <2> HIDE DEF start
  <2> QED BY <2>1, <2>2, <2>3
<1>4. ASSUME NEW i \in 0 .. n - 1, NEW x, Good(i, x) PROVE Good(i + 1, Op(x, walk[i + 1]))
  <2>1. i + 1 \in 1 .. n /\ i + 1 \in i + 1 .. n
    BY <1>1
  <2>2. \A j \in (i + 1) + 1 .. n : j \in i + 1 .. n /\ walk[j] # walk[i + 1]
    <3> SUFFICES ASSUME NEW j \in (i + 1) + 1 .. n PROVE j \in i + 1 .. n /\ walk[j] # walk[i + 1]
      OBVIOUS
    <3>1. j \in 1 .. n /\ j \in i + 1 .. n /\ j # i + 1
      BY <1>1
    <3> QED BY <1>1, <2>1, <3>1 DEF IsInjective
  <2>3. CASE x.erased /\ fault.ends
    <3>1. Op(x, walk[i + 1]) = x
      BY <2>3
    <3>2. Good(i + 1, x)
      BY <1>4, <2>2
    <3> QED BY <3>1, <3>2
  <2>4. CASE ~(x.erased /\ fault.ends)
    <3>1. PICK s, g, uid, next : /\ s = x.server /\ g = walk[i + 1] /\ uid = v.mClientList[g]
                                 /\ next = Visit(s, uid)
      OBVIOUS
    <3>2. PICK t, y : /\ t = Released(next, uid)
                      /\ y = [server |-> t, erased |-> x.erased \/ g \notin DOMAIN next.mClientList]
      OBVIOUS
    <3>3. Op(x, walk[i + 1]) = y
      BY <2>4, <3>1, <3>2
    <3>4. /\ SessionsOK(s, {}) /\ WatchedBy(s, cond) /\ Reduced(v, s) /\ s.mTaskQueue = v.mTaskQueue
          /\ g \in DOMAIN s.mClientList
      BY <1>4, <2>1, <3>1
    <3>5. uid = s.mClientList[g]
      BY <3>1, <3>4 DEF Reduced, Sublist
    <3>6. Calls(s, uid, fault, next)
      BY <3>1 DEF Calls
    <3>7. /\ SessionsOK(t, {}) /\ WatchedBy(t, cond) /\ Reduced(s, t) /\ t.mTaskQueue = s.mTaskQueue
          /\ KeepsOthers(s, g, t)
      <4> HIDE DEF Good, Op, start
      <4> QED BY <3>2, <3>4, <3>5, <3>6, Visited
    <3>8. Reduced(v, t)
      BY <3>4, <3>7, ReducedAgain
    <3>9. \A j \in (i + 1) + 1 .. n : walk[j] \in DOMAIN t.mClientList
      BY <1>4, <2>2, <3>1, <3>7 DEF KeepsOthers
    <3>10. y.server = t
      BY <3>2
    <3>11. Good(i + 1, y)
      <4> HIDE DEF Op, start
      <4> QED BY <3>4, <3>7, <3>8, <3>9, <3>10
    <3> QED BY <3>3, <3>11
  <2> QED BY <2>3, <2>4
<1> HIDE DEF Good, Op, start
<1>5. n \in T
  <2>1. 0 \in T
    <3>1. PICK f : f = [i \in 0 .. 0 |-> start]
      OBVIOUS
    <3>2. Run(0, f)
      BY <3>1
    <3> QED BY <3>2
  <2>2. ASSUME NEW m \in Nat, m \in T PROVE m + 1 \in T
    <3>1. PICK f : Run(m, f)
      BY <2>2
    <3>2. PICK new : new = Op(f[m], walk[m + 1])
      OBVIOUS
    <3>3. PICK g : g = [i \in 0 .. m + 1 |-> IF i = m + 1 THEN new ELSE f[i]]
      OBVIOUS
    <3>4. g[m + 1] = new /\ \A i \in 0 .. m : g[i] = f[i]
      BY <3>3
    <3>5. ASSUME NEW i \in 1 .. m + 1 PROVE g[i] = Op(g[i - 1], walk[i])
      <4>1. CASE i = m + 1
        <5>1. i - 1 = m /\ m \in 0 .. m
          BY <4>1
        <5> QED BY <3>2, <3>4, <4>1, <5>1
      <4>2. CASE i # m + 1
        <5>1. i \in 1 .. m /\ i \in 0 .. m /\ i - 1 \in 0 .. m
          BY <4>2
        <5> QED BY <3>1, <3>4, <5>1
      <4> QED BY <4>1, <4>2
    <3>6. g = [i \in 0 .. m + 1 |-> g[i]]
      BY <3>3
    <3>7. g[0] = start
      BY <3>1, <3>4
    <3>8. Run(m + 1, g)
      BY <3>5, <3>6, <3>7
    <3> HIDE DEF Run
    <3> QED BY <3>8
  <2> HIDE DEF T
  <2> QED BY <1>1, <2>1, <2>2, SetInduction
<1>6. Eqn(h)
  <2>1. PICK g : Run(n, g)
    BY <1>5
  <2>2. ASSUME NEW i \in 1 .. n
        PROVE  g[i] = CHOOSE x \in {Op(before, walk[i]) : before \in {g[i - 1]}} : TRUE
    <3>1. {Op(before, walk[i]) : before \in {g[i - 1]}} = {g[i]}
      BY <2>1, <2>2
    <3> QED BY <3>1
  <2>3. \A i \in 0 .. n : i = 0 \/ i \in 1 .. n
    BY <1>1
  <2>4. \A i \in 0 .. n :
          g[i] = IF i = 0 THEN start
                 ELSE CHOOSE x \in {Op(before, walk[i]) : before \in {g[i - 1]}} : TRUE
    BY <2>1, <2>2, <2>3
  <2>5. Eqn(g)
    BY <2>1, <2>4
  <2> QED BY <2>5
<1> HIDE DEF h
<1>7. h[0] = start /\ \A i \in 1 .. n : h[i] = Op(h[i - 1], walk[i])
  BY <1>1, <1>6
<1>8. n \in G
  <2>1. 0 \in G
    BY <1>3, <1>7
  <2>2. ASSUME NEW m \in Nat, m \in G PROVE m + 1 \in G
    <3> SUFFICES ASSUME m + 1 <= n PROVE Good(m + 1, h[m + 1])
      OBVIOUS
    <3>1. m \in 0 .. n - 1 /\ m + 1 \in 1 .. n /\ (m + 1) - 1 = m /\ m <= n
      BY <1>1
    <3> QED BY <1>4, <1>7, <2>2, <3>1
  <2> HIDE DEF G
  <2> QED BY <1>1, <2>1, <2>2, SetInduction
<1> QED BY <1>1, <1>2, <1>8 DEF Good

----------------------------------------------------------------------------
(* Sessions: the jobs.                                                     *)

\* Everything but the jobs is the same.
OnlyJobs(v, w) ==
  w.session = v.session /\ w.mClientList = v.mClientList /\ w.open = v.open /\ w.port = v.port

\* Each session that owns one of these jobs has one of those, or is held.
StillOwn(q, q2, held) ==
  \A j \in ToSet(q) : j.mOwner \in held \/ \E j2 \in ToSet(q2) : j2.mOwner = j.mOwner

(* The scheduled jobs become others.                                       *)
LEMMA JobsSet ==
  ASSUME NEW v, NEW held, SessionsOK(v, held), NEW q \in Seq(Jobs),
         \A j \in ToSet(q) : j.mOwner \in DOMAIN v.session,
         NEW held2, held \subseteq held2, StillOwn(v.mTaskQueue, q, held2),
         NEW w, w = [v EXCEPT !.mTaskQueue = q]
  PROVE  SessionsOK(w, held2) /\ OnlyJobs(v, w) /\ w.mTaskQueue = q
<1>1. /\ IsServer(v) /\ IsFcn(v.mClientList) /\ IsFcn(v.session)
      /\ SessionsAre(v) /\ ListIs(v) /\ Owners(v) \subseteq DOMAIN v.session
      /\ DOMAIN v.session \subseteq Owners(v) \cup held
      /\ v.open = {mListenSocket} \cup {v.session[u].mSocket : u \in DOMAIN v.session}
  BY DEF SessionsOK
<1>2. w = [mClientList |-> v.mClientList, session |-> v.session, mTaskQueue |-> q,
           open |-> v.open, port |-> v.port]
  BY <1>1 DEF IsServer
<1>3. OnlyJobs(v, w) /\ w.mTaskQueue = q
  BY <1>2 DEF OnlyJobs
<1>4. IsServer(w)
  BY <1>2, <1>3 DEF IsServer, OnlyJobs
<1>5. SessionsAre(w) /\ ListIs(w)
  BY <1>1, <1>3 DEF OnlyJobs, SessionsAre, ListIs, Listed
<1>6. ASSUME NEW u \in Owners(w) PROVE u \in DOMAIN w.session
  <2>1. \/ \E h \in DOMAIN w.mClientList : w.mClientList[h] = u
        \/ \E j \in ToSet(w.mTaskQueue) : j.mOwner = u
    BY OwnersAre
  <2>2. CASE \E h \in DOMAIN w.mClientList : w.mClientList[h] = u
    BY <1>1, <1>3, <2>2 DEF OnlyJobs, ListIs
  <2>3. CASE \E j \in ToSet(w.mTaskQueue) : j.mOwner = u
    BY <1>3, <2>3 DEF OnlyJobs
  <2> QED BY <2>1, <2>2, <2>3
<1>7. ASSUME NEW u \in DOMAIN w.session, u \notin held2 PROVE u \in Owners(w)
  <2>1. u \in Owners(v)
    BY <1>1, <1>3, <1>7 DEF OnlyJobs
  <2>2. \/ \E h \in DOMAIN v.mClientList : v.mClientList[h] = u
        \/ \E j \in ToSet(v.mTaskQueue) : j.mOwner = u
    BY <2>1, OwnersAre
  <2>3. \/ \E h \in DOMAIN w.mClientList : w.mClientList[h] = u
        \/ \E j \in ToSet(w.mTaskQueue) : j.mOwner = u
    BY <1>3, <1>7, <2>2 DEF OnlyJobs, StillOwn
  <2> QED BY <2>3, OwnersAre
<1>8. w.open = {mListenSocket} \cup {w.session[u].mSocket : u \in DOMAIN w.session}
  BY <1>1, <1>3 DEF OnlyJobs
<1>9. IsFcn(w.mClientList) /\ IsFcn(w.session)
  BY <1>1, <1>3 DEF OnlyJobs
<1> QED BY <1>3, <1>4, <1>5, <1>6, <1>7, <1>8, <1>9 DEF SessionsOK

(* A call that only schedules.                                             *)
LEMMA OnlyJobsReduces ==
  ASSUME NEW v, NEW w, OnlyJobs(v, w)
  PROVE  Reduced(v, w) /\ \A cond : WatchedBy(v, cond) => WatchedBy(w, cond)
BY DEF OnlyJobs, Reduced, SameSockets, Sublist, WatchedBy, Live

(* The session of a job is in memory.                                      *)
LEMMA JobsOf ==
  ASSUME NEW v, NEW held, SessionsOK(v, held)
  PROVE  \A j \in ToSet(v.mTaskQueue) : j.mOwner \in DOMAIN v.session
BY OwnersAre DEF SessionsOK

\* The jobs are in order and due in time.
Scheduled(q) == InOrder(q) /\ InTime(q)

(* A job is scheduled, among the others by its time.                       *)
LEMMA PushTaskIs ==
  ASSUME NEW v, SessionsOK(v, {}), Scheduled(v.mTaskQueue), NEW uid \in DOMAIN v.session,
         NEW mTask \in {"SendGameStatus", "RacketAction"}, NEW after \in Delays,
         NEW w, w = PushTask(v, uid, mTask, after)
  PROVE  SessionsOK(w, {}) /\ OnlyJobs(v, w) /\ Scheduled(w.mTaskQueue)
<1>1. PICK q, e, B, m : /\ q = v.mTaskQueue
                        /\ e = [mOwner |-> uid, mTask |-> mTask, mExecutionTick |-> after]
                        /\ B = {i \in DOMAIN q : q[i].mExecutionTick <= after}
                        /\ m = Cardinality(B)
  OBVIOUS
<1>2. q \in Seq(Jobs) /\ Len(q) \in Nat /\ DOMAIN q = 1 .. Len(q) /\ after \in Int /\ e \in Jobs
  <2>1. q \in Seq(Jobs) /\ uid \in Nat
    BY <1>1 DEF SessionsOK, SessionsAre
  <2> QED BY <1>1, <2>1, LenProperties, LoopAssumption DEF Jobs
<1>3. CASE Len(v.mTaskQueue) >= MaxJobs
  <2>1. w = v
    BY <1>3 DEF PushTask
  <2> QED BY <2>1 DEF OnlyJobs
<1>4. CASE ~(Len(v.mTaskQueue) >= MaxJobs)
  <2>1. m \in 0 .. Len(q) /\ \A i \in 1 .. Len(q) : q[i].mExecutionTick <= after <=> i <= m
    <3>1. m = Cardinality({i \in DOMAIN q : q[i].mExecutionTick <= after}) /\ InOrder(q)
      BY <1>1 DEF Scheduled
    <3> QED BY <1>2, <3>1, DueFirst
  <2>2. PICK l, r : l = m + 1 /\ r = InsertAt(q, l, e)
    OBVIOUS
  <2>3. l \in 1 .. Len(q) + 1
    BY <1>2, <2>1, <2>2
  <2>4. /\ r \in Seq(Jobs) /\ DOMAIN r = 1 .. Len(q) + 1 /\ ToSet(r) = ToSet(q) \cup {e}
        /\ \A i \in 1 .. Len(q) + 1 :
             r[i] = IF i < l THEN q[i] ELSE IF i = l THEN e ELSE q[i - 1]
    <3>1. r \in Seq(Jobs) /\ Inserted(q, l, e, r)
      BY <1>2, <2>2, <2>3, InsertedIs
    <3> QED BY <3>1 DEF Inserted
  <2>5. w = [v EXCEPT !.mTaskQueue = r]
    <3>1. w = [v EXCEPT !.mTaskQueue = InsertAt(v.mTaskQueue, Cardinality(B) + 1, e)]
      BY <1>1, <1>4 DEF PushTask, SessionsOK, IsServer
    <3> QED BY <1>1, <2>2, <3>1
  <2>6. e.mOwner = uid /\ e.mExecutionTick = after
    BY <1>1
  <2>7. SessionsOK(w, {}) /\ OnlyJobs(v, w) /\ w.mTaskQueue = r
    <3>1. \A j \in ToSet(r) : j.mOwner \in DOMAIN v.session
      BY <1>1, <2>4, <2>6, JobsOf
    <3>2. PICK none : none = {}
      OBVIOUS
    <3>3. StillOwn(v.mTaskQueue, r, none)
      BY <1>1, <2>4 DEF StillOwn
    <3>4. none \subseteq none
      OBVIOUS
    <3> QED BY <2>4, <2>5, <3>1, <3>2, <3>3, <3>4, JobsSet
  <2>8. PICK n \in Nat : n = Len(q)
    BY <1>2
  <2>9. ASSUME NEW i \in 1 .. n + 1
        PROVE  \/ i < l /\ i \in 1 .. n /\ r[i] = q[i] /\ q[i].mExecutionTick <= after
               \/ i = l /\ r[i] = e
               \/ i > l /\ i - 1 \in 1 .. n /\ r[i] = q[i - 1] /\ ~(q[i - 1].mExecutionTick <= after)
    <3>1. CASE i < l
      <4>1. i \in 1 .. n /\ i <= m
        BY <2>1, <2>2, <2>8, <3>1
      <4> QED BY <2>1, <2>4, <2>8, <3>1, <4>1
    <3>2. CASE i = l
      BY <2>3, <2>4, <2>8, <3>2
    <3>3. CASE i > l
      <4>1. i - 1 \in 1 .. n /\ ~(i - 1 <= m) /\ ~(i < l) /\ i # l
        BY <2>1, <2>2, <2>8, <3>3
      <4> QED BY <2>1, <2>4, <2>8, <3>3, <4>1
    <3> QED BY <2>1, <2>2, <2>8, <3>1, <3>2, <3>3
  <2>10. \A i \in 1 .. n : q[i].mExecutionTick \in Int
    <3>1. \A i \in 1 .. n : q[i] \in Jobs
      BY <1>2, <2>8, ElementOfSeq
    <3> QED BY <3>1 DEF Jobs
  <2>11. \A i, j \in 1 .. n : i < j => q[i].mExecutionTick <= q[j].mExecutionTick
    BY <1>1, <1>2, <2>8 DEF Scheduled, InOrder
  <2>12. ASSUME NEW i \in 1 .. n + 1, NEW j \in 1 .. n + 1, i < j
         PROVE  r[i].mExecutionTick <= r[j].mExecutionTick
    <3>1. CASE j < l
      <4>1. i < l
        BY <2>1, <2>2, <2>12, <3>1
      <4> QED BY <2>9, <2>11, <2>12, <3>1, <4>1
    <3>2. CASE j = l
      <4>1. i < l /\ ~(j < l) /\ ~(j > l)
        BY <2>1, <2>2, <2>12, <3>2
      <4> QED BY <2>6, <2>9, <2>12, <3>2, <4>1
    <3>3. CASE j > l
      <4>1. j - 1 \in 1 .. n /\ r[j] = q[j - 1] /\ ~(q[j - 1].mExecutionTick <= after) /\ ~(j < l) /\ j # l
        BY <2>1, <2>2, <2>9, <3>3
      <4>2. CASE i < l
        <5>1. i \in 1 .. n /\ r[i] = q[i] /\ i < j - 1
          BY <2>1, <2>2, <2>9, <3>3, <4>2
        <5> QED BY <2>11, <4>1, <5>1
      <4>3. CASE i = l
        BY <1>2, <2>6, <2>9, <2>10, <4>1, <4>3
      <4>4. CASE i > l
        <5>1. i - 1 \in 1 .. n /\ r[i] = q[i - 1] /\ i - 1 < j - 1
          BY <2>1, <2>2, <2>9, <2>12, <4>4
        <5> QED BY <2>11, <4>1, <5>1
      <4> QED BY <2>1, <2>2, <4>2, <4>3, <4>4
    <3> QED BY <2>1, <2>2, <3>1, <3>2, <3>3
  <2>13. InOrder(r)
    BY <2>4, <2>8, <2>12 DEF InOrder
  <2>14. InTime(r)
    <3> SUFFICES ASSUME NEW i \in 1 .. n + 1
                 PROVE  \E delay \in Delays : r[i].mExecutionTick = delay \/ r[i].mExecutionTick \in 1 .. delay
      BY <2>4, <2>8 DEF InTime
    <3>1. \A j \in 1 .. n : \E delay \in Delays :
            q[j].mExecutionTick = delay \/ q[j].mExecutionTick \in 1 .. delay
      BY <1>1, <1>2, <2>8 DEF Scheduled, InTime
    <3> QED BY <2>6, <2>9, <3>1
  <2> QED BY <2>7, <2>13, <2>14 DEF Scheduled
<1> QED BY <1>3, <1>4

(* A broadcast is scheduled for every client.                              *)
LEMMA BroadcastScheduled ==
  ASSUME NEW v, SessionsOK(v, {}), Scheduled(v.mTaskQueue), NEW delay \in Delays,
         NEW w, w = DelayedBroadcastGameStatus(v, delay)
  PROVE  SessionsOK(w, {}) /\ OnlyJobs(v, w) /\ Scheduled(w.mTaskQueue)
<1> DEFINE walk == Ascending(DOMAIN v.mClientList)
           n == Len(walk)
           Op(x, g) == PushTask(x, v.mClientList[g], "SendGameStatus", delay)
           start == v
           Good(i, x) == SessionsOK(x, {}) /\ OnlyJobs(v, x) /\ Scheduled(x.mTaskQueue)
           Eqn(f) == f = [i \in 0 .. n |->
                            IF i = 0 THEN start
                            ELSE CHOOSE x \in {Op(before, walk[i]) : before \in {f[i - 1]}} : TRUE]
           Run(m, f) == /\ f = [i \in 0 .. m |-> f[i]] /\ f[0] = start
                        /\ \A i \in 1 .. m : f[i] = Op(f[i - 1], walk[i])
           T == {m \in Nat : \E f : Run(m, f)}
           h == CHOOSE f : Eqn(f)
           G == {m \in Nat : m <= n => Good(m, h[m])}
<1>1. n \in Nat /\ \A j \in 1 .. n : walk[j] \in DOMAIN v.mClientList
  <2>1. PICK s : s = walk
    OBVIOUS
  <2>2. s \in Seq(DOMAIN v.mClientList)
    BY <2>1, ListedHandles
  <2>3. Len(s) \in Nat /\ \A j \in 1 .. Len(s) : s[j] \in DOMAIN v.mClientList
    BY <2>2, LenProperties, ElementOfSeq
  <2> QED BY <2>1, <2>3
<1>2. w = h[n]
  BY DEF DelayedBroadcastGameStatus, Through
<1> HIDE DEF n, walk
<1>3. Good(0, start)
  BY DEF OnlyJobs
<1>4. ASSUME NEW i \in 0 .. n - 1, NEW x, Good(i, x) PROVE Good(i + 1, Op(x, walk[i + 1]))
  <2>1. i + 1 \in 1 .. n
    BY <1>1
  <2>2. PICK uid, y : uid = v.mClientList[walk[i + 1]] /\ y = PushTask(x, uid, "SendGameStatus", delay)
    OBVIOUS
  <2>3. uid \in DOMAIN x.session
    BY <1>1, <1>4, <2>1, <2>2 DEF OnlyJobs, SessionsOK, ListIs
  <2>4. SessionsOK(y, {}) /\ OnlyJobs(x, y) /\ Scheduled(y.mTaskQueue)
    <3>1. SessionsOK(x, {}) /\ Scheduled(x.mTaskQueue)
      BY <1>4
    <3>2. PICK task \in {"SendGameStatus", "RacketAction"} : task = "SendGameStatus"
      OBVIOUS
    <3>3. y = PushTask(x, uid, task, delay)
      BY <2>2, <3>2
    <3> HIDE DEF Good, Op
    <3> QED BY <2>3, <3>1, <3>3, PushTaskIs
  <2>5. OnlyJobs(v, y)
    BY <1>4, <2>4 DEF OnlyJobs
  <2> QED BY <2>2, <2>4, <2>5
<1> HIDE DEF Good, Op, start
<1>5. n \in T
  <2>1. 0 \in T
    <3>1. PICK f : f = [i \in 0 .. 0 |-> start]
      OBVIOUS
    <3>2. Run(0, f)
      BY <3>1
    <3> QED BY <3>2
  <2>2. ASSUME NEW m \in Nat, m \in T PROVE m + 1 \in T
    <3>1. PICK f : Run(m, f)
      BY <2>2
    <3>2. PICK new : new = Op(f[m], walk[m + 1])
      OBVIOUS
    <3>3. PICK g : g = [i \in 0 .. m + 1 |-> IF i = m + 1 THEN new ELSE f[i]]
      OBVIOUS
    <3>4. g[m + 1] = new /\ \A i \in 0 .. m : g[i] = f[i]
      BY <3>3
    <3>5. ASSUME NEW i \in 1 .. m + 1 PROVE g[i] = Op(g[i - 1], walk[i])
      <4>1. CASE i = m + 1
        <5>1. i - 1 = m /\ m \in 0 .. m
          BY <4>1
        <5> QED BY <3>2, <3>4, <4>1, <5>1
      <4>2. CASE i # m + 1
        <5>1. i \in 1 .. m /\ i \in 0 .. m /\ i - 1 \in 0 .. m
          BY <4>2
        <5> QED BY <3>1, <3>4, <5>1
      <4> QED BY <4>1, <4>2
    <3>6. g = [i \in 0 .. m + 1 |-> g[i]]
      BY <3>3
    <3>7. g[0] = start
      BY <3>1, <3>4
    <3>8. Run(m + 1, g)
      BY <3>5, <3>6, <3>7
    <3> HIDE DEF Run
    <3> QED BY <3>8
  <2> HIDE DEF T
  <2> QED BY <1>1, <2>1, <2>2, SetInduction
<1>6. Eqn(h)
  <2>1. PICK g : Run(n, g)
    BY <1>5
  <2>2. ASSUME NEW i \in 1 .. n
        PROVE  g[i] = CHOOSE x \in {Op(before, walk[i]) : before \in {g[i - 1]}} : TRUE
    <3>1. {Op(before, walk[i]) : before \in {g[i - 1]}} = {g[i]}
      BY <2>1, <2>2
    <3> QED BY <3>1
  <2>3. \A i \in 0 .. n : i = 0 \/ i \in 1 .. n
    BY <1>1
  <2>4. \A i \in 0 .. n :
          g[i] = IF i = 0 THEN start
                 ELSE CHOOSE x \in {Op(before, walk[i]) : before \in {g[i - 1]}} : TRUE
    BY <2>1, <2>2, <2>3
  <2>5. Eqn(g)
    BY <2>1, <2>4
  <2> QED BY <2>5
<1> HIDE DEF h
<1>7. h[0] = start /\ \A i \in 1 .. n : h[i] = Op(h[i - 1], walk[i])
  BY <1>1, <1>6
<1>8. n \in G
  <2>1. 0 \in G
    BY <1>3, <1>7
  <2>2. ASSUME NEW m \in Nat, m \in G PROVE m + 1 \in G
    <3> SUFFICES ASSUME m + 1 <= n PROVE Good(m + 1, h[m + 1])
      OBVIOUS
    <3>1. m \in 0 .. n - 1 /\ m + 1 \in 1 .. n /\ (m + 1) - 1 = m /\ m <= n
      BY <1>1
    <3> QED BY <1>4, <1>7, <2>2, <3>1
  <2> HIDE DEF G
  <2> QED BY <1>1, <2>1, <2>2, SetInduction
<1> QED BY <1>1, <1>2, <1>8 DEF Good

(* Time passes.                                                            *)
LEMMA TickedIs ==
  ASSUME NEW v, SessionsOK(v, {}), Scheduled(v.mTaskQueue), NEW elapsed \in 1 .. MaxTurn,
         NEW w, w = Ticked(v, elapsed)
  PROVE  SessionsOK(w, {}) /\ OnlyJobs(v, w) /\ InOrder(w.mTaskQueue) /\ Aged(w.mTaskQueue)
<1>1. PICK q : q = v.mTaskQueue
  OBVIOUS
<1>2. PICK n \in Nat : n = Len(q) /\ DOMAIN q = 1 .. n /\ \A i \in 1 .. n : q[i] \in Jobs
  <2>1. q \in Seq(Jobs)
    BY <1>1 DEF SessionsOK
  <2> QED BY <2>1, LenProperties, ElementOfSeq
<1>3. PICK q2 : q2 = [i \in 1 .. n |-> Nearer(q[i], elapsed)]
  OBVIOUS
<1>4. elapsed \in Int /\ elapsed > 0
  BY LoopAssumption
<1>5. ASSUME NEW i \in 1 .. n
      PROVE  /\ q2[i] \in Jobs /\ q2[i].mOwner = q[i].mOwner
             /\ q2[i].mExecutionTick = q[i].mExecutionTick - elapsed /\ q[i].mExecutionTick \in Int
  <2>1. q[i] \in Jobs
    BY <1>2
  <2>2. q2[i] = [q[i] EXCEPT !.mExecutionTick = q[i].mExecutionTick - elapsed]
    BY <1>3, <2>1 DEF Nearer
  <2> QED BY <1>4, <2>1, <2>2 DEF Jobs
<1>6. q2 \in Seq(Jobs) /\ Len(q2) = n /\ DOMAIN q2 = 1 .. n
  <2>1. q2 \in [1 .. n -> Jobs]
    BY <1>3, <1>5
  <2> QED BY <2>1, SeqDef, LenProperties
<1>7. w = [v EXCEPT !.mTaskQueue = q2]
  <2>1. w = [v EXCEPT !.mTaskQueue =
               [i \in DOMAIN v.mTaskQueue |-> Nearer(v.mTaskQueue[i], elapsed)]]
    BY DEF Ticked
  <2>2. [i \in DOMAIN v.mTaskQueue |-> Nearer(v.mTaskQueue[i], elapsed)] = q2
    BY <1>1, <1>2, <1>3
  <2> QED BY <2>1, <2>2
<1>8. SessionsOK(w, {}) /\ OnlyJobs(v, w) /\ w.mTaskQueue = q2
  <2>1. \A j \in ToSet(q2) : j.mOwner \in DOMAIN v.session
    <3>1. \A j \in ToSet(q) : j.mOwner \in DOMAIN v.session
      BY <1>1, JobsOf
    <3> QED BY <1>2, <1>5, <1>6, <3>1 DEF ToSet
  <2>2. PICK none : none = {}
    OBVIOUS
  <2>3. StillOwn(v.mTaskQueue, q2, none)
    BY <1>1, <1>2, <1>5, <1>6 DEF StillOwn, ToSet
  <2>4. none \subseteq none
    OBVIOUS
  <2> QED BY <1>6, <1>7, <2>1, <2>2, <2>3, <2>4, JobsSet
<1>9. InOrder(q2)
  <2>1. \A i, j \in 1 .. n : i < j => q[i].mExecutionTick <= q[j].mExecutionTick
    BY <1>1, <1>2 DEF Scheduled, InOrder
  <2>2. ASSUME NEW i \in 1 .. n, NEW j \in 1 .. n, i < j
        PROVE  q2[i].mExecutionTick <= q2[j].mExecutionTick
    BY <1>4, <1>5, <2>1, <2>2
  <2> QED BY <1>6, <2>2 DEF InOrder
<1>10. Aged(q2)
  <2> SUFFICES ASSUME NEW i \in 1 .. n PROVE \E delay \in Delays : q2[i].mExecutionTick <= delay
    BY <1>6 DEF Aged
  <2>1. PICK delay \in Delays : q[i].mExecutionTick = delay \/ q[i].mExecutionTick \in 1 .. delay
    BY <1>1, <1>2 DEF Scheduled, InTime
  <2>2. delay \in Nat
    BY LoopAssumption
  <2> QED BY <1>4, <1>5, <2>1, <2>2
<1> QED BY <1>8, <1>9, <1>10

(* The first job runs, and its session may go.                             *)
LEMMA RunTaskIs ==
  ASSUME NEW v, SessionsOK(v, {}), NEW cond, WatchedBy(v, cond), v.mTaskQueue # << >>,
         NEW job, job = Head(v.mTaskQueue), NEW fault,
         NEW w, w = RunTask(v, job, fault)
  PROVE  /\ SessionsOK(w, {}) /\ WatchedBy(w, cond) /\ Reduced(v, w)
         /\ w.mTaskQueue = Tail(v.mTaskQueue)
<1>1. PICK q, q2, uid, held, none : /\ q = v.mTaskQueue /\ q2 = Tail(q) /\ uid = job.mOwner
                                    /\ held = {uid} /\ none = {}
  OBVIOUS
<1>2. q \in Seq(Jobs) /\ q # << >>
  BY <1>1 DEF SessionsOK
<1>3. q2 \in Seq(Jobs) /\ job \in ToSet(q) /\ \A j \in ToSet(q) : j = job \/ j \in ToSet(q2)
  <2>1. /\ Tail(q) \in Seq(Jobs) /\ Head(q) \in ToSet(q)
        /\ ToSet(q) = ToSet(Tail(q)) \cup {Head(q)}
    BY <1>2, TailIs
  <2> QED BY <1>1, <2>1
<1>4. uid \in DOMAIN v.session
  BY <1>1, <1>3, JobsOf
<1>5. PICK ran : ran = IF job.mTask = "SendGameStatus" THEN SendRequest(v, uid, fault) ELSE v
  OBVIOUS
<1>6. SessionsOK(ran, held) /\ WorkedOn(v, ran, uid)
  <2>1. SessionsOK(v, none) /\ none \subseteq held /\ uid \in held
    BY <1>1
  <2>2. CASE job.mTask = "SendGameStatus"
    <3>1. ran = SendRequest(v, uid, fault)
      BY <1>5, <2>2
    <3> QED BY <1>4, <2>1, <3>1, SendRequestIs
  <2>3. CASE job.mTask # "SendGameStatus"
    <3>1. ran = v
      BY <1>5, <2>3
    <3> QED BY <2>1, <3>1, NothingDone
  <2> QED BY <2>2, <2>3
<1>7. /\ ran.mTaskQueue = q /\ DOMAIN ran.session = DOMAIN v.session
      /\ ran.open = v.open /\ ran.port = v.port
  BY <1>1, <1>6 DEF WorkedOn
<1>8. WatchedBy(ran, cond) /\ Reduced(v, ran)
  BY <1>6, <1>7, WatchedStill, WorkedReduces
<1>9. PICK t : t = [ran EXCEPT !.mTaskQueue = q2]
  OBVIOUS
<1>10. w = Released(t, uid)
  <2>1. [ran EXCEPT !.mTaskQueue = Tail(@)] = t
    BY <1>1, <1>6, <1>7, <1>9 DEF SessionsOK, IsServer
  <2> QED BY <1>1, <1>5, <2>1 DEF RunTask
<1>11. SessionsOK(t, held) /\ OnlyJobs(ran, t) /\ t.mTaskQueue = q2
  <2>1. \A j \in ToSet(q2) : j.mOwner \in DOMAIN ran.session
    <3>1. \A j \in ToSet(q) : j.mOwner \in DOMAIN v.session
      BY <1>1, JobsOf
    <3>2. \A j \in ToSet(q2) : j \in ToSet(q)
      <4>1. ToSet(q) = ToSet(Tail(q)) \cup {Head(q)}
        BY <1>2, TailIs
      <4> QED BY <1>1, <4>1
    <3> QED BY <1>7, <3>1, <3>2
  <2>2. StillOwn(ran.mTaskQueue, q2, held)
    BY <1>1, <1>3, <1>7 DEF StillOwn
  <2>3. held \subseteq held
    OBVIOUS
  <2> QED BY <1>3, <1>6, <1>9, <2>1, <2>2, <2>3, JobsSet
<1>12. WatchedBy(t, cond) /\ Reduced(ran, t)
  BY <1>8, <1>11, OnlyJobsReduces
<1>13. /\ SessionsOK(w, none) /\ WatchedBy(w, cond) /\ Reduced(t, w)
       /\ w.mTaskQueue = t.mTaskQueue
  <2>1. \A u \in held : u \in none \/ u = uid
    BY <1>1
  <2> QED BY <1>10, <1>11, <1>12, <2>1, ReleasedIs
<1>14. Reduced(v, w)
  BY <1>8, <1>12, <1>13, ReducedAgain
<1> QED BY <1>1, <1>11, <1>13, <1>14

(* All the jobs that are due run; no other is late.                        *)
LEMMA DoTasksIs ==
  ASSUME NEW v, SessionsOK(v, {}), NEW cond, WatchedBy(v, cond),
         InOrder(v.mTaskQueue), Aged(v.mTaskQueue), NEW fault,
         NEW w, w = DoTasks(v, fault)
  PROVE  SessionsOK(w, {}) /\ WatchedBy(w, cond) /\ Reduced(v, w) /\ Scheduled(w.mTaskQueue)
<1> DEFINE walk == v.mTaskQueue
           n == Len(walk)
           Op(x, job) == RunIfDue(x, fault)
           start == v
           Left(i, x) == ~IsDue(x) \/ Len(x.mTaskQueue) <= n - i
           Good(i, x) == /\ SessionsOK(x, {}) /\ WatchedBy(x, cond) /\ Reduced(v, x)
                         /\ InOrder(x.mTaskQueue) /\ Aged(x.mTaskQueue) /\ Left(i, x)
           Eqn(f) == f = [i \in 0 .. n |->
                            IF i = 0 THEN start
                            ELSE CHOOSE x \in {Op(before, walk[i]) : before \in {f[i - 1]}} : TRUE]
           Run(m, f) == /\ f = [i \in 0 .. m |-> f[i]] /\ f[0] = start
                        /\ \A i \in 1 .. m : f[i] = Op(f[i - 1], walk[i])
           T == {m \in Nat : \E f : Run(m, f)}
           h == CHOOSE f : Eqn(f)
           G == {m \in Nat : m <= n => Good(m, h[m])}
<1>1. n \in Nat
  BY LenProperties DEF SessionsOK
<1>2. w = h[n]
  BY DEF DoTasks, Through
<1> HIDE DEF n, walk
<1>3. Good(0, start)
  <2>1. Reduced(v, v)
    BY ReducedNot
  <2>2. Len(v.mTaskQueue) = n
    BY DEF n, walk
  <2> QED BY <1>1, <2>1, <2>2
<1>4. ASSUME NEW i \in 0 .. n - 1, NEW x, Good(i, x) PROVE Good(i + 1, Op(x, walk[i + 1]))
  <2>1. PICK y, job : y = RunIfDue(x, fault) /\ job = Head(x.mTaskQueue)
    OBVIOUS
  <2>2. CASE ~IsDue(x)
    <3>1. y = x
      BY <2>1, <2>2 DEF RunIfDue
    <3> QED BY <1>4, <2>1, <2>2, <3>1
  <2>3. CASE IsDue(x)
    <3>1. x.mTaskQueue # << >> /\ x.mTaskQueue \in Seq(Jobs)
      BY <1>4, <2>3 DEF IsDue, SessionsOK
    <3>2. y = RunTask(x, job, fault)
      BY <2>1, <2>3 DEF RunIfDue
    <3>3. /\ SessionsOK(y, {}) /\ WatchedBy(y, cond) /\ Reduced(x, y)
          /\ y.mTaskQueue = Tail(x.mTaskQueue)
      <4>1. SessionsOK(x, {}) /\ WatchedBy(x, cond)
        BY <1>4
      <4> HIDE DEF Good, Op, start
      <4> QED BY <2>1, <3>1, <3>2, <4>1, RunTaskIs
    <3>4. Reduced(v, y)
      BY <1>4, <3>3, ReducedAgain
    <3>5. PICK q, r : q = x.mTaskQueue /\ r = Tail(q)
      OBVIOUS
    <3>6. /\ Len(q) \in Nat \ {0} /\ Len(r) = Len(q) - 1 /\ r \in Seq(Jobs)
          /\ \A j \in 1 .. Len(q) - 1 : r[j] = q[j + 1]
      BY <3>1, <3>5, TailIs
    <3>7. PICK m \in Nat : m = Len(r) /\ Len(q) = m + 1 /\ DOMAIN q = 1 .. m + 1 /\ DOMAIN r = 1 .. m
      BY <3>1, <3>5, <3>6, LenProperties
    <3>8. \A j \in 1 .. m : r[j] = q[j + 1] /\ j + 1 \in 1 .. m + 1
      BY <3>6, <3>7
    <3>9. InOrder(r)
      <4>1. InOrder(q)
        BY <1>4, <3>5
      <4>2. ASSUME NEW j \in 1 .. m, NEW l \in 1 .. m, j < l
            PROVE  r[j].mExecutionTick <= r[l].mExecutionTick
        <5>1. j + 1 \in 1 .. m + 1 /\ l + 1 \in 1 .. m + 1 /\ j + 1 < l + 1
          BY <4>2
        <5>2. q[j + 1].mExecutionTick <= q[l + 1].mExecutionTick
          BY <3>7, <4>1, <5>1 DEF InOrder
        <5> QED BY <3>8, <5>2
      <4> QED BY <3>7, <4>2 DEF InOrder
    <3>10. Aged(r)
      BY <1>4, <3>5, <3>7, <3>8 DEF Aged
    <3>11. Left(i + 1, y)
      <4>1. Len(q) <= n - i
        BY <1>4, <2>3, <3>5
      <4>2. Len(r) <= n - (i + 1)
        BY <1>1, <3>7, <4>1
      <4> QED BY <3>3, <3>5, <4>2
    <3> QED BY <2>1, <3>3, <3>4, <3>5, <3>9, <3>10, <3>11
  <2> QED BY <2>2, <2>3
<1> HIDE DEF Good, Op, start
<1>5. n \in T
  <2>1. 0 \in T
    <3>1. PICK f : f = [i \in 0 .. 0 |-> start]
      OBVIOUS
    <3>2. Run(0, f)
      BY <3>1
    <3> QED BY <3>2
  <2>2. ASSUME NEW m \in Nat, m \in T PROVE m + 1 \in T
    <3>1. PICK f : Run(m, f)
      BY <2>2
    <3>2. PICK new : new = Op(f[m], walk[m + 1])
      OBVIOUS
    <3>3. PICK g : g = [i \in 0 .. m + 1 |-> IF i = m + 1 THEN new ELSE f[i]]
      OBVIOUS
    <3>4. g[m + 1] = new /\ \A i \in 0 .. m : g[i] = f[i]
      BY <3>3
    <3>5. ASSUME NEW i \in 1 .. m + 1 PROVE g[i] = Op(g[i - 1], walk[i])
      <4>1. CASE i = m + 1
        <5>1. i - 1 = m /\ m \in 0 .. m
          BY <4>1
        <5> QED BY <3>2, <3>4, <4>1, <5>1
      <4>2. CASE i # m + 1
        <5>1. i \in 1 .. m /\ i \in 0 .. m /\ i - 1 \in 0 .. m
          BY <4>2
        <5> QED BY <3>1, <3>4, <5>1
      <4> QED BY <4>1, <4>2
    <3>6. g = [i \in 0 .. m + 1 |-> g[i]]
      BY <3>3
    <3>7. g[0] = start
      BY <3>1, <3>4
    <3>8. Run(m + 1, g)
      BY <3>5, <3>6, <3>7
    <3> HIDE DEF Run
    <3> QED BY <3>8
  <2> HIDE DEF T
  <2> QED BY <1>1, <2>1, <2>2, SetInduction
<1>6. Eqn(h)
  <2>1. PICK g : Run(n, g)
    BY <1>5
  <2>2. ASSUME NEW i \in 1 .. n
        PROVE  g[i] = CHOOSE x \in {Op(before, walk[i]) : before \in {g[i - 1]}} : TRUE
    <3>1. {Op(before, walk[i]) : before \in {g[i - 1]}} = {g[i]}
      BY <2>1, <2>2
    <3> QED BY <3>1
  <2>3. \A i \in 0 .. n : i = 0 \/ i \in 1 .. n
    BY <1>1
  <2>4. \A i \in 0 .. n :
          g[i] = IF i = 0 THEN start
                 ELSE CHOOSE x \in {Op(before, walk[i]) : before \in {g[i - 1]}} : TRUE
    BY <2>1, <2>2, <2>3
  <2>5. Eqn(g)
    BY <2>1, <2>4
  <2> QED BY <2>5
<1> HIDE DEF h
<1>7. h[0] = start /\ \A i \in 1 .. n : h[i] = Op(h[i - 1], walk[i])
  BY <1>1, <1>6
<1>8. n \in G
  <2>1. 0 \in G
    BY <1>3, <1>7
  <2>2. ASSUME NEW m \in Nat, m \in G PROVE m + 1 \in G
    <3> SUFFICES ASSUME m + 1 <= n PROVE Good(m + 1, h[m + 1])
      OBVIOUS
    <3>1. m \in 0 .. n - 1 /\ m + 1 \in 1 .. n /\ (m + 1) - 1 = m /\ m <= n
      BY <1>1
    <3> QED BY <1>4, <1>7, <2>2, <3>1
  <2> HIDE DEF G
  <2> QED BY <1>1, <2>1, <2>2, SetInduction
<1>9. Good(n, w)
  BY <1>1, <1>2, <1>8
<1>10. InTime(w.mTaskQueue)
  <2>1. PICK q : q = w.mTaskQueue
    OBVIOUS
  <2>2. q \in Seq(Jobs) /\ InOrder(q) /\ Aged(q)
    BY <1>9, <2>1 DEF Good, SessionsOK
  <2>3. PICK m \in Nat : m = Len(q) /\ DOMAIN q = 1 .. m /\ \A i \in 1 .. m : q[i] \in Jobs
    BY <2>2, LenProperties, ElementOfSeq
  <2>4. ~IsDue(w)
    <3>1. ASSUME Len(q) <= n - n PROVE q = << >>
      <4>1. m = 0
        BY <1>1, <2>3, <3>1
      <4> QED BY <2>2, <2>3, <4>1, EmptySeq
    <3> QED BY <1>9, <2>1, <3>1 DEF Good, IsDue
  <2>5. ASSUME NEW i \in 1 .. m PROVE q[i].mExecutionTick \in Int /\ q[i].mExecutionTick > 0
    <3>1. q # << >>
      BY <2>2, <2>3, <2>5, EmptySeq
    <3>2. 1 \in 1 .. m /\ Head(q) = q[1]
      BY <2>2, <2>5, <3>1, TailIs
    <3>3. q[1].mExecutionTick \in Int /\ q[i].mExecutionTick \in Int
      BY <2>3, <3>2 DEF Jobs
    <3>4. q[1].mExecutionTick > 0
      BY <2>1, <2>4, <3>1, <3>2, <3>3 DEF IsDue
    <3>5. i = 1 \/ 1 < i
      OBVIOUS
    <3>6. 1 < i => q[1].mExecutionTick <= q[i].mExecutionTick
      BY <2>2, <2>3, <3>2 DEF InOrder
    <3> QED BY <3>3, <3>4, <3>5, <3>6
  <2>6. ASSUME NEW i \in 1 .. m
        PROVE  \E delay \in Delays : q[i].mExecutionTick = delay \/ q[i].mExecutionTick \in 1 .. delay
    <3>1. PICK delay \in Delays : q[i].mExecutionTick <= delay
      BY <2>2, <2>3 DEF Aged
    <3>2. delay \in Nat
      BY LoopAssumption
    <3> QED BY <2>5, <3>1, <3>2
  <2> QED BY <2>1, <2>3, <2>6 DEF InTime
<1> QED BY <1>9, <1>10 DEF Good, Scheduled

----------------------------------------------------------------------------
(* The loop: what a step leaves as it was.                                 *)

(* The conditions of a socket are its peer's doing alone.                  *)
LEMMA CondsAre ==
  ASSUME NEW peers, NEW peers2, NEW h \in SOCKETs, peers2[h] = peers[h]
  PROVE  Conds(peers2)[h] = Conds(peers)[h]
BY DEF Conds

(* The driver knows what it has to when it does so for all it polls.       *)
LEMMA StillWatched ==
  ASSUME NEW w, NEW peers, WatchedBy(w, Conds(peers)), NEW peers2,
         \A g \in SOCKETs : g \in w.open => peers2[g] = peers[g] \/ Unpolled(w, g)
  PROVE  WatchedOK(w, peers2)
<1>1. PICK p, open, live, cond, cond2 : /\ p = w.port /\ open = w.open /\ live = Live(w)
                                        /\ cond = Conds(peers) /\ cond2 = Conds(peers2)
  OBVIOUS
<1>2. PortOK(p, open, live, cond, Arrived(p)) /\ IocpOK(p)
  BY <1>1 DEF WatchedBy
<1>3. live \subseteq open /\ live \subseteq DOMAIN p.tree /\ Sound(p)
  BY <1>2 DEF PortOK
<1>4. ASSUME NEW id \in DOMAIN p.sock, ~Idle(p, id), p.sock[id].socket \in open
      PROVE  cond2[p.sock[id].socket] = cond[p.sock[id].socket]
  <2>1. PICK g : g = p.sock[id].socket
    OBVIOUS
  <2>2. g \in DOMAIN p.tree /\ p.tree[g] = id /\ g \in SOCKETs
    BY <1>3, <2>1 DEF Sound, TreeOK
  <2>3. ~Unpolled(w, g)
    BY <1>1, <1>4, <2>2 DEF Unpolled
  <2>4. peers2[g] = peers[g]
    BY <1>1, <1>4, <2>1, <2>2, <2>3
  <2>5. Conds(peers2)[g] = Conds(peers)[g]
    BY <2>2, <2>4, CondsAre
  <2> QED BY <1>1, <2>1, <2>5
<1>5. \A id \in DOMAIN p.sock : ~Idle(p, id) =>
        /\ p.sock[id].socket \in open =>
             p.sock[id].socket \in open /\ cond2[p.sock[id].socket] = cond[p.sock[id].socket]
        /\ p.sock[id].socket \in live => p.sock[id].socket \in live
  BY <1>4
<1>6. PortOK(p, open, live, cond2, Arrived(p))
  BY <1>2, <1>3, <1>5, PortMeets
<1> QED BY <1>1, <1>2, <1>6 DEF WatchedOK

(* The peers of the sockets that are open are as they were.                *)
LEMMA NetOfIs ==
  ASSUME NEW w, NEW peers, PeersOK(peers), NEW peers2, peers2 = NetOf(w, peers)
  PROVE  PeersOK(peers2) /\ \A h \in SOCKETs : h \in w.open => peers2[h] = peers[h]
<1>1. \A h \in SOCKETs : peers2[h] = IF h \in w.open THEN peers[h] ELSE Quiet
  BY DEF NetOf
<1>2. peers2 = [h \in SOCKETs |-> peers2[h]]
  BY DEF NetOf
<1>3. ASSUME NEW h \in SOCKETs
      PROVE  /\ peers2[h] = [unread |-> peers2[h].unread, shut |-> peers2[h].shut, reset |-> peers2[h].reset]
             /\ peers2[h].shut \in BOOLEAN /\ peers2[h].reset \in BOOLEAN
             /\ peers2[h].unread \in Seq(IF h = mListenSocket THEN {"connect"} ELSE Packets)
  <2>1. CASE h \in w.open
    <3>1. peers2[h] = peers[h]
      BY <1>1, <2>1
    <3> QED BY <3>1 DEF PeersOK
  <2>2. CASE h \notin w.open
    <3>1. peers2[h] = Quiet
      BY <1>1, <2>2
    <3> QED BY <3>1 DEF Quiet
  <2> QED BY <2>1, <2>2
<1>4. ~peers2[mListenSocket].shut /\ ~peers2[mListenSocket].reset
  <2>1. CASE mListenSocket \in w.open
    BY <1>1, <2>1, LoopAssumption DEF PeersOK
  <2>2. CASE mListenSocket \notin w.open
    BY <1>1, <2>2, LoopAssumption DEF Quiet
  <2> QED BY <2>1, <2>2
<1> QED BY <1>1, <1>2, <1>3, <1>4 DEF PeersOK

\* The peers are as they were, but for one whose socket is not polled.
Apart(w, peers, peers2) ==
  /\ PeersOK(peers2) /\ peers2[mListenSocket] = peers[mListenSocket]
  /\ \A g \in SOCKETs : g \in w.open => peers2[g] = peers[g] \/ Unpolled(w, g)

\* A step of the loop that neither waits nor adds a session: what else it does.
GoesOn ==
  /\ phase # "polling" /\ phase' \in Phases \ {"polling"}
  /\ batch' = batch \/ (batch # << >> /\ batch' = Tail(batch))
  /\ phase' \in {"entering", "updating", "flushing"} => batch' = << >>
  /\ ReceivingOK'
  /\ untilUpdate' \in -MaxTurn .. UPDATE_INTERVAL /\ (phase' # "updating" => untilUpdate' >= 0)
  /\ mCurrentIssuedId' = mCurrentIssuedId

(* Such a step keeps the invariant.                                        *)
LEMMA ReducedKeeps ==
  ASSUME IInv, GoesOn, SessionsOK(server', {}), WatchedBy(server', Conds(net)),
         Reduced(server, server'), Scheduled(server'.mTaskQueue), Apart(server', net, net')
  PROVE  IInv'
<1>1. ServerOK(server', net') /\ PeersOK(net')
  <2>1. PICK w, peers, peers2 : w = server' /\ peers = net /\ peers2 = net'
    OBVIOUS
  <2>2. WatchedBy(w, Conds(peers))
    BY <2>1
  <2>3. \A g \in SOCKETs : g \in w.open => peers2[g] = peers[g] \/ Unpolled(w, g)
    BY <2>1 DEF Apart
  <2>4. WatchedOK(w, peers2)
    BY <2>2, <2>3, StillWatched
  <2>5. SessionsOK(w, {}) /\ PeersOK(peers2)
    BY <2>1 DEF Apart
  <2>6. ServerOK(w, peers2)
    BY <2>4, <2>5 DEF ServerOK
  <2> QED BY <2>1, <2>5, <2>6
<1>2. BatchOK'
  <2>1. batch' \in Seq(SOCKETs) /\ IsInjective(batch') /\ ToSet(batch') \subseteq ToSet(batch)
    <3>1. PICK q, q2 : q = batch /\ q2 = batch'
      OBVIOUS
    <3>2. q \in Seq(SOCKETs) /\ IsInjective(q) /\ (q2 = q \/ (q # << >> /\ q2 = Tail(q)))
      BY <3>1 DEF IInv, BatchOK, GoesOn
    <3>3. ASSUME q # << >>, q2 = Tail(q)
          PROVE  q2 \in Seq(SOCKETs) /\ IsInjective(q2) /\ ToSet(q2) \subseteq ToSet(q)
      <4>1. /\ Tail(q) \in Seq(SOCKETs) /\ ToSet(q) = ToSet(Tail(q)) \cup {Head(q)}
            /\ IsInjective(q) => IsInjective(Tail(q)) /\ Head(q) \notin ToSet(Tail(q))
        BY <3>2, <3>3, TailIs
      <4> QED BY <3>2, <3>3, <4>1
    <3> QED BY <3>1, <3>2, <3>3
  <2>2. \A h : Unpolled(server, h) => Unpolled(server', h)
    BY DEF Reduced, Unpolled, Idle
  <2>3. \A h \in ToSet(batch) : Unpolled(server, h)
    BY DEF IInv, BatchOK
  <2>4. mListenSocket \in ToSet(batch') => net'[mListenSocket].unread # << >>
    BY <2>1 DEF IInv, BatchOK, Apart
  <2> QED BY <2>1, <2>2, <2>3, <2>4 DEF BatchOK, GoesOn
<1>3. PollingOK'
  <2>1. server.port.active = 0
    BY DEF IInv, PollingOK, GoesOn
  <2> QED BY <2>1 DEF PollingOK, Reduced, GoesOn
<1>4. TimesOK'
  BY DEF TimesOK, Scheduled, GoesOn
<1>5. IssuedOK'
  BY DEF IInv, IssuedOK, Apart, Reduced, SameSockets, GoesOn
<1> QED BY <1>1, <1>2, <1>3, <1>4, <1>5 DEF IInv, GoesOn

(* A step of the loop that leaves the server and the peers alone.          *)
LEMMA AloneKeeps ==
  ASSUME IInv, GoesOn, UNCHANGED <<server, net>>
  PROVE  IInv'
<1>1. SessionsOK(server', {}) /\ WatchedBy(server', Conds(net)) /\ Scheduled(server'.mTaskQueue)
  BY DEF IInv, ServerOK, WatchedOK, WatchedBy, TimesOK, Scheduled
<1>2. Reduced(server, server')
  BY DEF Reduced, SameSockets, Sublist
<1>3. Apart(server', net, net')
  BY DEF Apart, IInv
<1> QED BY <1>1, <1>2, <1>3, ReducedKeeps

----------------------------------------------------------------------------
(* The loop: each step keeps the invariant.                                *)

(* Nothing is lost when a reference more is held.                          *)
LEMMA HeldToo ==
  ASSUME NEW v, NEW held, SessionsOK(v, held), NEW held2, held \subseteq held2
  PROVE  SessionsOK(v, held2)
BY DEF SessionsOK

(* What is known of the session that receives.                             *)
LEMMA ReceiverIs ==
  ASSUME IInv, phase = "receiving", NEW h, h = server.session[receiving].mSocket
  PROVE  /\ receiving \in DOMAIN server.session /\ Unpolled(server, h)
         /\ h \in SOCKETs /\ h # mListenSocket /\ batch \in Seq(SOCKETs)
         /\ untilUpdate \in -MaxTurn .. UPDATE_INTERVAL /\ untilUpdate >= 0
<1>1. receiving \in DOMAIN server.session /\ Unpolled(server, h)
  BY DEF IInv, ReceivingOK
<1>2. h \in SOCKETs \ {mListenSocket}
  BY <1>1 DEF IInv, ServerOK, SessionsOK, SessionsAre
<1> QED BY <1>1, <1>2 DEF IInv, BatchOK, TimesOK

(* An event is looked at.                                                  *)
LEMMA StartReceiveKeeps ==
  ASSUME IInv, StartReceive
  PROVE  IInv'
<1>1. phase = "batch" /\ batch # << >> /\ batch' = Tail(batch) /\ receiving = NoSession
  BY DEF StartReceive, IInv, ReceivingOK
<1>2. phase' \in {"batch", "receiving"} /\ ReceivingOK'
  <2>1. CASE Head(batch) \in DOMAIN server.mClientList
    <3>1. PICK h : h = Head(batch)
      OBVIOUS
    <3>2. phase' = "receiving" /\ receiving' = server.mClientList[h] /\ server' = server
      BY <2>1, <3>1 DEF StartReceive
    <3>3. receiving' \in DOMAIN server.session /\ server.session[receiving'].mSocket = h
      BY <2>1, <3>1, <3>2 DEF IInv, ServerOK, SessionsOK, ListIs
    <3>4. h \in ToSet(batch)
      <4>1. PICK q : q = batch
        OBVIOUS
      <4>2. Head(q) \in ToSet(q)
        <5>1. q \in Seq(SOCKETs) /\ q # << >>
          BY <1>1, <4>1 DEF IInv, BatchOK
        <5> QED BY <5>1, TailIs
      <4> QED BY <3>1, <4>1, <4>2
    <3>5. Unpolled(server, h)
      BY <3>4 DEF IInv, BatchOK
    <3> QED BY <3>2, <3>3, <3>5 DEF ReceivingOK
  <2>2. CASE Head(batch) \notin DOMAIN server.mClientList
    BY <1>1, <2>2 DEF StartReceive, ReceivingOK
  <2> QED BY <2>1, <2>2
<1>3. untilUpdate' \in -MaxTurn .. UPDATE_INTERVAL /\ (phase' # "updating" => untilUpdate' >= 0)
  BY <1>1 DEF StartReceive, IInv, TimesOK
<1>4. UNCHANGED <<server, net, mCurrentIssuedId>>
  BY DEF StartReceive
<1>5. GoesOn
  BY <1>1, <1>2, <1>3, <1>4 DEF GoesOn, Phases
<1> QED BY <1>4, <1>5, AloneKeeps

(* All has been received.                                                  *)
LEMMA NoMoreDataKeeps ==
  ASSUME IInv, NoMoreData
  PROVE  IInv'
<1>1. phase = "receiving" /\ phase' = "batch" /\ receiving' = NoSession
  BY DEF NoMoreData, StopReceive
<1>2. ReceivingOK' /\ phase' \in Phases \ {"polling"}
  BY <1>1 DEF ReceivingOK, Phases
<1>3. phase # "polling" /\ phase' \notin {"entering", "updating", "flushing"}
  BY <1>1
<1>4. untilUpdate' \in -MaxTurn .. UPDATE_INTERVAL /\ (phase' # "updating" => untilUpdate' >= 0)
  BY <1>1 DEF NoMoreData, IInv, TimesOK
<1>5. UNCHANGED <<server, net, mCurrentIssuedId>> /\ batch' = batch
  BY DEF NoMoreData
<1>6. GoesOn
  BY <1>2, <1>4, <1>5, <1>3 DEF GoesOn
<1> QED BY <1>5, <1>6, AloneKeeps

(* Nothing is claimed of a program that has crashed but what it was.       *)
LEMMA CrashKeeps ==
  ASSUME IInv, Crash, UNCHANGED <<batch, untilUpdate, mCurrentIssuedId>>,
         phase \in {"receiving", "flushing"}
  PROVE  IInv'
<1>1. phase' = "crashed" /\ receiving' = NoSession /\ UNCHANGED <<server, net>>
  BY DEF Crash
<1>2. ReceivingOK' /\ phase' \in Phases \ {"polling"}
  BY <1>1 DEF ReceivingOK, Phases
<1>3. untilUpdate' \in -MaxTurn .. UPDATE_INTERVAL /\ (phase' # "updating" => untilUpdate' >= 0)
  BY <1>1 DEF IInv, TimesOK
<1>4. phase # "polling" /\ phase' \notin {"entering", "updating", "flushing"} /\ batch' = batch
  BY <1>1
<1>5. UNCHANGED <<server, net, mCurrentIssuedId>>
  BY <1>1
<1>6. GoesOn
  BY <1>2, <1>3, <1>4, <1>5 DEF GoesOn
<1> QED BY <1>5, <1>6, AloneKeeps

\* w is the server after the packet has been handled for a session that is held.
Handles(v, packet, uid, delay, fault, held, w) ==
  uid \in held /\ w = Handled(v, packet, uid, delay, fault).server

(* The handler of a packet works for the session that received it.         *)
LEMMA HandledIs ==
  ASSUME NEW v, SessionsOK(v, {}), NEW cond, WatchedBy(v, cond), Scheduled(v.mTaskQueue),
         NEW packet \in Packets, NEW uid \in DOMAIN v.session, NEW delay \in Delays, NEW fault,
         NEW held, NEW w, Handles(v, packet, uid, delay, fault, held, w)
  PROVE  SessionsOK(w, held) /\ WatchedBy(w, cond) /\ Reduced(v, w) /\ Scheduled(w.mTaskQueue)
<1>1. PICK none : none = {} /\ none \subseteq held
  <2>1. {} \subseteq held
    OBVIOUS
  <2> QED BY <2>1
<1>2. packet \in {"START", "EXIT", "RACKET"}
  BY LoopAssumption
<1>3. CASE packet = "START"
  <2>1. w = SendRequest(v, uid, fault)
    BY <1>3 DEF Handles, Handled
  <2>2. SessionsOK(w, held) /\ WorkedOn(v, w, uid)
    <3>1. SessionsOK(v, none) /\ uid \in held
      BY <1>1 DEF Handles
    <3> QED BY <1>1, <2>1, <3>1, SendRequestIs
  <2>3. w.open = v.open /\ w.port = v.port /\ w.mTaskQueue = v.mTaskQueue
    BY <2>2 DEF WorkedOn
  <2> QED BY <2>2, <2>3, WatchedStill, WorkedReduces
<1>4. CASE packet = "EXIT"
  <2>1. PICK r, call : call = "SendRequest" /\ r = ForEachClient(v, call, fault)
    OBVIOUS
  <2>2. w = r.server
    BY <1>4, <2>1 DEF Handles, Handled, BroadcastPacket
  <2>3. /\ SessionsOK(w, {}) /\ WatchedBy(w, cond) /\ Reduced(v, w)
        /\ w.mTaskQueue = v.mTaskQueue
    BY <2>1, <2>2, WalkIs
  <2>4. SessionsOK(w, none)
    BY <1>1, <2>3
  <2> QED BY <1>1, <2>3, <2>4, HeldToo
<1>5. CASE packet = "RACKET"
  <2>1. PICK task \in {"SendGameStatus", "RacketAction"} : task = "RacketAction"
    OBVIOUS
  <2>2. w = PushTask(v, uid, task, delay)
    BY <1>5, <2>1 DEF Handles, Handled
  <2>3. SessionsOK(w, {}) /\ OnlyJobs(v, w) /\ Scheduled(w.mTaskQueue)
    BY <2>2, PushTaskIs
  <2>4. SessionsOK(w, none)
    BY <1>1, <2>3
  <2> QED BY <1>1, <2>3, <2>4, HeldToo, OnlyJobsReduces
<1> QED BY <1>2, <1>3, <1>4, <1>5

\* What a peer may have done, as far as the socket knows.
IsPeer(h, s) ==
  /\ s = [unread |-> s.unread, shut |-> s.shut, reset |-> s.reset]
  /\ s.unread \in Seq(IF h = mListenSocket THEN {"connect"} ELSE Packets)
  /\ s.shut \in BOOLEAN /\ s.reset \in BOOLEAN
  /\ h = mListenSocket => ~s.shut /\ ~s.reset

Did(peers, h, now, peers2) == peers2 = [peers EXCEPT ![h] = now]

(* One of the peers does something.                                        *)
LEMMA PeerSet ==
  ASSUME NEW peers, PeersOK(peers), NEW h \in SOCKETs, NEW now, IsPeer(h, now),
         NEW peers2, Did(peers, h, now, peers2)
  PROVE  /\ PeersOK(peers2) /\ peers2[h] = now
         /\ \A g \in SOCKETs : g # h => peers2[g] = peers[g]
<1>1. /\ peers2 = [g \in SOCKETs |-> peers2[g]] /\ peers2[h] = now
      /\ \A g \in SOCKETs : g # h => peers2[g] = peers[g]
  <2>1. peers = [g \in SOCKETs |-> peers[g]]
    BY DEF PeersOK
  <2> QED BY <2>1 DEF Did
<1>2. ASSUME NEW g \in SOCKETs
      PROVE  /\ peers2[g] = [unread |-> peers2[g].unread, shut |-> peers2[g].shut, reset |-> peers2[g].reset]
             /\ peers2[g].shut \in BOOLEAN /\ peers2[g].reset \in BOOLEAN
             /\ peers2[g].unread \in Seq(IF g = mListenSocket THEN {"connect"} ELSE Packets)
  <2>1. CASE g = h
    BY <1>1, <2>1 DEF IsPeer
  <2>2. CASE g # h
    <3>1. peers2[g] = peers[g]
      BY <1>1, <2>2
    <3> QED BY <3>1 DEF PeersOK
  <2> QED BY <2>1, <2>2
<1>3. ~peers2[mListenSocket].shut /\ ~peers2[mListenSocket].reset
  BY <1>1, LoopAssumption DEF IsPeer, PeersOK
<1> QED BY <1>1, <1>2, <1>3 DEF PeersOK

(* What there is to a peer.                                                *)
LEMMA PeerIs ==
  ASSUME NEW peers, PeersOK(peers), NEW h \in SOCKETs, NEW s, s = peers[h]
  PROVE  IsPeer(h, s)
BY DEF PeersOK, IsPeer

\* A packet of what a peer has sent is taken.
Read(peers, h, read) == read = [peers EXCEPT ![h].unread = Tail(@)]

(* The rest of what has been received is there still.                      *)
LEMMA ReadIs ==
  ASSUME NEW peers, PeersOK(peers), NEW h \in SOCKETs, peers[h].unread # << >>,
         NEW read, Read(peers, h, read)
  PROVE  /\ PeersOK(read) /\ read[h].unread = Tail(peers[h].unread)
         /\ h # mListenSocket => Head(peers[h].unread) \in Packets
         /\ \A g \in SOCKETs : g # h => read[g] = peers[g]
<1>1. PICK s, q, q2, a, b : /\ s = peers[h] /\ q = s.unread /\ q2 = Tail(q)
                            /\ a = s.shut /\ b = s.reset
  OBVIOUS
<1>2. IsPeer(h, s)
  BY <1>1, PeerIs
<1>3. PICK S : S = IF h = mListenSocket THEN {"connect"} ELSE Packets
  OBVIOUS
<1>4. q \in Seq(S) /\ q # << >> /\ s = [unread |-> q, shut |-> a, reset |-> b]
  BY <1>1, <1>2, <1>3 DEF IsPeer
<1>5. q2 \in Seq(S) /\ Head(q) \in S
  <2>1. Tail(q) \in Seq(S) /\ Head(q) = q[1] /\ Len(q) \in Nat \ {0}
    BY <1>4, TailIs
  <2>2. 1 \in 1 .. Len(q)
    BY <2>1
  <2> QED BY <1>1, <1>4, <2>1, <2>2, ElementOfSeq
<1>6. PICK t : t = [unread |-> q2, shut |-> a, reset |-> b]
  OBVIOUS
<1>7. IsPeer(h, t)
  <2>1. t.unread = q2 /\ t.shut = a /\ t.reset = b
    BY <1>6
  <2> QED BY <1>1, <1>2, <1>3, <1>5, <1>6, <2>1 DEF IsPeer
<1>8. Did(peers, h, t, read)
  <2>1. [s EXCEPT !.unread = q2] = t
    BY <1>4, <1>6
  <2>2. read = [peers EXCEPT ![h] = [peers[h] EXCEPT !.unread = Tail(peers[h].unread)]]
    <3>1. peers = [g \in SOCKETs |-> peers[g]]
      BY DEF PeersOK
    <3> QED BY <1>1, <1>4, <3>1 DEF Read
  <2> QED BY <1>1, <2>1, <2>2 DEF Did
<1>9. /\ PeersOK(read) /\ read[h] = t
      /\ \A g \in SOCKETs : g # h => read[g] = peers[g]
  BY <1>7, <1>8, PeerSet
<1> QED BY <1>1, <1>3, <1>5, <1>6, <1>9

(* The peer of a receiving session, or of none, is apart.                  *)
LEMMA ApartIs ==
  ASSUME NEW w, mListenSocket \in w.open, NEW peers, PeersOK(peers), NEW read, PeersOK(read),
         read[mListenSocket] = peers[mListenSocket],
         \A g \in SOCKETs : g \in w.open => read[g] = peers[g] \/ Unpolled(w, g),
         NEW peers2, peers2 = NetOf(w, read)
  PROVE  Apart(w, peers, peers2)
<1>1. PeersOK(peers2) /\ \A g \in SOCKETs : g \in w.open => peers2[g] = read[g]
  BY NetOfIs
<1> QED BY <1>1, LoopAssumption DEF Apart

(* The listening socket is never closed.                                   *)
LEMMA ListenerOpen ==
  ASSUME NEW v, NEW held, SessionsOK(v, held)
  PROVE  mListenSocket \in v.open
BY DEF SessionsOK

(* No call of the turn polls a socket.                                     *)
LEMMA StaysUnpolled ==
  ASSUME NEW v, NEW w, Reduced(v, w)
  PROVE  \A h : Unpolled(v, h) => Unpolled(w, h)
BY DEF Reduced, Unpolled, Idle

(* A packet is handled, and the session perhaps destroyed by it.           *)
LEMMA ReceivePacketKeeps ==
  ASSUME IInv, ReceivePacket
  PROVE  IInv'
<1>1. PICK h : h = server.session[receiving].mSocket
  OBVIOUS
<1>2. phase = "receiving" /\ net[h].unread # << >> /\ UNCHANGED <<batch, untilUpdate, mCurrentIssuedId>>
  BY <1>1 DEF ReceivePacket, Peer
<1>3. PICK delay, fault, done, v :
        /\ delay \in Delays
        /\ done = Handled(server, Head(net[h].unread), receiving, delay, fault)
        /\ v = Released(done.server, receiving)
        /\ \/ /\ server' = v
              /\ net' = NetOf(v, [net EXCEPT ![h].unread = Tail(@)])
              /\ IF receiving \notin DOMAIN v.session THEN StopReceive ELSE UNCHANGED <<phase, receiving>>
           \/ Crash
  BY <1>1 DEF ReceivePacket, Peer
<1>4. CASE Crash
  BY <1>2, <1>4, CrashKeeps
<1>5. CASE /\ server' = v
           /\ net' = NetOf(v, [net EXCEPT ![h].unread = Tail(@)])
           /\ IF receiving \notin DOMAIN v.session THEN StopReceive ELSE UNCHANGED <<phase, receiving>>
  <2>1. /\ receiving \in DOMAIN server.session /\ Unpolled(server, h)
        /\ h \in SOCKETs /\ h # mListenSocket
        /\ untilUpdate \in -MaxTurn .. UPDATE_INTERVAL /\ untilUpdate >= 0
    BY <1>1, <1>2, ReceiverIs
  <2>2. PICK s, peers, uid, packet, read, cond, d, held, none, peers2 :
             /\ s = server /\ peers = net /\ uid = receiving /\ packet = Head(peers[h].unread)
             /\ read = [peers EXCEPT ![h].unread = Tail(@)] /\ cond = Conds(peers)
             /\ d = done.server /\ held = {uid} /\ none = {} /\ peers2 = net'
    OBVIOUS
  <2>3. SessionsOK(s, {}) /\ WatchedBy(s, cond) /\ Scheduled(s.mTaskQueue) /\ PeersOK(peers)
    BY <2>2 DEF IInv, ServerOK, WatchedOK, WatchedBy, TimesOK, Scheduled
  <2>4. /\ PeersOK(read) /\ packet \in Packets
        /\ \A g \in SOCKETs : g # h => read[g] = peers[g]
    <3>1. h \in SOCKETs \ {mListenSocket} /\ peers[h].unread # << >> /\ Read(peers, h, read)
      BY <1>2, <2>1, <2>2 DEF Read
    <3> QED BY <2>2, <2>3, <3>1, ReadIs
  <2>5. /\ SessionsOK(d, held) /\ WatchedBy(d, cond) /\ Reduced(s, d)
        /\ Scheduled(d.mTaskQueue)
    <3>1. /\ Handles(s, packet, uid, delay, fault, held, d)
          /\ uid \in DOMAIN s.session /\ delay \in Delays
      BY <1>3, <2>1, <2>2 DEF Handles
    <3> QED BY <2>2, <2>3, <2>4, <3>1, HandledIs
  <2>6. /\ SessionsOK(v, none) /\ WatchedBy(v, cond) /\ Reduced(d, v)
        /\ v.mTaskQueue = d.mTaskQueue
    <3>1. v = Released(d, uid) /\ \A u \in held : u \in none \/ u = uid
      BY <1>3, <2>2
    <3> QED BY <2>5, <3>1, ReleasedIs
  <2>7. Reduced(s, v) /\ Scheduled(v.mTaskQueue)
    BY <2>5, <2>6, ReducedAgain
  <2>8. Unpolled(v, h)
    BY <2>1, <2>2, <2>7, StaysUnpolled
  <2>9. Apart(v, peers, peers2)
    <3>1. \A g \in SOCKETs : g \in v.open => read[g] = peers[g] \/ Unpolled(v, g)
      BY <2>4, <2>8
    <3>2. read[mListenSocket] = peers[mListenSocket]
      BY <2>1, <2>4, LoopAssumption
    <3>3. mListenSocket \in v.open
      BY <2>6, ListenerOpen
    <3>4. peers2 = NetOf(v, read)
      BY <1>5, <2>2
    <3> QED BY <2>3, <2>4, <3>1, <3>2, <3>3, <3>4, ApartIs
  <2>10. ReceivingOK' /\ phase' \in {"batch", "receiving"}
    <3>1. CASE receiving \notin DOMAIN v.session
      BY <1>5, <3>1 DEF ReceivingOK, StopReceive
    <3>2. CASE receiving \in DOMAIN v.session
      <4>1. phase' = phase /\ receiving' = receiving /\ server' = v
        BY <1>5, <3>2
      <4>2. v.session[receiving].mSocket = h
        BY <1>1, <2>2, <2>7, <3>2 DEF Reduced, SameSockets
      <4> QED BY <1>2, <2>8, <3>2, <4>1, <4>2 DEF ReceivingOK
    <3> QED BY <3>1, <3>2
  <2>11. /\ SessionsOK(server', {}) /\ WatchedBy(server', Conds(net))
         /\ Reduced(server, server') /\ Scheduled(server'.mTaskQueue) /\ Apart(server', net, net')
    BY <1>5, <2>2, <2>6, <2>7, <2>9
  <2>12. GoesOn
    BY <1>2, <2>1, <2>10 DEF GoesOn, Phases
  <2> QED BY <2>11, <2>12, ReducedKeeps
<1> QED BY <1>3, <1>4, <1>5

(* The part of the invariant the lemmas about the server's state need.     *)
LEMMA ServerIs ==
  ASSUME IInv
  PROVE  /\ SessionsOK(server, {}) /\ WatchedBy(server, Conds(net))
         /\ Scheduled(server.mTaskQueue) /\ PeersOK(net)
BY DEF IInv, ServerOK, WatchedOK, WatchedBy, TimesOK, Scheduled

(* The peers of the sockets that are still open are as they were.          *)
LEMMA NobodyReads ==
  ASSUME NEW w, NEW held, SessionsOK(w, held), NEW peers, PeersOK(peers),
         NEW peers2, peers2 = NetOf(w, peers)
  PROVE  Apart(w, peers, peers2)
<1>1. mListenSocket \in w.open
  BY ListenerOpen
<1>2. PICK read : read = peers
  OBVIOUS
<1>3. /\ PeersOK(read) /\ read[mListenSocket] = peers[mListenSocket] /\ peers2 = NetOf(w, read)
      /\ \A g \in SOCKETs : g \in w.open => read[g] = peers[g] \/ Unpolled(w, g)
  BY <1>2
<1> QED BY <1>1, <1>3, ApartIs

(* recv fails, and the client is disconnected.                             *)
LEMMA ReceiveErrorKeeps ==
  ASSUME IInv, ReceiveError
  PROVE  IInv'
<1>1. phase = "receiving" /\ phase' = "batch" /\ receiving' = NoSession
      /\ UNCHANGED <<batch, untilUpdate, mCurrentIssuedId>>
  BY DEF ReceiveError, StopReceive
<1>2. PICK s, peers, uid, fault, d, v, cond, held, none, peers2 :
        /\ s = server /\ peers = net /\ uid = receiving /\ d = Disconnect(s, uid, fault)
        /\ v = Released(d, uid) /\ cond = Conds(peers) /\ held = {uid} /\ none = {}
        /\ peers2 = net' /\ server' = v
  BY DEF ReceiveError
<1>3. receiving \in DOMAIN server.session /\ untilUpdate \in -MaxTurn .. UPDATE_INTERVAL /\ untilUpdate >= 0
  <2>1. PICK h : h = server.session[receiving].mSocket
    OBVIOUS
  <2> QED BY <1>1, <2>1, ReceiverIs
<1>4. SessionsOK(s, none) /\ WatchedBy(s, cond) /\ Scheduled(s.mTaskQueue) /\ PeersOK(peers)
  BY <1>2, ServerIs
<1>5. SessionsOK(d, held) /\ WorkedOn(s, d, uid)
  <2>1. none \subseteq held /\ uid \in held /\ uid \in DOMAIN s.session
    BY <1>2, <1>3
  <2> QED BY <1>2, <1>4, <2>1, DisconnectIs
<1>6. d.open = s.open /\ d.port = s.port /\ d.mTaskQueue = s.mTaskQueue
  BY <1>5 DEF WorkedOn
<1>7. WatchedBy(d, cond) /\ Reduced(s, d)
  BY <1>4, <1>5, <1>6, WatchedStill, WorkedReduces
<1>8. /\ SessionsOK(v, none) /\ WatchedBy(v, cond) /\ Reduced(d, v)
      /\ v.mTaskQueue = d.mTaskQueue
  <2>1. \A u \in held : u \in none \/ u = uid
    BY <1>2
  <2> QED BY <1>2, <1>5, <1>7, <2>1, ReleasedIs
<1>9. Reduced(s, v)
  BY <1>7, <1>8, ReducedAgain
<1>10. Apart(v, peers, peers2)
  <2>1. peers2 = NetOf(v, peers)
    BY <1>2 DEF ReceiveError
  <2> QED BY <1>4, <1>8, <2>1, NobodyReads
<1>11. GoesOn
  <2>1. ReceivingOK'
    BY <1>1 DEF ReceivingOK
  <2> QED BY <1>1, <1>3, <2>1 DEF GoesOn, Phases
<1>12. /\ SessionsOK(server', {}) /\ WatchedBy(server', Conds(net)) /\ Reduced(server, server')
       /\ Scheduled(server'.mTaskQueue) /\ Apart(server', net, net')
  BY <1>2, <1>4, <1>6, <1>8, <1>9, <1>10
<1> QED BY <1>11, <1>12, ReducedKeeps

(* Nobody receives in the phases after the batch.                          *)
LEMMA NobodyReceives ==
  ASSUME IInv, phase \in {"updating", "flushing"} \/ (phase = "batch" /\ batch = << >>)
  PROVE  /\ receiving = NoSession /\ batch = << >>
         /\ untilUpdate \in -MaxTurn .. UPDATE_INTERVAL /\ (phase # "updating" => untilUpdate >= 0)
BY DEF IInv, ReceivingOK, BatchOK, TimesOK

(* The jobs that are due run.                                              *)
LEMMA ScheduledJobsKeeps ==
  ASSUME IInv, ScheduledJobs
  PROVE  IInv'
<1>1. /\ phase = "batch" /\ batch = << >> /\ phase' = "updating"
      /\ UNCHANGED <<batch, receiving, mCurrentIssuedId>>
  BY DEF ScheduledJobs
<1>2. PICK s, peers, elapsed, fault, t, v, cond, peers2 :
        /\ elapsed \in 1 .. MaxTurn /\ s = server /\ peers = net
        /\ t = Ticked(s, elapsed) /\ v = DoTasks(t, fault)
        /\ untilUpdate' = untilUpdate - elapsed
        /\ cond = Conds(peers) /\ peers2 = net' /\ server' = v
  BY DEF ScheduledJobs
<1>3. SessionsOK(s, {}) /\ WatchedBy(s, cond) /\ Scheduled(s.mTaskQueue) /\ PeersOK(peers)
  BY <1>2, ServerIs
<1>4. SessionsOK(t, {}) /\ OnlyJobs(s, t) /\ InOrder(t.mTaskQueue) /\ Aged(t.mTaskQueue)
  BY <1>2, <1>3, TickedIs
<1>5. Reduced(s, t) /\ WatchedBy(t, cond)
  BY <1>3, <1>4, OnlyJobsReduces
<1>6. SessionsOK(v, {}) /\ WatchedBy(v, cond) /\ Reduced(t, v) /\ Scheduled(v.mTaskQueue)
  BY <1>2, <1>4, <1>5, DoTasksIs
<1>7. Reduced(s, v)
  BY <1>5, <1>6, ReducedAgain
<1>8. Apart(v, peers, peers2)
  <2>1. peers2 = NetOf(v, peers)
    BY <1>2 DEF ScheduledJobs
  <2>2. PICK none : none = {}
    OBVIOUS
  <2>3. SessionsOK(v, none)
    BY <1>6, <2>2
  <2> QED BY <1>3, <2>1, <2>3, NobodyReads
<1>9. GoesOn
  <2>1. /\ receiving = NoSession /\ untilUpdate \in -MaxTurn .. UPDATE_INTERVAL /\ untilUpdate >= 0
    BY <1>1, NobodyReceives
  <2>2. ReceivingOK'
    BY <1>1, <2>1 DEF ReceivingOK
  <2>3. untilUpdate' \in -MaxTurn .. UPDATE_INTERVAL
    BY <1>2, <2>1, LoopAssumption
  <2> QED BY <1>1, <2>2, <2>3 DEF GoesOn, Phases
<1>10. /\ SessionsOK(server', {}) /\ WatchedBy(server', Conds(net)) /\ Reduced(server, server')
       /\ Scheduled(server'.mTaskQueue) /\ Apart(server', net, net')
  BY <1>2, <1>6, <1>7, <1>8
<1> QED BY <1>9, <1>10, ReducedKeeps

(* A frame is due, and perhaps its broadcast is scheduled.                 *)
LEMMA GameLogicUpdateKeeps ==
  ASSUME IInv, GameLogicUpdate
  PROVE  IInv'
<1>1. /\ phase = "updating" /\ phase' = "flushing"
      /\ UNCHANGED <<batch, receiving, net, mCurrentIssuedId>>
  BY DEF GameLogicUpdate
<1>2. PICK s, peers, v, cond : s = server /\ peers = net /\ v = server' /\ cond = Conds(peers)
  OBVIOUS
<1>3. SessionsOK(s, {}) /\ WatchedBy(s, cond) /\ Scheduled(s.mTaskQueue) /\ PeersOK(peers)
  BY <1>2, ServerIs
<1>4. /\ receiving = NoSession /\ batch = << >> /\ untilUpdate \in -MaxTurn .. UPDATE_INTERVAL
  BY <1>1, NobodyReceives
<1>5. untilUpdate' \in -MaxTurn .. UPDATE_INTERVAL /\ untilUpdate' >= 0
  BY <1>4, LoopAssumption DEF GameLogicUpdate
<1>6. v = s \/ \E delay \in Delays : v = DelayedBroadcastGameStatus(s, delay)
  BY <1>2 DEF GameLogicUpdate
<1>7. SessionsOK(v, {}) /\ OnlyJobs(s, v) /\ Scheduled(v.mTaskQueue)
  <2>1. CASE v = s
    BY <1>3, <2>1 DEF OnlyJobs
  <2>2. CASE \E delay \in Delays : v = DelayedBroadcastGameStatus(s, delay)
    <3>1. PICK delay \in Delays : v = DelayedBroadcastGameStatus(s, delay)
      BY <2>2
    <3> QED BY <1>3, <3>1, BroadcastScheduled
  <2> QED BY <1>6, <2>1, <2>2
<1>8. Reduced(s, v) /\ WatchedBy(v, cond)
  BY <1>3, <1>7, OnlyJobsReduces
<1>9. Apart(v, peers, peers)
  BY <1>3 DEF Apart
<1>10. GoesOn
  <2>1. ReceivingOK'
    BY <1>1, <1>4 DEF ReceivingOK
  <2> QED BY <1>1, <1>4, <1>5, <2>1 DEF GoesOn, Phases
<1>11. /\ SessionsOK(server', {}) /\ WatchedBy(server', Conds(net)) /\ Reduced(server, server')
       /\ Scheduled(server'.mTaskQueue) /\ Apart(server', net, net')
  BY <1>1, <1>2, <1>7, <1>8, <1>9
<1> QED BY <1>10, <1>11, ReducedKeeps

(* What has been sent is flushed.                                          *)
LEMMA PacketBroadcastKeeps ==
  ASSUME IInv, PacketBroadcast
  PROVE  IInv'
<1>1. phase = "flushing" /\ UNCHANGED <<batch, untilUpdate, mCurrentIssuedId>>
  BY DEF PacketBroadcast
<1>2. PICK s, peers, fault, r, v, cond, peers2, call :
        /\ call = "SendFlush" /\ s = server /\ peers = net /\ r = ForEachClient(s, call, fault)
        /\ v = r.server /\ cond = Conds(peers) /\ peers2 = net'
        /\ \/ /\ server' = v
              /\ net' = NetOf(v, net)
              /\ phase' = "entering" /\ UNCHANGED receiving
           \/ Crash
  BY DEF PacketBroadcast, FlushClientSend
<1>3. CASE Crash
  BY <1>1, <1>3, CrashKeeps
<1>4. CASE /\ server' = v
           /\ net' = NetOf(v, net)
           /\ phase' = "entering" /\ UNCHANGED receiving
  <2>1. SessionsOK(s, {}) /\ WatchedBy(s, cond) /\ Scheduled(s.mTaskQueue) /\ PeersOK(peers)
    BY <1>2, ServerIs
  <2>2. SessionsOK(v, {}) /\ WatchedBy(v, cond) /\ Reduced(s, v) /\ v.mTaskQueue = s.mTaskQueue
    BY <1>2, <2>1, WalkIs
  <2>3. Apart(v, peers, peers2)
    <3>1. peers2 = NetOf(v, peers)
      BY <1>2, <1>4
    <3>2. PICK none : none = {}
      OBVIOUS
    <3>3. SessionsOK(v, none)
      BY <2>2, <3>2
    <3> QED BY <2>1, <3>1, <3>3, NobodyReads
  <2>4. GoesOn
    <3>1. /\ receiving = NoSession /\ batch = << >>
          /\ untilUpdate \in -MaxTurn .. UPDATE_INTERVAL /\ untilUpdate >= 0
      BY <1>1, NobodyReceives
    <3>2. ReceivingOK'
      BY <1>4, <3>1 DEF ReceivingOK
    <3> QED BY <1>1, <1>4, <3>1, <3>2 DEF GoesOn, Phases
  <2>5. /\ SessionsOK(server', {}) /\ WatchedBy(server', Conds(net)) /\ Reduced(server, server')
        /\ Scheduled(server'.mTaskQueue) /\ Apart(server', net, net')
    BY <1>2, <1>4, <2>1, <2>2, <2>3
  <2> QED BY <2>4, <2>5, ReducedKeeps
<1> QED BY <1>2, <1>3, <1>4

----------------------------------------------------------------------------
(* The loop: the steps of epoll_wait, the new client, the peers.           *)

(* Whatever a peer does is watched for.                                    *)
LEMMA CondsWatched ==
  ASSUME NEW peers
  PROVE  \A h \in SOCKETs : Conds(peers)[h] \subseteq Watched \cap Conditions
<1> SUFFICES ASSUME NEW h \in SOCKETs, NEW c \in Conds(peers)[h] PROVE c \in Watched /\ c \in Conditions
  OBVIOUS
<1>1. c \in {"ACCEPT", "RECEIVE", "DISCONNECT", "ABORT"}
  BY DEF Conds, ConditionsOf
<1>2. c \in Conditions
  BY <1>1 DEF Conditions
<1>3. AsksFor(c) \cap Asked # {}
  <2>1. "EPOLLIN" \in Asked /\ "EPOLLHUP" \in Asked
    BY DEF Asked, AlwaysReported
  <2>2. "EPOLLIN" \in AsksFor(c) \/ "EPOLLHUP" \in AsksFor(c)
    BY <1>1 DEF AsksFor
  <2> QED BY <2>1, <2>2
<1> QED BY <1>2, <1>3 DEF Watched, _epoll_events_to_afd_events

(* Only the port changes.                                                  *)
LEMMA PortSet ==
  ASSUME NEW v, NEW held, SessionsOK(v, held), NEW q, NEW w, w = [v EXCEPT !.port = q]
  PROVE  /\ SessionsOK(w, held) /\ w.port = q /\ w.open = v.open
         /\ w.session = v.session /\ w.mClientList = v.mClientList /\ w.mTaskQueue = v.mTaskQueue
<1>1. /\ IsServer(v) /\ IsFcn(v.mClientList) /\ IsFcn(v.session) /\ v.mTaskQueue \in Seq(Jobs)
      /\ SessionsAre(v) /\ ListIs(v) /\ Owners(v) \subseteq DOMAIN v.session
      /\ DOMAIN v.session \subseteq Owners(v) \cup held
      /\ v.open = {mListenSocket} \cup {v.session[u].mSocket : u \in DOMAIN v.session}
  BY DEF SessionsOK
<1>2. w = [mClientList |-> v.mClientList, session |-> v.session, mTaskQueue |-> v.mTaskQueue,
           open |-> v.open, port |-> q]
  BY <1>1 DEF IsServer
<1>3. /\ w.port = q /\ w.open = v.open /\ w.session = v.session
      /\ w.mClientList = v.mClientList /\ w.mTaskQueue = v.mTaskQueue
  BY <1>2
<1>4. IsServer(w) /\ SessionsAre(w) /\ ListIs(w) /\ Owners(w) = Owners(v)
  <2>1. IsServer(w)
    BY <1>2, <1>3 DEF IsServer
  <2>2. SessionsAre(w) /\ ListIs(w)
    BY <1>1, <1>3 DEF SessionsAre, ListIs, Listed
  <2>3. Owners(w) = Owners(v)
    BY <1>3 DEF Owners
  <2> QED BY <2>1, <2>2, <2>3
<1> QED BY <1>1, <1>3, <1>4 DEF SessionsOK

Active(p, a, q) == q = [p EXCEPT !.active = a]

(* A thread comes to wait for the port.                                    *)
LEMMA ActiveSet ==
  ASSUME NEW p, NEW open, NEW live, NEW cond, PortOK(p, open, live, cond, Arrived(p)), IocpOK(p),
         NEW a, NEW q, Active(p, a, q)
  PROVE  /\ PortOK(q, open, live, cond, Arrived(q)) /\ IocpOK(q) /\ q.active = a
         /\ q.update = p.update
<1>1. IsPort(p)
  BY DEF PortOK, Sound
<1>2. q = [sock |-> p.sock, tree |-> p.tree, update |-> p.update, deleted |-> p.deleted,
           groups |-> p.groups, active |-> a, open |-> p.open, iocp |-> p.iocp, afd |-> p.afd]
  BY <1>1 DEF Active, IsPort
<1>3. /\ q.sock = p.sock /\ q.tree = p.tree /\ q.update = p.update /\ q.deleted = p.deleted
      /\ q.groups = p.groups /\ q.active = a /\ q.open = p.open /\ q.iocp = p.iocp /\ q.afd = p.afd
  BY <1>2
<1>4. IsPort(q)
  BY <1>2, <1>3 DEF IsPort
<1>5. Sound(q)
  BY <1>3, <1>4 DEF PortOK, Sound, TreeOK, QueueOK, Idle
<1>6. Arrived(q) = Arrived(p) /\ IocpOK(q)
  BY <1>3 DEF Arrived, IocpOK
<1>7. Owed(q, Arrived(q)) /\ Waiting(q, open, cond) /\ Over(q, live, cond, Arrived(q))
  BY <1>3, <1>6 DEF PortOK, Owed, Waiting, Over, Idle
<1> QED BY <1>3, <1>5, <1>6, <1>7 DEF PortOK

(* Everybody who queues is polled.                                         *)
LEMMA EnterWaitKeeps ==
  ASSUME IInv, EnterWait
  PROVE  IInv'
<1>1. /\ phase = "entering" /\ phase' = "polling"
      /\ UNCHANGED <<batch, receiving, untilUpdate, net, mCurrentIssuedId>>
  BY DEF EnterWait
<1>2. PICK s, w, p, kernel, cond, q, q2, none :
        /\ s = server /\ w = server' /\ p = s.port /\ kernel = Kernel(s) /\ cond = Conds(net)
        /\ q = _ep_port_update_events(p, kernel).port /\ q2 = [q EXCEPT !.active = 1] /\ none = {}
  OBVIOUS
<1>3. w = [s EXCEPT !.port = q2]
  BY <1>2 DEF EnterWait
<1>4. SessionsOK(s, none) /\ WatchedBy(s, cond)
  BY <1>2, ServerIs
<1>5. /\ SessionsOK(w, none) /\ w.port = q2 /\ w.open = s.open
      /\ w.session = s.session /\ w.mClientList = s.mClientList /\ w.mTaskQueue = s.mTaskQueue
  BY <1>3, <1>4, PortSet
<1>6. PICK open, live : open = s.open /\ live = Live(s)
  OBVIOUS
<1>7. PortOK(p, open, live, cond, Arrived(p)) /\ IocpOK(p)
  BY <1>2, <1>4, <1>6 DEF WatchedBy
<1>8. PortOK(q, open, live, cond, Arrived(q)) /\ IocpOK(q) /\ q.update = << >>
  <2>1. kernel.ready = cond /\ kernel.open = open /\ kernel.broken = {}
    BY <1>2, <1>6 DEF Kernel, Conds
  <2>2. \A g \in SOCKETs : cond[g] \subseteq Watched \cap Conditions
    BY <1>2, CondsWatched
  <2> QED BY <1>2, <1>7, <2>1, <2>2, PortUpdated
<1>9. /\ PortOK(q2, open, live, cond, Arrived(q2)) /\ IocpOK(q2) /\ q2.active = 1
      /\ q2.update = << >>
  <2>1. PICK a : a = 1
    OBVIOUS
  <2>2. Active(q, a, q2)
    BY <1>2, <2>1 DEF Active
  <2>3. /\ PortOK(q2, open, live, cond, Arrived(q2)) /\ IocpOK(q2) /\ q2.active = a
        /\ q2.update = q.update
    BY <1>8, <2>2, ActiveSet
  <2> QED BY <1>8, <2>1, <2>3
<1>10. WatchedOK(w, net)
  BY <1>2, <1>5, <1>6, <1>9 DEF WatchedOK, Live
<1>11. ServerOK(server', net') /\ PeersOK(net')
  BY <1>1, <1>2, <1>5, <1>10 DEF ServerOK, IInv
<1>12. BatchOK'
  <2>1. batch = << >>
    BY <1>1 DEF IInv, BatchOK
  <2>2. ToSet(batch) = {}
    BY <2>1 DEF ToSet
  <2> QED BY <1>1, <2>1, <2>2 DEF IInv, BatchOK
<1>13. ReceivingOK' /\ PollingOK' /\ TimesOK' /\ IssuedOK'
  <2>1. ReceivingOK'
    BY <1>1 DEF IInv, ReceivingOK
  <2>2. PollingOK'
    BY <1>1, <1>2, <1>5, <1>9 DEF PollingOK
  <2>3. TimesOK'
    BY <1>1, <1>2, <1>5 DEF IInv, TimesOK
  <2>4. IssuedOK'
    BY <1>1, <1>2, <1>5 DEF IInv, IssuedOK
  <2> QED BY <2>1, <2>2, <2>3, <2>4
<1> QED BY <1>1, <1>11, <1>12, <1>13 DEF IInv, Phases

(* The batch is the handles of the events.                                 *)
LEMMA BatchIs ==
  ASSUME NEW p, NEW open, NEW live, NEW cond, NEW got, PortOK(p, open, live, cond, got),
         NEW events, EventsOK(p, cond, events),
         NEW all, all = [i \in DOMAIN events |-> events[i].data]
  PROVE  /\ all \in Seq(SOCKETs) /\ IsInjective(all)
         /\ \A h \in ToSet(all) : h \in DOMAIN p.tree /\ Idle(p, p.tree[h])
         /\ mListenSocket \in ToSet(all) => cond[mListenSocket] # {}
         /\ events = << >> => all = << >>
<1>1. PICK n \in Nat : n = Len(events) /\ DOMAIN events = 1 .. n
  BY LenProperties DEF EventsOK
<1>2. DOMAIN p.tree \subseteq SOCKETs
  BY DEF PortOK, Sound
<1>3. \A i \in 1 .. n : all[i] = events[i].data /\ all[i] \in SOCKETs
  BY <1>1, <1>2 DEF EventsOK
<1>4. all \in [1 .. n -> SOCKETs]
  BY <1>1, <1>3
<1>5. all \in Seq(SOCKETs) /\ DOMAIN all = 1 .. n
  BY <1>4, SeqDef
<1>6. IsInjective(all)
  BY <1>1, <1>3, <1>5 DEF IsInjective, EventsOK
<1>7. ASSUME NEW h \in ToSet(all)
      PROVE  /\ h \in DOMAIN p.tree /\ Idle(p, p.tree[h])
             /\ h = mListenSocket => cond[mListenSocket] # {}
  <2>1. PICK i \in 1 .. n : h = all[i]
    BY <1>5 DEF ToSet
  <2> QED BY <1>1, <1>3, <2>1 DEF EventsOK
<1>8. ASSUME events = << >> PROVE all = << >>
  <2>1. n = 0
    BY <1>1, <1>8
  <2>2. Len(all) = 0
    BY <1>4, <1>5, <2>1, LenProperties
  <2> QED BY <1>5, <2>2, EmptySeq
<1> QED BY <1>5, <1>6, <1>7, <1>8

(* The listening socket is in a condition as long as somebody waits.       *)
LEMMA ListenerCond ==
  ASSUME NEW peers, PeersOK(peers), Conds(peers)[mListenSocket] # {}
  PROVE  peers[mListenSocket].unread # << >>
BY LoopAssumption DEF PeersOK, Conds, ConditionsOf

(* What has arrived is taken.                                              *)
LEMMA WakeKeeps ==
  ASSUME IInv, Wake
  PROVE  IInv'
<1>1. phase = "polling" /\ UNCHANGED <<receiving, untilUpdate, net, mCurrentIssuedId>>
  BY DEF Wake
<1>2. PICK fed :
        /\ Fed(server.port, fed)
        /\ phase' = "batch" \/ (fed.events = << >> /\ phase' = "entering")
        /\ batch' = [i \in DOMAIN fed.events |-> fed.events[i].data]
        /\ server' = [server EXCEPT !.port = fed.port]
  BY DEF Wake, Fed
<1>3. PICK s, w, p, cond, none, q, events, all :
        /\ s = server /\ w = server' /\ p = s.port /\ cond = Conds(net) /\ none = {}
        /\ q = fed.port /\ events = fed.events
        /\ all = [i \in DOMAIN events |-> events[i].data]
  OBVIOUS
<1>4. w = [s EXCEPT !.port = q] /\ batch' = all
  BY <1>2, <1>3
<1>5. SessionsOK(s, none) /\ WatchedBy(s, cond)
  BY <1>3, ServerIs
<1>6. /\ SessionsOK(w, none) /\ w.port = q /\ w.open = s.open
      /\ w.session = s.session /\ w.mClientList = s.mClientList /\ w.mTaskQueue = s.mTaskQueue
  BY <1>4, <1>5, PortSet
<1>7. PICK open, live : open = s.open /\ live = Live(s)
  OBVIOUS
<1>8. PortOK(p, open, live, cond, Arrived(p)) /\ IocpOK(p)
  BY <1>3, <1>5, <1>7 DEF WatchedBy
<1>9. mListenSocket \in live
  BY <1>5, <1>7, ListenerOpen DEF Live
<1>10. /\ PortOK(q, open, live, cond, Arrived(q)) /\ IocpOK(q) /\ q.active = 0
       /\ EventsOK(q, cond, events)
  BY <1>2, <1>3, <1>8, <1>9, PortFed
<1>11. WatchedOK(w, net)
  BY <1>3, <1>6, <1>7, <1>10 DEF WatchedOK, Live
<1>12. ServerOK(server', net') /\ PeersOK(net')
  BY <1>1, <1>3, <1>6, <1>11 DEF ServerOK, IInv
<1>13. BatchOK'
  <2>1. /\ all \in Seq(SOCKETs) /\ IsInjective(all)
        /\ \A h \in ToSet(all) : h \in DOMAIN q.tree /\ Idle(q, q.tree[h])
        /\ mListenSocket \in ToSet(all) => cond[mListenSocket] # {}
        /\ events = << >> => all = << >>
    <3>1. PICK got : got = Arrived(q)
      OBVIOUS
    <3> QED BY <1>3, <1>10, <3>1, BatchIs
  <2>2. \A h \in ToSet(all) : Unpolled(w, h)
    BY <1>6, <2>1 DEF Unpolled
  <2>3. mListenSocket \in ToSet(all) => net[mListenSocket].unread # << >>
    BY <1>3, <2>1, ListenerCond DEF IInv
  <2>4. phase' \in {"batch", "entering"} /\ (phase' = "entering" => all = << >>)
    BY <1>2, <1>3, <2>1
  <2> QED BY <1>1, <1>2, <1>3, <1>4, <2>1, <2>2, <2>3, <2>4 DEF BatchOK
<1>14. phase' \in {"batch", "entering"}
  BY <1>2
<1>15. ReceivingOK'
  BY <1>1, <1>14 DEF IInv, ReceivingOK
<1>16. PollingOK'
  BY <1>3, <1>6, <1>10, <1>14 DEF PollingOK
<1>17. TimesOK'
  BY <1>1, <1>3, <1>6, <1>14 DEF IInv, TimesOK
<1>18. IssuedOK'
  BY <1>1, <1>3, <1>6 DEF IInv, IssuedOK
<1> QED BY <1>12, <1>13, <1>14, <1>15, <1>16, <1>17, <1>18 DEF IInv, Phases

(* A peer does something that its socket notices.                          *)
LEMMA HappensKeeps ==
  ASSUME IInv, NEW h \in SOCKETs, NEW now, Happens(h, now), IsPeer(h, now),
         ConditionsOf(h, now) # {},
         h = mListenSocket =>
           now.unread # << >> /\ mCurrentIssuedId + Len(now.unread) <= MaxConnects
  PROVE  IInv'
<1>1. /\ phase \in {"polling", "batch", "receiving"}
      /\ UNCHANGED <<phase, batch, receiving, untilUpdate, mCurrentIssuedId>>
  BY DEF Happens
<1>2. PICK s, w, p, peers, peers2, cond, cond2, none, open, live, here :
        /\ s = server /\ w = server' /\ p = s.port /\ peers = net /\ peers2 = net'
        /\ cond = Conds(peers) /\ cond2 = Conds(peers2) /\ none = {}
        /\ open = s.open /\ live = Live(s) /\ here = ConditionsOf(h, now)
  OBVIOUS
<1>3. h \in open /\ Did(peers, h, now, peers2)
  BY <1>2 DEF Happens, Did
<1>4. PICK q : Happened(p, h, here, q) /\ w = [s EXCEPT !.port = q]
  BY <1>2 DEF Happens, Happened
<1>5. SessionsOK(s, none) /\ WatchedBy(s, cond) /\ PeersOK(peers)
  BY <1>2, ServerIs
<1>6. /\ SessionsOK(w, none) /\ w.port = q /\ w.open = s.open
      /\ w.session = s.session /\ w.mClientList = s.mClientList /\ w.mTaskQueue = s.mTaskQueue
  BY <1>4, <1>5, PortSet
<1>7. /\ PeersOK(peers2) /\ peers2[h] = now
      /\ \A g \in SOCKETs : g # h => peers2[g] = peers[g]
  BY <1>3, <1>5, PeerSet
<1>8. PortOK(q, open, live, cond2, Arrived(q)) /\ IocpOK(q) /\ ButDriver(p, q)
  <2>1. PortOK(p, open, live, cond, Arrived(p)) /\ IocpOK(p)
    BY <1>2, <1>5 DEF WatchedBy
  <2>2. Becomes(open, h, cond, cond2, here)
    <3>1. here = cond2[h] /\ here # {}
      BY <1>2, <1>7 DEF Conds
    <3>2. \A g \in SOCKETs : Conds(peers2)[g] \subseteq Watched \cap Conditions
      BY CondsWatched
    <3>3. open \subseteq SOCKETs
      BY <1>2, <1>5, LoopAssumption DEF SessionsOK, SessionsAre
    <3>4. \A g \in open : g # h => cond2[g] = cond[g]
      BY <1>2, <1>7, <3>3 DEF Conds
    <3> QED BY <1>2, <3>1, <3>2, <3>4 DEF Becomes
  <2> QED BY <1>3, <1>4, <2>1, <2>2, HandleReady
<1>9. WatchedOK(w, peers2)
  BY <1>2, <1>6, <1>8 DEF WatchedOK, Live
<1>10. ServerOK(server', net') /\ PeersOK(net')
  BY <1>2, <1>6, <1>7, <1>9 DEF ServerOK
<1>11. /\ \A g : Unpolled(server, g) => Unpolled(server', g)
       /\ server'.session = server.session /\ server'.mTaskQueue = server.mTaskQueue
       /\ server'.port.active = server.port.active /\ server'.port.update = server.port.update
  BY <1>2, <1>6, <1>8 DEF Unpolled, Idle, ButDriver
<1>12. BatchOK'
  <2>1. net'[mListenSocket].unread = net[mListenSocket].unread \/ net'[mListenSocket].unread # << >>
    BY <1>2, <1>7, LoopAssumption
  <2> QED BY <1>1, <1>11, <2>1 DEF IInv, BatchOK
<1>13. ReceivingOK'
  BY <1>1, <1>11 DEF IInv, ReceivingOK
<1>14. PollingOK'
  BY <1>1, <1>11 DEF IInv, PollingOK
<1>15. TimesOK'
  BY <1>1, <1>11 DEF IInv, TimesOK
<1>16. IssuedOK'
  <2>1. mCurrentIssuedId + Len(net'[mListenSocket].unread) <= MaxConnects
    BY <1>2, <1>7, LoopAssumption DEF IInv, IssuedOK
  <2> QED BY <1>1, <1>11, <2>1 DEF IInv, IssuedOK
<1> QED BY <1>1, <1>10, <1>12, <1>13, <1>14, <1>15, <1>16 DEF IInv

(* A peer sends one packet more.                                           *)
LEMMA SentIs ==
  ASSUME NEW h \in SOCKETs, NEW s, IsPeer(h, s),
         NEW packet, packet \in IF h = mListenSocket THEN {"connect"} ELSE Packets,
         NEW now, now = [s EXCEPT !.unread = Append(@, packet)]
  PROVE  /\ IsPeer(h, now) /\ now.unread # << >> /\ ConditionsOf(h, now) # {}
         /\ Len(now.unread) = Len(s.unread) + 1
<1>1. PICK S, q, q2, a, b :
        /\ S = IF h = mListenSocket THEN {"connect"} ELSE Packets
        /\ q = s.unread /\ q2 = Append(q, packet) /\ a = s.shut /\ b = s.reset
  OBVIOUS
<1>2. q \in Seq(S) /\ packet \in S /\ s = [unread |-> q, shut |-> a, reset |-> b]
  BY <1>1 DEF IsPeer
<1>3. now = [unread |-> q2, shut |-> a, reset |-> b]
  BY <1>1, <1>2
<1>4. now.unread = q2 /\ now.shut = a /\ now.reset = b
  BY <1>3
<1>5. q2 \in Seq(S) /\ Len(q2) = Len(q) + 1 /\ Len(q) \in Nat
  BY <1>1, <1>2, AppendProperties, LenProperties
<1>6. q2 # << >>
  BY <1>5, EmptySeq
<1>7. IsPeer(h, now)
  BY <1>1, <1>3, <1>4, <1>5 DEF IsPeer
<1>8. ConditionsOf(h, now) # {}
  BY <1>4, <1>6 DEF ConditionsOf
<1> QED BY <1>1, <1>4, <1>5, <1>6, <1>7, <1>8

(* A peer connects, sends, shuts down or resets.                           *)
LEMMA PeersKeep ==
  ASSUME IInv, Peers
  PROVE  IInv'
<1>1. CASE PeerConnects
  <2>1. PICK h \in SOCKETs : h = mListenSocket
    BY LoopAssumption
  <2>2. PICK s, packet, now :
          /\ s = net[h] /\ packet = "connect" /\ now = [s EXCEPT !.unread = Append(@, packet)]
    OBVIOUS
  <2>3. Happens(h, now) /\ mCurrentIssuedId + Len(s.unread) < MaxConnects
    BY <1>1, <2>1, <2>2 DEF PeerConnects
  <2>4. IsPeer(h, s) /\ Len(s.unread) \in Nat
    <3>1. IsPeer(h, s)
      BY <2>2, PeerIs DEF IInv
    <3> QED BY <3>1, LenProperties DEF IsPeer
  <2>5. /\ IsPeer(h, now) /\ now.unread # << >> /\ ConditionsOf(h, now) # {}
        /\ Len(now.unread) = Len(s.unread) + 1
    <3>1. packet \in IF h = mListenSocket THEN {"connect"} ELSE Packets
      BY <2>1, <2>2
    <3> QED BY <2>2, <2>4, <3>1, SentIs
  <2>6. mCurrentIssuedId + Len(now.unread) <= MaxConnects
    BY <2>3, <2>4, <2>5, LoopAssumption DEF IInv, IssuedOK
  <2> QED BY <2>3, <2>5, <2>6, HappensKeeps
<1>2. ASSUME NEW h \in SOCKETs, PeerSends(h) PROVE IInv'
  <2>1. PICK packet \in Packets : Happens(h, [net[h] EXCEPT !.unread = Append(@, packet)])
    BY <1>2 DEF PeerSends
  <2>2. PICK s, now : s = net[h] /\ now = [s EXCEPT !.unread = Append(@, packet)]
    OBVIOUS
  <2>3. Happens(h, now) /\ h # mListenSocket
    BY <1>2, <2>1, <2>2 DEF PeerSends
  <2>4. IsPeer(h, s)
    BY <2>2, PeerIs DEF IInv
  <2>5. IsPeer(h, now) /\ now.unread # << >> /\ ConditionsOf(h, now) # {}
    BY <2>2, <2>3, <2>4, SentIs
  <2> QED BY <2>3, <2>5, HappensKeeps
<1>3. ASSUME NEW h \in SOCKETs, PeerShutsDown(h) PROVE IInv'
  <2>1. PICK s, q, a, b, now : /\ s = net[h] /\ q = s.unread /\ a = s.shut /\ b = s.reset
                               /\ now = [unread |-> q, shut |-> TRUE, reset |-> b]
    OBVIOUS
  <2>2. IsPeer(h, s) /\ h # mListenSocket
    BY <1>3, <2>1, PeerIs DEF IInv, PeerShutsDown
  <2>3. [s EXCEPT !.shut = TRUE] = now
    <3>1. s = [unread |-> q, shut |-> a, reset |-> b]
      BY <2>1, <2>2 DEF IsPeer
    <3>2. PICK yes : yes = TRUE
      OBVIOUS
    <3>3. PICK t : t = [unread |-> q, shut |-> yes, reset |-> b]
      OBVIOUS
    <3>4. [s EXCEPT !.shut = yes] = t
      BY <3>1, <3>3
    <3>5. now = t
      BY <2>1, <3>2, <3>3
    <3> QED BY <3>2, <3>4, <3>5
  <2>4. Happens(h, now)
    BY <1>3, <2>1, <2>3 DEF PeerShutsDown
  <2>5. now.unread = q /\ now.shut = TRUE /\ now.reset = b
    BY <2>1
  <2>6. IsPeer(h, now) /\ ConditionsOf(h, now) # {}
    BY <2>1, <2>2, <2>5 DEF IsPeer, ConditionsOf
  <2> QED BY <2>2, <2>4, <2>6, HappensKeeps
<1>4. ASSUME NEW h \in SOCKETs, PeerResets(h) PROVE IInv'
  <2>1. PICK now : now = [unread |-> << >>, shut |-> FALSE, reset |-> TRUE]
    OBVIOUS
  <2>2. [Quiet EXCEPT !.reset = TRUE] = now
    <3>1. PICK q, a, s : q = << >> /\ a = FALSE /\ s = Quiet
      OBVIOUS
    <3>2. s = [unread |-> q, shut |-> a, reset |-> a]
      BY <3>1 DEF Quiet
    <3>3. PICK yes : yes = TRUE
      OBVIOUS
    <3>4. PICK t : t = [unread |-> q, shut |-> a, reset |-> yes]
      OBVIOUS
    <3>5. [s EXCEPT !.reset = yes] = t
      BY <3>2, <3>4
    <3>6. now = t
      BY <2>1, <3>1, <3>3, <3>4
    <3> QED BY <3>1, <3>3, <3>5, <3>6
  <2>3. Happens(h, now) /\ h # mListenSocket
    BY <1>4, <2>2 DEF PeerResets
  <2>4. now.unread = << >> /\ now.shut = FALSE /\ now.reset = TRUE
    BY <2>1
  <2>5. IsPeer(h, now) /\ ConditionsOf(h, now) # {}
    BY <2>1, <2>3, <2>4 DEF IsPeer, ConditionsOf
  <2> QED BY <2>3, <2>5, HappensKeeps
<1> QED BY <1>1, <1>2, <1>3, <1>4 DEF Peers

----------------------------------------------------------------------------
(* The loop: the new client.                                               *)

\* A session of its own for a handle that has just been accepted.
WithClient(v, h, uid, w) ==
  /\ w.open = v.open \cup {h} /\ w.mTaskQueue = v.mTaskQueue
  /\ w.session = [u \in DOMAIN v.session \cup {uid} |-> IF u = uid THEN NewSession(h) ELSE v.session[u]]
  /\ w.mClientList =
       [g \in DOMAIN v.mClientList \cup {h} |-> IF g \in DOMAIN v.mClientList THEN v.mClientList[g] ELSE uid]

(* There is one client more.                                               *)
LEMMA ClientAdded ==
  ASSUME NEW v, SessionsOK(v, {}), NEW h \in SOCKETs, h \notin v.open,
         NEW uid \in Nat \ {0}, uid \notin DOMAIN v.session,
         NEW w, IsServer(w), WithClient(v, h, uid, w)
  PROVE  SessionsOK(w, {})
<1>1. /\ IsServer(v) /\ IsFcn(v.mClientList) /\ IsFcn(v.session) /\ v.mTaskQueue \in Seq(Jobs)
      /\ SessionsAre(v) /\ ListIs(v) /\ Owners(v) \subseteq DOMAIN v.session
      /\ DOMAIN v.session \subseteq Owners(v)
      /\ v.open = {mListenSocket} \cup {v.session[u].mSocket : u \in DOMAIN v.session}
  BY DEF SessionsOK
<1>2. PICK new : new = [mSocket |-> h, mConnected |-> TRUE, sending |-> 0]
  OBVIOUS
<1>3. new.mSocket = h /\ new.mConnected = TRUE /\ IsSession(new)
  <2>1. new.mSocket = h /\ new.mConnected = TRUE /\ new.sending = 0
    BY <1>2
  <2> QED BY <1>2, <2>1 DEF IsSession
<1>4. /\ DOMAIN w.session = DOMAIN v.session \cup {uid} /\ w.session[uid] = new /\ IsFcn(w.session)
      /\ \A u \in DOMAIN v.session : w.session[u] = v.session[u]
  BY <1>2 DEF WithClient, NewSession, IsFcn
<1>5. h # mListenSocket /\ \A u \in DOMAIN v.session : v.session[u].mSocket # h
  BY <1>1
<1>6. h \notin DOMAIN v.mClientList
  BY <1>1, <1>5 DEF ListIs
<1>7. /\ DOMAIN w.mClientList = DOMAIN v.mClientList \cup {h} /\ w.mClientList[h] = uid
      /\ IsFcn(w.mClientList) /\ \A g \in DOMAIN v.mClientList : w.mClientList[g] = v.mClientList[g]
  BY <1>6 DEF WithClient, IsFcn
<1>8. ListIs(w)
  BY <1>1, <1>3, <1>4, <1>7 DEF ListIs
<1>9. SessionsAre(w)
  <2>1. \A u \in DOMAIN v.session : Listed(w, u) <=> Listed(v, u)
    BY <1>1, <1>4, <1>5, <1>7 DEF Listed
  <2>2. Listed(w, uid)
    BY <1>3, <1>4, <1>7 DEF Listed
  <2>3. ASSUME NEW u \in DOMAIN w.session
        PROVE  /\ u \in Nat \ {0} /\ IsSession(w.session[u])
               /\ w.session[u].mSocket \in SOCKETs \ {mListenSocket}
               /\ w.session[u].mConnected \in BOOLEAN
               /\ w.session[u].mConnected <=> Listed(w, u)
    <3>1. CASE u = uid
      BY <1>3, <1>4, <1>5, <2>2, <3>1
    <3>2. CASE u # uid
      <4>1. u \in DOMAIN v.session /\ w.session[u] = v.session[u]
        BY <1>4, <3>2
      <4> QED BY <1>1, <2>1, <4>1 DEF SessionsAre
    <3> QED BY <3>1, <3>2
  <2>4. ASSUME NEW u \in DOMAIN w.session, NEW u2 \in DOMAIN w.session,
               w.session[u].mSocket = w.session[u2].mSocket
        PROVE  u = u2
    BY <1>1, <1>3, <1>4, <1>5, <2>4 DEF SessionsAre
  <2> QED BY <2>3, <2>4 DEF SessionsAre
<1>10. ASSUME NEW u \in Owners(w) PROVE u \in DOMAIN w.session
  <2>1. \/ \E g \in DOMAIN w.mClientList : w.mClientList[g] = u
        \/ \E j \in ToSet(w.mTaskQueue) : j.mOwner = u
    BY OwnersAre
  <2>2. CASE \E g \in DOMAIN w.mClientList : w.mClientList[g] = u
    BY <1>8, <2>2 DEF ListIs
  <2>3. CASE \E j \in ToSet(w.mTaskQueue) : j.mOwner = u
    <3>1. \E j \in ToSet(v.mTaskQueue) : j.mOwner = u
      BY <2>3 DEF WithClient
    <3>2. u \in Owners(v)
      BY <3>1, OwnersAre
    <3> QED BY <1>1, <1>4, <3>2
  <2> QED BY <2>1, <2>2, <2>3
<1>11. ASSUME NEW u \in DOMAIN w.session PROVE u \in Owners(w)
  <2>1. CASE u = uid
    <3>1. \E g \in DOMAIN w.mClientList : w.mClientList[g] = u
      BY <1>7, <2>1
    <3> QED BY <3>1, OwnersAre
  <2>2. CASE u # uid
    <3>1. u \in Owners(v)
      BY <1>1, <1>4, <2>2
    <3>2. \/ \E g \in DOMAIN v.mClientList : v.mClientList[g] = u
          \/ \E j \in ToSet(v.mTaskQueue) : j.mOwner = u
      BY <3>1, OwnersAre
    <3>3. \/ \E g \in DOMAIN w.mClientList : w.mClientList[g] = u
          \/ \E j \in ToSet(w.mTaskQueue) : j.mOwner = u
      BY <1>7, <3>2 DEF WithClient
    <3> QED BY <3>3, OwnersAre
  <2> QED BY <2>1, <2>2
<1>12. w.open = {mListenSocket} \cup {w.session[u].mSocket : u \in DOMAIN w.session}
  <2>1. \A g : g \in w.open <=> g = mListenSocket \/ g = h \/ \E u \in DOMAIN v.session : v.session[u].mSocket = g
    BY <1>1 DEF WithClient
  <2>2. \A g : (\E u \in DOMAIN w.session : w.session[u].mSocket = g)
               <=> g = h \/ \E u \in DOMAIN v.session : v.session[u].mSocket = g
    BY <1>3, <1>4
  <2>3. \A g : g \in w.open <=> g = mListenSocket \/ \E u \in DOMAIN w.session : w.session[u].mSocket = g
    BY <2>1, <2>2
  <2> QED BY <2>3
<1>13. w.mTaskQueue \in Seq(Jobs)
  BY <1>1 DEF WithClient
<1> QED BY <1>4, <1>7, <1>8, <1>9, <1>10, <1>11, <1>12, <1>13 DEF SessionsOK

(* There is an ep_sock left for a handle that epoll does not know, when    *)
(* there are as many as handles.                                           *)
LEMMA SockLeft ==
  ASSUME NEW p, Sound(p), NoReuse, NEW h \in SOCKETs, h \notin DOMAIN p.tree
  PROVE  DOMAIN p.sock # SockIds
<1> SUFFICES ASSUME DOMAIN p.sock = SockIds PROVE FALSE
  OBVIOUS
<1>1. PICK T, f : T = SOCKETs \ {h} /\ f = [id \in SockIds |-> p.sock[id].socket]
  OBVIOUS
<1>2. IsFiniteSet(SOCKETs) /\ IsFiniteSet(T) /\ Cardinality(T) = Cardinality(SOCKETs) - 1
  BY <1>1, LoopAssumption, FS_RemoveElement
<1>3. \A id \in SockIds : p.sock[id].socket \in DOMAIN p.tree /\ p.tree[p.sock[id].socket] = id
  BY DEF Sound, TreeOK
<1>4. \A id \in SockIds : f[id] \in T
  BY <1>1, <1>3 DEF Sound
<1>5. \A i, j \in SockIds : f[i] = f[j] => i = j
  BY <1>1, <1>3
<1>6. f \in Injection(SockIds, T)
  BY <1>1, <1>4, <1>5 DEF Injection, IsInjective
<1>7. Cardinality(SockIds) <= Cardinality(T) /\ IsFiniteSet(SockIds)
  BY <1>2, <1>6, FS_Injection
<1>8. Cardinality(SockIds) \in Nat /\ Cardinality(SOCKETs) \in Nat
  BY <1>2, <1>7, FS_CardinalityType
<1> QED BY <1>2, <1>7, <1>8 DEF NoReuse

\* The handles that are live once h is open as well.
LiveWith(open, h) == IF NoReuse THEN open \cup {h} ELSE {mListenSocket}

(* A new handle is live when it has an ep_sock of its own.                 *)
LEMMA HandleOpened ==
  ASSUME NEW p, NEW open, NEW cond, NEW live, live = IF NoReuse THEN open ELSE {mListenSocket},
         PortOK(p, open, live, cond, Arrived(p)), p.active = 0,
         NEW h \in SOCKETs, h \notin open, mListenSocket \in open,
         ReuseAtOnce \/ ~Registered(p, h),
         NEW q, PortOK(q, open, live, cond, Arrived(q)), AddedTo(p, h, q),
         NEW open2, open2 = open \cup {h}, NEW live2, live2 = LiveWith(open, h),
         NEW cond2, \A g \in open : g # mListenSocket => cond2[g] = cond[g],
         mListenSocket \in DOMAIN p.tree, Idle(p, p.tree[mListenSocket])
  PROVE  PortOK(q, open2, live2, cond2, Arrived(q))
<1>1. Sound(p) /\ Sound(q) /\ live \subseteq open /\ live \subseteq DOMAIN p.tree
  BY DEF PortOK
<1>2. TreeOK(q) /\ Others(p, q)
  BY <1>1 DEF Sound, AddedTo
<1>3. ASSUME NoReuse PROVE h \in DOMAIN q.tree /\ Idle(q, q.tree[h])
  <2>1. h \notin DOMAIN p.tree
    BY <1>3 DEF NoReuse, Registered
  <2>2. DOMAIN p.sock # SockIds
    BY <1>1, <1>3, <2>1, SockLeft
  <2> QED BY <2>1, <2>2 DEF AddedTo, Registered
<1>4. mListenSocket \in DOMAIN q.tree /\ Idle(q, q.tree[mListenSocket])
  BY <1>2 DEF Others
<1>5. live2 \subseteq open2
  BY DEF LiveWith
<1>6. live2 \subseteq DOMAIN q.tree
  BY <1>1, <1>2, <1>3, <1>4 DEF LiveWith, Others
<1>7. ASSUME NEW id \in DOMAIN q.sock, ~Idle(q, id)
      PROVE  /\ q.sock[id].socket \in open =>
                  q.sock[id].socket \in open2 /\ cond2[q.sock[id].socket] = cond[q.sock[id].socket]
             /\ q.sock[id].socket \in live2 => q.sock[id].socket \in live
  <2>1. PICK g : g = q.sock[id].socket
    OBVIOUS
  <2>2. g \in DOMAIN q.tree /\ q.tree[g] = id
    BY <1>2, <2>1 DEF TreeOK
  <2>3. g # mListenSocket /\ (NoReuse => g # h)
    BY <1>3, <1>4, <1>7, <2>2
  <2> QED BY <2>1, <2>3 DEF LiveWith
<1> QED BY <1>5, <1>6, <1>7, PortMeets

(* A client is accepted.                                                   *)
LEMMA AcceptKeeps ==
  ASSUME IInv, Accept
  PROVE  IInv'
<1>1. /\ phase = "batch" /\ batch # << >> /\ Head(batch) = mListenSocket /\ batch' = Tail(batch)
      /\ mCurrentIssuedId' = mCurrentIssuedId + 1 /\ UNCHANGED <<phase, receiving, untilUpdate>>
  BY DEF Accept
<1>2. PICK h \in SOCKETs \ server.open :
        /\ ReuseAtOnce \/ ~Registered(server.port, h)
        /\ server' = CreateClient(server, h, mCurrentIssuedId')
  BY DEF Accept
<1>3. PICK s, w, p, uid, peers, peers2, cond, cond2, open, open2, live, live2 :
        /\ s = server /\ w = server' /\ p = s.port /\ uid = mCurrentIssuedId'
        /\ peers = net /\ peers2 = net' /\ cond = Conds(peers) /\ cond2 = Conds(peers2)
        /\ open = s.open /\ open2 = open \cup {h} /\ live = Live(s) /\ live2 = LiveWith(open, h)
  OBVIOUS
<1>4. SessionsOK(s, {}) /\ WatchedBy(s, cond) /\ PeersOK(peers)
  BY <1>3, ServerIs
<1>5. Read(peers, mListenSocket, peers2)
  BY <1>3 DEF Accept, Read
<1>6. peers[mListenSocket].unread # << >> /\ Unpolled(s, mListenSocket)
  <2>1. PICK q : q = batch
    OBVIOUS
  <2>2. Head(q) \in ToSet(q)
    <3>1. q \in Seq(SOCKETs) /\ q # << >>
      BY <1>1, <2>1 DEF IInv, BatchOK
    <3> QED BY <3>1, TailIs
  <2> QED BY <1>1, <1>3, <2>1, <2>2 DEF IInv, BatchOK
<1>7. /\ PeersOK(peers2) /\ peers2[mListenSocket].unread = Tail(peers[mListenSocket].unread)
      /\ \A g \in SOCKETs : g # mListenSocket => peers2[g] = peers[g]
  <2>1. PICK g \in SOCKETs : g = mListenSocket
    BY LoopAssumption
  <2> QED BY <1>4, <1>5, <1>6, <2>1, ReadIs
<1>8. PICK S, L, created, kernel, q :
        /\ S = [u \in DOMAIN s.session \cup {uid} |-> IF u = uid THEN NewSession(h) ELSE s.session[u]]
        /\ L = [g \in DOMAIN s.mClientList \cup {h} |->
                  IF g \in DOMAIN s.mClientList THEN s.mClientList[g] ELSE uid]
        /\ created = [mClientList |-> L, session |-> S, mTaskQueue |-> s.mTaskQueue,
                      open |-> open2, port |-> p]
        /\ kernel = Kernel(created) /\ q = _ep_port_ctl_add(p, kernel, h, Event(h))
  OBVIOUS
<1>9. w = [mClientList |-> L, session |-> S, mTaskQueue |-> s.mTaskQueue, open |-> open2, port |-> q]
  <2>1. IsServer(s)
    BY <1>4 DEF SessionsOK
  <2>2. PICK e : e = [s EXCEPT
                        !.open = @ \cup {h},
                        !.session = [u \in DOMAIN @ \cup {uid} |->
                                       IF u = uid THEN NewSession(h) ELSE @[u]],
                        !.mClientList = [g \in DOMAIN @ \cup {h} |->
                                           IF g \in DOMAIN @ THEN @[g] ELSE uid]]
    OBVIOUS
  <2>3. w = [e EXCEPT !.port = _ep_port_ctl_add(e.port, Kernel(e), h, Event(h))]
    BY <1>2, <1>3, <2>2 DEF CreateClient
  <2>4. PICK l0, s0, q0, o0 : /\ l0 = s.mClientList /\ s0 = s.session
                              /\ q0 = s.mTaskQueue /\ o0 = s.open
    OBVIOUS
  <2>5. s = [mClientList |-> l0, session |-> s0, mTaskQueue |-> q0, open |-> o0, port |-> p]
    BY <1>3, <2>1, <2>4 DEF IsServer
  <2>6. e = [s EXCEPT !.open = open2, !.session = S, !.mClientList = L]
    BY <1>3, <1>8, <2>2
  <2>7. e = created
    <3>1. PICK e1 : e1 = [mClientList |-> l0, session |-> s0, mTaskQueue |-> q0,
                          open |-> open2, port |-> p]
      OBVIOUS
    <3>2. PICK e2 : e2 = [mClientList |-> l0, session |-> S, mTaskQueue |-> q0,
                          open |-> open2, port |-> p]
      OBVIOUS
    <3>3. e1 = [s EXCEPT !.open = open2]
      BY <2>5, <3>1
    <3>4. e2 = [e1 EXCEPT !.session = S]
      BY <3>1, <3>2
    <3>5. [mClientList |-> L, session |-> S, mTaskQueue |-> q0, open |-> open2, port |-> p]
          = [e2 EXCEPT !.mClientList = L]
      BY <3>2
    <3>6. e = [e2 EXCEPT !.mClientList = L]
      BY <2>6, <3>3, <3>4
    <3>7. created = [mClientList |-> L, session |-> S, mTaskQueue |-> q0,
                     open |-> open2, port |-> p]
      BY <1>8, <2>4
    <3> QED BY <3>5, <3>6, <3>7
  <2>8. created.port = p
    BY <1>8
  <2>9. w = [created EXCEPT !.port = q]
    BY <1>8, <2>3, <2>7, <2>8
  <2> QED BY <1>8, <2>9
<1>10. w.mClientList = L /\ w.session = S /\ w.mTaskQueue = s.mTaskQueue /\ w.open = open2 /\ w.port = q
  BY <1>9
<1>11. uid \in Nat \ {0} /\ uid \notin DOMAIN s.session
  BY <1>1, <1>3 DEF IInv, IssuedOK
<1>12. SessionsOK(w, {})
  <2>1. IsServer(w)
    BY <1>9, <1>10 DEF IsServer
  <2>2. WithClient(s, h, uid, w)
    BY <1>3, <1>8, <1>10 DEF WithClient
  <2>3. h \notin s.open
    BY <1>3
  <2> QED BY <1>4, <1>11, <2>1, <2>2, <2>3, ClientAdded
<1>13. PortOK(p, open, live, cond, Arrived(p)) /\ IocpOK(p) /\ p.active = 0
  BY <1>1, <1>3, <1>4 DEF WatchedBy, IInv, PollingOK
<1>14. PortOK(q, open, live, cond, Arrived(q)) /\ IocpOK(q) /\ AddedTo(p, h, q)
  BY <1>8, <1>13, CtlAdded
<1>15. PortOK(q, open2, live2, cond2, Arrived(q))
  <2>1. live = IF NoReuse THEN open ELSE {mListenSocket}
    BY <1>3 DEF Live
  <2>2. open \subseteq SOCKETs /\ mListenSocket \in open /\ h \notin open
    BY <1>3, <1>4, LoopAssumption DEF SessionsOK, SessionsAre
  <2>3. \A g \in open : g # mListenSocket => cond2[g] = cond[g]
    BY <1>3, <1>7, <2>2, CondsAre
  <2>4. mListenSocket \in DOMAIN p.tree /\ Idle(p, p.tree[mListenSocket])
    BY <1>3, <1>6 DEF Unpolled
  <2>5. ReuseAtOnce \/ ~Registered(p, h)
    BY <1>2, <1>3
  <2> QED BY <1>3, <1>13, <1>14, <2>1, <2>2, <2>3, <2>4, <2>5, HandleOpened
<1>16. WatchedOK(w, peers2)
  BY <1>3, <1>10, <1>14, <1>15 DEF WatchedOK, Live, LiveWith
<1>17. ServerOK(server', net') /\ PeersOK(net')
  BY <1>3, <1>7, <1>12, <1>16 DEF ServerOK
<1>18. BatchOK'
  <2>1. PICK b, b2 : b = batch /\ b2 = batch'
    OBVIOUS
  <2>2. b \in Seq(SOCKETs) /\ b # << >> /\ IsInjective(b) /\ \A g \in ToSet(b) : Unpolled(s, g)
    BY <1>1, <1>3, <2>1 DEF IInv, BatchOK
  <2>3. /\ b2 \in Seq(SOCKETs) /\ IsInjective(b2) /\ mListenSocket \notin ToSet(b2)
        /\ \A g \in ToSet(b2) : g \in ToSet(b)
    <3>1. /\ Tail(b) \in Seq(SOCKETs) /\ ToSet(b) = ToSet(Tail(b)) \cup {Head(b)}
          /\ IsInjective(b) => IsInjective(Tail(b)) /\ Head(b) \notin ToSet(Tail(b))
      BY <2>2, TailIs
    <3> QED BY <1>1, <2>1, <2>2, <3>1
  <2>4. \A g : Unpolled(s, g) => Unpolled(w, g)
    BY <1>3, <1>10, <1>14 DEF Unpolled, AddedTo, Others
  <2> QED BY <1>1, <1>3, <2>1, <2>2, <2>3, <2>4 DEF BatchOK
<1>19. ReceivingOK' /\ PollingOK' /\ TimesOK'
  <2>1. ReceivingOK'
    BY <1>1 DEF IInv, ReceivingOK
  <2>2. PollingOK'
    BY <1>1, <1>3, <1>10, <1>14 DEF PollingOK, AddedTo
  <2>3. TimesOK'
    BY <1>1, <1>3, <1>10 DEF IInv, TimesOK
  <2> QED BY <2>1, <2>2, <2>3
<1>20. IssuedOK'
  <2>1. PICK r, r2 : r = peers[mListenSocket].unread /\ r2 = peers2[mListenSocket].unread
    OBVIOUS
  <2>2. Len(r2) = Len(r) - 1 /\ Len(r) \in Nat
    <3>1. PICK T : T = {"connect"}
      OBVIOUS
    <3>2. r \in Seq(T) /\ r # << >> /\ r2 = Tail(r)
      BY <1>4, <1>6, <1>7, <2>1, <3>1, LoopAssumption DEF PeersOK
    <3> QED BY <3>2, TailIs
  <2>3. /\ mCurrentIssuedId \in Nat /\ mCurrentIssuedId + Len(r) <= MaxConnects
        /\ \A u \in DOMAIN s.session : u <= mCurrentIssuedId /\ u \in Nat
    BY <1>3, <1>4, <2>1 DEF IInv, IssuedOK, SessionsOK, SessionsAre
  <2>4. mCurrentIssuedId' + Len(r2) <= MaxConnects
    BY <1>1, <2>2, <2>3, LoopAssumption
  <2>5. \A u \in DOMAIN w.session : u <= mCurrentIssuedId'
    BY <1>1, <1>3, <1>8, <1>10, <2>3
  <2>6. mCurrentIssuedId' \in Nat
    BY <1>1, <2>3
  <2>7. mCurrentIssuedId' + Len(net'[mListenSocket].unread) <= MaxConnects
    BY <1>3, <2>1, <2>4
  <2>8. \A u \in DOMAIN server'.session : u <= mCurrentIssuedId'
    BY <1>3, <2>5
  <2> QED BY <2>6, <2>7, <2>8 DEF IssuedOK
<1> QED BY <1>1, <1>17, <1>18, <1>19, <1>20 DEF IInv

----------------------------------------------------------------------------
(* The theorems.                                                           *)

\* The port before anybody has asked anything of it.
LEMMA EmptyPortOK ==
  ASSUME NEW open, NEW none, none = {}, NEW cond, NEW p, p = EmptyPort
  PROVE  /\ PortOK(p, open, none, cond, Arrived(p)) /\ IocpOK(p) /\ p.active = 0
         /\ DOMAIN p.sock = {} /\ DOMAIN p.tree = {}
<1>1. PICK e : e = << >>
  OBVIOUS
<1>2. p = [ sock |-> e, tree |-> e, update |-> e, deleted |-> e, groups |-> e, active |-> 0,
            open |-> TRUE, iocp |-> e, afd |-> {} ]
  BY <1>1 DEF EmptyPort
<1>3. /\ p.sock = e /\ p.tree = e /\ p.update = e /\ p.deleted = e /\ p.groups = e
      /\ p.active = 0 /\ p.open /\ p.iocp = e /\ p.afd = {}
  BY <1>2
<1>4. DOMAIN e = {} /\ ToSet(e) = {} /\ IsFcn(e) /\ IsInjective(e)
  <2>1. DOMAIN e = {}
    BY <1>1
  <2>2. ToSet(e) = {} /\ IsInjective(e)
    BY <2>1 DEF ToSet, IsInjective
  <2>3. e = [i \in 1 .. 0 |-> e[i]]
    BY <1>1
  <2>4. IsFcn(e)
    BY <2>1, <2>3 DEF IsFcn
  <2> QED BY <2>1, <2>2, <2>4
<1>5. e \in Seq(SockIds) /\ e \in Seq(ToSet(e))
  BY <1>1
<1>6. IsPort(p)
  BY <1>2, <1>3 DEF IsPort
<1>7. Sound(p)
  BY <1>1, <1>3, <1>4, <1>5, <1>6 DEF Sound, TreeOK, QueueOK
<1>8. Arrived(p) = {} /\ IocpOK(p)
  BY <1>3, <1>4, <1>5 DEF Arrived, IocpOK
<1>9. Owed(p, Arrived(p)) /\ Waiting(p, open, cond) /\ Over(p, none, cond, Arrived(p))
  BY <1>3, <1>4, <1>8 DEF Owed, Waiting, Over
<1> QED BY <1>3, <1>4, <1>7, <1>8, <1>9 DEF PortOK

\* The server that has just started to listen.
LEMMA ListenerPolled ==
  ASSUME NEW h, h = mListenSocket, NEW kernel, NEW e, e = EmptyPort,
         NEW p, p = _ep_port_ctl_add(e, kernel, h, Event(h)),
         NEW open, open = {h}, NEW cond
  PROVE  PortOK(p, open, open, cond, Arrived(p)) /\ IocpOK(p) /\ p.active = 0
<1>1. h \in SOCKETs /\ SockIds # {}
  BY LoopAssumption
<1>2. PICK none : none = {}
  OBVIOUS
<1>3. /\ PortOK(e, open, none, cond, Arrived(e)) /\ IocpOK(e) /\ e.active = 0
      /\ DOMAIN e.sock = {} /\ DOMAIN e.tree = {}
  BY <1>2, EmptyPortOK
<1>4. PortOK(p, open, none, cond, Arrived(p)) /\ IocpOK(p) /\ AddedTo(e, h, p)
  BY <1>1, <1>3, CtlAdded
<1>5. h \in DOMAIN p.tree /\ Idle(p, p.tree[h]) /\ p.active = 0
  BY <1>1, <1>3, <1>4 DEF AddedTo, Registered
<1>6. TreeOK(p)
  BY <1>4 DEF PortOK, Sound
<1>7. open \subseteq open /\ open \subseteq DOMAIN p.tree
  BY <1>5
<1>8. \A id \in DOMAIN p.sock : ~Idle(p, id) =>
        /\ p.sock[id].socket \in open =>
             p.sock[id].socket \in open /\ cond[p.sock[id].socket] = cond[p.sock[id].socket]
        /\ p.sock[id].socket \in open => p.sock[id].socket \in none
  BY <1>5, <1>6 DEF TreeOK
<1>9. PortOK(p, open, open, cond, Arrived(p))
  BY <1>4, <1>7, <1>8, PortMeets
<1> QED BY <1>4, <1>5, <1>9

\* There are no sessions yet.
LEMMA NoSessionsYet ==
  ASSUME NEW p, NEW none, none = << >>, NEW v,
         v = [mClientList |-> none, session |-> none, mTaskQueue |-> none,
              open |-> {mListenSocket}, port |-> p]
  PROVE  /\ SessionsOK(v, {}) /\ v.port = p /\ v.open = {mListenSocket}
         /\ DOMAIN v.session = {} /\ InOrder(v.mTaskQueue) /\ InTime(v.mTaskQueue)
<1>1. /\ v.mClientList = none /\ v.session = none /\ v.mTaskQueue = none
      /\ v.open = {mListenSocket} /\ v.port = p
  OBVIOUS
<1>2. DOMAIN none = {} /\ ToSet(none) = {} /\ IsFcn(none) /\ none \in Seq(Jobs)
  <2>1. DOMAIN none = {} /\ none \in Seq(Jobs)
    OBVIOUS
  <2>2. none = [i \in 1 .. 0 |-> none[i]]
    OBVIOUS
  <2>3. ToSet(none) = {} /\ IsFcn(none)
    BY <2>1, <2>2 DEF ToSet, IsFcn
  <2> QED BY <2>1, <2>3
<1>3. IsServer(v)
  BY <1>1 DEF IsServer
<1>4. \A u : u \notin Owners(v)
  BY <1>1, <1>2, OwnersAre
<1>5. SessionsAre(v) /\ ListIs(v)
  BY <1>1, <1>2 DEF SessionsAre, ListIs
<1>6. v.open = {mListenSocket} \cup {v.session[u].mSocket : u \in DOMAIN v.session}
  BY <1>1, <1>2
<1>7. SessionsOK(v, {})
  BY <1>1, <1>2, <1>3, <1>4, <1>5, <1>6 DEF SessionsOK
<1>8. InOrder(none) /\ InTime(none)
  BY <1>2 DEF InOrder, InTime
<1> QED BY <1>1, <1>2, <1>7, <1>8

\* Nobody has done anything yet.
LEMMA AllQuiet ==
  ASSUME NEW peers, peers = [h \in SOCKETs |-> Quiet]
  PROVE  /\ PeersOK(peers) /\ peers[mListenSocket].unread = << >>
<1>1. \A h \in SOCKETs : peers[h] = Quiet
  OBVIOUS
<1>2. Quiet.unread = << >> /\ Quiet.shut = FALSE /\ Quiet.reset = FALSE
  BY DEF Quiet
<1>3. Quiet = [unread |-> Quiet.unread, shut |-> Quiet.shut, reset |-> Quiet.reset]
  BY <1>2 DEF Quiet
<1>4. \A T : << >> \in Seq(T)
  OBVIOUS
<1>5. peers = [h \in SOCKETs |-> peers[h]]
  OBVIOUS
<1> QED BY <1>1, <1>2, <1>3, <1>4, <1>5, LoopAssumption DEF PeersOK

(* The listening socket is watched from the start.                         *)
LEMMA InitKeeps ==
  ASSUME Init
  PROVE  IInv
<1>1. PICK s, peers, e, kernel, p, h, open, none, cond :
        /\ s = server /\ peers = net /\ h = mListenSocket /\ open = {h} /\ none = << >>
        /\ cond = Conds(peers) /\ e = EmptyPort
        /\ kernel = [open |-> {mListenSocket}, broken |-> {}, ready |-> [g \in SOCKETs |-> {}]]
        /\ p = _ep_port_ctl_add(e, kernel, h, Event(h))
  OBVIOUS
<1>2. /\ phase = "entering" /\ batch = << >> /\ receiving = NoSession
      /\ untilUpdate = 0 /\ mCurrentIssuedId = 0
  BY DEF Init
<1>3. PeersOK(peers) /\ peers[mListenSocket].unread = << >>
  <2>1. peers = [g \in SOCKETs |-> Quiet]
    BY <1>1 DEF Init
  <2> QED BY <2>1, AllQuiet
<1>4. /\ SessionsOK(s, {}) /\ s.port = p /\ s.open = {mListenSocket}
      /\ DOMAIN s.session = {} /\ InOrder(s.mTaskQueue) /\ InTime(s.mTaskQueue)
  <2>1. s = [mClientList |-> none, session |-> none, mTaskQueue |-> none,
             open |-> {mListenSocket}, port |-> p]
    BY <1>1 DEF Init
  <2> QED BY <1>1, <2>1, NoSessionsYet
<1>5. PortOK(p, open, open, cond, Arrived(p)) /\ IocpOK(p) /\ p.active = 0
  BY <1>1, ListenerPolled
<1>6. ServerOK(server, net)
  BY <1>1, <1>4, <1>5 DEF ServerOK, WatchedOK, Live
<1>7. BatchOK
  <2>1. PICK q : q = batch
    OBVIOUS
  <2>2. q \in Seq(SOCKETs) /\ IsInjective(q) /\ ToSet(q) = {}
    BY <1>2, <2>1 DEF IsInjective, ToSet
  <2> QED BY <1>2, <2>1, <2>2 DEF BatchOK
<1>8. ReceivingOK /\ PollingOK
  BY <1>1, <1>2, <1>4, <1>5 DEF ReceivingOK, PollingOK
<1>9. TimesOK
  BY <1>1, <1>2, <1>4, LoopAssumption DEF TimesOK
<1>10. IssuedOK
  <2>1. Len(<< >>) = 0
    OBVIOUS
  <2> QED BY <1>1, <1>2, <1>3, <1>4, <2>1, LoopAssumption DEF IssuedOK
<1> QED BY <1>1, <1>2, <1>3, <1>6, <1>7, <1>8, <1>9, <1>10 DEF IInv, Phases

(* Every step keeps the invariant.                                         *)
LEMMA NextKeeps ==
  ASSUME IInv, [Next]_vars
  PROVE  IInv'
<1>1. CASE Turn
  <2>1. CASE EnterWait
    BY <2>1, EnterWaitKeeps
  <2>2. CASE Wake
    BY <2>2, WakeKeeps
  <2>3. CASE Accept
    BY <2>3, AcceptKeeps
  <2>4. CASE StartReceive
    BY <2>4, StartReceiveKeeps
  <2>5. CASE ReceivePacket
    BY <2>5, ReceivePacketKeeps
  <2>6. CASE NoMoreData
    BY <2>6, NoMoreDataKeeps
  <2>7. CASE ReceiveError
    BY <2>7, ReceiveErrorKeeps
  <2>8. CASE ScheduledJobs
    BY <2>8, ScheduledJobsKeeps
  <2>9. CASE GameLogicUpdate
    BY <2>9, GameLogicUpdateKeeps
  <2>10. CASE PacketBroadcast
    BY <2>10, PacketBroadcastKeeps
  <2> QED BY <1>1, <2>1, <2>2, <2>3, <2>4, <2>5, <2>6, <2>7, <2>8, <2>9, <2>10 DEF Turn
<1>2. CASE Peers
  BY <1>2, PeersKeep
<1>3. CASE UNCHANGED vars
  BY <1>3 DEF vars, IInv, ServerOK, WatchedOK, BatchOK, ReceivingOK, PollingOK, TimesOK, IssuedOK,
              Unpolled
<1> QED BY <1>1, <1>2, <1>3 DEF Next

(* The inductive invariant holds of every turn of ClientManager::EventLoop *)
(* and of whatever the peers and the faults of the calls do meanwhile.     *)
THEOREM Inductive == Spec => []IInv
<1>1. Init => IInv
  BY InitKeeps
<1>2. IInv /\ [Next]_vars => IInv'
  BY NextKeeps
<1> QED BY <1>1, <1>2, PTL DEF Spec

(* Every job of the queue of the Scheduler is due within the delay it was  *)
(* asked with, and what has been due has been run; a frame is never later  *)
(* than a turn; a session that receives is in memory; no session is on the *)
(* listening socket.                                                       *)
THEOREM Typed == Spec => []TypeOK
<1>1. IInv => TypeOK
  <2> SUFFICES ASSUME IInv PROVE TypeOK
    OBVIOUS
  <2>1. /\ phase \in Phases /\ SessionsOK(server, {}) /\ PeersOK(net)
        /\ BatchOK /\ ReceivingOK /\ TimesOK /\ IssuedOK
    BY DEF IInv, ServerOK
  <2>2. ToSet(batch) \subseteq SOCKETs
    <3>1. PICK q : q = batch
      OBVIOUS
    <3>2. DOMAIN q = 1 .. Len(q) /\ \A i \in 1 .. Len(q) : q[i] \in SOCKETs
      BY <2>1, <3>1, LenProperties, ElementOfSeq DEF BatchOK
    <3> QED BY <3>1, <3>2 DEF ToSet
  <2>3. receiving \in DOMAIN server.session \cup {NoSession}
    BY <2>1 DEF ReceivingOK
  <2>4. DOMAIN server.mClientList \subseteq SOCKETs \ {mListenSocket}
    BY <2>1 DEF SessionsOK, SessionsAre, ListIs
  <2>5. untilUpdate \in -MaxTurn .. UPDATE_INTERVAL
    BY <2>1 DEF TimesOK
  <2>6. \A j \in ToSet(server.mTaskQueue) :
          \E delay \in Delays : j.mExecutionTick = delay \/ j.mExecutionTick \in 1 .. delay
    BY <2>1 DEF TimesOK, InTime, ToSet
  <2>7. mCurrentIssuedId \in 0 .. MaxConnects
    <3>1. PICK r, T : r = net[mListenSocket].unread /\ T = {"connect"}
      OBVIOUS
    <3>2. r \in Seq(T)
      BY <2>1, <3>1, LoopAssumption DEF PeersOK
    <3>3. Len(r) \in Nat
      BY <3>2, LenProperties
    <3> QED BY <2>1, <3>1, <3>3, LoopAssumption DEF IssuedOK
  <2> QED BY <2>1, <2>2, <2>3, <2>4, <2>5, <2>6, <2>7 DEF TypeOK
<1> QED BY <1>1, Inductive, PTL

(* Who owns a ClientSession and its handle: mClientList and the scheduled  *)
(* jobs, whatever Disconnect, a failing setsockopt, an EXIT in the middle  *)
(* of a walk over the list or the order of the jobs does.                  *)
THEOREM SessionsOwned == Spec => []SessionsOwnHandles
<1>1. IInv => SessionsOwnHandles
  <2> SUFFICES ASSUME IInv PROVE SessionsOwnHandles
    OBVIOUS
  <2>1. PICK v : v = server
    OBVIOUS
  <2>2. /\ SessionsAre(v) /\ ListIs(v) /\ Owners(v) \subseteq DOMAIN v.session
        /\ DOMAIN v.session \subseteq Owners(v) \cup {}
        /\ v.open = {mListenSocket} \cup {v.session[u].mSocket : u \in DOMAIN v.session}
    BY <2>1 DEF IInv, ServerOK, SessionsOK
  <2>3. \A h \in DOMAIN v.mClientList :
          v.mClientList[h] \in DOMAIN v.session /\ v.session[v.mClientList[h]].mSocket = h
    BY <2>2 DEF ListIs
  <2>4. \A u \in DOMAIN v.session : v.session[u].mConnected <=> u \in Range(v.mClientList)
    <3> SUFFICES ASSUME NEW u \in DOMAIN v.session
                 PROVE  v.session[u].mConnected <=> u \in Range(v.mClientList)
      OBVIOUS
    <3>1. v.session[u].mConnected <=> Listed(v, u)
      BY <2>2 DEF SessionsAre
    <3>2. u \in Range(v.mClientList) <=> \E h \in DOMAIN v.mClientList : v.mClientList[h] = u
      BY DEF Range
    <3>3. Listed(v, u) => \E h \in DOMAIN v.mClientList : v.mClientList[h] = u
      BY DEF Listed
    <3>4. (\E h \in DOMAIN v.mClientList : v.mClientList[h] = u) => Listed(v, u)
      BY <2>3 DEF Listed
    <3> QED BY <3>1, <3>2, <3>3, <3>4
  <2>5. DOMAIN v.session = Owners(v)
    BY <2>2
  <2>6. v.open \ {mListenSocket} = {v.session[u].mSocket : u \in DOMAIN v.session}
    BY <2>2 DEF SessionsAre
  <2>7. \A u, w \in DOMAIN v.session : v.session[u].mSocket = v.session[w].mSocket => u = w
    BY <2>2 DEF SessionsAre
  <2> QED BY <2>1, <2>3, <2>4, <2>5, <2>6, <2>7 DEF SessionsOwnHandles
<1> QED BY <1>1, Inductive, PTL

(* Whenever EventLoop waits, wepoll watches the listening socket and every *)
(* listed session, if Windows gives no new socket a handle that epoll      *)
(* still has on file, and no ep_sock cannot be allocated.  The code relies *)
(* on both: it closes a handle without an epoll_ctl, and does not look at  *)
(* what EPOLL_CTL_ADD returns.                                             *)
THEOREM Polled == NoReuse => (Spec => []EveryoneIsPolled)
<1>1. NoReuse /\ IInv => EveryoneIsPolled
  <2> SUFFICES ASSUME NoReuse, IInv, phase = "polling",
                      NEW h \in DOMAIN server.mClientList \cup {mListenSocket}
               PROVE  /\ Registered(server.port, h)
                      /\ LET id     == server.port.tree[h]
                             Comes  == \E i \in DOMAIN server.port.iocp : server.port.iocp[i].sock = id
                         IN  /\ server.port.sock[id].poll_status = PENDING
                             /\ Comes <=> ConditionsOf(h, net[h]) # {}
    BY DEF EveryoneIsPolled
  <2>1. PICK s, p, open, live, cond : /\ s = server /\ p = s.port /\ open = s.open
                                      /\ live = Live(s) /\ cond = Conds(net)
    OBVIOUS
  <2>2. /\ SessionsOK(s, {}) /\ PortOK(p, open, live, cond, Arrived(p)) /\ live = open
        /\ p.update = << >>
    BY <2>1 DEF IInv, ServerOK, WatchedOK, PollingOK, Live
  <2>3. h \in open /\ h \in SOCKETs
    BY <2>1, <2>2, LoopAssumption DEF SessionsOK, SessionsAre, ListIs
  <2>4. /\ Sound(p) /\ Owed(p, Arrived(p)) /\ Waiting(p, open, cond) /\ Over(p, live, cond, Arrived(p))
        /\ h \in DOMAIN p.tree
    BY <2>2, <2>3 DEF PortOK
  <2>5. PICK id : id = p.tree[h]
    OBVIOUS
  <2>6. id \in DOMAIN p.sock /\ p.sock[id].socket = h /\ IsSock(p.sock[id])
    BY <2>4, <2>5 DEF Sound, TreeOK
  <2>7. ~Idle(p, id)
    <3>1. ToSet(p.update) = {}
      BY <2>2 DEF ToSet
    <3> QED BY <2>4, <2>6, <3>1 DEF Sound, QueueOK
  <2>8. p.sock[id].poll_status = PENDING
    BY <2>6, <2>7 DEF IsSock, Idle
  <2>9. cond[h] = ConditionsOf(h, net[h])
    BY <2>1, <2>3 DEF Conds
  <2>10. (\E c \in Arrived(p) : c.sock = id) <=> cond[h] # {}
    <3>1. ASSUME NEW c \in Arrived(p), c.sock = id PROVE cond[h] # {}
      BY <2>2, <2>3, <2>4, <2>6, <3>1 DEF Over
    <3>2. ASSUME cond[h] # {} PROVE \E c \in Arrived(p) : c.sock = id
      <4>1. PICK r \in p.afd \cup Arrived(p) : r.sock = id
        BY <2>4, <2>6, <2>7 DEF Owed
      <4>2. r \notin p.afd
        BY <2>4, <2>6, <3>2, <4>1 DEF Waiting
      <4> QED BY <4>1, <4>2
    <3> QED BY <3>1, <3>2
  <2>11. (\E c \in Arrived(p) : c.sock = id) <=> \E i \in DOMAIN p.iocp : p.iocp[i].sock = id
    BY DEF Arrived, ToSet
  <2>12. Registered(p, h)
    BY <2>4 DEF Registered
  <2> QED BY <2>1, <2>5, <2>8, <2>9, <2>10, <2>11, <2>12
<1> SUFFICES ASSUME NoReuse PROVE Spec => []EveryoneIsPolled
  OBVIOUS
<1>2. IInv => EveryoneIsPolled
  BY <1>1
<1> QED BY <1>2, Inductive, PTL
=============================================================================
