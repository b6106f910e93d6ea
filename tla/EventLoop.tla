----------------------------- MODULE EventLoop -----------------------------
(***************************************************************************)
(* The server's single thread: ClientManager::EventLoop over one epoll     *)
(* port, the sessions, who keeps them alive, and the scheduled jobs.       *)
(*                                                                         *)
(* A turn of the loop: epoll_wait; an accept or an OnReceive for every     *)
(* event; the jobs that are due; a frame when one is due; the flush of     *)
(* what was sent.  What the game does with a packet is in Pong; here a     *)
(* packet matters for what it makes the server send and schedule.          *)
(*                                                                         *)
(* server is a record:                                                     *)
(*   mClientList   from a SOCKET to the uid of its session                 *)
(*   session       the ClientSessions in memory, by uid                    *)
(*   mTaskQueue    the scheduled jobs, the next one first                  *)
(*   port, open    the epoll port, and the handles that are open           *)
(*                                                                         *)
(* Times are in units no longer than a turn of the loop, and relative to   *)
(* mCurrentTick, the time of the last DoTasks.                             *)
(***************************************************************************)
EXTENDS EpSock, Integers

CONSTANTS
  mListenSocket,     \* the handle of the listening socket
  Packets,           \* what clients send: a subset of {"START", "EXIT", "RACKET"}
  UPDATE_INTERVAL,   \* units from a frame to the next
  Delays,            \* rand() % 100 ms, in units
  MaxTurn,           \* units a turn takes at most
  SendCapacity,      \* packets mSendBuffer takes
  MaxConnects,       \* bound: connections made in all
  MaxJobs,           \* bound: scheduled jobs
  MaxUnread,         \* bound: packets of a peer nobody has received yet
  ReuseAtOnce        \* may a handle that epoll still knows name a new socket?

ASSUME LoopAssumption ==
  /\ SOCKETs \subseteq Nat /\ IsFiniteSet(SOCKETs) /\ mListenSocket \in SOCKETs
  /\ SockIds # {}
  /\ Packets \subseteq {"START", "EXIT", "RACKET"}
  /\ UPDATE_INTERVAL \in Nat /\ MaxTurn \in Nat /\ Delays \subseteq Nat
  /\ SendCapacity \in Nat /\ MaxConnects \in Nat /\ MaxJobs \in Nat /\ MaxUnread \in Nat
  /\ ReuseAtOnce \in BOOLEAN

VARIABLES
  phase,      \* what the thread is doing
  batch,      \* the events of this turn not looked at yet: the sockets
  receiving,  \* the session whose OnReceive runs
  server,
  untilUpdate,  \* units to nextUpdateTick
  net,        \* what each socket's peer did: what it sent, whether it shut down, reset
  mCurrentIssuedId

vars == <<phase, batch, receiving, server, untilUpdate, net, mCurrentIssuedId>>

NoSession == 0
Quiet     == [unread |-> << >>, shut |-> FALSE, reset |-> FALSE]

\* The conditions of a socket whose peer did this, as its driver sees them.
ConditionsOf(h, peer) ==
  {c \in {IF h = mListenSocket THEN "ACCEPT" ELSE "RECEIVE"} : peer.unread # << >>}
  \cup {c \in {"DISCONNECT"} : peer.shut} \cup {c \in {"ABORT"} : peer.reset}

Kernel(v) == [open |-> v.open, broken |-> {}, ready |-> [h \in SOCKETs |-> ConditionsOf(h, net[h])]]

\* A socket that is closed has no peer.
NetOf(v, peers) == [h \in SOCKETs |-> IF h \in v.open THEN peers[h] ELSE Quiet]

----------------------------------------------------------------------------
(* Sessions and who keeps them alive                                       *)

Owners(v) == Range(v.mClientList) \cup {j.mOwner : j \in ToSet(v.mTaskQueue)}

\* ~ClientSession, which closes the socket and so tells the driver.
Destroyed(v, uid) ==
  LET h    == v.session[uid].mSocket
      held == {r \in v.port.afd : v.port.sock[r.sock].socket = h}
  IN  [v EXCEPT !.session = [u \in DOMAIN @ \ {uid} |-> @[u]],
                !.open = @ \ {h},
                !.port = DriverCompletes(@, [r \in held |-> {"LOCAL_CLOSE"}])]

\* A shared_ptr to the session goes.
Released(v, uid) ==
  IF uid \in DOMAIN v.session \ Owners(v) THEN Destroyed(v, uid) ELSE v

\* Seeded mistake: a session that is disconnected stays in the list.
DisconnectListed(v, uid, fault) ==
  IF fault.linger THEN v ELSE [v EXCEPT !.session[uid].mConnected = FALSE]

\* fault.linger: setsockopt fails, and the session stays as it is.
Disconnect(v, uid, fault) ==
  IF ~v.session[uid].mConnected \/ fault.linger THEN v
  ELSE [v EXCEPT !.session[uid].mConnected = FALSE,
                 !.mClientList = [h \in DOMAIN @ \ {v.session[uid].mSocket} |-> @[h]]]

SendRequest(v, uid, fault) ==
  CASE ~v.session[uid].mConnected              -> v
    [] v.session[uid].sending = SendCapacity   -> Disconnect(v, uid, fault)
    [] OTHER -> [v EXCEPT !.session[uid].sending = @ + 1]

\* fault.full: the sockets that would block.
SendFlush(v, uid, fault) ==
  LET s == v.session[uid]
  IN  CASE ~s.mConnected \/ s.sending = 0 -> v
        [] net[s.mSocket].reset           -> Disconnect(v, uid, fault)
        [] s.mSocket \in fault.full       -> v
        [] OTHER -> [v EXCEPT !.session[uid].sending = 0]

\* The handles in the order of the map.
Ascending(handles) ==
  CHOOSE s \in [1 .. Cardinality(handles) -> handles] :
    \A i, j \in DOMAIN s : i < j => s[i] < s[j]

\* A range-for over mClientList that calls SendRequest or SendFlush of each
\* session: a step holds the session it visits.  A session that is erased takes
\* the iterator's node with it, and the walk may go on or end there (fault.ends),
\* or the program crash.
ForEachClient(v, call, fault) ==
  LET Visit(w, uid) == IF call = "SendFlush" THEN SendFlush(w, uid, fault)
                                            ELSE SendRequest(w, uid, fault)
      Step(w, h) ==
        IF w.erased /\ fault.ends THEN w
        ELSE LET uid  == v.mClientList[h]
                 next == Visit(w.server, uid)
             IN  [ server |-> Released(next, uid),
                   erased |-> w.erased \/ h \notin DOMAIN next.mClientList ]
  IN  Through(Step, [server |-> v, erased |-> FALSE], Ascending(DOMAIN v.mClientList))

BroadcastPacket(v, fault) == ForEachClient(v, "SendRequest", fault)
FlushClientSend(v, fault) == ForEachClient(v, "SendFlush", fault)

----------------------------------------------------------------------------
(* Jobs                                                                    *)

\* CallFuncAfter: due that long after the last DoTasks.  Bound: MaxJobs.
PushTask(v, uid, mTask, after) ==
  LET job    == [mOwner |-> uid, mTask |-> mTask, mExecutionTick |-> after]
      before == {i \in DOMAIN v.mTaskQueue : v.mTaskQueue[i].mExecutionTick <= after}
  IN  IF Len(v.mTaskQueue) >= MaxJobs THEN v
      ELSE [v EXCEPT !.mTaskQueue = InsertAt(@, Cardinality(before) + 1, job)]

DelayedBroadcastGameStatus(v, delay) ==
  LET Push(w, h) == PushTask(w, v.mClientList[h], "SendGameStatus", delay)
  IN  Through(Push, v, Ascending(DOMAIN v.mClientList))

Nearer(job, elapsed) == [job EXCEPT !.mExecutionTick = @ - elapsed]

\* The tick is updated: every due time is nearer by that much.
Ticked(v, elapsed) ==
  [v EXCEPT !.mTaskQueue = [i \in DOMAIN @ |-> Nearer(@[i], elapsed)]]

\* The job at the top is popped, and gives up its session, after it has run.
RunTask(v, job, fault) ==
  LET ran == IF job.mTask = "SendGameStatus" THEN SendRequest(v, job.mOwner, fault) ELSE v
  IN  Released([ran EXCEPT !.mTaskQueue = Tail(@)], job.mOwner)

\* Seeded mistake: a job that is due right now waits for the next turn.
IsOverdue(v) == v.mTaskQueue # << >> /\ Head(v.mTaskQueue).mExecutionTick < 0

IsDue(v) == v.mTaskQueue # << >> /\ Head(v.mTaskQueue).mExecutionTick <= 0

RunIfDue(v, fault) == IF IsDue(v) THEN RunTask(v, Head(v.mTaskQueue), fault) ELSE v

\* While the job at the top is due: there are no more turns than jobs.
DoTasks(v, fault) ==
  LET RunNext(w, job) == RunIfDue(w, fault) IN Through(RunNext, v, v.mTaskQueue)

----------------------------------------------------------------------------
(* The loop                                                                *)

NewSession(h) == [mSocket |-> h, mConnected |-> TRUE, sending |-> 0]

Event(h) == [events |-> {"EPOLLIN"}, data |-> h]

Init ==
  /\ phase = "entering"
  /\ batch = << >>
  /\ receiving = NoSession
  /\ net = [h \in SOCKETs |-> Quiet]
  /\ server = [mClientList |-> << >>, session |-> << >>, mTaskQueue |-> << >>,
               open |-> {mListenSocket},
               port |-> _ep_port_ctl_add(EmptyPort,
                          [open |-> {mListenSocket}, broken |-> {},
                           ready |-> [h \in SOCKETs |-> {}]],
                          mListenSocket, Event(mListenSocket))]
  /\ untilUpdate = 0
  /\ mCurrentIssuedId = 0

Faults == [linger : BOOLEAN, ends : BOOLEAN, full : SUBSET DOMAIN server.mClientList]

Crash ==
  /\ phase' = "crashed" /\ receiving' = NoSession
  /\ UNCHANGED <<server, net>>

\* epoll_wait up to the wait.
EnterWait ==
  /\ phase = "entering"
  /\ phase' = "polling"
  /\ server' = [server EXCEPT !.port =
       [_ep_port_update_events(@, Kernel(server)).port EXCEPT !.active = 1]]
  /\ UNCHANGED <<batch, receiving, untilUpdate, net, mCurrentIssuedId>>

\* It takes all the packets there are, and waits on when they report nothing,
\* or it times out.
Wake ==
  /\ phase = "polling"
  /\ \E fed \in {_ep_port_feed_events([server.port EXCEPT !.active = 0, !.iocp = << >>],
                                      server.port.iocp)} :
      /\ \/ phase' = "batch"
         \/ server.port.iocp # << >> /\ fed.events = << >> /\ phase' = "entering"
      /\ batch' = [i \in DOMAIN fed.events |-> fed.events[i].data]
      /\ server' = [server EXCEPT !.port = fed.port]
      /\ UNCHANGED <<receiving, untilUpdate, net, mCurrentIssuedId>>

\* Seeded mistake: the new socket is not given to epoll.
CreateUnpolledClient(v, h, uid) ==
  [v EXCEPT
     !.open = @ \cup {h},
     !.session = [u \in DOMAIN @ \cup {uid} |-> IF u = uid THEN NewSession(h) ELSE @[u]],
     !.mClientList = [g \in DOMAIN @ \cup {h} |-> IF g \in DOMAIN @ THEN @[g] ELSE uid]]

\* What epoll_ctl returns is not looked at.
CreateClient(v, h, uid) ==
  LET created == [v EXCEPT
        !.open = @ \cup {h},
        !.session = [u \in DOMAIN @ \cup {uid} |-> IF u = uid THEN NewSession(h) ELSE @[u]],
        !.mClientList = [g \in DOMAIN @ \cup {h} |-> IF g \in DOMAIN @ THEN @[g] ELSE uid]]
  IN  [created EXCEPT !.port = _ep_port_ctl_add(@, Kernel(created), h, Event(h))]

Accept ==
  /\ phase = "batch" /\ batch # << >> /\ Head(batch) = mListenSocket
  /\ mCurrentIssuedId' = mCurrentIssuedId + 1
  /\ \E h \in SOCKETs \ server.open :
       /\ ReuseAtOnce \/ ~Registered(server.port, h)
       /\ server' = CreateClient(server, h, mCurrentIssuedId')
  /\ net' = [net EXCEPT ![mListenSocket].unread = Tail(@)]
  /\ batch' = Tail(batch)
  /\ UNCHANGED <<phase, receiving, untilUpdate>>

\* An event of a socket that is not in the list any more is skipped.
StartReceive ==
  /\ phase = "batch" /\ batch # << >> /\ Head(batch) # mListenSocket
  /\ IF Head(batch) \in DOMAIN server.mClientList
     THEN /\ phase' = "receiving"
          /\ receiving' = server.mClientList[Head(batch)]
     ELSE UNCHANGED <<phase, receiving>>
  /\ batch' = Tail(batch)
  /\ UNCHANGED <<server, untilUpdate, net, mCurrentIssuedId>>

StopReceive == phase' = "batch" /\ receiving' = NoSession

\* What the handler of a packet makes the server send.
Handled(v, packet, uid, delay, fault) ==
  CASE packet = "START"  -> [server |-> SendRequest(v, uid, fault), erased |-> FALSE]
    [] packet = "EXIT"   -> BroadcastPacket(v, fault)
    [] packet = "RACKET" -> [server |-> PushTask(v, uid, "RacketAction", delay), erased |-> FALSE]

Peer == net[server.session[receiving].mSocket]

\* recv and DispatchPacket, packet by packet.  When the session is destroyed
\* meanwhile, OnReceive goes on with memory that is gone: it crashes, or finds
\* its socket closed and returns.
ReceivePacket ==
  /\ phase = "receiving" /\ Peer.unread # << >> /\ ~Peer.reset
  /\ \E delay \in Delays, fault \in [linger : BOOLEAN, ends : BOOLEAN] :
     \E done \in {Handled(server, Head(Peer.unread), receiving, delay, fault)} :
     \E v \in {Released(done.server, receiving)} :
       LET gone == receiving \notin DOMAIN v.session
           read == [net EXCEPT ![server.session[receiving].mSocket].unread = Tail(@)]
       IN  \/ /\ server' = v
              /\ net' = NetOf(v, read)
              /\ IF gone THEN StopReceive ELSE UNCHANGED <<phase, receiving>>
           \/ (done.erased \/ gone) /\ Crash
  /\ UNCHANGED <<batch, untilUpdate, mCurrentIssuedId>>

\* Seeded mistake: recv is tried again until there is something to read.
ReceiveAgain == phase = "receiving" /\ Peer = Quiet /\ UNCHANGED vars

\* WSAEWOULDBLOCK.  (When the peer has shut down, recv returns 0 instead, and
\* the loop goes round without a change.)
NoMoreData ==
  /\ phase = "receiving" /\ Peer = Quiet
  /\ StopReceive
  /\ UNCHANGED <<batch, server, untilUpdate, net, mCurrentIssuedId>>

ReceiveError ==
  /\ phase = "receiving" /\ Peer.reset
  /\ \E linger \in BOOLEAN :
       server' = Released(Disconnect(server, receiving, [linger |-> linger]), receiving)
  /\ net' = NetOf(server', net)
  /\ StopReceive
  /\ UNCHANGED <<batch, untilUpdate, mCurrentIssuedId>>

ScheduledJobs ==
  /\ phase = "batch" /\ batch = << >>
  /\ phase' = "updating"
  /\ \E elapsed \in 1 .. MaxTurn, linger \in BOOLEAN :
       /\ server' = DoTasks(Ticked(server, elapsed), [linger |-> linger])
       /\ untilUpdate' = untilUpdate - elapsed
  /\ net' = NetOf(server', net)
  /\ UNCHANGED <<batch, receiving, mCurrentIssuedId>>

\* OnFrameUpdate, when a frame is due; while a game is played it broadcasts.
GameLogicUpdate ==
  /\ phase = "updating"
  /\ phase' = "flushing"
  /\ IF untilUpdate > 0
     THEN UNCHANGED <<server, untilUpdate>>
     ELSE /\ untilUpdate' = UPDATE_INTERVAL
          /\ \/ UNCHANGED server
             \/ \E delay \in Delays : server' = DelayedBroadcastGameStatus(server, delay)
  /\ UNCHANGED <<batch, receiving, net, mCurrentIssuedId>>

PacketBroadcast ==
  /\ phase = "flushing"
  /\ \E fault \in Faults : \E flushed \in {FlushClientSend(server, fault)} :
       \/ /\ server' = flushed.server
          /\ net' = NetOf(flushed.server, net)
          /\ phase' = "entering" /\ UNCHANGED receiving
       \/ flushed.erased /\ Crash
  /\ UNCHANGED <<batch, untilUpdate, mCurrentIssuedId>>

----------------------------------------------------------------------------
(* The peers                                                               *)
(* What happens while the thread is in no call that looks at sockets comes *)
(* to the same as its happening when it waits again.                       *)

\* A poll that waits for what happened now completes at once.
Happens(h, now) ==
  LET Met(r) == r.mask \cap ConditionsOf(h, now)
      R == {r \in server.port.afd : server.port.sock[r.sock].socket = h /\ Met(r) # {}}
  IN  /\ phase \in {"polling", "batch", "receiving"}
      /\ h \in server.open
      /\ net' = [net EXCEPT ![h] = now]
      /\ server' = [server EXCEPT !.port = DriverCompletes(@, [r \in R |-> Met(r)])]
      /\ UNCHANGED <<phase, batch, receiving, untilUpdate, mCurrentIssuedId>>

\* Bounds: connections in all, and handles to accept them with.
PeerConnects ==
  LET waiting == Len(net[mListenSocket].unread)
      free    == SOCKETs \ (server.open \cup DOMAIN server.port.tree)
  IN  /\ mCurrentIssuedId + waiting < MaxConnects /\ waiting < Cardinality(free)
      /\ Happens(mListenSocket, [net[mListenSocket] EXCEPT !.unread = Append(@, "connect")])

PeerSends(h) ==
  /\ h # mListenSocket /\ ~net[h].shut /\ ~net[h].reset /\ Len(net[h].unread) < MaxUnread
  /\ \E p \in Packets : Happens(h, [net[h] EXCEPT !.unread = Append(@, p)])

PeerShutsDown(h) ==
  /\ h # mListenSocket /\ ~net[h].shut /\ ~net[h].reset
  /\ Happens(h, [net[h] EXCEPT !.shut = TRUE])

PeerResets(h) ==
  /\ h # mListenSocket /\ ~net[h].reset
  /\ Happens(h, [Quiet EXCEPT !.reset = TRUE])

----------------------------------------------------------------------------
Turn ==
  \/ EnterWait \/ Wake
  \/ Accept \/ StartReceive \/ ReceivePacket \/ NoMoreData \/ ReceiveError
  \/ ScheduledJobs \/ GameLogicUpdate \/ PacketBroadcast

Peers ==
  \/ PeerConnects
  \/ \E h \in SOCKETs : PeerSends(h) \/ PeerShutsDown(h) \/ PeerResets(h)

Next == Turn \/ Peers

\* The thread goes on; a peer does not go on sending as fast as it is read;
\* nothing else is assumed of the peers.
Spec == Init /\ [][Next]_vars /\ WF_vars(Turn) /\ SF_vars(NoMoreData)

----------------------------------------------------------------------------
(* Properties                                                              *)

Phases == {"entering", "polling", "batch", "receiving", "updating", "flushing", "crashed"}

TypeOK ==
  /\ phase \in Phases
  /\ ToSet(batch) \subseteq SOCKETs
  /\ receiving \in DOMAIN server.session \cup {NoSession}
  /\ DOMAIN server.mClientList \subseteq SOCKETs \ {mListenSocket}
  /\ untilUpdate \in -MaxTurn .. UPDATE_INTERVAL
  /\ \A j \in ToSet(server.mTaskQueue) :
       \E delay \in Delays : j.mExecutionTick = delay \/ j.mExecutionTick \in 1 .. delay
  /\ mCurrentIssuedId \in 0 .. MaxConnects

(* The list, the sessions in memory and the handles that are open agree: a *)
(* listed session is connected and listed under its own handle; a session  *)
(* stays in memory as long as the list or a job owns it and no longer, and *)
(* its handle is open exactly that long and names no other.                *)
SessionsOwnHandles ==
  phase # "crashed" =>
    LET session == server.session
    IN  /\ \A h \in DOMAIN server.mClientList :
             /\ server.mClientList[h] \in DOMAIN session
             /\ session[server.mClientList[h]].mSocket = h
        /\ \A u \in DOMAIN session :
             session[u].mConnected <=> u \in Range(server.mClientList)
        /\ DOMAIN session = Owners(server)
        /\ server.open \ {mListenSocket} = {session[u].mSocket : u \in DOMAIN session}
        /\ \A u, w \in DOMAIN session : session[u].mSocket = session[w].mSocket => u = w

(* Whenever the loop waits, epoll watches the listening socket and every   *)
(* listed session: each has a poll with the driver, or its packet is there *)
(* to be taken; a condition that holds never waits for the next one.       *)
EveryoneIsPolled ==
  phase = "polling" =>
    \A h \in DOMAIN server.mClientList \cup {mListenSocket} :
      /\ Registered(server.port, h)
      /\ LET id     == server.port.tree[h]
             Comes  == \E i \in DOMAIN server.port.iocp : server.port.iocp[i].sock = id
         IN  /\ server.port.sock[id].poll_status = PENDING
             /\ Comes <=> ConditionsOf(h, net[h]) # {}

NobodyHangsUp == [](\A h \in SOCKETs : ~net[h].shut)
Survives      == [](phase # "crashed")

Hears(h) ==
  IF h = mListenSocket THEN batch # << >> /\ Head(batch) = h
  ELSE phase = "receiving" /\ server.session[receiving].mSocket = h

(* What a client sends is received, a client that connects is accepted,    *)
(* and a client that is gone is noticed: over and over while it cannot be  *)
(* disconnected.                                                           *)
EveryoneIsHeard ==
  NobodyHangsUp /\ Survives =>
    \A h \in SOCKETs :
      []<>(net[h].unread # << >> \/ net[h].reset => Hears(h))

(* The game goes on, at 20 frames per second.                              *)
FramesGoOn == Survives => []<>(untilUpdate = UPDATE_INTERVAL)

(* It does as long as no peer shuts its side of a connection down, however *)
(* many are reset.                                                         *)
FramesGoOnWithResets == NobodyHangsUp => FramesGoOn
=============================================================================
