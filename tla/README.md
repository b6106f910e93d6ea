# PongRewind: a verification development

PongRewind is a two-player laser game with a server that rewinds. Clients show
their own inputs before the server has seen them; the server replays each input
on the frame the client saw, compares the hash of the outcome with the client's
prediction, and tells a client that guessed wrong to resynchronise. Packets and
broadcasts are delayed at random on purpose, up to 100 ms, which is two frames.

This directory models the program in TLA+, checks small instances with TLC and
proves the core for every value of the constants with TLAPS.

## 1. Inventory

| Part | State it keeps | Operations | Talks to |
|---|---|---|---|
| Game rules (`PongShared/GameLogic.cpp` statics, `SharedStruct.h`) | none; they change a `GameStatus` (status, frame, rackets, lasers, scores) | `ChangeGameStatus`, `GetUpdatedGameStatus`, `GetGameStatusHash`, `ResetStatus` | called by server and client |
| `RewindObject` (`GameLogic.h`) | head frame, head index, array of slots | `SetObjectForFrame`, `GetObjectForFrame`, `Clear` | owned by `GameLogic` |
| `GameManager` with `GameLogic` (server) | two seats, two owed resyncs, current frame, history | `StartGame`, `RequestGiveUp`, `RacketAction`, `OnFrameUpdate` | called by handlers, jobs and the loop; broadcasts through `ClientManager` |
| `CircularBuffer` | array and two regions A and B | `Write`, `Peek`, `Read`, `Remove`, `GetBuffer`/`GetFreeSpaceSize`/`Commit`, `BufferReset` | one per direction of a session, one per client |
| `PacketHandler` | none | one handler per request type | parses from a session, calls `GameManager`, queues jobs |
| `ClientSession` | connected, id, two buffers | `OnConnect`, `Disconnect`, `OnReceive`, `SendRequest`, `SendFlush`, `RacketAction`, `SendGameStatus` | socket, `GameManager`, `ClientManager` |
| `ClientManager` | session list, last id issued | `EventLoop`, `CreateClient`, `DeleteClient`, broadcasts, flush | everything on the server |
| `Scheduler` | priority queue of jobs, cached tick | `PushTask`, `DoTasks` | runs session calls later |
| `GUIController` (client) | side, shown status, recent frame, input counter, input history | `OnUpdate`, `OnMenuEvent`, `OnGameStart`, `OnStatusChange`, `Resync`, `Reset` | `NetController` |
| `NetController` (client) | socket, receive buffer | `Send`, `NetworkProcess`, `ProcessPacket`, requests | server, `GUIController` |
| `wepoll` (vendored; the server's only way to wait) | handle tree, ports: update and deleted queues, registered sockets, poll groups, polls in flight | `epoll_create`, `epoll_ctl`, `epoll_wait`, `epoll_close` | the AFD driver, a completion port |
| entry points, log, exception filter, INI reader, `Utils.h` | - | - | no game state |

The server is one thread: a turn of `EventLoop` receives, runs due jobs, maybe
advances a frame (every 50 ms) and flushes. Concurrency is between that thread,
the clients, the two streams of every connection, and the jobs waiting in the
scheduler. Nothing is persisted.

What is hard, and what correct means for each part:

* **Rules.** Both ends must compute the same; the end of a game is tested with
  `==`; lasers of both sides cancel.
* **RewindObject.** Index arithmetic at wrap-around, skipped frames, jumps past the
  ring, old frames. Correct: reads like a timeline (`FrameTimeline`).
* **GameManager.** Late, stale and reordered inputs; the two halves (seats, status)
  must never disagree; rewinding must be exact and must not rewrite the past;
  what is owed in one game must not leak into the next. Correct: a `Match`.
* **CircularBuffer.** Two regions that appear, swap and vanish at exact sizes.
  Correct: a byte stream that refuses only when more than half full.
* **The event loop.** One thread serves everybody, so whatever does not end in it
  stops the game; a write, a job or a handler may disconnect and destroy the very
  session that is being walked over or read from; handles are reused. Correct:
  list, sessions, handles and epoll agree; everyone is heard; frames go on.
* **Framing.** `send` and `recv` cut packets anywhere. Correct: whole, in order, all.
* **epoll.** Polls complete while sockets are changed, deleted or closed; threads wait
  without the lock; the port may be closed under them. Correct: no memory the
  driver holds is freed, no socket is forgotten, no wakeup lost, `close` returns.
* **Connections and jobs.** A job's session, seat and frame may be gone when it runs;
  broadcasts overtake each other.
* **Client.** Predictions, the input history and the shown frame must stay in step
  through broadcasts, resyncs, resets and a restart.

Every hazard is listed with its line under `hazards` in `PROJECT.json`.

## 2. Modules

| Module | Models | Notes |
|---|---|---|
| `GameRules` | the rules of one frame | pure operators on a status record |
| `RewindObject` | the ring | pure operators; the filling loop in closed form |
| `FrameTimeline` | abstract: what the history promises | no ring |
| `RewindHistory` | the ring under every legal call | refines `FrameTimeline` |
| `Match` | abstract: seats and score | no frames, lasers, history |
| `GameManager` | the server's game, one action per operation | refines `Match` |
| `CircularBuffer` | the buffer | pure operators on a buffer record |
| `ByteStream` | abstract: what a buffer promises | a sequence |
| `BufferedStream` | the buffer under every call of its owners | refines `ByteStream` |
| `GUIController` | the client program | pure operators on a client record |
| `Pong` | clients, connections, jobs, handlers, the loop | composes `GUIController` and `GameManager`; refines `GameManager` |
| `PacketStream` | framing and partial sends and receives, both directions | uses `CircularBuffer` |
| `PollGroup` | wepoll's poll group allocator | pure operators on the queue of groups |
| `Reflock` | the reference counter that destroys | pure operators on the 32-bit word |
| `EpSock` | wepoll's ports and sockets: what happens under the port's lock | pure operators on a port record |
| `Epoll` | the API under any number of threads, the driver, the sockets | composes `EpSock` and `Reflock` |
| `EventLoop` | the server's thread, phase by phase: sessions, list, jobs, handles | composes `EpSock` with the server |
| `MCPong` | input sets and symmetry for TLC | |
| `*Proofs` | lemmas and theorems | one per component |

Correspondence. Definitions keep the names of the source; `map` in `PROJECT.json`
gives the lines of each. Some things to know when reading them side by side:

* The left and right fields of the C++ structs are functions over `Sides`.
* A racket position counts `RACKET_SPEED` steps from the start position, since only the
  difference of two positions is read. `HitReach` is half a racket in steps:
  with `RACKET_HEIGHT` 30 and `RACKET_SPEED` 5 it is 3, and a laser hits when the offset is
  strictly between -3 and 3 steps. Float positions are multiples of 5 here, so
  they are exact. Rackets are unbounded in the code, as in the model.
* The hash is modelled by the tuple it hashes: collisions of 64 bits are left out.
* Frame and input numbers are naturals. At 20 frames a second the 32-bit frame
  number wraps after almost seven years of one game.
* `StartGame`, `OnStatusChange` and other functions that both change state and return a
  value appear as an action or record plus an operator for the value
  (`StartResult`, `EndsGame`, `ChangesStatus`).
* In `GameManager` the environment calls `RacketAction` with any frame and input number and
  with the right or a wrong hash, because delayed requests really are that late.
* A buffer's pointers are offsets. `SizeFirst` says which argument of `recv` is
  evaluated first in `ClientSession.cpp:71`; the language leaves it open, so both
  orders are modelled.
* `SendFlush` and `OnReceive` in `BufferedStream` are one turn of their loops: `send`
  may take any part of what it is offered and `recv` may bring any part that fits.
* `Resync` erases and replays in one pass here: `Replayed` gives the status after each remembered
  input in turn, `Replay` what one of them adds.
* `Pong` has streams of whole packets. `down[c]` is the session's send buffer and
  the network together. A job's delay is counted in the frames that pass before
  it runs: up to two for a job queued between frames, up to one for a broadcast, which
  is queued with a frame. Between two frames jobs run in any order.
* `mRecentWorldFrame` and `mRecentInputFrame` are not initialized by the constructor of
  `GUIController`: `Fresh` takes them from `Garbage`.
* `Disconnect` frees no seat and cancels no job, because `OnDisconnect` is empty
  and jobs hold their session alive.

* `PacketStream` counts in fields: a header is two, a payload none to two. The two
  directions of a connection share nothing, so a behaviour is about one of
  them, chosen initially. A turn of a loop (`send`, `recv`, one packet) is an action. What
  stays in the buffers after a torn `Send` is parsed as it is.
* In `EpSock` a port is a record; the queues are sequences, the red-black tree a function.
  An ep_sock is named by its address (`SockIds`), which is reused. The driver's side
  (`afd`, `iocp`) is in the same record: a poll request stays in `afd` until the driver
  completes it, and its packet in `iocp` until a waiter takes it. `CancelIoEx` completes
  the request at once; the packet comes when it comes. An ep_sock's poll watches the
  mask of the user's events at the time of submission.
* In `Epoll` everything a call does under the port's lock is one step. `epoll_wait` has
  three: up to the wait, the packets taken without the lock, and what it makes
  of them. `epoll_close` has one for each of its calls.
* `EventLoop` has one action per phase of a turn and one per packet received. Its
  sockets' packets say only what they make the server send: START answers the
  sender, EXIT broadcasts, RACKET queues a job. Time passes in `ScheduledJobs`, in units
  no longer than a turn (`MaxTurn`); `UPDATE_INTERVAL` and `Delays` are in the same units and
  due times are relative to the last `DoTasks`. Jobs of equal due time run in the order
  they were queued; the heap may run them in another.
  `Released` is the moment the last `shared_ptr` goes; `linger` is a failing
  `setsockopt`, `full` the sockets that would block, `ends` how a walk over an erased node
  goes on. Using memory that is gone either crashes or goes on as a return.

Definitions marked "Seeded mistake" are not part of the model. Each is a
plausible slip in the definition that follows it; `mutants` in `PROJECT.json` pairs it
with the property that notices when it takes that definition's place.

## 3. Runs

| Run | Bounds | Checks | Shows |
|---|---|---|---|
| `RewindHistory` | ring of 3, frames to 7, 3 objects | `TypeOK`, `ImplementsTimeline` | every wrap, gap, jump and rewrite reads like the timeline |
| `GameManager` | 2 uids, 4 frames, ring of 2, 2 points to win, lasers of 2 frames, rackets within 1 step | `TypeOK`, `SeatedIffPlaying`, `RewindIsExact`, `ScoreOpen`, `PastIsImmutable`, `ImplementsMatch` | the server's game is consistent under any order of calls |
| `BufferedStream` | 4 bytes of 2 values, size first | `TypeOK`, `RegionsApart`, `HalfIsAccepted`, `ImplementsByteStream` | the regions are invisible |
| `Pong` | 2 clients, 2 sessions, 4 menu choices, 2 frames, waits to 2 frames, 1 input each, garbage 0 or 1 | `TypeOK`, `SendsForShownFrame`, `ImplementsGameManager`, `NoInheritance` | sessions, delayed jobs and stale packets |
| `PongResync` | 4 frames, 2 inputs each, waits to 1 frame, 2 menu choices | `ResyncWithinGame`, `InputsNumbered` | desyncs found, broadcast and resynced |
| `PacketStream` | buffers of 10 fields, TCP takes 3, chunks of 2, 4 packets | `TypeOK`, `WholeInOrder`, `NeverAborts`, `EverythingArrives` | packets arrive whole, in order and all, unless a `Send` left one half sent |
| `Epoll` | 2 sockets, 2 addresses, groups of 1, 1 waiter, 1 caller, one-shot reads, one packet per wait | `TypeOK`, `KernelHoldsLiveMemory`, `NobodyForgotten`, `NoLostWakeup`, `GroupsPacked` | sockets added, changed, deleted, closed and reopened while polls are in flight and the port comes and goes |
| `EpollLiveness` | 1 socket that may break, 2 waiters, 1 caller, level-triggered reads and one-shot reads and writes | `KernelHoldsLiveMemory`, `NobodyForgotten`, `PortOutlivesCalls`, `CloseReturns`, `ReadyIsReported` | `epoll_close` against waiters without a timeout; ready sockets are reported |
| `EventLoop` | listener and 2 handles, 2 connections, 1 packet unread each, 2 jobs, send buffer of 1, frame every 2 units | `TypeOK`, `SessionsOwnHandles`, `EveryoneIsPolled`, `EveryoneIsHeard`, `FramesGoOnWithResets` | sessions, handles and epoll agree through every fault; nobody starves |

In `PacketStream` three fields in flight cut every packet everywhere, and ten make both
buffers open and swap their second region; the client's assertion is safe because
a chunk and the rest of a packet are at most half of the buffer, as in the code
(4096 and 36 of 32768 bytes; here 2 and 3 of 10). `EventLoop` needs two connections for a session to die of
another one's packet, a send buffer of one for a second write to fail, and handles
to spare: `ReuseAtOnce = FALSE` says that `accept` does not return a handle epoll still has on
file. With TRUE, four handles, three connections and EXIT alone, TLC finds
`EveryoneIsPolled` violated, which is a finding. `CHECK_DEADLOCK FALSE` is said where the model
may stop: a crash of the server, and all packets sent.

`PongResync` gives every client the two inputs a resync needs (the first, number 0,
can never be resynced) and enough frames for the broadcast to come back
while the game runs, and for frames to leave the ring; its broadcasts arrive
in order. Deadlock is checked in all runs. `Machines` (the permutations of the
clients) is a symmetry: no definition chooses one. All bounds are constants of
the modules, and each is commented where it is declared: `MaxUid`, `MaxClicks`, `MaxFrame`,
`MaxInput`, `MaxPosY`, `MaxQueue` only stop the environment (`MaxPosY` also a queued
racket job, as in `GameManager`). `MaxWait` is the source's:
`rand() % 100` ms at 50 ms a frame is 2.

Why they are enough: the ring has branches for within, at the end of and
beyond its size, all of which 3 slots and 8 frames reach; a game of four
frames with a ring of two has frames that are current, remembered and
forgotten; two points make a winning and a non-winning one; four bytes open,
fill, drain and swap both regions, and all five buffer theorems hold for any
capacity.

Three runs are expected to fail. Each checks what a comment or message of the source
says, and the program does otherwise; `findings` in `PROJECT.json` quotes the lines. (The
other findings have no run of their own: each says how to see it.)

| Run | Property | What happens |
|---|---|---|
| `PongLateStatus` | `StartedMeansPlaying` | a running status delayed past the end starts a game nobody plays; the client's menu is dead |
| `PongFirstInput` | `DesyncIsRemembered` | input number 0 is also "none owed": the first desync is forgotten |
| `EventLoopShutdown` | `FramesGoOn` | a client shuts its side down, `recv` returns 0 for ever, and the server does nothing else any more |

Fairness. `Pong`, `GameManager` and the data structures assume none.

* `PacketStream`: weak fairness of each program's own steps and of the flush, which every
  turn of the loop makes. A client need not send anything.
* `Epoll`: weak fairness of a thread inside a call, of the hand-over of a keyed event, of
  a waiter's next call, and of the driver completing a poll whose condition
  holds. Nothing is assumed of callers' next calls or of timeouts: a waiter may
  sleep for ever, as with a timeout of -1, unless a packet or a close wakes it.
* `EventLoop`: weak fairness of the thread, and strong fairness of `NoMoreData`: `OnReceive` reads until
  nothing is left, and only a peer that is slower than the server makes it end.
  The bound on unread packets does not give that, so it is assumed and named
  (`Spec`). `FramesGoOnWithResets` assumes that nobody shuts a connection down, the case
  `EventLoopShutdown` is about; both assume the process has not crashed (`Survives`).

## 4. Proofs

Every proof is checked to the last leaf and depends on the named assumptions only:
`RulesAssumption`, `RewindAssumption`, `ManagerAssumption`, `HistoryAssumption`,
`CapacityAssumption`, `StreamAssumption`, `PacketAssumption`, `PongAssumption`, `ThreadsAssumption`,
`EventsAssumption`, `SockIdsAssumption`, `GroupSizeAssumption`, `LoopAssumption` (constants have their types and are positive where the code needs it). `PacketAssumption` also says what
the code's numbers satisfy and its assertions rest on: a chunk and the rest of a packet fill at most
half of a buffer.

* `RewindHistoryProofs`: what `GetObjectForFrame` reads after `SetObjectForFrame`, by the place of the
  frame: the object at and after it, the previous head in the gap, unchanged
  within the window. From it `RingTypeCorrect`, and `RingImplementsTimeline`: the ring refines the timeline.
* `GameManagerProofs`: first the rules: inputs, frames and surrender map statuses to statuses; a frame
  gives at most one point, to one side, and says so exactly when it wins; inputs
  leave the score alone. Then the inductive invariant `IInv` joins `TypeOK`, `SeatedIffPlaying`, `RewindIsExact`
  and `ScoreOpen`. None is inductive alone: that the game ends with seats and status
  in step needs the head of the ring to be the current frame; that the head
  is the current frame needs statuses to carry their frame; and the score of the
  next frame needs the present one. From it follow the invariants,
  `PastStaysPut` and the refinement `ManagerImplementsMatch`.
* `CircularBufferProofs`: what each operation of the buffer does to the bytes it holds. The invariant `Good`
  joins the type and `Apart`, which says more than that the regions are disjoint: B starts
  at the front and exists only while A holds bytes and had more room before it than after
  it. Without that clause neither `HalfIsAccepted` nor the moves of `Switch` would follow.
* `BufferedStreamProofs`: from those lemmas the buffer's invariants and `BufferImplementsStream`, which needs
  `SizeFirst`.
* `PacketStreamProofs`: `PacketsWholeInOrder` and `ClientNeverAborts`. "Whole and in order" says nothing of
  what is on its way, so the inductive invariant is conservation: what the receiver holds, what TCP
  carries and what the sender still has, joined, are the packets that were sent and not
  dispatched, one after the other. Then the header the receiver sees is the header of a
  packet, and consuming its size leaves the same for the rest. Once a `Send` has left a packet half
  sent (`whole` is false) conservation claims nothing, but the types and the client's assertions
  hold as before.
* `PongProofs`: the whole game. `IInv` has a part for each place a value can wait in. `ServerOK`: the server's
  own invariant, and no resync owed outside a game. `IdsOK`: every id anybody holds has been issued.
  `GuisOK`: every client's status is one, the frame it sends for is the frame it shows, its history
  ends where its counter is. `PacketsOK` and `JobsOK`: what is on its way was true when it was sent,
  so a late request still names a frame above 0 and a real side, which is what
  the server's handlers rely on without looking. The parts need each other: a client is
  sane because broadcasts are, those because the server's frames are, and the server because
  requests are. From it `PongImplementsGameManager` follows step by step (each handler and job is an operation of
  `GameManager` or leaves it alone), and with the server's theorems, instantiated,
  `PongImplementsMatch`.

* `EpollProofs`: every safety property of the port, for any threads, sockets, events, group size and
  poll masks, from `IInv`, which joins `Life` and `PortInv`.
  `Life` says at each moment of the port's life what the 32 bits
  of its reflock count: the threads with a reference, and from the moment the closing thread
  gives its own back the destroy flag besides. Either the port can be found and nobody closes it,
  or one thread does, first among the others, then waiting for them, then alone; the
  thread that is about to signal exists exactly while the closing one waits and nobody has a reference.
  `PortOutlives` needs no more.
  `PortInv` says that the port is sound: `Queued` (an ep_sock is once in one queue at most, that of its kind),
  `Listed` (the tree and the ep_socks that are not deleted name each other), `Owed` (a poll that is not over
  is in exactly one place: with the driver, in the completion port, or among the packets a thread
  has taken and not yet fed), `Grouped` and `Attended` (who looks after an ep_sock next). `KernelHoldsLiveMemory`
  alone is not inductive: that a fed packet's ep_sock may be freed needs that no
  second packet is on its way, that needs a new poll to be submitted only when the
  last is over, and the last conjunct, that a deleted port leaves nobody behind, needs `Listed` and
  `Attended`, for `ep_port_delete` frees what is in the tree and in the deleted queue. The packets
  a thread carries join the two halves: it has a reference while it carries them, so no
  thread deletes the port meanwhile. Each operator on a port has a lemma that says what it keeps; passes
  over a queue go by induction on what is done so far.
  `ThreadsAssumption`: fewer threads than 28 bits count. `SockIdsAssumption`: finitely many addresses.
  `PollGroup`'s assumption: a group has room for one.

* `EventLoopProofs`: the safety of the server's thread, for any sockets, clients, packets, delays, jobs, buffer
  sizes and faults. `IInv` has these parts. `SessionsOK`: who is in the list, in memory and in a job's hands
  agree; its parameter names the sessions a caller is working on, which nobody else may own any more, so
  that every call inside a handler has a lemma of its own (`DisconnectIs`, `ReleasedIs`, `WalkIs` for the walk
  over a list that loses nodes meanwhile). `PortOK`: each ep_sock is once in the update queue or has one poll, with the
  driver or in a packet; a poll the driver holds is of an open handle in no condition, and the packet of a live
  handle says that it is in one. `BatchOK` and `ReceivingOK`: a handle with an event not looked at, or that is
  read from, has no poll, which is why what is read meanwhile cannot make a poll's outcome stale. `PollingOK`,
  `TimesOK` (the queue is in order and nothing in it overdue when a turn begins), `IssuedOK` (a uid is never
  issued twice). None of the run's invariants is inductive alone: that a session is destroyed once and its handle closed with it
  needs the list and the jobs together; that everyone is polled needs, besides the port, that handles are
  open as long as their sessions are in memory. Each action has a lemma, and each call in it one that says
  what it leaves alone (`Reduced`: it unlists and destroys, and creates nothing).
  `SessionsOwned` holds however handles are reused. `Polled` is under `NoReuse`, stated in the theorem: `accept` returns no handle
  epoll has on file, and there are as many addresses for ep_socks as handles, that is, `malloc` does not fail. Without
  the first it is false, as said in section 3; the second is needed because nobody looks at what `epoll_ctl`
  returns. The run satisfies both.

`Replayed`, the packets a buffer holds (`FlattenSeq`), passes over a queue (`Through`) and other recursive functions are reasoned about by
`SetInduction`: a set of naturals that has 0 and with each number the next has them all. It is proved
from the well-foundedness of `<`; the library's own induction theorems take an
operator as a parameter, which the provers here cannot instantiate.

So every safety property the passing runs check is a theorem. Only model-checked: liveness
(`EverythingArrives`, `CloseReturns`, `ReadyIsReported`, `EveryoneIsHeard`, `FramesGoOnWithResets`), which is out of reach of the
prover here because it rests on fairness, that is on ENABLED.

## 5. What is not modelled, and why

Log, exception filter, entry points, drawing, key codes and texts hold no game
state; the INI reader is a vendored parser of a file read once at start. `EchoBack` is compiled out
(`ECHO_MODE`), `OnTick` is never called. `NetController::Connect` is socket set-up.

Of `wepoll`: error codes; failed allocations, except that a table full of ep_socks stands for
one; the red-black tree, which is a function here; the look-up of a socket's base
provider, so one poll group allocator stands for all (the server has TCP sockets only);
handles of something that is no port. The reference count of a reflock has 28 bits; it
would need as many threads to overflow.

Of the event loop: a failing `accept` (see the findings); one packet per socket waits in the completion
port at most, so the limit of 1024 events is never met. A client that resets before `accept` is a
client that resets right after it.

## 6. Plan

Done, in order: rules and ring; `GameManager`; the buffer; the client; `Pong`; `wepoll`; the
event loop with scheduler, sessions and faults; framing; the safety of each of them proved.

Next, to model:

1. One client under arbitrary broadcasts: what a resync replays with several inputs in
   flight, and which broadcasts are ignored; abstract: the shown status is the
   server's plus the inputs it does not have yet.
2. `Pong` with `EventLoop`'s turn in place of its own loop.
