-------------------------------- MODULE Pong --------------------------------
(***************************************************************************)
(* The whole game: clients, their connections, the server's delayed jobs   *)
(* and its GameManager.                                                    *)
(*                                                                         *)
(* A connection is two TCP streams of whole packets.  The server's loop    *)
(* receives, runs the jobs that are due, and every 50 ms advances a frame; *)
(* a job waits rand() % 100 ms, so its wait is counted in frames that pass *)
(* before it runs, and jobs between the same two frames run in any order.  *)
(* down[c] is what the server has written for c: its send buffer and the   *)
(* network together.                                                       *)
(***************************************************************************)
EXTENDS GUIController, Bags

CONSTANTS
  Clients,      \* client machines
  MAX_REWIND,
  Inputs,       \* what GetRacketInput may find: <<posDiff, isFire>>
  Garbage,      \* what an uninitialized counter of a new client may hold
  MaxWait,      \* frames a job may wait
  MaxUid,       \* bound: sessions ever accepted
  MaxClicks,    \* bound: menu entries ever chosen
  MaxFrame,     \* bound: frames of a game
  MaxInput,     \* bound: input numbers of a client
  MaxPosY,      \* bound: how far a racket moves
  MaxQueue      \* bound: packets on their way in one direction

ASSUME PongAssumption ==
  /\ MAX_REWIND \in Nat \ {0}
  /\ \A input \in Inputs : input[1] \in Int /\ input[2] \in BOOLEAN
  /\ Garbage \subseteq Int
  /\ MaxWait \in Nat /\ MaxUid \in Nat /\ MaxClicks \in Nat
  /\ MaxFrame \in Nat /\ MaxInput \in Nat /\ MaxPosY \in Nat /\ MaxQueue \in Nat

VARIABLES
  mPlayerUid, mResyncNeededInputFrame, mCurrentWorldFrame, mFrameHistory,
  mCurrentIssuedId,
  mUniqueId,    \* the session of each client, 0 when it has none
  gui,          \* the client programs
  up, down,     \* packets from and to each client
  jobs,         \* the scheduler's queue, a bag
  clicks        \* menu entries chosen so far, for the bound

Server == INSTANCE GameManager WITH
            Uids <- 1 .. MaxUid, PosDiffs <- {input[1] : input \in Inputs}

server  == <<mPlayerUid, mResyncNeededInputFrame, mCurrentWorldFrame, mFrameHistory>>
session == <<mCurrentIssuedId, mUniqueId>>
vars    == <<server, session, gui, up, down, jobs, clicks>>

Connected   == {c \in Clients : mUniqueId[c] # 0}
SessionOf(uid) == {c \in Connected : mUniqueId[c] = uid}

Init ==
  /\ Server!Init
  /\ mCurrentIssuedId = 0
  /\ mUniqueId = [c \in Clients |-> 0]
  /\ gui = [c \in Clients |-> Reset]
  /\ up = [c \in Clients |-> << >>]
  /\ down = [c \in Clients |-> << >>]
  /\ jobs = EmptyBag
  /\ clicks = 0

----------------------------------------------------------------------------
(* Connections                                                             *)

\* Seeded mistake: ids of sessions that are gone are issued again.
ConnectReusingId(c) ==
  LET free == {uid \in 1 .. MaxUid : SessionOf(uid) = {}}
  IN  /\ mUniqueId[c] = 0
      /\ mCurrentIssuedId < MaxUid
      /\ mCurrentIssuedId' = mCurrentIssuedId + 1
      /\ mUniqueId' = [mUniqueId EXCEPT ![c] =
                         CHOOSE uid \in free : \A other \in free : uid <= other]
      /\ \E w, i \in Garbage : gui' = [gui EXCEPT ![c] = Fresh(w, i)]
      /\ UNCHANGED <<server, up, down, jobs, clicks>>

\* A client program starts; the server accepts it under a new id.
Connect(c) ==
  /\ mUniqueId[c] = 0
  /\ mCurrentIssuedId < MaxUid
  /\ mCurrentIssuedId' = mCurrentIssuedId + 1
  /\ mUniqueId' = [mUniqueId EXCEPT ![c] = mCurrentIssuedId + 1]
  /\ \E w, i \in Garbage : gui' = [gui EXCEPT ![c] = Fresh(w, i)]
  /\ UNCHANGED <<server, up, down, jobs, clicks>>

\* Seeded mistake: a player who is gone leaves the seat, and the game runs on.
DisconnectFreeingSeat(c) ==
  /\ mUniqueId[c] # 0
  /\ mCurrentIssuedId < MaxUid
  /\ mUniqueId' = [mUniqueId EXCEPT ![c] = 0]
  /\ mPlayerUid' = [s \in Sides |-> IF mPlayerUid[s] = mUniqueId[c] THEN 0 ELSE mPlayerUid[s]]
  /\ gui' = [gui EXCEPT ![c] = Reset]
  /\ up' = [up EXCEPT ![c] = << >>]
  /\ down' = [down EXCEPT ![c] = << >>]
  /\ UNCHANGED <<mResyncNeededInputFrame, mCurrentWorldFrame, mFrameHistory,
                 mCurrentIssuedId, jobs, clicks>>

\* The server sees a socket error.  Jobs of the session stay queued, and the
\* game does not hear of it.  (The bound keeps a session for a successor.)
Disconnect(c) ==
  /\ mUniqueId[c] # 0
  /\ mCurrentIssuedId < MaxUid
  /\ mUniqueId' = [mUniqueId EXCEPT ![c] = 0]
  /\ gui' = [gui EXCEPT ![c] = Reset]
  /\ up' = [up EXCEPT ![c] = << >>]
  /\ down' = [down EXCEPT ![c] = << >>]
  /\ UNCHANGED <<server, mCurrentIssuedId, jobs, clicks>>

----------------------------------------------------------------------------
(* The client                                                              *)

Send(c, packet) ==
  /\ Len(up[c]) < MaxQueue
  /\ up' = [up EXCEPT ![c] = Append(@, packet)]

Click == clicks < MaxClicks /\ clicks' = clicks + 1

MenuStart(c) ==
  /\ Click
  /\ c \in Connected /\ ~Started(gui[c])
  /\ Send(c, [mType |-> "PKT_CS_START"])
  /\ UNCHANGED <<server, session, gui, down, jobs>>

MenuGiveUp(c) ==
  /\ Click
  /\ c \in Connected /\ Started(gui[c]) /\ Plays(gui[c])
  /\ Send(c, [mType |-> "PKT_CS_EXIT", mPlayerType |-> gui[c].mMyPlayerType])
  /\ UNCHANGED <<server, session, gui, down, jobs>>

\* The early return, for a client that shows no game.
Idle(c) == c \in Connected /\ ~Started(gui[c]) /\ UNCHANGED vars

OnUpdate(c, posDiff, shoot) ==
  /\ c \in Connected /\ Started(gui[c])
  /\ Changed(gui[c], posDiff, shoot) => gui[c].mRecentInputFrame < MaxInput
  /\ gui' = [gui EXCEPT ![c] = AfterUpdate(@, posDiff, shoot)]
  /\ IF Changed(gui[c], posDiff, shoot) /\ Plays(gui[c])
     THEN Send(c, [mType |-> "PKT_CS_RACKET",
                   mRequest |-> RacketRequest(gui[c], posDiff, shoot)])
     ELSE UNCHANGED up
  /\ UNCHANGED <<server, session, down, jobs, clicks>>

\* ProcessPacket, one packet at a time.
ProcessPacket(c) ==
  /\ down[c] # << >>
  /\ LET packet == Head(down[c])
     IN  gui' = [gui EXCEPT ![c] =
                   IF packet.mType = "PKT_SC_START"
                   THEN OnGameStart(packet.mYourPlayerType)
                   ELSE OnStatusChange(@, packet.mStatus)]
  /\ down' = [down EXCEPT ![c] = Tail(@)]
  /\ UNCHANGED <<server, session, up, jobs, clicks>>

----------------------------------------------------------------------------
(* The server's handlers                                                   *)

Receive(c, type) ==
  /\ up[c] # << >> /\ Head(up[c]).mType = type
  /\ up' = [up EXCEPT ![c] = Tail(@)]

\* Room for one more packet towards every client in S.
RoomFor(S) == \A c \in S : Len(down[c]) < MaxQueue

Write(S, packet) ==
  /\ RoomFor(S)
  /\ down' = [c \in Clients |-> IF c \in S THEN Append(down[c], packet) ELSE down[c]]

StatusPacket(status) == [mType |-> "PKT_SC_GAME_STATUS", mStatus |-> status]

Handler_PKT_CS_START(c) ==
  /\ Receive(c, "PKT_CS_START")
  /\ Server!StartGame(mUniqueId[c])
  /\ IF Server!StartResult = PLAYER_NONE
     THEN UNCHANGED down
     ELSE Write({c}, [mType |-> "PKT_SC_START", mYourPlayerType |-> Server!StartResult])
  /\ UNCHANGED <<session, gui, jobs, clicks>>

Handler_PKT_CS_EXIT(c) ==
  /\ Receive(c, "PKT_CS_EXIT")
  /\ LET player == Head(up[c]).mPlayerType
     IN  IF player = Server!GetPlayerType(mUniqueId[c])
         THEN /\ Write(Connected, StatusPacket(
                   [mGameStatus |-> Server!GiveUpStatus(player),
                    mResyncNeededInputFrame |-> Server!NoResync]))
              /\ Server!RequestGiveUp(player)
         ELSE UNCHANGED <<server, down>>
  /\ UNCHANGED <<session, gui, jobs, clicks>>

RacketJob(uid, wait, req) ==
  [mOwner |-> uid, wait |-> wait, task |-> "RacketAction", arg |-> req]
StatusJob(uid, wait, status) ==
  [mOwner |-> uid, wait |-> wait, task |-> "SendGameStatus", arg |-> status]

Handler_PKT_CS_RACKET(c) ==
  /\ Receive(c, "PKT_CS_RACKET")
  /\ LET req == Head(up[c]).mRequest
     IN  IF req.mPlayerType = Server!GetPlayerType(mUniqueId[c])
         THEN \E wait \in 0 .. MaxWait :
                jobs' = jobs (+) SetToBag({RacketJob(mUniqueId[c], wait, req)})
         ELSE UNCHANGED jobs
  /\ UNCHANGED <<server, session, gui, down, clicks>>

----------------------------------------------------------------------------
(* The server's loop                                                       *)

Due == {j \in BagToSet(jobs) : j.wait = 0}

\* DoTasks runs j.
Runs(j) == jobs' = jobs (-) SetToBag({j})

RunRacketAction(j) ==
  /\ j.task = "RacketAction"
  /\ Server!InRange(j.arg)
  /\ Runs(j)
  /\ Server!RacketAction(j.arg) \/ Server!RejectRacket(j.arg)
  /\ UNCHANGED <<session, gui, up, down, clicks>>

\* SendRequest does nothing for a session that is gone.
RunSendGameStatus(j) ==
  /\ j.task = "SendGameStatus"
  /\ Runs(j)
  /\ Write(SessionOf(j.mOwner), StatusPacket(j.arg))
  /\ UNCHANGED <<server, session, gui, up, clicks>>

\* A frame later, every job waits one frame less.
Sooner(j) == [j EXCEPT !.wait = @ - 1]
Later(j)  == [j EXCEPT !.wait = @ + 1]
OneFrameSooner(bag) == [j \in {Sooner(i) : i \in BagToSet(bag)} |-> bag[Later(j)]]

\* The delayed broadcast: one delay for all the sessions there are.
Broadcast(wait, status) ==
  SetToBag({StatusJob(mUniqueId[c], wait, status) : c \in Connected})

OnFrameUpdate ==
  /\ Due = {}
  /\ mCurrentWorldFrame < MaxFrame
  /\ IF Server!IsPlaying
     THEN /\ Server!OnFrameUpdate
          /\ \E wait \in 0 .. MaxWait - 1 :
               jobs' = OneFrameSooner(jobs) (+) Broadcast(wait, Server!FramePacket)
     ELSE /\ jobs' = OneFrameSooner(jobs)
          /\ UNCHANGED server
  /\ UNCHANGED <<session, gui, up, down, clicks>>

Next ==
  \/ \E c \in Clients :
       \/ Connect(c) \/ Disconnect(c)
       \/ Idle(c) \/ MenuStart(c) \/ MenuGiveUp(c) \/ ProcessPacket(c)
       \/ \E input \in Inputs : OnUpdate(c, input[1], input[2])
       \/ Handler_PKT_CS_START(c) \/ Handler_PKT_CS_EXIT(c) \/ Handler_PKT_CS_RACKET(c)
  \/ \E j \in Due : RunRacketAction(j) \/ RunSendGameStatus(j)
  \/ OnFrameUpdate

Spec == Init /\ [][Next]_vars

----------------------------------------------------------------------------
(* Properties                                                              *)

(* Type invariant of the whole game.                                       *)
TypeOK ==
  /\ Server!TypeOK
  /\ mUniqueId \in [Clients -> 0 .. mCurrentIssuedId]
  /\ \A c \in Clients : /\ gui[c].mGameStatus \in GameStatus
                        /\ gui[c].mMyPlayerType \in PlayerType
  /\ IsABag(jobs)

(* Refinement: clients, however late, stale or out of order their packets  *)
(* and jobs are, drive the GameManager only as its own module assumes.     *)
(* What is shown and proved of it there holds of the whole game.           *)
ImplementsGameManager == Server!Spec

(* A resync is only ever owed while a game runs: GameEnd drops what is     *)
(* owed, and a request that comes after it is turned away before its hash  *)
(* is compared, because an idle server is at frame 0 and no client, not    *)
(* even one that shows the status of an ended game, sends for frame 0.     *)
ResyncWithinGame ==
  \A s \in Sides : mResyncNeededInputFrame[s] # 0 => Server!IsPlaying

(* A client that shows a running game sends for the frame it shows, and    *)
(* never for frame 0: predictions, replays and resets leave the frame of   *)
(* the last broadcast and mRecentWorldFrame, which starts as garbage, in   *)
(* step.                                                                   *)
SendsForShownFrame ==
  \A c \in Connected : Started(gui[c]) =>
    /\ gui[c].mRecentWorldFrame = gui[c].mGameStatus.mWorldFrame
    /\ gui[c].mRecentWorldFrame > 0

(* The inputs a client may have to replay are its last ones, none missing  *)
(* and in order, whatever resyncs and resets came in between; so the       *)
(* inputs after fromFrame are exactly the end of the history.              *)
InputsNumbered ==
  \A c \in Connected :
    LET h == gui[c].mInputHistory
    IN  \A i \in 1 .. Len(h) :
          h[i].mInputFrame = gui[c].mRecentInputFrame - Len(h) + i - 1

(* Ids outlive their sessions -- a seat keeps the id of a player who is    *)
(* gone, a job that of its owner -- so they must never be issued twice:    *)
(* nobody who connects finds himself seated or served another's status.    *)
NoInheritance ==
  [][ \A c \in Clients : mUniqueId'[c] # mUniqueId[c] /\ mUniqueId'[c] # 0 =>
        /\ Server!GetPlayerType(mUniqueId'[c]) = PLAYER_NONE
        /\ \A j \in BagToSet(jobs) : j.mOwner # mUniqueId'[c]
        /\ \A d \in Connected : mUniqueId[d] # mUniqueId'[c] ]_vars

----------------------------------------------------------------------------
(* What the source says and the program does not do: TLC finds each of     *)
(* these violated, StartedMeansPlaying and DesyncIsRemembered in runs of   *)
(* their own, the other two when they are added to the run of Pong.cfg.    *)

(* GameManager::StartGame seats a "first player" and a "second player".    *)
(* The same client may click START twice while it waits, and takes both.   *)
TwoPlayers ==
  Server!Full => mPlayerUid[PLAYER_LEFT] # mPlayerUid[PLAYER_RIGHT]

(* GUIController::OnStatusChange takes the first running status a client   *)
(* that shows no game receives for "game just started".  A broadcast that  *)
(* was delayed past the end of the game starts it again: with nothing left *)
(* on its way, the client shows a game nobody plays.                       *)
StartedMeansPlaying ==
  \A c \in Connected :
    /\ Started(gui[c])
    /\ down[c] = << >> /\ up[c] = << >> /\ BagToSet(jobs) = {}
    => Server!IsPlaying

(* GameManager::RacketAction notes a desync so that the next broadcast     *)
(* tells the client.  Input numbers start at 0, and 0 means none is owed.  *)
DesyncIsRemembered ==
  [][ \A j \in Due :
        RunRacketAction(j) /\ Server!KnownFrame(j.arg) /\ Server!Desync(j.arg) =>
          mResyncNeededInputFrame'[j.arg.mPlayerType] # 0 ]_vars

(* Handler_PKT_CS_RACKET turns away a request for a side the session does  *)
(* not hold, "Player Type Mismatch".  The job it queues does not ask again *)
(* and moves the racket of whoever holds the side by then.                 *)
OnlyHolderMoves ==
  [][ \A j \in Due : RunRacketAction(j) =>
        \/ mPlayerUid[j.arg.mPlayerType] = j.mOwner
        \/ UNCHANGED server ]_vars
=============================================================================
