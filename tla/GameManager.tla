---------------------------- MODULE GameManager ----------------------------
(***************************************************************************)
(* The server's game: GameManager with the GameLogic it owns.  One action  *)
(* per public operation.  Requests reach RacketAction late and in any      *)
(* order, from the running game or from an earlier one, so the environment *)
(* of this module calls it with any frame number and input number.         *)
(*                                                                         *)
(* GameLogic::mGameStatus is not modelled: it is reset and never read.     *)
(***************************************************************************)
EXTENDS GameRules, RewindObject

CONSTANTS
  Uids,        \* session ids; 0 means nobody
  PosDiffs,    \* racket steps of one input
  MaxFrame,    \* bound: frames of one game
  MaxPosY,     \* bound: how far a racket moves from its first position
  MaxInput     \* bound: input numbers of one client

ASSUME ManagerAssumption ==
  /\ Uids \subseteq Nat \ {0}
  /\ PosDiffs \subseteq Int
  /\ MaxFrame \in Nat /\ MaxPosY \in Nat /\ MaxInput \in Nat

VARIABLES
  mPlayerUid,               \* mLeftPlayerUid and mRightPlayerUid
  mResyncNeededInputFrame,  \* mLeft- and mRightResyncNeededInputFrame
  mCurrentWorldFrame,
  mFrameHistory

game == <<mPlayerUid, mResyncNeededInputFrame, mCurrentWorldFrame, mFrameHistory>>

NoPlayers == [s \in Sides |-> 0]
NoResync  == [s \in Sides |-> 0]

Init ==
  /\ mPlayerUid = NoPlayers
  /\ mResyncNeededInputFrame = NoResync
  /\ mCurrentWorldFrame = 0
  /\ mFrameHistory = Clear(ResetStatus)

----------------------------------------------------------------------------
(* GameLogic                                                               *)

GetGameStatus(frame) == GetObjectForFrame(mFrameHistory, frame)

GetCurrentGameStatus == GetGameStatus(mCurrentWorldFrame)

IsPlaying == GetCurrentGameStatus.mCurrentStatus = CGS_STARTED

SetCurrentGameStatus(stat) ==
  /\ mFrameHistory' = SetObjectForFrame(mFrameHistory, stat.mWorldFrame, stat)
  /\ mCurrentWorldFrame' = stat.mWorldFrame

\* Seeded mistake: the history of the ended game is kept.
ResetKeepingHistory == mCurrentWorldFrame' = 0 /\ UNCHANGED mFrameHistory

ResetGameStatus ==
  /\ mCurrentWorldFrame' = 0
  /\ mFrameHistory' = Clear(ResetStatus)

StartedStatus == [ResetStatus EXCEPT !.mCurrentStatus = CGS_STARTED]

StartPlaying == SetCurrentGameStatus(StartedStatus)

\* The status OnServerUpdate advances: the current one, one frame later.
NextFrameStatus == [GetCurrentGameStatus EXCEPT !.mWorldFrame = mCurrentWorldFrame + 1]

----------------------------------------------------------------------------
(* Seats                                                                   *)

GetPlayerType(uid) ==
  IF mPlayerUid[PLAYER_LEFT] = uid       THEN PLAYER_LEFT
  ELSE IF mPlayerUid[PLAYER_RIGHT] = uid THEN PLAYER_RIGHT
  ELSE PLAYER_NONE

Full == \A s \in Sides : mPlayerUid[s] > 0

\* What StartGame returns.
StartResult ==
  IF Full THEN PLAYER_NONE
  ELSE IF mPlayerUid = NoPlayers THEN PLAYER_LEFT
  ELSE PLAYER_RIGHT

\* Seeded mistake: a third player takes the right seat of a running game.
StartWhenFull(uid) ==
  \/ /\ mPlayerUid = NoPlayers
     /\ mPlayerUid' = [mPlayerUid EXCEPT ![PLAYER_LEFT] = uid]
     /\ UNCHANGED <<mResyncNeededInputFrame, mCurrentWorldFrame, mFrameHistory>>
  \/ /\ mPlayerUid # NoPlayers
     /\ mPlayerUid' = [mPlayerUid EXCEPT ![PLAYER_RIGHT] = uid]
     /\ StartPlaying
     /\ UNCHANGED mResyncNeededInputFrame

StartGame(uid) ==
  \/ /\ Full
     /\ UNCHANGED game
  \/ /\ mPlayerUid = NoPlayers
     /\ mPlayerUid' = [mPlayerUid EXCEPT ![PLAYER_LEFT] = uid]
     /\ UNCHANGED <<mResyncNeededInputFrame, mCurrentWorldFrame, mFrameHistory>>
  \/ /\ ~Full /\ mPlayerUid # NoPlayers
     /\ mPlayerUid' = [mPlayerUid EXCEPT ![PLAYER_RIGHT] = uid]
     /\ StartPlaying
     /\ UNCHANGED mResyncNeededInputFrame

\* Seeded mistake: the seats are freed, the status is not reset.
GameEndWithoutReset ==
  /\ mPlayerUid' = NoPlayers
  /\ mResyncNeededInputFrame' = NoResync
  /\ UNCHANGED <<mCurrentWorldFrame, mFrameHistory>>

\* Seeded mistake: a resync owed to a player of the ended game stays owed.
GameEndOwingResync ==
  /\ mPlayerUid' = NoPlayers
  /\ ResetGameStatus
  /\ UNCHANGED mResyncNeededInputFrame

GameEnd ==
  /\ mPlayerUid' = NoPlayers
  /\ ResetGameStatus
  /\ mResyncNeededInputFrame' = NoResync

\* The status RequestGiveUp broadcasts before GameEnd wipes it.
GiveUpStatus(player) == GaveUp(GetCurrentGameStatus, player)

RequestGiveUp(player) == GameEnd

----------------------------------------------------------------------------
(* Input: replayed on the frame the client saw to judge its prediction,    *)
(* then applied to the current frame whatever the verdict.                 *)

KnownFrame(req) ==
  /\ req.mRecentWorldFrame <= mCurrentWorldFrame
  /\ GetGameStatus(req.mRecentWorldFrame).mWorldFrame = req.mRecentWorldFrame

\* The status the server computes for the frame the client predicted.
Rewound(req) ==
  GetUpdatedGameStatus(ChangeGameStatus(GetGameStatus(req.mRecentWorldFrame),
                         req.mPlayerType, req.mPosDiff, req.mIsShoot))

Desync(req) ==
  /\ ChangesStatus(GetGameStatus(req.mRecentWorldFrame),
                   req.mPlayerType, req.mPosDiff, req.mIsShoot)
  /\ GetGameStatusHash(Rewound(req)) # req.mStatusHash

\* Seeded mistake: the rewound status is a reference, judging rewrites it.
RacketActionInPlace(req) ==
  LET slot == After(mFrameHistory,
                MAX_REWIND - (mFrameHistory.mHeadFrame - req.mRecentWorldFrame))
  IN  /\ KnownFrame(req)
      /\ mFrameHistory' = [mFrameHistory EXCEPT !.mHistory[slot] = Rewound(req)]
      /\ UNCHANGED <<mPlayerUid, mResyncNeededInputFrame, mCurrentWorldFrame>>

RacketAction(req) ==
  LET current == GetCurrentGameStatus
      side    == SideOf(req.mPlayerType)
  IN  /\ KnownFrame(req)
      /\ mResyncNeededInputFrame' =
           IF Desync(req)
           THEN [mResyncNeededInputFrame EXCEPT ![side] = req.mInputFrame]
           ELSE mResyncNeededInputFrame
      /\ IF ChangesStatus(current, req.mPlayerType, req.mPosDiff, req.mIsShoot)
         THEN SetCurrentGameStatus(ChangeGameStatus(current, req.mPlayerType,
                                                    req.mPosDiff, req.mIsShoot))
         ELSE UNCHANGED <<mCurrentWorldFrame, mFrameHistory>>
      /\ UNCHANGED mPlayerUid

\* The two early returns that log [CHEAT].
RejectRacket(req) == ~KnownFrame(req) /\ UNCHANGED game

----------------------------------------------------------------------------
(* Frames.  The broadcast takes the resync requests and clears them.       *)

FramePacket ==
  [mGameStatus |-> GetUpdatedGameStatus(NextFrameStatus),
   mResyncNeededInputFrame |-> mResyncNeededInputFrame]

OnFrameUpdate ==
  /\ IsPlaying
  /\ IF EndsGame(NextFrameStatus)
     THEN GameEnd
     ELSE /\ SetCurrentGameStatus(GetUpdatedGameStatus(NextFrameStatus))
          /\ mResyncNeededInputFrame' = NoResync
          /\ UNCHANGED mPlayerUid

----------------------------------------------------------------------------
(* Environment of the module on its own.  A request carries the hash the   *)
(* server computes or another one; the bounds keep the model finite.       *)

Requests ==
  [mPlayerType : Sides, mRecentWorldFrame : 0 .. MaxFrame,
   mInputFrame : 0 .. MaxInput, mPosDiff : PosDiffs, mIsShoot : BOOLEAN]

OtherHash == <<>>

WithHash(req, hash) ==
  [mPlayerType |-> req.mPlayerType, mRecentWorldFrame |-> req.mRecentWorldFrame,
   mInputFrame |-> req.mInputFrame, mPosDiff |-> req.mPosDiff,
   mIsShoot |-> req.mIsShoot, mStatusHash |-> hash]

InRange(req) ==
  GetCurrentGameStatus.mRacketPosY[req.mPlayerType] + req.mPosDiff
    \in -MaxPosY .. MaxPosY

Start == \E uid \in Uids : StartGame(uid)

\* Handler_PKT_CS_EXIT: only the side the session really holds surrenders.
GiveUp == \E uid \in Uids :
  /\ GetPlayerType(uid) # PLAYER_NONE
  /\ RequestGiveUp(GetPlayerType(uid))

Racket == \E req \in Requests :
  /\ InRange(req)
  /\ \E hash \in {GetGameStatusHash(Rewound(req)), OtherHash} :
       RacketAction(WithHash(req, hash)) \/ RejectRacket(WithHash(req, hash))

Frame == mCurrentWorldFrame < MaxFrame /\ OnFrameUpdate

Next == Start \/ GiveUp \/ Racket \/ Frame

Spec == Init /\ [][Next]_game

----------------------------------------------------------------------------
(* Properties                                                              *)

(* Type invariant of the server's game state.                              *)
TypeOK ==
  /\ mPlayerUid \in [Sides -> Uids \cup {0}]
  /\ mResyncNeededInputFrame \in [Sides -> Nat]
  /\ mCurrentWorldFrame \in Nat
  /\ mFrameHistory \in Ring(GameStatus)

(* The seats in GameManager and the status in GameLogic never disagree: a  *)
(* game runs exactly while both seats are taken, the right seat is never   *)
(* taken alone, and an idle server shows CGS_NOT_STARTED -- the game-over  *)
(* status of an ended game never survives GameEnd.                         *)
SeatedIffPlaying ==
  /\ IsPlaying <=> Full
  /\ mPlayerUid[PLAYER_RIGHT] > 0 => mPlayerUid[PLAYER_LEFT] > 0
  /\ ~IsPlaying => GetCurrentGameStatus.mCurrentStatus = CGS_NOT_STARTED

(* Rewinding to any remembered frame gives the status of exactly that      *)
(* frame of the running game: the head of the ring is the current frame,   *)
(* no skipped, repeated or left-over frame is ever in the window.          *)
RewindIsExact ==
  /\ mFrameHistory.mHeadFrame = mCurrentWorldFrame
  /\ \A f \in OldestFrame(mFrameHistory) .. mCurrentWorldFrame :
       /\ GetGameStatus(f).mWorldFrame = f
       /\ GetGameStatus(f).mCurrentStatus = GetCurrentGameStatus.mCurrentStatus

(* Nobody has already won the running game: the frame that gives the last  *)
(* point ends it.  An idle server stays at love all and at the frame a     *)
(* game starts with, whatever inputs reach it after the game they were     *)
(* meant for.                                                              *)
ScoreOpen ==
  /\ \A s \in Sides : GetCurrentGameStatus.mScore[s] < SCORE_FOR_WIN
  /\ ~IsPlaying => /\ GetCurrentGameStatus.mScore = [s \in Sides |-> 0]
                   /\ mCurrentWorldFrame = 0

(* While inputs are applied late, only the present changes: a remembered   *)
(* frame before the current one reads the same after every step, unless    *)
(* the game ends (RacketAction rewinds to judge, and must not rewrite).    *)
PastIsImmutable ==
  [][ mPlayerUid' # NoPlayers =>
        \A f \in OldestFrame(mFrameHistory)' .. mCurrentWorldFrame - 1 :
          GetGameStatus(f)' = GetGameStatus(f) ]_game

(* Refinement: seats and score of the current frame are those of a Match,  *)
(* so points come one at a time and only from a frame, no input or rewind  *)
(* changes the score, the winning point ends the game in the same step,    *)
(* and every game starts at love all.                                      *)
Game == INSTANCE Match WITH
          First <- PLAYER_LEFT, Second <- PLAYER_RIGHT,
          WinningScore <- SCORE_FOR_WIN,
          seat <- mPlayerUid, score <- GetCurrentGameStatus.mScore

ImplementsMatch == Game!Spec
=============================================================================
