------------------------- MODULE GameManagerProofs -------------------------
(***************************************************************************)
(* The server's game for every number of players, frames, inputs, points   *)
(* and ring slots: type correctness, the agreement of seats and status,    *)
(* exact rewinding, and the refinement of Match.                           *)
(*                                                                         *)
(* SeatedIffPlaying and RewindIsExact are inductive only together (a frame *)
(* is recorded at the head only if the head is the current frame), and the *)
(* refinement needs ScoreOpen besides.                                     *)
(***************************************************************************)
EXTENDS GameManager, TLAPS

----------------------------------------------------------------------------
(* The rules: what an input and a frame do to a status.                    *)

(* The fields of a status, one by one.                                     *)
LEMMA StatusFields ==
  ASSUME NEW stat \in GameStatus
  PROVE  /\ stat.mCurrentStatus \in CurrentGameStatus
         /\ stat.mWorldFrame \in Nat
         /\ stat.mRacketPosY \in [Sides -> Int]
         /\ stat.mShoot \in [Sides -> 0 .. SHOOT_FRAME_LENGTH]
         /\ stat.mScore \in [Sides -> Nat]
         /\ stat = [mCurrentStatus |-> stat.mCurrentStatus,
                    mWorldFrame |-> stat.mWorldFrame,
                    mRacketPosY |-> stat.mRacketPosY,
                    mShoot |-> stat.mShoot, mScore |-> stat.mScore]
BY DEF GameStatus

(* GameStatus() is a status at love all.                                   *)
LEMMA ResetIsStatus ==
  /\ ResetStatus \in GameStatus
  /\ ResetStatus.mScore = [s \in Sides |-> 0]
  /\ ResetStatus.mWorldFrame = 0
  /\ ResetStatus.mCurrentStatus = CGS_NOT_STARTED
BY RulesAssumption, SMT DEF ResetStatus, GameStatus, CurrentGameStatus

(* An input moves a racket and may start a laser: status, frame and score  *)
(* stay as they are (GameLogic::ChangeGameStatus).                         *)
LEMMA InputKeeps ==
  ASSUME NEW stat \in GameStatus, NEW player, NEW posDiff \in Int,
         NEW shoot \in BOOLEAN
  PROVE  /\ ChangeGameStatus(stat, player, posDiff, shoot) \in GameStatus
         /\ ChangeGameStatus(stat, player, posDiff, shoot).mCurrentStatus = stat.mCurrentStatus
         /\ ChangeGameStatus(stat, player, posDiff, shoot).mWorldFrame = stat.mWorldFrame
         /\ ChangeGameStatus(stat, player, posDiff, shoot).mScore = stat.mScore
<1>1. SideOf(player) \in Sides
  BY DEF SideOf, Sides
<1> DEFINE side  == SideOf(player)
           moved == [stat EXCEPT !.mRacketPosY[side] = @ + posDiff]
<1>2. /\ moved \in GameStatus /\ moved.mCurrentStatus = stat.mCurrentStatus
      /\ moved.mWorldFrame = stat.mWorldFrame /\ moved.mScore = stat.mScore
  BY <1>1, SMT DEF GameStatus
<1>3. ASSUME NEW s \in GameStatus
      PROVE  /\ [s EXCEPT !.mShoot[side] = SHOOT_FRAME_LENGTH] \in GameStatus
             /\ [s EXCEPT !.mShoot[side] = SHOOT_FRAME_LENGTH].mCurrentStatus = s.mCurrentStatus
             /\ [s EXCEPT !.mShoot[side] = SHOOT_FRAME_LENGTH].mWorldFrame = s.mWorldFrame
             /\ [s EXCEPT !.mShoot[side] = SHOOT_FRAME_LENGTH].mScore = s.mScore
  BY <1>1, RulesAssumption, SMT DEF GameStatus
<1> HIDE DEF side, moved
<1> QED BY <1>2, <1>3 DEF ChangeGameStatus, side, moved

(* Firing the only laser that is on.                                       *)
LEMMA FireKeeps ==
  ASSUME NEW stat \in GameStatus, NEW side \in Sides, stat.mShoot[side] > 0
  PROVE  /\ Fire(stat, side) \in GameStatus
         /\ Fire(stat, side).mCurrentStatus = stat.mCurrentStatus
         /\ Fire(stat, side).mWorldFrame = stat.mWorldFrame
         /\ \/ Fire(stat, side).mScore = stat.mScore
            \/ Fire(stat, side).mScore = [stat.mScore EXCEPT ![side] = @ + 1]
<1>1. stat.mShoot[side] - 1 \in 0 .. SHOOT_FRAME_LENGTH
  BY StatusFields, RulesAssumption, SMT
<1>2. stat.mScore[side] + 1 \in Nat
  BY StatusFields, SMT
<1>3. /\ Scored(stat, side) \in GameStatus
      /\ Scored(stat, side).mCurrentStatus = stat.mCurrentStatus
      /\ Scored(stat, side).mWorldFrame = stat.mWorldFrame
      /\ Scored(stat, side).mScore = [stat.mScore EXCEPT ![side] = @ + 1]
  BY <1>2, SMT DEF Scored, GameStatus
<1>4. ASSUME NEW s \in GameStatus, NEW n \in 0 .. SHOOT_FRAME_LENGTH
      PROVE  /\ [s EXCEPT !.mShoot[side] = n] \in GameStatus
             /\ [s EXCEPT !.mShoot[side] = n].mCurrentStatus = s.mCurrentStatus
             /\ [s EXCEPT !.mShoot[side] = n].mWorldFrame = s.mWorldFrame
             /\ [s EXCEPT !.mShoot[side] = n].mScore = s.mScore
  BY SMT DEF GameStatus
<1>5. 0 \in 0 .. SHOOT_FRAME_LENGTH
  BY RulesAssumption, SMT
<1> QED BY <1>1, <1>3, <1>4, <1>5 DEF Fire

(* Whatever the score, a frame makes a status of a status, keeps the frame *)
(* number the caller has set, and at most ends the game.                   *)
LEMMA FrameIsStatus ==
  ASSUME NEW stat \in GameStatus
  PROVE  /\ GetUpdatedGameStatus(stat) \in GameStatus
         /\ GetUpdatedGameStatus(stat).mWorldFrame = stat.mWorldFrame
         /\ GetUpdatedGameStatus(stat).mCurrentStatus \in {stat.mCurrentStatus} \cup GameOver
<1>1. ASSUME NEW side \in Sides, Shoots(stat, side)
      PROVE  /\ FireAndJudge(stat, side) \in GameStatus
             /\ FireAndJudge(stat, side).mWorldFrame = stat.mWorldFrame
             /\ FireAndJudge(stat, side).mCurrentStatus \in {stat.mCurrentStatus} \cup GameOver
  <2>1. /\ Fire(stat, side) \in GameStatus
        /\ Fire(stat, side).mWorldFrame = stat.mWorldFrame
        /\ Fire(stat, side).mCurrentStatus = stat.mCurrentStatus
    BY <1>1, FireKeeps DEF Shoots
  <2>2. WonBy(side) \in CurrentGameStatus /\ WonBy(side) \in GameOver
    BY DEF WonBy, CurrentGameStatus, GameOver
  <2> QED BY <2>1, <2>2 DEF FireAndJudge, GameStatus
<1>2. /\ [stat EXCEPT !.mShoot = [s \in Sides |-> 0]] \in GameStatus
      /\ [stat EXCEPT !.mShoot = [s \in Sides |-> 0]].mWorldFrame = stat.mWorldFrame
      /\ [stat EXCEPT !.mShoot = [s \in Sides |-> 0]].mCurrentStatus = stat.mCurrentStatus
  <2>1. [s \in Sides |-> 0] \in [Sides -> 0 .. SHOOT_FRAME_LENGTH]
    BY RulesAssumption, SMT
  <2> QED BY <2>1, StatusFields DEF GameStatus
<1> QED BY <1>1, <1>2 DEF GetUpdatedGameStatus, Sides

(* A frame keeps the frame number the caller has set.  One that does not   *)
(* end the game gives at most one point to one side, and not the winning   *)
(* one; one that ends it is the point a side needed                        *)
(* (GameLogic::GetUpdatedGameStatus).                                      *)
LEMMA FrameScores ==
  ASSUME NEW stat \in GameStatus, \A s \in Sides : stat.mScore[s] < SCORE_FOR_WIN
  PROVE  /\ GetUpdatedGameStatus(stat) \in GameStatus
         /\ GetUpdatedGameStatus(stat).mWorldFrame = stat.mWorldFrame
         /\ ~EndsGame(stat) =>
              /\ GetUpdatedGameStatus(stat).mCurrentStatus = stat.mCurrentStatus
              /\ \/ GetUpdatedGameStatus(stat).mScore = stat.mScore
                 \/ \E side \in Sides :
                      /\ stat.mScore[side] + 1 < SCORE_FOR_WIN
                      /\ GetUpdatedGameStatus(stat).mScore = [stat.mScore EXCEPT ![side] = @ + 1]
         /\ EndsGame(stat) =>
              \E side \in Sides : stat.mScore[side] + 1 = SCORE_FOR_WIN
<1>0. /\ stat.mScore \in [Sides -> Nat] /\ SCORE_FOR_WIN \in Nat
      /\ stat.mShoot \in [Sides -> 0 .. SHOOT_FRAME_LENGTH]
      /\ PLAYER_LEFT \in Sides /\ PLAYER_RIGHT \in Sides
  BY StatusFields, RulesAssumption DEF Sides
<1>1. ASSUME NEW side \in Sides, Wins(stat, side)
      PROVE  stat.mScore[side] + 1 = SCORE_FOR_WIN
  <2>1. stat.mShoot[side] > 0 /\ Fire(stat, side).mScore[side] = SCORE_FOR_WIN
    BY <1>1 DEF Wins, Shoots
  <2>2. \/ Fire(stat, side).mScore = stat.mScore
        \/ Fire(stat, side).mScore = [stat.mScore EXCEPT ![side] = @ + 1]
    BY <2>1, FireKeeps
  <2> QED BY <1>0, <2>1, <2>2, SMT
<1>2. ASSUME NEW side \in Sides, Shoots(stat, side)
      PROVE  /\ FireAndJudge(stat, side) \in GameStatus
             /\ FireAndJudge(stat, side).mWorldFrame = stat.mWorldFrame
             /\ ~Wins(stat, side) =>
                  /\ FireAndJudge(stat, side).mCurrentStatus = stat.mCurrentStatus
                  /\ \/ FireAndJudge(stat, side).mScore = stat.mScore
                     \/ /\ stat.mScore[side] + 1 < SCORE_FOR_WIN
                        /\ FireAndJudge(stat, side).mScore
                             = [stat.mScore EXCEPT ![side] = @ + 1]
  <2>1. stat.mShoot[side] > 0
    BY <1>2 DEF Shoots
  <2>2. /\ Fire(stat, side) \in GameStatus
        /\ Fire(stat, side).mCurrentStatus = stat.mCurrentStatus
        /\ Fire(stat, side).mWorldFrame = stat.mWorldFrame
        /\ \/ Fire(stat, side).mScore = stat.mScore
           \/ Fire(stat, side).mScore = [stat.mScore EXCEPT ![side] = @ + 1]
    BY <2>1, FireKeeps
  <2>3. WonBy(side) \in CurrentGameStatus
    BY DEF WonBy, CurrentGameStatus, GameOver
  <2>4. CASE Wins(stat, side)
    BY <2>2, <2>3, <2>4 DEF FireAndJudge, GameStatus
  <2>5. CASE ~Wins(stat, side)
    <3>1. FireAndJudge(stat, side) = Fire(stat, side)
      BY <2>5 DEF FireAndJudge
    <3>2. Fire(stat, side).mScore[side] # SCORE_FOR_WIN
      BY <1>2, <2>5 DEF Wins
    <3>3. ASSUME Fire(stat, side).mScore = [stat.mScore EXCEPT ![side] = @ + 1]
          PROVE  stat.mScore[side] + 1 < SCORE_FOR_WIN
      BY <1>0, <3>2, <3>3, SMT
    <3> QED BY <2>2, <2>5, <3>1, <3>3
  <2> QED BY <2>4, <2>5
<1>3. CASE BothShoot(stat)
  <2>1. ~EndsGame(stat)
    BY <1>3 DEF EndsGame, Wins, Shoots
  <2>2. GetUpdatedGameStatus(stat) = [stat EXCEPT !.mShoot = [s \in Sides |-> 0]]
    BY <1>3 DEF GetUpdatedGameStatus
  <2>3. [s \in Sides |-> 0] \in [Sides -> 0 .. SHOOT_FRAME_LENGTH]
    BY RulesAssumption, SMT
  <2> QED BY <2>1, <2>2, <2>3, StatusFields DEF GameStatus
<1>4. CASE ~BothShoot(stat) /\ \E side \in Sides : Shoots(stat, side)
  <2>1. PICK side \in Sides : Shoots(stat, side)
    BY <1>4
  <2>2. ASSUME NEW other \in Sides, Shoots(stat, other) PROVE other = side
    BY <1>0, <1>4, <2>1, <2>2, SMT DEF Shoots, BothShoot, Sides
  <2>3. GetUpdatedGameStatus(stat) = FireAndJudge(stat, side)
    BY <1>4, <2>1, <2>2 DEF GetUpdatedGameStatus, Sides
  <2>4. EndsGame(stat) <=> Wins(stat, side)
    BY <2>2 DEF EndsGame, Wins
  <2> DEFINE next == GetUpdatedGameStatus(stat)
  <2>5. next \in GameStatus /\ next.mWorldFrame = stat.mWorldFrame
    <3>1. FireAndJudge(stat, side) \in GameStatus /\ FireAndJudge(stat, side).mWorldFrame = stat.mWorldFrame
      BY <1>2, <2>1
    <3> QED BY <2>3, <3>1
  <2>6. EndsGame(stat) => stat.mScore[side] + 1 = SCORE_FOR_WIN
    BY <1>1, <2>4
  <2>7. ~EndsGame(stat) =>
          /\ next.mCurrentStatus = stat.mCurrentStatus
          /\ \/ next.mScore = stat.mScore
             \/ /\ stat.mScore[side] + 1 < SCORE_FOR_WIN
                /\ next.mScore = [stat.mScore EXCEPT ![side] = @ + 1]
    BY <1>2, <2>1, <2>3, <2>4
  <2> HIDE DEF next
  <2>8. ~EndsGame(stat) =>
          \/ next.mScore = stat.mScore
          \/ \E s \in Sides : /\ stat.mScore[s] + 1 < SCORE_FOR_WIN
                             /\ next.mScore = [stat.mScore EXCEPT ![s] = @ + 1]
    BY <2>7, Zenon
  <2> QED BY <2>5, <2>6, <2>7, <2>8 DEF next
<1>5. CASE ~BothShoot(stat) /\ ~\E side \in Sides : Shoots(stat, side)
  <2>1. GetUpdatedGameStatus(stat) = stat /\ ~EndsGame(stat)
    BY <1>0, <1>5 DEF GetUpdatedGameStatus, EndsGame, Wins
  <2> QED BY <2>1
<1> QED BY <1>3, <1>4, <1>5

----------------------------------------------------------------------------
(* The history.                                                            *)

\* The lemmas about RewindObject, of the history this game keeps.
History == INSTANCE RewindHistoryProofs WITH
             Objects <- GameStatus, Default <- ResetStatus, LastFrame <- MaxFrame,
             ring <- mFrameHistory

(* What they assume of the constants, and the operators they are about.    *)
LEMMA HistoryIs ==
  /\ MAX_REWIND \in Nat \ {0} /\ ResetStatus \in GameStatus /\ MaxFrame \in Nat
  /\ \A Obj : History!Ring(Obj) = Ring(Obj)
  /\ \A o : History!Clear(o) = Clear(o)
  /\ \A r : History!OldestFrame(r) = OldestFrame(r)
  /\ \A r, f : History!GetObjectForFrame(r, f) = GetObjectForFrame(r, f)
  /\ \A r, f, o : History!SetObjectForFrame(r, f, o) = SetObjectForFrame(r, f, o)
<1>1. \A r, n : History!After(r, n) = After(r, n)
  BY DEF History!After, After
<1>2. \A o : History!Clear(o) = Clear(o)
  BY DEF History!Clear, Clear, History!Slots, Slots
<1>3. \A Obj : History!Ring(Obj) = Ring(Obj)
  BY DEF History!Ring, Ring, History!Slots, Slots
<1>4. \A r : History!OldestFrame(r) = OldestFrame(r)
  BY DEF History!OldestFrame, OldestFrame
<1>5. \A r, f : History!GetObjectForFrame(r, f) = GetObjectForFrame(r, f)
  BY <1>1 DEF History!GetObjectForFrame, GetObjectForFrame
<1>6. \A r, f, o : History!SetObjectForFrame(r, f, o) = SetObjectForFrame(r, f, o)
  <2> SUFFICES ASSUME NEW r, NEW f, NEW o
               PROVE  History!SetObjectForFrame(r, f, o) = SetObjectForFrame(r, f, o)
    OBVIOUS
  <2>1. {History!After(r, n) : n \in 1 .. f - r.mHeadFrame}
          = {After(r, n) : n \in 1 .. f - r.mHeadFrame}
    BY <1>1
  <2>2. History!Slots = Slots /\ History!Clear(o) = Clear(o)
    BY <1>2 DEF History!Slots, Slots
  <2>3. History!After(r, f - r.mHeadFrame) = After(r, f - r.mHeadFrame)
    BY <1>1
  <2> QED BY <2>1, <2>2, <2>3, Zenon DEF History!SetObjectForFrame, SetObjectForFrame
<1> QED
  BY <1>2, <1>3, <1>4, <1>5, <1>6, RewindAssumption, ManagerAssumption, ResetIsStatus

----------------------------------------------------------------------------
(* The inductive invariant.                                                *)
IInv == TypeOK /\ SeatedIffPlaying /\ RewindIsExact /\ ScoreOpen

(* Session ids, and the 0 of an empty seat, are natural numbers.           *)
LEMMA UidsAreNat == \A n \in Uids \cup {0} : n \in Nat
BY ManagerAssumption, SMT

(* The current frame is remembered, so reading it gives the current status.*)
LEMMA CurrentRemembered ==
  ASSUME TypeOK, RewindIsExact
  PROVE  /\ GetCurrentGameStatus \in GameStatus
         /\ GetCurrentGameStatus.mWorldFrame = mCurrentWorldFrame
         /\ mCurrentWorldFrame \in OldestFrame(mFrameHistory) .. mCurrentWorldFrame
<1>1. mCurrentWorldFrame \in Nat /\ mFrameHistory \in Ring(GameStatus)
  BY DEF TypeOK
<1>2. GetCurrentGameStatus \in GameStatus
  BY <1>1, HistoryIs, History!GetInObjects DEF GetCurrentGameStatus, GetGameStatus
<1>3. mCurrentWorldFrame \in OldestFrame(mFrameHistory) .. mCurrentWorldFrame
  BY <1>1, RewindAssumption, SMT DEF RewindIsExact, OldestFrame
<1> QED BY <1>2, <1>3 DEF RewindIsExact, GetCurrentGameStatus

(* What SetCurrentGameStatus leaves behind when it rewrites the current    *)
(* frame or records the next one: the new status, the frames before it as  *)
(* they were, and an exact window when the game has not changed state.     *)
LEMMA SetCurrent ==
  ASSUME TypeOK, RewindIsExact, NEW stat \in GameStatus,
         stat.mWorldFrame \in {mCurrentWorldFrame, mCurrentWorldFrame + 1},
         SetCurrentGameStatus(stat)
  PROVE  /\ mCurrentWorldFrame' \in Nat /\ mFrameHistory' \in Ring(GameStatus)
         /\ mCurrentWorldFrame' = stat.mWorldFrame
         /\ GetCurrentGameStatus' = stat
         /\ \A f \in OldestFrame(mFrameHistory)' .. mCurrentWorldFrame - 1 :
              GetGameStatus(f)' = GetGameStatus(f)
         /\ (\/ stat.mCurrentStatus = GetCurrentGameStatus.mCurrentStatus
             \/ mCurrentWorldFrame' = 0) => RewindIsExact'
<1>0. /\ mFrameHistory \in Ring(GameStatus) /\ mCurrentWorldFrame \in Nat
      /\ mFrameHistory.mHeadFrame = mCurrentWorldFrame /\ stat.mWorldFrame \in Nat
      /\ RewindIsExact
  BY StatusFields DEF TypeOK, RewindIsExact
<1>1. /\ mFrameHistory' = SetObjectForFrame(mFrameHistory, stat.mWorldFrame, stat)
      /\ mCurrentWorldFrame' = stat.mWorldFrame
  BY DEF SetCurrentGameStatus
<1>2. /\ mFrameHistory' \in Ring(GameStatus)
      /\ mFrameHistory'.mHeadFrame = stat.mWorldFrame
      /\ \A g \in OldestFrame(mFrameHistory') .. stat.mWorldFrame :
           GetObjectForFrame(mFrameHistory', g)
             = IF g = stat.mWorldFrame THEN stat ELSE GetObjectForFrame(mFrameHistory, g)
      /\ OldestFrame(mFrameHistory) <= OldestFrame(mFrameHistory')
  <2>1. \/ stat.mWorldFrame = mFrameHistory.mHeadFrame
        \/ stat.mWorldFrame = mFrameHistory.mHeadFrame + 1
    BY <1>0
  <2>2. \A r \in Ring(GameStatus), o \in GameStatus, f \in Nat :
          f = r.mHeadFrame \/ f = r.mHeadFrame + 1 =>
            \A r2 : r2 = SetObjectForFrame(r, f, o) =>
              /\ r2 \in Ring(GameStatus) /\ r2.mHeadFrame = f
              /\ \A g \in OldestFrame(r2) .. f :
                   GetObjectForFrame(r2, g) = IF g = f THEN o ELSE GetObjectForFrame(r, g)
              /\ OldestFrame(r) <= OldestFrame(r2)
    BY HistoryIs, History!HistoryWrite
  <2> QED BY <1>0, <1>1, <2>1, <2>2
<1>3. /\ OldestFrame(mFrameHistory) \in Nat
      /\ OldestFrame(mFrameHistory') \in Nat
      /\ OldestFrame(mFrameHistory') <= stat.mWorldFrame
      /\ OldestFrame(mFrameHistory) <= mCurrentWorldFrame
  BY <1>0, <1>2, RewindAssumption, SMT DEF OldestFrame
<1>4. GetCurrentGameStatus' = stat
  <2>1. stat.mWorldFrame \in OldestFrame(mFrameHistory') .. stat.mWorldFrame
    BY <1>0, <1>3, SMT
  <2> QED BY <1>1, <1>2, <2>1 DEF GetCurrentGameStatus, GetGameStatus
<1>5. ASSUME NEW f \in OldestFrame(mFrameHistory') .. mCurrentWorldFrame',
             f # stat.mWorldFrame
      PROVE  /\ f \in OldestFrame(mFrameHistory) .. mCurrentWorldFrame
             /\ GetObjectForFrame(mFrameHistory', f) = GetObjectForFrame(mFrameHistory, f)
  <2>1. f \in OldestFrame(mFrameHistory') .. stat.mWorldFrame
    BY <1>1
  <2>2. f \in OldestFrame(mFrameHistory) .. mCurrentWorldFrame
    BY <1>0, <1>2, <1>3, <1>5, <2>1, SMT
  <2> QED BY <1>2, <1>5, <2>1, <2>2
<1>6. \A f \in OldestFrame(mFrameHistory') .. mCurrentWorldFrame - 1 :
        GetObjectForFrame(mFrameHistory', f) = GetObjectForFrame(mFrameHistory, f)
  <2>1. \A f \in OldestFrame(mFrameHistory') .. mCurrentWorldFrame - 1 :
          f \in OldestFrame(mFrameHistory') .. mCurrentWorldFrame' /\ f # stat.mWorldFrame
    BY <1>0, <1>1, <1>3, SMT
  <2> QED BY <1>5, <2>1
<1>7. ASSUME \/ stat.mCurrentStatus = GetCurrentGameStatus.mCurrentStatus
             \/ mCurrentWorldFrame' = 0
      PROVE  RewindIsExact'
  <2>1. ASSUME NEW f \in OldestFrame(mFrameHistory') .. mCurrentWorldFrame'
        PROVE  /\ GetObjectForFrame(mFrameHistory', f).mWorldFrame = f
               /\ GetObjectForFrame(mFrameHistory', f).mCurrentStatus = stat.mCurrentStatus
    <3>1. CASE f = stat.mWorldFrame
      BY <1>1, <1>2, <2>1, <3>1
    <3>2. CASE f # stat.mWorldFrame
      <4>1. stat.mCurrentStatus = GetCurrentGameStatus.mCurrentStatus
        BY <1>0, <1>1, <1>3, <1>7, <2>1, <3>2, SMT
      <4> QED BY <1>0, <1>5, <2>1, <3>2, <4>1 DEF RewindIsExact, GetGameStatus
    <3> QED BY <3>1, <3>2
  <2> QED BY <1>1, <1>2, <1>4, <2>1 DEF RewindIsExact, GetGameStatus
<1> QED BY <1>0, <1>1, <1>2, <1>4, <1>6, <1>7 DEF GetGameStatus

(* A cleared history: frame 0, CGS_NOT_STARTED, love all.                  *)
Idle == mCurrentWorldFrame = 0 /\ mFrameHistory = Clear(ResetStatus)

(* A server that was just reset is idle and exact: ResetGameStatus and      *)
(* Clear leave nothing of the ended game.                                  *)
LEMMA IdleIsExact ==
  Idle => /\ mCurrentWorldFrame \in Nat /\ mFrameHistory \in Ring(GameStatus)
          /\ GetCurrentGameStatus = ResetStatus
          /\ ~IsPlaying
          /\ RewindIsExact
          /\ ScoreOpen
<1> SUFFICES ASSUME Idle
             PROVE  /\ mCurrentWorldFrame \in Nat /\ mFrameHistory \in Ring(GameStatus)
                    /\ GetCurrentGameStatus = ResetStatus
                    /\ ~IsPlaying
                    /\ RewindIsExact
                    /\ ScoreOpen
  OBVIOUS
<1>1. /\ mFrameHistory \in Ring(GameStatus) /\ mFrameHistory.mHeadFrame = 0
      /\ \A f \in Nat : GetObjectForFrame(mFrameHistory, f) = ResetStatus
  BY ResetIsStatus, HistoryIs, History!ClearReads DEF Idle
<1>2. GetCurrentGameStatus = ResetStatus
  BY <1>1 DEF Idle, GetCurrentGameStatus, GetGameStatus
<1>3. ~IsPlaying
  BY <1>2, ResetIsStatus DEF IsPlaying, CGS_NOT_STARTED, CGS_STARTED
<1>4. OldestFrame(mFrameHistory) = 0
  BY <1>1, RewindAssumption, SMT DEF OldestFrame
<1>5. RewindIsExact
  <2>1. ASSUME NEW f \in OldestFrame(mFrameHistory) .. mCurrentWorldFrame
        PROVE  f = 0 /\ GetGameStatus(f) = ResetStatus
    <3>1. f = 0
      BY <1>4, SMT DEF Idle
    <3> QED BY <1>1, <3>1 DEF GetGameStatus
  <2> QED BY <1>1, <1>2, <2>1, ResetIsStatus DEF RewindIsExact, Idle
<1>6. ScoreOpen
  BY <1>2, ResetIsStatus, RulesAssumption, SMT DEF ScoreOpen, Idle
<1> QED BY <1>1, <1>2, <1>3, <1>5, <1>6 DEF Idle

(* GameEnd leaves empty seats and a cleared history.                       *)
LEMMA GameEndKeeps ==
  ASSUME GameEnd
  PROVE  IInv' /\ mPlayerUid' = NoPlayers /\ GetCurrentGameStatus' = ResetStatus
<1>1. Idle'
  BY DEF GameEnd, ResetGameStatus, Idle
<1>2. (Idle => /\ mCurrentWorldFrame \in Nat /\ mFrameHistory \in Ring(GameStatus)
               /\ GetCurrentGameStatus = ResetStatus
               /\ ~IsPlaying
               /\ RewindIsExact
               /\ ScoreOpen)'
  BY IdleIsExact, PTL
<1>3. mPlayerUid' = NoPlayers /\ mResyncNeededInputFrame' = NoResync
  BY DEF GameEnd
<1>4. TypeOK'
  BY <1>1, <1>2, <1>3 DEF TypeOK, NoPlayers, NoResync
<1>5. SeatedIffPlaying'
  <2>1. mPlayerUid'[PLAYER_LEFT] = 0 /\ mPlayerUid'[PLAYER_RIGHT] = 0
    BY <1>3 DEF NoPlayers, Sides
  <2>2. ~Full'
    BY <2>1, SMT DEF Full, Sides
  <2> QED BY <1>1, <1>2, <2>1, <2>2, ResetIsStatus, SMT DEF SeatedIffPlaying
<1> QED BY <1>1, <1>2, <1>3, <1>4, <1>5 DEF IInv

(* The constructors of GameManager and GameLogic establish the invariant.  *)
LEMMA InitInvariant == Init => IInv
<1> SUFFICES ASSUME Init PROVE IInv
  OBVIOUS
<1>1. Idle
  BY DEF Init, Idle
<1>2. TypeOK
  BY <1>1, IdleIsExact DEF Init, TypeOK, NoPlayers, NoResync
<1>3. mPlayerUid[PLAYER_LEFT] = 0 /\ mPlayerUid[PLAYER_RIGHT] = 0
  BY DEF Init, NoPlayers, Sides
<1>4. ~Full
  BY <1>3, SMT DEF Full, Sides
<1>5. SeatedIffPlaying
  BY <1>1, <1>3, <1>4, IdleIsExact, ResetIsStatus, SMT DEF SeatedIffPlaying
<1> QED BY <1>1, <1>2, <1>5, IdleIsExact DEF IInv

(* StartGame: a full game turns the session away, a first player waits, a  *)
(* second one starts a game at frame 0.                                    *)
LEMMA StartKeeps ==
  ASSUME IInv, NEW uid \in Uids, StartGame(uid)
  PROVE  /\ IInv'
         /\ \/ UNCHANGED game
            \/ /\ mPlayerUid = NoPlayers
               /\ mPlayerUid' = [mPlayerUid EXCEPT ![PLAYER_LEFT] = uid]
               /\ UNCHANGED <<mCurrentWorldFrame, mFrameHistory>>
            \/ /\ mPlayerUid[PLAYER_LEFT] # 0 /\ mPlayerUid[PLAYER_RIGHT] = 0
               /\ mPlayerUid' = [mPlayerUid EXCEPT ![PLAYER_RIGHT] = uid]
               /\ ~IsPlaying /\ IsPlaying' /\ mCurrentWorldFrame' = 0
               /\ GetCurrentGameStatus' = StartedStatus
<1>0. /\ mPlayerUid \in [Sides -> Uids \cup {0}] /\ uid \in Nat /\ uid > 0
      /\ Uids \subseteq Nat \ {0}
      /\ PLAYER_LEFT \in Sides /\ PLAYER_RIGHT \in Sides /\ PLAYER_LEFT # PLAYER_RIGHT
  BY ManagerAssumption, SMT DEF IInv, TypeOK, Sides, PLAYER_LEFT, PLAYER_RIGHT
<1>a. mPlayerUid[PLAYER_LEFT] \in Nat /\ mPlayerUid[PLAYER_RIGHT] \in Nat
  <2>1. mPlayerUid[PLAYER_LEFT] \in Uids \cup {0} /\ mPlayerUid[PLAYER_RIGHT] \in Uids \cup {0}
    BY <1>0, Zenon
  <2> QED BY <2>1, UidsAreNat, Zenon
<1>1. CASE UNCHANGED game
  BY <1>1 DEF game, IInv, TypeOK, SeatedIffPlaying, RewindIsExact, ScoreOpen, IsPlaying,
              GetCurrentGameStatus, GetGameStatus, Full
<1>2. CASE /\ mPlayerUid = NoPlayers
           /\ mPlayerUid' = [mPlayerUid EXCEPT ![PLAYER_LEFT] = uid]
           /\ UNCHANGED <<mResyncNeededInputFrame, mCurrentWorldFrame, mFrameHistory>>
  <2>1. TypeOK'
    BY <1>0, <1>2 DEF IInv, TypeOK
  <2>2. /\ ~Full /\ ~Full'
        /\ mPlayerUid'[PLAYER_LEFT] > 0
    <3>1. mPlayerUid'[PLAYER_RIGHT] = 0 /\ mPlayerUid[PLAYER_RIGHT] = 0
      BY <1>0, <1>2 DEF NoPlayers
    <3>2. mPlayerUid'[PLAYER_LEFT] = uid
      BY <1>0, <1>2
    <3> QED BY <1>0, <3>1, <3>2, SMT DEF Full, Sides
  <2>3. (IsPlaying' <=> IsPlaying) /\ GetCurrentGameStatus' = GetCurrentGameStatus
    BY <1>2 DEF IsPlaying, GetCurrentGameStatus, GetGameStatus
  <2>4. SeatedIffPlaying'
    BY <2>2, <2>3 DEF IInv, SeatedIffPlaying
  <2>5. RewindIsExact' /\ ScoreOpen'
    BY <1>2, <2>3 DEF IInv, RewindIsExact, ScoreOpen, GetCurrentGameStatus, GetGameStatus
  <2> QED BY <1>2, <2>1, <2>4, <2>5 DEF IInv
<1>3. CASE /\ ~Full /\ mPlayerUid # NoPlayers
           /\ mPlayerUid' = [mPlayerUid EXCEPT ![PLAYER_RIGHT] = uid]
           /\ StartPlaying
           /\ UNCHANGED mResyncNeededInputFrame
  <2>1. mPlayerUid[PLAYER_LEFT] # 0 /\ mPlayerUid[PLAYER_RIGHT] = 0
    <3>1. mPlayerUid[PLAYER_LEFT] = 0 => mPlayerUid[PLAYER_RIGHT] = 0
      BY <1>a, SMT DEF IInv, SeatedIffPlaying
    <3>2. ~(mPlayerUid[PLAYER_LEFT] = 0 /\ mPlayerUid[PLAYER_RIGHT] = 0)
      BY <1>0, <1>3 DEF NoPlayers, Sides
    <3>3. ~(mPlayerUid[PLAYER_LEFT] > 0 /\ mPlayerUid[PLAYER_RIGHT] > 0)
      BY <1>3 DEF Full, Sides
    <3> QED BY <1>a, <3>1, <3>2, <3>3, SMT
  <2>2. ~IsPlaying /\ mCurrentWorldFrame = 0
    BY <1>3 DEF IInv, SeatedIffPlaying, ScoreOpen
  <2>3. /\ StartedStatus \in GameStatus /\ StartedStatus.mWorldFrame = 0
        /\ StartedStatus.mCurrentStatus = CGS_STARTED
        /\ StartedStatus.mScore = [s \in Sides |-> 0]
    BY ResetIsStatus, SMT DEF StartedStatus, GameStatus, CurrentGameStatus
  <2>4. /\ mCurrentWorldFrame' \in Nat /\ mFrameHistory' \in Ring(GameStatus)
        /\ mCurrentWorldFrame' = 0
        /\ GetCurrentGameStatus' = StartedStatus
        /\ RewindIsExact'
    BY <1>3, <2>2, <2>3, SetCurrent DEF IInv, StartPlaying
  <2>5. TypeOK'
    BY <1>0, <1>3, <2>4 DEF IInv, TypeOK
  <2>6. IsPlaying'
    BY <2>3, <2>4 DEF IsPlaying
  <2>7. Full' /\ mPlayerUid'[PLAYER_LEFT] > 0
    <3>1. mPlayerUid'[PLAYER_RIGHT] = uid /\ mPlayerUid'[PLAYER_LEFT] = mPlayerUid[PLAYER_LEFT]
      BY <1>0, <1>3
    <3>2. mPlayerUid'[PLAYER_RIGHT] > 0 /\ mPlayerUid'[PLAYER_LEFT] > 0
      BY <1>0, <1>a, <2>1, <3>1, SMT
    <3> QED BY <3>2 DEF Full, Sides
  <2>8. ScoreOpen'
    BY <2>3, <2>4, <2>6, RulesAssumption, SMT DEF ScoreOpen
  <2>9. SeatedIffPlaying'
    BY <2>6, <2>7 DEF SeatedIffPlaying
  <2> QED BY <1>3, <2>1, <2>2, <2>4, <2>5, <2>6, <2>8, <2>9 DEF IInv
<1> QED BY <1>1, <1>2, <1>3 DEF StartGame

(* RacketAction: neither judging an input on a rewound status nor applying *)
(* it to the current frame moves the game on or changes its score.         *)
LEMMA RacketKeeps ==
  ASSUME IInv, NEW req, RacketAction(req), req.mInputFrame \in Nat,
         req.mPosDiff \in Int, req.mIsShoot \in BOOLEAN
  PROVE  /\ IInv' /\ mPlayerUid' = mPlayerUid
         /\ mCurrentWorldFrame' = mCurrentWorldFrame /\ (IsPlaying' <=> IsPlaying)
         /\ GetCurrentGameStatus'.mScore = GetCurrentGameStatus.mScore
         /\ \A f \in OldestFrame(mFrameHistory)' .. mCurrentWorldFrame - 1 :
              GetGameStatus(f)' = GetGameStatus(f)
<1> DEFINE current == GetCurrentGameStatus
           moved == ChangeGameStatus(current, req.mPlayerType, req.mPosDiff, req.mIsShoot)
<1>0. /\ TypeOK /\ SeatedIffPlaying /\ RewindIsExact /\ ScoreOpen
      /\ current \in GameStatus /\ current.mWorldFrame = mCurrentWorldFrame
      /\ mCurrentWorldFrame \in Nat
  BY CurrentRemembered DEF IInv, TypeOK
<1>1. /\ moved \in GameStatus /\ moved.mCurrentStatus = current.mCurrentStatus
      /\ moved.mWorldFrame = mCurrentWorldFrame /\ moved.mScore = current.mScore
  BY <1>0, InputKeeps
<1>2. /\ mPlayerUid' = mPlayerUid
      /\ mResyncNeededInputFrame' \in [Sides -> Nat]
  BY <1>0 DEF RacketAction, TypeOK
<1>3. /\ mCurrentWorldFrame' \in Nat /\ mFrameHistory' \in Ring(GameStatus)
      /\ mCurrentWorldFrame' = mCurrentWorldFrame
      /\ GetCurrentGameStatus'.mCurrentStatus = current.mCurrentStatus
      /\ GetCurrentGameStatus'.mScore = current.mScore
      /\ RewindIsExact'
      /\ \A f \in OldestFrame(mFrameHistory)' .. mCurrentWorldFrame - 1 :
           GetGameStatus(f)' = GetGameStatus(f)
  <2>1. CASE SetCurrentGameStatus(moved)
    <3> HIDE DEF moved
    <3> QED BY <1>0, <1>1, <2>1, SetCurrent
  <2>2. CASE UNCHANGED <<mCurrentWorldFrame, mFrameHistory>>
    BY <1>0, <2>2 DEF TypeOK, RewindIsExact, GetCurrentGameStatus, GetGameStatus
  <2>3. \/ SetCurrentGameStatus(moved)
        \/ UNCHANGED <<mCurrentWorldFrame, mFrameHistory>>
    BY DEF RacketAction
  <2> QED BY <2>1, <2>2, <2>3
<1> HIDE DEF moved
<1>4. TypeOK'
  BY <1>0, <1>2, <1>3 DEF TypeOK
<1>5. IsPlaying' <=> IsPlaying
  BY <1>3 DEF IsPlaying
<1>6. SeatedIffPlaying'
  BY <1>0, <1>2, <1>3, <1>5 DEF SeatedIffPlaying, Full
<1>7. ScoreOpen'
  BY <1>0, <1>3, <1>5 DEF ScoreOpen
<1> QED BY <1>2, <1>3, <1>4, <1>5, <1>6, <1>7 DEF IInv

(* The status of the next frame, which OnFrameUpdate broadcasts.           *)
LEMMA NextStatus ==
  ASSUME IInv
  PROVE  /\ NextFrameStatus \in GameStatus
         /\ GetUpdatedGameStatus(NextFrameStatus) \in GameStatus
         /\ GetUpdatedGameStatus(NextFrameStatus).mWorldFrame = mCurrentWorldFrame + 1
         /\ GetUpdatedGameStatus(NextFrameStatus).mCurrentStatus
              \in {GetCurrentGameStatus.mCurrentStatus} \cup GameOver
<1>1. /\ ScoreOpen /\ GetCurrentGameStatus \in GameStatus /\ mCurrentWorldFrame \in Nat
  BY CurrentRemembered DEF IInv, TypeOK
<1>2. /\ NextFrameStatus \in GameStatus
      /\ NextFrameStatus.mWorldFrame = mCurrentWorldFrame + 1
      /\ NextFrameStatus.mCurrentStatus = GetCurrentGameStatus.mCurrentStatus
  BY <1>1, SMT DEF NextFrameStatus, GameStatus
<1> QED BY <1>2, FrameIsStatus

(* OnFrameUpdate: the winning point ends the game; any other frame gives   *)
(* at most one point and is recorded after the current one.                *)
LEMMA FrameKeeps ==
  ASSUME IInv, OnFrameUpdate
  PROVE  /\ IInv' /\ Full
         /\ mCurrentWorldFrame' \in {0, mCurrentWorldFrame + 1}
         /\ mResyncNeededInputFrame' = NoResync
         /\ \/ /\ mPlayerUid' = NoPlayers /\ GetCurrentGameStatus' = ResetStatus
               /\ \E s \in Sides : GetCurrentGameStatus.mScore[s] + 1 = SCORE_FOR_WIN
            \/ /\ mPlayerUid' = mPlayerUid
               /\ \/ GetCurrentGameStatus'.mScore = GetCurrentGameStatus.mScore
                  \/ \E s \in Sides :
                       /\ GetCurrentGameStatus.mScore[s] + 1 < SCORE_FOR_WIN
                       /\ GetCurrentGameStatus'.mScore
                            = [GetCurrentGameStatus.mScore EXCEPT ![s] = @ + 1]
               /\ \A f \in OldestFrame(mFrameHistory)' .. mCurrentWorldFrame - 1 :
                    GetGameStatus(f)' = GetGameStatus(f)
<1> DEFINE current == GetCurrentGameStatus
           next == GetUpdatedGameStatus(NextFrameStatus)
<1>0. /\ TypeOK /\ SeatedIffPlaying /\ RewindIsExact /\ ScoreOpen
      /\ current \in GameStatus /\ current.mWorldFrame = mCurrentWorldFrame
      /\ mCurrentWorldFrame \in Nat /\ IsPlaying
  BY CurrentRemembered DEF IInv, TypeOK, OnFrameUpdate
<1>1. Full
  BY <1>0 DEF SeatedIffPlaying
<1>2. /\ NextFrameStatus \in GameStatus
      /\ NextFrameStatus.mWorldFrame = mCurrentWorldFrame + 1
      /\ NextFrameStatus.mScore = current.mScore
      /\ NextFrameStatus.mCurrentStatus = current.mCurrentStatus
  BY <1>0, SMT DEF NextFrameStatus, GameStatus
<1>3. \A s \in Sides : NextFrameStatus.mScore[s] < SCORE_FOR_WIN
  BY <1>0, <1>2 DEF ScoreOpen
<1>4. /\ next \in GameStatus /\ next.mWorldFrame = mCurrentWorldFrame + 1
      /\ ~EndsGame(NextFrameStatus) =>
           /\ next.mCurrentStatus = current.mCurrentStatus
           /\ \/ next.mScore = current.mScore
              \/ \E s \in Sides : /\ current.mScore[s] + 1 < SCORE_FOR_WIN
                                  /\ next.mScore = [current.mScore EXCEPT ![s] = @ + 1]
      /\ EndsGame(NextFrameStatus) =>
           \E s \in Sides : current.mScore[s] + 1 = SCORE_FOR_WIN
  BY <1>2, <1>3, FrameScores
<1> HIDE DEF next
<1>5. CASE EndsGame(NextFrameStatus)
  <2>1. GameEnd
    BY <1>5 DEF OnFrameUpdate
  <2>2. mCurrentWorldFrame' = 0 /\ mResyncNeededInputFrame' = NoResync
    BY <2>1 DEF GameEnd, ResetGameStatus
  <2> QED BY <1>1, <1>4, <1>5, <2>1, <2>2, GameEndKeeps
<1>6. CASE ~EndsGame(NextFrameStatus)
  <2>1. /\ SetCurrentGameStatus(next)
        /\ mResyncNeededInputFrame' = NoResync /\ mPlayerUid' = mPlayerUid
    BY <1>6 DEF OnFrameUpdate, next
  <2>2. /\ mCurrentWorldFrame' \in Nat /\ mFrameHistory' \in Ring(GameStatus)
        /\ GetCurrentGameStatus' = next /\ mCurrentWorldFrame' = mCurrentWorldFrame + 1
        /\ \A f \in OldestFrame(mFrameHistory)' .. mCurrentWorldFrame - 1 :
             GetGameStatus(f)' = GetGameStatus(f)
        /\ RewindIsExact'
    BY <1>0, <1>4, <1>6, <2>1, SetCurrent
  <2>3. TypeOK'
    BY <1>0, <2>1, <2>2 DEF TypeOK, NoResync
  <2>4. IsPlaying'
    BY <1>0, <1>4, <1>6, <2>2 DEF IsPlaying
  <2>5. SeatedIffPlaying'
    BY <1>0, <1>1, <2>1, <2>4 DEF SeatedIffPlaying, Full
  <2>6. ScoreOpen'
    <3>1. \A s \in Sides : next.mScore[s] < SCORE_FOR_WIN
      <4>1. current.mScore \in [Sides -> Nat]
        BY <1>0, StatusFields
      <4>2. \A s \in Sides : current.mScore[s] < SCORE_FOR_WIN
        BY <1>0 DEF ScoreOpen
      <4>3. CASE next.mScore = current.mScore
        BY <4>2, <4>3
      <4>4. ASSUME NEW t \in Sides, current.mScore[t] + 1 < SCORE_FOR_WIN,
                   next.mScore = [current.mScore EXCEPT ![t] = @ + 1]
            PROVE  \A s \in Sides : next.mScore[s] < SCORE_FOR_WIN
        BY <4>1, <4>2, <4>4
      <4> QED BY <1>4, <1>6, <4>3, <4>4
    <3> QED BY <2>2, <2>4, <3>1 DEF ScoreOpen
  <2> QED BY <1>1, <1>4, <1>6, <2>1, <2>2, <2>3, <2>5, <2>6 DEF IInv
<1> QED BY <1>5, <1>6

(* The request of the environment carries natural and integer numbers.     *)
LEMMA RequestFields ==
  ASSUME NEW req \in Requests, NEW hash
  PROVE  /\ WithHash(req, hash).mInputFrame \in Nat
         /\ WithHash(req, hash).mPosDiff \in Int
         /\ WithHash(req, hash).mIsShoot \in BOOLEAN
<1>1. /\ req.mInputFrame \in 0 .. MaxInput /\ req.mPosDiff \in PosDiffs
      /\ req.mIsShoot \in BOOLEAN
  BY DEF Requests
<1>2. /\ WithHash(req, hash).mInputFrame = req.mInputFrame
      /\ WithHash(req, hash).mPosDiff = req.mPosDiff
      /\ WithHash(req, hash).mIsShoot = req.mIsShoot
  BY DEF WithHash
<1>3. req.mPosDiff \in Int
  BY <1>1, ManagerAssumption
<1>4. req.mInputFrame \in Nat
  BY <1>1, ManagerAssumption, SMT
<1> QED BY <1>1, <1>2, <1>3, <1>4

----------------------------------------------------------------------------
(* IInv is inductive.                                                      *)
LEMMA NextInvariant == IInv /\ [Next]_game => IInv'
<1> SUFFICES ASSUME IInv, [Next]_game PROVE IInv'
  OBVIOUS
<1>1. CASE Start
  BY <1>1, StartKeeps DEF Start
<1>2. CASE GiveUp
  BY <1>2, GameEndKeeps DEF GiveUp, RequestGiveUp
<1>3. CASE UNCHANGED game
  BY <1>3 DEF game, IInv, TypeOK, SeatedIffPlaying, RewindIsExact, ScoreOpen, IsPlaying,
              GetCurrentGameStatus, GetGameStatus, Full
<1>4. CASE Racket
  <2>1. PICK req \in Requests :
          \E hash \in {GetGameStatusHash(Rewound(req)), OtherHash} :
            RacketAction(WithHash(req, hash)) \/ RejectRacket(WithHash(req, hash))
    BY <1>4 DEF Racket
  <2>2. PICK hash : RacketAction(WithHash(req, hash)) \/ RejectRacket(WithHash(req, hash))
    BY <2>1
  <2>3. CASE RacketAction(WithHash(req, hash))
    <3> DEFINE r == WithHash(req, hash)
    <3>1. r.mInputFrame \in Nat /\ r.mPosDiff \in Int /\ r.mIsShoot \in BOOLEAN
      BY RequestFields
    <3>2. RacketAction(r)
      BY <2>3
    <3> HIDE DEF r
    <3> QED BY <3>1, <3>2, RacketKeeps
  <2> QED BY <1>3, <2>2, <2>3 DEF RejectRacket
<1>5. CASE Frame
  BY <1>5, FrameKeeps DEF Frame
<1> QED BY <1>1, <1>2, <1>3, <1>4, <1>5 DEF Next

(* The inductive invariant holds of every behaviour.                       *)
THEOREM GameInvariant == Spec => []IInv
BY InitInvariant, NextInvariant, PTL DEF Spec

(* The server's state always has its type: no operation records a status   *)
(* outside the ring or a resync request that is not an input number.       *)
THEOREM ManagerTypeCorrect == Spec => []TypeOK
<1>1. IInv => TypeOK
  BY DEF IInv
<1> QED BY <1>1, GameInvariant, PTL

(* The seats of GameManager and the status of GameLogic never disagree.    *)
THEOREM SeatsMatchStatus == Spec => []SeatedIffPlaying
<1>1. IInv => SeatedIffPlaying
  BY DEF IInv
<1> QED BY <1>1, GameInvariant, PTL

(* Rewinding is exact, for every ring size and any lateness of inputs.     *)
THEOREM RewindIsAlwaysExact == Spec => []RewindIsExact
<1>1. IInv => RewindIsExact
  BY DEF IInv
<1> QED BY <1>1, GameInvariant, PTL

(* A racket request, judged or rejected, leaves seats, score and past as   *)
(* they are.                                                               *)
LEMMA RacketCases ==
  ASSUME IInv, Racket
  PROVE  /\ mPlayerUid' = mPlayerUid
         /\ GetCurrentGameStatus'.mScore = GetCurrentGameStatus.mScore
         /\ \A f \in OldestFrame(mFrameHistory)' .. mCurrentWorldFrame - 1 :
              GetGameStatus(f)' = GetGameStatus(f)
<1>1. PICK req \in Requests :
        \E hash \in {GetGameStatusHash(Rewound(req)), OtherHash} :
          RacketAction(WithHash(req, hash)) \/ RejectRacket(WithHash(req, hash))
  BY DEF Racket
<1>2. PICK hash : RacketAction(WithHash(req, hash)) \/ RejectRacket(WithHash(req, hash))
  BY <1>1
<1> DEFINE r == WithHash(req, hash)
<1>3. r.mInputFrame \in Nat /\ r.mPosDiff \in Int /\ r.mIsShoot \in BOOLEAN
  BY RequestFields
<1>4. RacketAction(r) \/ UNCHANGED game
  BY <1>2 DEF RejectRacket
<1>5. CASE UNCHANGED game
  BY <1>5 DEF game, GetCurrentGameStatus, GetGameStatus
<1> HIDE DEF r
<1> QED BY <1>3, <1>4, <1>5, RacketKeeps

(* Late inputs never rewrite the past: RacketAction rewinds to judge only. *)
THEOREM PastStaysPut == Spec => PastIsImmutable
<1>1. IInv /\ [Next]_game =>
        [ mPlayerUid' # NoPlayers =>
            \A f \in OldestFrame(mFrameHistory)' .. mCurrentWorldFrame - 1 :
              GetGameStatus(f)' = GetGameStatus(f) ]_game
  <2> SUFFICES ASSUME IInv, Next, mPlayerUid' # NoPlayers
               PROVE  \A f \in OldestFrame(mFrameHistory)' .. mCurrentWorldFrame - 1 :
                        GetGameStatus(f)' = GetGameStatus(f)
    OBVIOUS
  <2>1. CASE Start
    <3>1. PICK uid \in Uids : StartGame(uid)
      BY <2>1 DEF Start
    <3>2. CASE UNCHANGED <<mCurrentWorldFrame, mFrameHistory>>
      BY <3>2 DEF GetGameStatus
    <3>3. CASE ~IsPlaying /\ mFrameHistory' \in Ring(GameStatus)
      <4>1. mCurrentWorldFrame = 0 /\ mFrameHistory'.mHeadFrame \in Nat
        BY <3>3 DEF IInv, ScoreOpen, Ring
      <4>2. OldestFrame(mFrameHistory') \in Nat
        BY <4>1, RewindAssumption, SMT DEF OldestFrame
      <4> QED BY <4>1, <4>2, SMT
    <3>4. mFrameHistory' \in Ring(GameStatus)
      BY <3>1, StartKeeps DEF IInv, TypeOK
    <3>5. CASE UNCHANGED game
      BY <3>2, <3>5 DEF game
    <3> QED BY <3>1, <3>2, <3>3, <3>4, <3>5, StartKeeps
  <2>2. CASE GiveUp
    BY <2>2 DEF GiveUp, RequestGiveUp, GameEnd
  <2>3. CASE Racket
    BY <2>3, RacketCases
  <2>4. CASE Frame
    BY <2>4, FrameKeeps DEF Frame
  <2> QED BY <2>1, <2>2, <2>3, <2>4 DEF Next
<1> QED BY <1>1, GameInvariant, PTL DEF Spec, PastIsImmutable

(* Nobody has won a game that still runs.                                  *)
THEOREM ScoreStaysOpen == Spec => []ScoreOpen
<1>1. IInv => ScoreOpen
  BY DEF IInv
<1> QED BY <1>1, GameInvariant, PTL

----------------------------------------------------------------------------
(* An empty or a full pair of seats, seen by Match.                        *)
LEMMA SeatsInMatch ==
  /\ NoPlayers = Game!Empty
  /\ ResetStatus.mScore = Game!LoveAll
  /\ TypeOK => (Game!Playing <=> Full)
<1>1. NoPlayers = Game!Empty
  BY DEF NoPlayers, Game!Empty, Game!Nobody
<1>2. ResetStatus.mScore = Game!LoveAll
  BY ResetIsStatus DEF Game!LoveAll
<1>3. ASSUME TypeOK, NEW s \in Sides PROVE mPlayerUid[s] \in Nat
  <2>1. mPlayerUid[s] \in Uids \cup {0}
    BY <1>3 DEF TypeOK
  <2> QED BY <2>1, UidsAreNat, Zenon
<1>4. TypeOK => (Game!Playing <=> Full)
  BY <1>3 DEF Game!Playing, Game!Nobody, Full
<1> QED BY <1>1, <1>2, <1>4

(* The server implements Match: frames, history, lasers and late inputs    *)
(* never show in who is seated and what the score is.                      *)
THEOREM ManagerImplementsMatch == Spec => ImplementsMatch
<1>1. Init => Game!Init
  <2> SUFFICES ASSUME Init PROVE Game!Init
    OBVIOUS
  <2>1. GetCurrentGameStatus = ResetStatus
    BY IdleIsExact DEF Init, Idle
  <2> QED BY <2>1, SeatsInMatch DEF Init, Game!Init
<1>2. IInv /\ [Next]_game => [Game!Next]_(Game!match)
  <2> SUFFICES ASSUME IInv, [Next]_game PROVE [Game!Next]_(Game!match)
    OBVIOUS
  <2> DEFINE score == GetCurrentGameStatus.mScore
  <2>0. TypeOK /\ SeatedIffPlaying /\ ScoreOpen
    BY DEF IInv
  <2>1. ASSUME mPlayerUid' = mPlayerUid, score' = score PROVE UNCHANGED Game!match
    BY <2>1 DEF Game!match
  <2>2. CASE UNCHANGED game
    BY <2>1, <2>2 DEF game, GetCurrentGameStatus, GetGameStatus
  <2>3. ASSUME NEW uid \in Uids, StartGame(uid) PROVE [Game!Next]_(Game!match)
    <3>1. CASE /\ mPlayerUid = NoPlayers
               /\ mPlayerUid' = [mPlayerUid EXCEPT ![PLAYER_LEFT] = uid]
               /\ UNCHANGED <<mCurrentWorldFrame, mFrameHistory>>
      <4>1. score' = score /\ ~Full
        BY <3>1, SMT DEF GetCurrentGameStatus, GetGameStatus, Full, NoPlayers, Sides
      <4>2. score = Game!LoveAll
        BY <2>0, <4>1 DEF SeatedIffPlaying, ScoreOpen, Game!LoveAll
      <4>3. Game!Wait(uid)
        BY <3>1, <4>1, <4>2, SeatsInMatch DEF Game!Wait
      <4> QED BY <4>3 DEF Game!Next
    <3>2. CASE /\ mPlayerUid[PLAYER_LEFT] # 0 /\ mPlayerUid[PLAYER_RIGHT] = 0
               /\ mPlayerUid' = [mPlayerUid EXCEPT ![PLAYER_RIGHT] = uid]
               /\ GetCurrentGameStatus' = StartedStatus
      <4>1. score' = Game!LoveAll
        BY <3>2, ResetIsStatus, SeatsInMatch DEF StartedStatus
      <4>2. Game!Start(uid)
        BY <3>2, <4>1 DEF Game!Start, Game!Nobody
      <4> QED BY <4>2 DEF Game!Next
    <3> QED BY <2>2, <2>3, <3>1, <3>2, StartKeeps
  <2>4. CASE GiveUp
    <3>1. PICK uid \in Uids : GetPlayerType(uid) # PLAYER_NONE /\ GameEnd
      BY <2>4 DEF GiveUp, RequestGiveUp
    <3>2. mPlayerUid # Game!Empty
      <4>1. uid # 0
        BY ManagerAssumption
      <4>2. mPlayerUid[PLAYER_LEFT] = uid \/ mPlayerUid[PLAYER_RIGHT] = uid
        BY <3>1 DEF GetPlayerType
      <4> QED BY <4>1, <4>2 DEF Game!Empty, Game!Nobody, Sides
    <3>3. Game!End
      BY <3>1, GameEndKeeps, SeatsInMatch DEF Game!End
    <3> QED BY <3>2, <3>3 DEF Game!Surrender, Game!Next
  <2>5. CASE Racket
    BY <2>1, <2>5, RacketCases
  <2>6. CASE Frame
    <3>1. OnFrameUpdate
      BY <2>6 DEF Frame
    <3>2. Game!Playing
      BY <2>0, <3>1, FrameKeeps, SeatsInMatch
    <3>3. CASE /\ mPlayerUid' = NoPlayers /\ GetCurrentGameStatus' = ResetStatus
               /\ \E s \in Sides : score[s] + 1 = SCORE_FOR_WIN
      <4>1. Game!End
        BY <3>3, SeatsInMatch DEF Game!End
      <4>2. PICK s \in Sides : score[s] + 1 = SCORE_FOR_WIN
        BY <3>3
      <4>3. Game!Win(s)
        BY <3>2, <4>1, <4>2 DEF Game!Win
      <4> QED BY <4>3 DEF Game!Next
    <3>4. CASE mPlayerUid' = mPlayerUid /\ score' = score
      BY <2>1, <3>4
    <3>5. ASSUME mPlayerUid' = mPlayerUid,
                 NEW s \in Sides, score[s] + 1 < SCORE_FOR_WIN,
                 score' = [score EXCEPT ![s] = @ + 1]
          PROVE  [Game!Next]_(Game!match)
      <4>1. Game!Point(s)
        BY <3>2, <3>5 DEF Game!Point
      <4> QED BY <4>1 DEF Game!Next
    <3> QED BY <3>1, <3>3, <3>4, <3>5, FrameKeeps
  <2> QED BY <2>2, <2>3, <2>4, <2>5, <2>6 DEF Next, Start
<1> QED BY <1>1, <1>2, GameInvariant, PTL DEF Spec, ImplementsMatch, Game!Spec
=============================================================================
