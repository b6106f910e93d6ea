----------------------------- MODULE GameRules -----------------------------
(***************************************************************************)
(* The rules of one frame of the laser game: the GameStatus both programs  *)
(* share and the static functions of GameLogic that change it.  Server and *)
(* client call the same functions, so every module that moves a racket or  *)
(* advances a frame uses these operators.                                  *)
(*                                                                         *)
(* The left and right fields of the C++ struct are one function over       *)
(* Sides.  A racket position is counted in RACKET_SPEED steps from the     *)
(* position ResetStatus gives it: every input moves a racket by one such   *)
(* step, and only the difference of the two positions is ever read.        *)
(***************************************************************************)
EXTENDS Integers

CONSTANTS
  SHOOT_FRAME_LENGTH,  \* frames a laser that misses stays on
  SCORE_FOR_WIN,       \* hits that win the game
  HitReach             \* half a racket, in RACKET_SPEED steps

ASSUME RulesAssumption ==
  /\ SHOOT_FRAME_LENGTH \in Nat \ {0}
  /\ SCORE_FOR_WIN \in Nat \ {0}
  /\ HitReach \in Nat \ {0}

PLAYER_NONE  == "PLAYER_NONE"
PLAYER_LEFT  == "PLAYER_LEFT"
PLAYER_RIGHT == "PLAYER_RIGHT"
Sides        == {PLAYER_LEFT, PLAYER_RIGHT}
PlayerType   == Sides \cup {PLAYER_NONE}

CGS_NOT_STARTED         == "CGS_NOT_STARTED"
CGS_STARTED             == "CGS_STARTED"
CGS_GAME_OVER_LEFT_WIN  == "CGS_GAME_OVER_LEFT_WIN"
CGS_GAME_OVER_RIGHT_WIN == "CGS_GAME_OVER_RIGHT_WIN"
GameOver                == {CGS_GAME_OVER_LEFT_WIN, CGS_GAME_OVER_RIGHT_WIN}
CurrentGameStatus       == {CGS_NOT_STARTED, CGS_STARTED} \cup GameOver

\* Every function that takes a PlayerType tests for the left player and
\* treats any other value as the right one.
SideOf(player)  == IF player = PLAYER_LEFT THEN PLAYER_LEFT ELSE PLAYER_RIGHT
Opponent(side)  == IF side = PLAYER_LEFT THEN PLAYER_RIGHT ELSE PLAYER_LEFT
WonBy(side)     == IF side = PLAYER_LEFT THEN CGS_GAME_OVER_LEFT_WIN
                                         ELSE CGS_GAME_OVER_RIGHT_WIN

GameStatus ==
  [ mCurrentStatus : CurrentGameStatus,
    mWorldFrame    : Nat,
    mRacketPosY    : [Sides -> Int],
    mShoot         : [Sides -> 0 .. SHOOT_FRAME_LENGTH],
    mScore         : [Sides -> Nat] ]

ResetStatus ==
  [ mCurrentStatus |-> CGS_NOT_STARTED,
    mWorldFrame    |-> 0,
    mRacketPosY    |-> [s \in Sides |-> 0],
    mShoot         |-> [s \in Sides |-> 0],
    mScore         |-> [s \in Sides |-> 0] ]

----------------------------------------------------------------------------
(* Input: a racket moves, and a laser starts unless one is already on.     *)

NewShoot(stat, player, shoot) == shoot /\ stat.mShoot[SideOf(player)] = 0

ChangeGameStatus(stat, player, posDiff, shoot) ==
  LET moved == [stat EXCEPT !.mRacketPosY[SideOf(player)] = @ + posDiff]
  IN  IF NewShoot(stat, player, shoot)
      THEN [moved EXCEPT !.mShoot[SideOf(player)] = SHOOT_FRAME_LENGTH]
      ELSE moved

\* What ChangeGameStatus returns.
ChangesStatus(stat, player, posDiff, shoot) ==
  posDiff # 0 \/ NewShoot(stat, player, shoot)

----------------------------------------------------------------------------
(* One frame: lasers of both sides cancel; a single one hits or burns on.  *)

BothShoot(stat) == \A s \in Sides : stat.mShoot[s] > 0

Hits(stat, side) ==
  LET off == stat.mRacketPosY[side] - stat.mRacketPosY[Opponent(side)]
  IN  -HitReach < off /\ off < HitReach

Scored(stat, side) == [stat EXCEPT !.mScore[side] = @ + 1]

\* Seeded mistake: the else is missing, a hit burns the reset laser too.
FireWithoutElse(stat, side) ==
  IF Hits(stat, side) THEN [Scored(stat, side) EXCEPT !.mShoot[side] = -1]
                      ELSE [stat EXCEPT !.mShoot[side] = @ - 1]

Fire(stat, side) ==
  IF Hits(stat, side) THEN [Scored(stat, side) EXCEPT !.mShoot[side] = 0]
                      ELSE [stat EXCEPT !.mShoot[side] = @ - 1]

\* The only side whose laser is on.
Shoots(stat, side) == stat.mShoot[side] > 0 /\ ~BothShoot(stat)

\* Seeded mistake: off by one, the game goes on at the winning score.
WinsLate(stat, side) ==
  Shoots(stat, side) /\ Fire(stat, side).mScore[side] > SCORE_FOR_WIN

Wins(stat, side) ==
  Shoots(stat, side) /\ Fire(stat, side).mScore[side] = SCORE_FOR_WIN

FireAndJudge(stat, side) ==
  IF Wins(stat, side)
  THEN [Fire(stat, side) EXCEPT !.mCurrentStatus = WonBy(side)]
  ELSE Fire(stat, side)

GetUpdatedGameStatus(stat) ==
  IF BothShoot(stat)            THEN [stat EXCEPT !.mShoot = [s \in Sides |-> 0]]
  ELSE IF Shoots(stat, PLAYER_LEFT)  THEN FireAndJudge(stat, PLAYER_LEFT)
  ELSE IF Shoots(stat, PLAYER_RIGHT) THEN FireAndJudge(stat, PLAYER_RIGHT)
  ELSE stat

\* What GetUpdatedGameStatus returns.
EndsGame(stat) == \E s \in Sides : Wins(stat, s)

----------------------------------------------------------------------------
(* The fields that must agree on both ends.  Two values have one hash      *)
(* exactly when these fields are equal: collisions of the 64-bit hash are  *)
(* not modelled.  Racket positions are left out of it.                     *)

GetGameStatusHash(stat) ==
  <<stat.mCurrentStatus, stat.mWorldFrame, stat.mShoot, stat.mScore>>

\* What the player's surrender does to the status of the current frame.
GaveUp(stat, player) ==
  [stat EXCEPT !.mCurrentStatus = WonBy(Opponent(SideOf(player)))]
=============================================================================
