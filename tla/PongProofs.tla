------------------------------ MODULE PongProofs ------------------------------
(***************************************************************************)
(* The whole game, for any clients, inputs, delays and bounds: what        *)
(* reaches the server's GameManager, and what the clients make of what it  *)
(* broadcasts.                                                             *)
(***************************************************************************)
EXTENDS Pong, SequenceTheorems, WellFoundedInduction, TLAPS

\* The theorems about GameManager, of the server of this game.
Manager == INSTANCE GameManagerProofs WITH
             Uids <- 1 .. MaxUid, PosDiffs <- {input[1] : input \in Inputs}

----------------------------------------------------------------------------
(* The server is the one those theorems are about.                         *)

(* What they assume of the constants.                                      *)
LEMMA ManagerConstants ==
  /\ MAX_REWIND \in Nat \ {0}
  /\ 1 .. MaxUid \subseteq Nat \ {0}
  /\ {input[1] : input \in Inputs} \subseteq Int
  /\ MaxFrame \in Nat /\ MaxPosY \in Nat /\ MaxInput \in Nat
<1>1. 1 .. MaxUid \subseteq Nat \ {0}
  BY PongAssumption, SMT
<1> QED BY <1>1, PongAssumption

----------------------------------------------------------------------------
(* What clients, packets and jobs are.                                     *)

PosDiffs == {input[1] : input \in Inputs}

Input == [mInputFrame : Int, mPosDiff : Int, mShoot : BOOLEAN]

Gui ==
  [ mMyPlayerType : PlayerType, mGameStatus : GameStatus,
    mRecentWorldFrame : Int, mRecentInputFrame : Int, mInputHistory : Seq(Input) ]

\* A client in the game numbers its inputs from 0; one that shows a running
\* game shows a frame it was told of.
Sane(g) ==
  /\ Plays(g) => g.mRecentInputFrame \in Nat
  /\ Started(g) => /\ g.mRecentWorldFrame = g.mGameStatus.mWorldFrame
                   /\ g.mRecentWorldFrame > 0

Numbered(g) ==
  \A i \in 1 .. Len(g.mInputHistory) :
    g.mInputHistory[i].mInputFrame = g.mRecentInputFrame - Len(g.mInputHistory) + i - 1

ClientOK(g) == g \in Gui /\ Sane(g) /\ Numbered(g)

Hash ==
  CurrentGameStatus \X Nat \X [Sides -> 0 .. SHOOT_FRAME_LENGTH] \X [Sides -> Nat]

Request ==
  [ mPlayerType : Sides, mPosDiff : PosDiffs, mIsShoot : BOOLEAN,
    mRecentWorldFrame : Nat \ {0}, mInputFrame : 0 .. MaxInput, mStatusHash : Hash ]

\* A broadcast shows a game that is over, or one that runs and is past frame 0.
Status ==
  { status \in [mGameStatus : GameStatus, mResyncNeededInputFrame : [Sides -> Nat]] :
      \/ status.mGameStatus.mCurrentStatus \in GameOver
      \/ status.mGameStatus.mWorldFrame > 0 }

UpPacket ==
  [mType : {"PKT_CS_START"}] \cup [mType : {"PKT_CS_EXIT"}, mPlayerType : Sides]
    \cup [mType : {"PKT_CS_RACKET"}, mRequest : Request]

DownPacket ==
  [mType : {"PKT_SC_START"}, mYourPlayerType : Sides]
    \cup [mType : {"PKT_SC_GAME_STATUS"}, mStatus : Status]

Job ==
  [mOwner : Nat, wait : Int, task : {"RacketAction"}, arg : Request]
    \cup [mOwner : Nat, wait : Int, task : {"SendGameStatus"}, arg : Status]

----------------------------------------------------------------------------
(* The client's operations.                                                *)

(* GameStatus() is a status at love all.                                   *)
LEMMA ResetIsStatus ==
  /\ ResetStatus \in GameStatus /\ ResetStatus.mWorldFrame = 0
  /\ ResetStatus.mCurrentStatus = CGS_NOT_STARTED
BY RulesAssumption, SMT DEF ResetStatus, GameStatus, CurrentGameStatus

(* The client's rules are those the lemmas of GameManagerProofs speak of.  *)
LEMMA RulesAreManagers ==
  /\ Manager!GameStatus = GameStatus
  /\ \A stat, player, posDiff, shoot :
       Manager!ChangeGameStatus(stat, player, posDiff, shoot)
         = ChangeGameStatus(stat, player, posDiff, shoot)
  /\ \A stat : Manager!GetUpdatedGameStatus(stat) = GetUpdatedGameStatus(stat)
<1> USE DEF Manager!Sides, Sides, Manager!PLAYER_LEFT, PLAYER_LEFT,
            Manager!PLAYER_RIGHT, PLAYER_RIGHT,
            Manager!CGS_GAME_OVER_LEFT_WIN, CGS_GAME_OVER_LEFT_WIN,
            Manager!CGS_GAME_OVER_RIGHT_WIN, CGS_GAME_OVER_RIGHT_WIN
<1>1. Manager!GameStatus = GameStatus
  BY DEF Manager!GameStatus, GameStatus, Manager!CurrentGameStatus, CurrentGameStatus,
         Manager!GameOver, GameOver, Manager!CGS_STARTED, CGS_STARTED,
         Manager!CGS_NOT_STARTED, CGS_NOT_STARTED
<1>2. \A stat, player, posDiff, shoot :
        Manager!ChangeGameStatus(stat, player, posDiff, shoot)
          = ChangeGameStatus(stat, player, posDiff, shoot)
  BY DEF Manager!ChangeGameStatus, ChangeGameStatus, Manager!NewShoot, NewShoot,
         Manager!SideOf, SideOf
<1>3. ASSUME NEW stat
      PROVE  Manager!GetUpdatedGameStatus(stat) = GetUpdatedGameStatus(stat)
  <2>1. /\ Manager!BothShoot(stat) <=> BothShoot(stat)
        /\ \A side : Manager!Fire(stat, side) = Fire(stat, side)
        /\ \A side : Manager!WonBy(side) = WonBy(side)
    BY DEF Manager!BothShoot, BothShoot, Manager!Fire, Fire, Manager!Hits, Hits,
           Manager!Scored, Scored, Manager!Opponent, Opponent, Manager!WonBy, WonBy
  <2>2. \A side : Manager!Wins(stat, side) <=> Wins(stat, side)
    BY <2>1 DEF Manager!Wins, Wins, Manager!Shoots, Shoots
  <2> QED BY <2>1, <2>2 DEF Manager!GetUpdatedGameStatus, GetUpdatedGameStatus,
         Manager!Shoots, Shoots, Manager!FireAndJudge, FireAndJudge
<1> QED BY <1>1, <1>2, <1>3

(* A prediction is a status of the frame the client shows.                 *)
LEMMA PredictIsStatus ==
  ASSUME NEW stat \in GameStatus, NEW player, NEW posDiff \in Int, NEW shoot \in BOOLEAN,
         NEW next, next = GetUpdatedGameStatus(ChangeGameStatus(stat, player, posDiff, shoot))
  PROVE  next \in GameStatus /\ next.mWorldFrame = stat.mWorldFrame
<1>1. PICK mid : mid = ChangeGameStatus(stat, player, posDiff, shoot)
  OBVIOUS
<1>2. mid \in GameStatus /\ mid.mWorldFrame = stat.mWorldFrame
  BY <1>1, ManagerConstants, RulesAssumption, RulesAreManagers, Manager!InputKeeps
<1>3. next = GetUpdatedGameStatus(mid)
  BY <1>1
<1> QED BY <1>2, <1>3, ManagerConstants, RulesAssumption, RulesAreManagers, Manager!FrameIsStatus

(* A set of numbers with 0, and with n + 1 for each n in it, has them all. *)
LEMMA SetInduction ==
  ASSUME NEW T, 0 \in T, \A n \in Nat : n \in T => n + 1 \in T
  PROVE  \A n \in Nat : n \in T
<1> DEFINE Rest == {n \in Nat : n \notin T}
           R == OpToRel(<, Nat)
<1>1. SUFFICES ASSUME Rest # {} PROVE FALSE
  BY DEF Rest
<1>2. PICK x \in Rest : \A y \in Rest : <<y, x>> \notin R
  <2>1. Rest \subseteq Nat /\ IsWellFoundedOn(R, Nat)
    BY NatLessThanWellFounded
  <2> HIDE DEF Rest, R
  <2> QED BY <1>1, <2>1, WFMin
<1>3. x \in Nat /\ x # 0 /\ x \notin T
  BY <1>2
<1>4. x - 1 \in Nat /\ x - 1 < x /\ (x - 1) + 1 = x
  BY <1>3, SMT
<1>5. x - 1 \notin Rest
  <2>1. <<x - 1, x>> \in R
    BY <1>3, <1>4 DEF OpToRel
  <2> QED BY <1>2, <2>1
<1> QED BY <1>3, <1>4, <1>5

\* The statuses of a replay: status[i] has the first i remembered inputs in it.
Replays(g, from, status, n) ==
  /\ status[0] = g.mGameStatus
  /\ \A i \in 1 .. n : status[i] = Replay(g, from, status[i - 1], g.mInputHistory[i])

(* Replaying inputs gives a status of the same frame.                      *)
LEMMA ReplayedIsStatus ==
  ASSUME NEW g, g.mGameStatus \in GameStatus, g.mInputHistory \in Seq(Input), NEW from
  PROVE  /\ Replayed(g, from) \in GameStatus
         /\ Replayed(g, from).mWorldFrame = g.mGameStatus.mWorldFrame
<1> DEFINE h == g.mInputHistory
           n == Len(h)
           S == {stat \in GameStatus : stat.mWorldFrame = g.mGameStatus.mWorldFrame}
<1>0. n \in Nat /\ g.mGameStatus \in S
  BY LenProperties
<1>1. ASSUME NEW stat \in S, NEW i \in 1 .. n PROVE Replay(g, from, stat, h[i]) \in S
  <2>1. h[i] \in Input
    BY ElementOfSeq
  <2>2. h[i].mPosDiff \in Int /\ h[i].mShoot \in BOOLEAN
    BY <2>1 DEF Input
  <2>3. CASE h[i].mInputFrame <= from
    BY <2>3 DEF Replay
  <2>4. CASE ~(h[i].mInputFrame <= from)
    BY <2>2, <2>4, PredictIsStatus DEF Replay
  <2> QED BY <2>3, <2>4
<1> HIDE DEF S
<1>2. \E f \in [0 .. n -> S] : Replays(g, from, f, n)
  <2> DEFINE T == {m \in Nat : m <= n => \E f \in [0 .. m -> S] : Replays(g, from, f, m)}
  <2>1. 0 \in T
    <3> DEFINE f == [i \in 0 .. 0 |-> g.mGameStatus]
    <3>1. f \in [0 .. 0 -> S] /\ f[0] = g.mGameStatus /\ \A i \in 1 .. 0 : FALSE
      BY <1>0, SMT
    <3> QED BY <3>1 DEF Replays
  <2>2. ASSUME NEW m \in Nat, m \in T PROVE m + 1 \in T
    <3> SUFFICES ASSUME m + 1 <= n
                 PROVE  \E f \in [0 .. m + 1 -> S] : Replays(g, from, f, m + 1)
      OBVIOUS
    <3> HIDE DEF h, n
    <3>1. PICK f \in [0 .. m -> S] : Replays(g, from, f, m)
      BY <1>0, <2>2, SMT
    <3> DEFINE last == Replay(g, from, f[m], h[m + 1])
               t == [i \in 0 .. m + 1 |-> IF i = m + 1 THEN last ELSE f[i]]
    <3>2. last \in S
      <4>1. m + 1 \in 1 .. n /\ f[m] \in S
        BY <1>0, SMT
      <4> QED BY <1>1, <4>1
    <3> HIDE DEF last
    <3>3. t \in [0 .. m + 1 -> S]
      BY <3>2, SMT
    <3>4. t[0] = g.mGameStatus
      BY <3>1, SMT DEF Replays
    <3>5. ASSUME NEW i \in 1 .. m + 1 PROVE t[i] = Replay(g, from, t[i - 1], h[i])
      <4>1. i \in 0 .. m + 1 /\ i - 1 \in 0 .. m /\ i - 1 \in 0 .. m + 1 /\ i - 1 # m + 1
        BY SMT
      <4>2. t[i - 1] = f[i - 1]
        BY <4>1
      <4>3. CASE i = m + 1
        <5>1. i - 1 = m
          BY <4>3, SMT
        <5> QED BY <4>1, <4>2, <4>3, <5>1 DEF last
      <4>4. CASE i # m + 1
        <5>1. i \in 1 .. m
          BY <4>4, SMT
        <5>2. t[i] = f[i]
          BY <4>1, <4>4
        <5> QED BY <3>1, <4>2, <5>1, <5>2 DEF Replays, h
      <4> QED BY <4>3, <4>4
    <3> HIDE DEF t
    <3> QED BY <3>3, <3>4, <3>5 DEF Replays, h
  <2>3. n \in T
    <3> HIDE DEF T, n
    <3> QED BY <1>0, <2>1, <2>2, SetInduction
  <2> QED BY <1>0, <2>3
<1>3. PICK f \in [0 .. n -> S] : Replays(g, from, f, n)
  BY <1>2
<1> DEFINE Eqn(st) == st = [i \in 0 .. n |-> IF i = 0 THEN g.mGameStatus
                                             ELSE Replay(g, from, st[i - 1], h[i])]
           status == CHOOSE st : Eqn(st)
<1>4. Eqn(f)
  <2>1. ASSUME NEW i \in 0 .. n
        PROVE  f[i] = IF i = 0 THEN g.mGameStatus ELSE Replay(g, from, f[i - 1], h[i])
    <3>1. i # 0 => i \in 1 .. n
      BY <1>0, SMT
    <3> QED BY <1>3, <3>1 DEF Replays
  <2> QED BY <2>1
<1>5. Eqn(status)
  <2> HIDE DEF Eqn
  <2> QED BY <1>4
<1>6. Replayed(g, from) = status[n]
  BY DEF Replayed
<1> HIDE DEF status, n, h
<1>7. \A i \in 0 .. n : status[i] = IF i = 0 THEN g.mGameStatus
                                     ELSE Replay(g, from, status[i - 1], h[i])
  BY <1>5
<1> HIDE DEF Eqn
<1> DEFINE T == {i \in Nat : i \in 0 .. n => status[i] \in S}
<1>8. 0 \in T
  BY <1>0, <1>7, SMT
<1>9. ASSUME NEW i \in Nat, i \in T PROVE i + 1 \in T
  <2> SUFFICES ASSUME NEW j, j = i + 1, j \in 0 .. n PROVE status[j] \in S
    OBVIOUS
  <2>1. j \in 1 .. n /\ j # 0 /\ j - 1 = i /\ i \in 0 .. n
    BY <1>0, SMT
  <2>2. status[i] \in S
    BY <1>9, <2>1
  <2>3. status[j] = Replay(g, from, status[i], h[j])
    BY <1>7, <2>1
  <2> QED BY <1>1, <2>1, <2>2, <2>3
<1>10. status[n] \in S
  <2> HIDE DEF T
  <2>1. n \in T
    BY <1>0, <1>8, <1>9, SetInduction
  <2>2. n \in 0 .. n
    BY <1>0, SMT
  <2> QED BY <2>1, <2>2 DEF T
<1> QED BY <1>6, <1>10 DEF S

(* A new client, whatever its uninitialized counters hold, and one that    *)
(* was reset.                                                              *)
LEMMA FreshOK ==
  ASSUME NEW w \in Int, NEW i \in Int
  PROVE  ClientOK(Fresh(w, i)) /\ ClientOK(Reset)
<1>1. ASSUME NEW v \in Int, NEW j \in Int PROVE ClientOK(Fresh(v, j))
  <2>1. << >> \in Seq(Input) /\ Len(<< >>) = 0
    BY EmptySeq
  <2>2. Fresh(v, j) \in Gui
    BY <2>1, ResetIsStatus DEF Fresh, Gui, PlayerType
  <2>3. Sane(Fresh(v, j))
    BY ResetIsStatus DEF Sane, Fresh, Plays, Started, CGS_STARTED, CGS_NOT_STARTED
  <2>4. Numbered(Fresh(v, j))
    BY <2>1, SMT DEF Numbered, Fresh
  <2> QED BY <2>2, <2>3, <2>4 DEF ClientOK
<1> QED BY <1>1 DEF Reset

(* A client that is told its side numbers its inputs from 0.               *)
LEMMA GameStartOK ==
  ASSUME NEW side \in Sides
  PROVE  ClientOK(OnGameStart(side))
<1> DEFINE g == OnGameStart(side)
<1>1. << >> \in Seq(Input) /\ Len(<< >>) = 0
  BY EmptySeq
<1>2. /\ g = [ mMyPlayerType |-> side, mGameStatus |-> ResetStatus, mRecentWorldFrame |-> 0,
               mRecentInputFrame |-> 0, mInputHistory |-> << >> ]
  BY DEF OnGameStart, Reset, Fresh
<1> HIDE DEF g
<1>3. g \in Gui
  BY <1>1, <1>2, ResetIsStatus DEF Gui, PlayerType
<1>4. Sane(g)
  BY <1>2, ResetIsStatus DEF Sane, Started, CGS_STARTED, CGS_NOT_STARTED
<1>5. Numbered(g)
  BY <1>1, <1>2, SMT DEF Numbered
<1> QED BY <1>3, <1>4, <1>5 DEF ClientOK, g

(* OnUpdate: the prediction is of the frame shown, and an input that       *)
(* changes something is remembered under the next number.                  *)
LEMMA UpdateOK ==
  ASSUME NEW g, ClientOK(g), Started(g), NEW posDiff \in Int, NEW shoot \in BOOLEAN
  PROVE  ClientOK(AfterUpdate(g, posDiff, shoot))
<1> DEFINE stat == Predict(g, posDiff, shoot)
           input == InputElem(g.mRecentInputFrame, posDiff, shoot)
           h == g.mInputHistory
           predicted == [g EXCEPT !.mGameStatus = stat]
           noted == [predicted EXCEPT !.mInputHistory = Append(@, input),
                                      !.mRecentInputFrame = @ + 1]
<1>0. /\ g \in Gui /\ g.mMyPlayerType \in PlayerType /\ g.mGameStatus \in GameStatus
      /\ g.mRecentWorldFrame \in Int /\ g.mRecentInputFrame \in Int /\ h \in Seq(Input)
      /\ Plays(g) => g.mRecentInputFrame \in Nat
      /\ g.mRecentWorldFrame = g.mGameStatus.mWorldFrame /\ g.mRecentWorldFrame > 0
  BY DEF ClientOK, Sane, Gui
<1>1. stat \in GameStatus /\ stat.mWorldFrame = g.mGameStatus.mWorldFrame
  BY <1>0, PredictIsStatus DEF Predict
<1> HIDE DEF stat
<1>2. input \in Input /\ input.mInputFrame = g.mRecentInputFrame
  BY <1>0 DEF InputElem, Input
<1> HIDE DEF input
<1>3. /\ Append(h, input) \in Seq(Input) /\ Len(Append(h, input)) = Len(h) + 1 /\ Len(h) \in Nat
      /\ \A i \in 1 .. Len(h) : Append(h, input)[i] = h[i]
      /\ Append(h, input)[Len(h) + 1] = input
  BY <1>0, <1>2, AppendProperties, LenProperties
<1>4. /\ predicted \in Gui /\ predicted.mInputHistory = h
      /\ predicted.mRecentInputFrame = g.mRecentInputFrame
      /\ predicted.mMyPlayerType = g.mMyPlayerType
      /\ predicted.mRecentWorldFrame = g.mRecentWorldFrame /\ predicted.mGameStatus = stat
  BY <1>0, <1>1 DEF Gui
<1>5. /\ noted \in Gui /\ noted.mInputHistory = Append(h, input)
      /\ noted.mRecentInputFrame = g.mRecentInputFrame + 1
      /\ noted.mMyPlayerType = g.mMyPlayerType
      /\ noted.mRecentWorldFrame = g.mRecentWorldFrame /\ noted.mGameStatus = stat
  <2> HIDE DEF predicted
  <2>1. g.mRecentInputFrame + 1 \in Int
    BY <1>0, SMT
  <2> QED BY <1>3, <1>4, <2>1 DEF Gui
<1> HIDE DEF predicted, noted
<1>6. ClientOK(predicted)
  <2>1. Sane(predicted)
    BY <1>0, <1>1, <1>4 DEF Sane, Plays
  <2>2. Numbered(predicted)
    BY <1>4 DEF ClientOK, Numbered
  <2> QED BY <1>4, <2>1, <2>2 DEF ClientOK
<1>7. ClientOK(noted)
  <2>1. Sane(noted)
    <3>1. Plays(noted) => noted.mRecentInputFrame \in Nat
      <4>1. Plays(noted) => g.mRecentInputFrame \in Nat
        BY <1>0, <1>5 DEF Plays
      <4> QED BY <1>5, <4>1, SMT
    <3> QED BY <1>0, <1>1, <1>5, <3>1 DEF Sane
  <2>2. Numbered(noted)
    <3> DEFINE n == Len(h)
    <3>1. n \in Nat /\ Len(noted.mInputHistory) = n + 1
      BY <1>3, <1>5
    <3>2. ASSUME NEW i \in 1 .. n + 1
          PROVE  noted.mInputHistory[i].mInputFrame
                   = noted.mRecentInputFrame - Len(noted.mInputHistory) + i - 1
      <4>1. CASE i = n + 1
        <5>1. noted.mInputHistory[i].mInputFrame = g.mRecentInputFrame
          BY <1>2, <1>3, <1>5, <4>1
        <5> HIDE DEF n, h
        <5> QED BY <1>0, <1>5, <3>1, <4>1, <5>1, SMT
      <4>2. CASE i # n + 1
        <5>1. i \in 1 .. n
          <6> HIDE DEF n
          <6> QED BY <3>1, <4>2, SMT
        <5>2. noted.mInputHistory[i].mInputFrame = g.mRecentInputFrame - n + i - 1
          BY <1>3, <1>5, <5>1 DEF ClientOK, Numbered
        <5> HIDE DEF n, h
        <5> QED BY <1>0, <1>5, <3>1, <5>1, <5>2, SMT
      <4> QED BY <4>1, <4>2
    <3> QED BY <3>1, <3>2 DEF Numbered
  <2> QED BY <1>5, <2>1, <2>2 DEF ClientOK
<1>8. AfterUpdate(g, posDiff, shoot) \in {predicted, noted}
  BY DEF AfterUpdate, predicted, noted, stat, input
<1> QED BY <1>6, <1>7, <1>8

(* OnStatusChange: whatever broadcast a client takes, and whatever it puts *)
(* on top of it in a resync, it shows the frame of that broadcast.         *)
LEMMA StatusChangeOK ==
  ASSUME NEW g, ClientOK(g), NEW packet \in Status
  PROVE  ClientOK(OnStatusChange(g, packet))
<1> DEFINE stat == packet.mGameStatus
           from == ResyncFrom(g, packet)
           shown == [g EXCEPT !.mGameStatus = stat, !.mRecentWorldFrame = stat.mWorldFrame]
           resynced == Resync(shown, from)
<1>0. /\ g \in Gui /\ g.mRecentInputFrame \in Int /\ g.mInputHistory \in Seq(Input)
      /\ Plays(g) => g.mRecentInputFrame \in Nat
  BY DEF ClientOK, Sane, Gui
<1>1. /\ stat \in GameStatus /\ stat.mWorldFrame \in Nat
      /\ stat.mCurrentStatus \in GameOver \/ stat.mWorldFrame > 0
  BY DEF Status, GameStatus
<1> HIDE DEF stat, from
<1>2. /\ shown \in Gui /\ shown.mGameStatus = stat
      /\ shown.mRecentWorldFrame = stat.mWorldFrame
      /\ shown.mMyPlayerType = g.mMyPlayerType /\ shown.mInputHistory = g.mInputHistory
      /\ shown.mRecentInputFrame = g.mRecentInputFrame
  <2>1. stat.mWorldFrame \in Int
    BY <1>1, SMT
  <2> QED BY <1>0, <1>1, <2>1 DEF Gui
<1> HIDE DEF shown
<1>3. CASE stat.mWorldFrame > 0
  <2>1. ClientOK(shown)
    <3>1. Sane(shown)
      BY <1>0, <1>2, <1>3 DEF Sane, Plays
    <3>2. Numbered(shown)
      BY <1>2 DEF ClientOK, Numbered
    <3> QED BY <1>2, <3>1, <3>2 DEF ClientOK
  <2>2. ClientOK(resynced)
    <3>1. /\ Replayed(shown, from) \in GameStatus
          /\ Replayed(shown, from).mWorldFrame = stat.mWorldFrame
      BY <1>0, <1>1, <1>2, ReplayedIsStatus
    <3>2. << >> \in Seq(Input) /\ Len(<< >>) = 0
      BY EmptySeq
    <3>3. /\ resynced \in Gui /\ resynced.mGameStatus = Replayed(shown, from)
          /\ resynced.mRecentWorldFrame = stat.mWorldFrame
          /\ resynced.mMyPlayerType = g.mMyPlayerType /\ resynced.mInputHistory = << >>
          /\ resynced.mRecentInputFrame = g.mRecentInputFrame
      BY <1>2, <3>1, <3>2 DEF Resync, Gui
    <3> HIDE DEF resynced
    <3>4. Sane(resynced)
      BY <1>0, <1>3, <3>1, <3>3 DEF Sane, Plays
    <3>5. Numbered(resynced)
      BY <3>2, <3>3, SMT DEF Numbered
    <3> QED BY <3>3, <3>4, <3>5 DEF ClientOK
  <2>3. ClientOK(Reset)
    BY FreshOK
  <2>4. OnStatusChange(g, packet) \in {g, Reset, shown, resynced}
    BY DEF OnStatusChange, shown, stat, from
  <2> QED BY <2>1, <2>2, <2>3, <2>4
<1>4. CASE stat.mCurrentStatus \in GameOver
  <2>1. OnStatusChange(g, packet) \in {g, Reset}
    BY <1>4 DEF OnStatusChange, stat
  <2> QED BY <2>1, FreshOK
<1> QED BY <1>1, <1>3, <1>4

(* A client that plays and may still number an input sends a request for   *)
(* the frame it shows, which is not frame 0.                               *)
LEMMA RequestOK ==
  ASSUME NEW g, ClientOK(g), Started(g), Plays(g),
         NEW posDiff \in PosDiffs, NEW shoot \in BOOLEAN, g.mRecentInputFrame < MaxInput
  PROVE  RacketRequest(g, posDiff, shoot) \in Request
<1> DEFINE stat == Predict(g, posDiff, shoot)
<1>0. /\ g.mMyPlayerType \in Sides /\ g.mGameStatus \in GameStatus
      /\ g.mRecentInputFrame \in Nat /\ g.mRecentWorldFrame \in Int /\ g.mRecentWorldFrame > 0
      /\ posDiff \in Int
  BY PongAssumption DEF ClientOK, Sane, Gui, Plays, PlayerType, PosDiffs
<1>1. stat \in GameStatus
  BY <1>0, PredictIsStatus DEF Predict
<1> HIDE DEF stat
<1>2. GetGameStatusHash(stat) \in Hash
  BY <1>1 DEF GetGameStatusHash, Hash, GameStatus
<1>3. g.mRecentInputFrame \in 0 .. MaxInput /\ g.mRecentWorldFrame \in Nat \ {0}
  BY <1>0, PongAssumption, SMT
<1> QED BY <1>0, <1>2, <1>3 DEF RacketRequest, Request, stat

----------------------------------------------------------------------------
(* The scheduler's queue.                                                  *)

BagOf(S, bag) == bag \in [DOMAIN bag -> Nat \ {0}] /\ DOMAIN bag \subseteq S

(* Queueing jobs, and running one.                                         *)
LEMMA BagAddOK ==
  ASSUME NEW S, NEW bag, BagOf(S, bag), NEW T, T \subseteq S,
         NEW sum, sum = bag (+) SetToBag(T)
  PROVE  BagOf(S, sum) /\ DOMAIN sum = DOMAIN bag \cup T
<1> DEFINE count(x) == (IF x \in DOMAIN bag THEN bag[x] ELSE 0) + (IF x \in T THEN 1 ELSE 0)
<1>1. sum = [x \in DOMAIN bag \cup T |-> count(x)]
  BY DEF (+), SetToBag
<1>2. ASSUME NEW x \in DOMAIN bag \cup T PROVE count(x) \in Nat \ {0}
  <2>1. x \in DOMAIN bag => bag[x] \in Nat \ {0}
    BY DEF BagOf
  <2> QED BY <2>1, SMT
<1> HIDE DEF count
<1>3. DOMAIN sum = DOMAIN bag \cup T /\ sum \in [DOMAIN bag \cup T -> Nat \ {0}]
  BY <1>1, <1>2
<1>4. BagOf(S, sum)
  BY <1>3 DEF BagOf
<1> QED BY <1>3, <1>4

LEMMA BagRemoveOK ==
  ASSUME NEW S, NEW bag, BagOf(S, bag), NEW T
  PROVE  /\ BagOf(S, bag (-) SetToBag(T))
         /\ DOMAIN (bag (-) SetToBag(T)) \subseteq DOMAIN bag
<1> DEFINE less == [x \in DOMAIN bag |-> IF x \in T THEN bag[x] - 1 ELSE bag[x]]
           rest == bag (-) SetToBag(T)
<1>1. rest = [x \in {d \in DOMAIN less : less[d] > 0} |-> less[x]]
  BY DEF (-), SetToBag
<1>2. ASSUME NEW x \in DOMAIN bag, less[x] > 0 PROVE less[x] \in Nat \ {0}
  <2>1. bag[x] \in Nat
    BY DEF BagOf
  <2> QED BY <1>2, <2>1, SMT
<1>3. DOMAIN less = DOMAIN bag
  OBVIOUS
<1> HIDE DEF less
<1>4. /\ DOMAIN rest \subseteq DOMAIN bag
      /\ rest \in [DOMAIN rest -> Nat \ {0}]
  BY <1>1, <1>2, <1>3
<1> HIDE DEF rest
<1>5. BagOf(S, rest)
  BY <1>4 DEF BagOf
<1> QED BY <1>4, <1>5 DEF rest

(* A frame later the queue holds the same jobs, each nearer to its time.   *)
LEMMA FrameSoonerOK ==
  ASSUME NEW bag, BagOf(Job, bag)
  PROVE  /\ BagOf(Job, OneFrameSooner(bag))
         /\ \A j \in DOMAIN OneFrameSooner(bag) : \E i \in DOMAIN bag : j.mOwner = i.mOwner
<1>1. ASSUME NEW i \in Job
      PROVE  Sooner(i) \in Job /\ Sooner(i).mOwner = i.mOwner /\ Later(Sooner(i)) = i
  <2>1. i.wait \in Int /\ i.wait - 1 \in Int /\ (i.wait - 1) + 1 = i.wait
    <3>1. i.wait \in Int
      BY DEF Job
    <3> QED BY <3>1, SMT
  <2> QED BY <2>1 DEF Job, Sooner, Later
<1>2. BagToSet(bag) = DOMAIN bag /\ DOMAIN bag \subseteq Job
  BY DEF BagToSet, BagOf
<1> DEFINE soon == OneFrameSooner(bag)
<1>3. soon = [j \in {Sooner(i) : i \in DOMAIN bag} |-> bag[Later(j)]]
  BY <1>2 DEF OneFrameSooner
<1> HIDE DEF soon
<1>4. ASSUME NEW j \in DOMAIN soon
      PROVE  /\ j \in Job /\ soon[j] \in Nat \ {0}
             /\ \E i \in DOMAIN bag : j.mOwner = i.mOwner
  <2>1. PICK i \in DOMAIN bag : j = Sooner(i)
    BY <1>3
  <2>2. j \in Job /\ j.mOwner = i.mOwner /\ Later(j) = i
    BY <1>1, <1>2, <2>1
  <2>3. soon[j] = bag[i]
    BY <1>3, <2>2
  <2> QED BY <2>2, <2>3 DEF BagOf
<1>5. soon \in [DOMAIN soon -> Nat \ {0}]
  BY <1>3, <1>4
<1>6. BagOf(Job, soon)
  BY <1>4, <1>5 DEF BagOf
<1> QED BY <1>4, <1>6 DEF soon

----------------------------------------------------------------------------
(* Reading the server's state: what Pong reads is what the theorems about  *)
(* GameManager speak of.                                                   *)
LEMMA SameReads ==
  /\ Server!GetCurrentGameStatus = Manager!GetCurrentGameStatus
  /\ \A frame : Server!GetGameStatus(frame) = Manager!GetGameStatus(frame)
  /\ Server!IsPlaying <=> Manager!IsPlaying
  /\ Server!NoResync = Manager!NoResync
  /\ Manager!GameStatus = GameStatus
BY DEF Server!GetCurrentGameStatus, Manager!GetCurrentGameStatus,
       Server!GetGameStatus, Manager!GetGameStatus,
       Server!GetObjectForFrame, Manager!GetObjectForFrame, Server!After, Manager!After,
       Server!IsPlaying, Manager!IsPlaying, Server!CGS_STARTED, Manager!CGS_STARTED,
       Server!NoResync, Manager!NoResync, Server!Sides, Manager!Sides,
       Manager!GameStatus, GameStatus, Manager!CurrentGameStatus, CurrentGameStatus,
       Manager!GameOver, GameOver, Sides, CGS_STARTED, CGS_NOT_STARTED,
       Manager!CGS_NOT_STARTED, CGS_GAME_OVER_LEFT_WIN, CGS_GAME_OVER_RIGHT_WIN,
       Manager!CGS_GAME_OVER_LEFT_WIN, Manager!CGS_GAME_OVER_RIGHT_WIN,
       Server!PLAYER_LEFT, Server!PLAYER_RIGHT, Manager!PLAYER_LEFT, Manager!PLAYER_RIGHT,
       PLAYER_LEFT, PLAYER_RIGHT

(* The rules are the same functions on both ends.                          *)
LEMMA SameRules ==
  ASSUME NEW stat
  PROVE  /\ Server!GetUpdatedGameStatus(stat) = Manager!GetUpdatedGameStatus(stat)
         /\ Server!EndsGame(stat) <=> Manager!EndsGame(stat)
         /\ Server!GetGameStatusHash(stat) = Manager!GetGameStatusHash(stat)
<1>1. /\ Server!BothShoot(stat) <=> Manager!BothShoot(stat)
      /\ \A side : Server!Fire(stat, side) = Manager!Fire(stat, side)
      /\ \A side : Server!WonBy(side) = Manager!WonBy(side)
  BY DEF Server!BothShoot, Manager!BothShoot, Server!Fire, Manager!Fire,
         Server!Hits, Manager!Hits, Server!Scored, Manager!Scored,
         Server!Opponent, Manager!Opponent, Server!WonBy, Manager!WonBy,
         Server!Sides, Manager!Sides, Server!PLAYER_LEFT, Manager!PLAYER_LEFT,
         Server!PLAYER_RIGHT, Manager!PLAYER_RIGHT,
         Server!CGS_GAME_OVER_LEFT_WIN, Manager!CGS_GAME_OVER_LEFT_WIN,
         Server!CGS_GAME_OVER_RIGHT_WIN, Manager!CGS_GAME_OVER_RIGHT_WIN
<1>2. \A side : Server!Wins(stat, side) <=> Manager!Wins(stat, side)
  BY <1>1 DEF Server!Wins, Manager!Wins, Server!Shoots, Manager!Shoots
<1>3. Server!GetUpdatedGameStatus(stat) = Manager!GetUpdatedGameStatus(stat)
  BY <1>1, <1>2 DEF Server!GetUpdatedGameStatus, Manager!GetUpdatedGameStatus,
         Server!Shoots, Manager!Shoots, Server!FireAndJudge, Manager!FireAndJudge,
         Server!Sides, Manager!Sides, Server!PLAYER_LEFT, Manager!PLAYER_LEFT,
         Server!PLAYER_RIGHT, Manager!PLAYER_RIGHT
<1>4. Server!EndsGame(stat) <=> Manager!EndsGame(stat)
  BY <1>2 DEF Server!EndsGame, Manager!EndsGame,
         Server!Sides, Manager!Sides, Server!PLAYER_LEFT, Manager!PLAYER_LEFT,
         Server!PLAYER_RIGHT, Manager!PLAYER_RIGHT
<1>5. Server!GetGameStatusHash(stat) = Manager!GetGameStatusHash(stat)
  BY DEF Server!GetGameStatusHash, Manager!GetGameStatusHash
<1> QED BY <1>3, <1>4, <1>5

LEMMA SameInputs ==
  ASSUME NEW stat, NEW player, NEW posDiff, NEW shoot
  PROVE  /\ Server!SideOf(player) = Manager!SideOf(player)
         /\ Server!ChangeGameStatus(stat, player, posDiff, shoot)
              = Manager!ChangeGameStatus(stat, player, posDiff, shoot)
         /\ Server!ChangesStatus(stat, player, posDiff, shoot)
              <=> Manager!ChangesStatus(stat, player, posDiff, shoot)
BY DEF Server!SideOf, Manager!SideOf, Server!PLAYER_LEFT, Manager!PLAYER_LEFT,
       Server!PLAYER_RIGHT, Manager!PLAYER_RIGHT,
       Server!ChangeGameStatus, Manager!ChangeGameStatus,
       Server!ChangesStatus, Manager!ChangesStatus, Server!NewShoot, Manager!NewShoot

(* The server's operations are those the theorems are about.               *)
LEMMA SameOperations ==
  /\ Server!Init => Manager!Init
  /\ Server!TypeOK <=> Manager!TypeOK
  /\ Server!game = Manager!game
  /\ \A uid : Server!GetPlayerType(uid) = Manager!GetPlayerType(uid)
  /\ \A uid : Server!StartGame(uid) <=> Manager!StartGame(uid)
  /\ \A player : Server!RequestGiveUp(player) <=> Manager!RequestGiveUp(player)
  /\ \A req : Server!RacketAction(req) <=> Manager!RacketAction(req)
  /\ \A req : Server!RejectRacket(req) <=> Manager!RejectRacket(req)
  /\ \A req : Server!InRange(req) <=> Manager!InRange(req)
  /\ Server!OnFrameUpdate <=> Manager!OnFrameUpdate
<1> USE DEF Server!PLAYER_LEFT, Manager!PLAYER_LEFT, Server!PLAYER_RIGHT, Manager!PLAYER_RIGHT,
            Server!PLAYER_NONE, Manager!PLAYER_NONE, Server!Sides, Manager!Sides,
            Server!CGS_NOT_STARTED, Manager!CGS_NOT_STARTED, Server!CGS_STARTED, Manager!CGS_STARTED,
            Server!game, Manager!game, Server!NoPlayers, Manager!NoPlayers,
            Server!NoResync, Manager!NoResync, Server!Clear, Manager!Clear,
            Server!ResetStatus, Manager!ResetStatus, Server!Slots, Manager!Slots
<1>1. Server!Init => Manager!Init
  BY DEF Server!Init, Manager!Init
<1>2. Server!TypeOK <=> Manager!TypeOK
  BY DEF Server!TypeOK, Manager!TypeOK, Server!Ring, Manager!Ring,
         Server!GameStatus, Manager!GameStatus, Server!CurrentGameStatus, Manager!CurrentGameStatus,
         Server!GameOver, Manager!GameOver,
         Server!CGS_GAME_OVER_LEFT_WIN, Manager!CGS_GAME_OVER_LEFT_WIN,
         Server!CGS_GAME_OVER_RIGHT_WIN, Manager!CGS_GAME_OVER_RIGHT_WIN
<1>3. Server!game = Manager!game
  OBVIOUS
<1>4. \A uid : Server!GetPlayerType(uid) = Manager!GetPlayerType(uid)
  BY DEF Server!GetPlayerType, Manager!GetPlayerType
<1>5. \A stat : Server!SetCurrentGameStatus(stat) <=> Manager!SetCurrentGameStatus(stat)
  BY DEF Server!SetCurrentGameStatus, Manager!SetCurrentGameStatus,
         Server!SetObjectForFrame, Manager!SetObjectForFrame, Server!After, Manager!After
<1>6. \A uid : Server!StartGame(uid) <=> Manager!StartGame(uid)
  BY <1>5 DEF Server!StartGame, Manager!StartGame, Server!Full, Manager!Full,
         Server!StartPlaying, Manager!StartPlaying, Server!StartedStatus, Manager!StartedStatus
<1>7. Server!GameEnd <=> Manager!GameEnd
  BY DEF Server!GameEnd, Manager!GameEnd, Server!ResetGameStatus, Manager!ResetGameStatus
<1>8. \A player : Server!RequestGiveUp(player) <=> Manager!RequestGiveUp(player)
  BY <1>7 DEF Server!RequestGiveUp, Manager!RequestGiveUp
<1>9. \A req : Server!KnownFrame(req) <=> Manager!KnownFrame(req)
  BY SameReads DEF Server!KnownFrame, Manager!KnownFrame
<1>10. \A req : Server!Desync(req) <=> Manager!Desync(req)
  BY SameReads, SameRules, SameInputs DEF Server!Desync, Manager!Desync, Server!Rewound, Manager!Rewound
<1>11. ASSUME NEW req PROVE Server!RacketAction(req) <=> Manager!RacketAction(req)
  BY <1>5, <1>9, <1>10, SameReads, SameInputs DEF Server!RacketAction, Manager!RacketAction
<1>12. \A req : Server!RejectRacket(req) <=> Manager!RejectRacket(req)
  BY <1>9 DEF Server!RejectRacket, Manager!RejectRacket
<1>13. \A req : Server!InRange(req) <=> Manager!InRange(req)
  BY SameReads DEF Server!InRange, Manager!InRange
<1>14. Server!NextFrameStatus = Manager!NextFrameStatus
  BY SameReads DEF Server!NextFrameStatus, Manager!NextFrameStatus
<1>15. Server!OnFrameUpdate <=> Manager!OnFrameUpdate
  BY <1>5, <1>7, <1>14, SameReads, SameRules DEF Server!OnFrameUpdate, Manager!OnFrameUpdate
<1> QED BY <1>1, <1>2, <1>3, <1>4, <1>6, <1>8, <1>11, <1>12, <1>13, <1>15

(* So is a step of it: what the theorems take for one is one.              *)
LEMMA SameStep == Manager!Next => Server!Next
<1> SUFFICES ASSUME Manager!Next PROVE Server!Next
  OBVIOUS
<1>1. Manager!PLAYER_NONE = Server!PLAYER_NONE
  BY DEF Server!PLAYER_NONE, Manager!PLAYER_NONE
<1>2. Server!Requests = Manager!Requests
  BY DEF Server!Requests, Manager!Requests, Server!Sides, Manager!Sides,
         Server!PLAYER_LEFT, Manager!PLAYER_LEFT, Server!PLAYER_RIGHT, Manager!PLAYER_RIGHT
<1>3. CASE Manager!Start
  BY <1>3, SameOperations DEF Manager!Start, Server!Start, Server!Next
<1>4. CASE Manager!GiveUp
  <2>1. PICK uid \in 1 .. MaxUid :
          /\ Manager!GetPlayerType(uid) # Manager!PLAYER_NONE
          /\ Manager!RequestGiveUp(Manager!GetPlayerType(uid))
    BY <1>4 DEF Manager!GiveUp
  <2>2. /\ Server!GetPlayerType(uid) # Server!PLAYER_NONE
        /\ Server!RequestGiveUp(Server!GetPlayerType(uid))
    BY <1>1, <2>1, SameOperations
  <2> QED BY <2>2 DEF Server!GiveUp, Server!Next
<1>5. CASE Manager!Racket
  <2>1. PICK req \in Manager!Requests :
          /\ Manager!InRange(req)
          /\ \E hash \in {Manager!GetGameStatusHash(Manager!Rewound(req)), Manager!OtherHash} :
               \/ Manager!RacketAction(Manager!WithHash(req, hash))
               \/ Manager!RejectRacket(Manager!WithHash(req, hash))
    BY <1>5 DEF Manager!Racket
  <2>2. PICK hash \in {Manager!GetGameStatusHash(Manager!Rewound(req)), Manager!OtherHash} :
          \/ Manager!RacketAction(Manager!WithHash(req, hash))
          \/ Manager!RejectRacket(Manager!WithHash(req, hash))
    BY <2>1
  <2>3. hash \in {Server!GetGameStatusHash(Server!Rewound(req)), Server!OtherHash}
    BY <2>2, SameReads, SameRules, SameInputs
       DEF Server!Rewound, Manager!Rewound, Server!OtherHash, Manager!OtherHash
  <2>4. Server!WithHash(req, hash) = Manager!WithHash(req, hash)
    BY DEF Server!WithHash, Manager!WithHash
  <2>5. /\ Server!InRange(req)
        /\ \/ Server!RacketAction(Server!WithHash(req, hash))
           \/ Server!RejectRacket(Server!WithHash(req, hash))
    BY <2>1, <2>2, <2>4, SameOperations
  <2> QED BY <1>2, <2>3, <2>5 DEF Server!Racket, Server!Next
<1>6. CASE Manager!Frame
  BY <1>6, SameOperations DEF Manager!Frame, Server!Frame, Server!Next
<1> QED BY <1>3, <1>4, <1>5, <1>6 DEF Manager!Next

(* The sides, seats and resyncs of the theorems are those of this module.  *)
LEMMA SameSides ==
  /\ Manager!Sides = Sides
  /\ Manager!PLAYER_LEFT = PLAYER_LEFT /\ Manager!PLAYER_RIGHT = PLAYER_RIGHT
  /\ Manager!PLAYER_NONE = PLAYER_NONE
  /\ Manager!NoPlayers = [s \in Sides |-> 0] /\ Manager!NoResync = [s \in Sides |-> 0]
BY DEF Manager!Sides, Manager!PLAYER_LEFT, Manager!PLAYER_RIGHT, Manager!PLAYER_NONE,
       Manager!NoPlayers, Manager!NoResync, Sides, PLAYER_LEFT, PLAYER_RIGHT, PLAYER_NONE

LEMMA PlayingAfter == Server!IsPlaying' <=> Manager!IsPlaying'
<1>1. Server!IsPlaying <=> Manager!IsPlaying
  BY SameReads
<1> QED BY <1>1, PTL

----------------------------------------------------------------------------
(* The inductive invariant.                                                *)

\* What the theorems about GameManager say of its state, and the bounds and
\* resyncs of this game.
ServerOK ==
  /\ Manager!IInv
  /\ mCurrentWorldFrame <= MaxFrame
  /\ ResyncWithinGame

\* Nobody has an id that was not issued yet.
IdsOK ==
  /\ mCurrentIssuedId \in 0 .. MaxUid
  /\ mUniqueId \in [Clients -> 0 .. mCurrentIssuedId]
  /\ \A s \in Sides : mPlayerUid[s] <= mCurrentIssuedId
  /\ \A j \in DOMAIN jobs : j.mOwner <= mCurrentIssuedId

GuisOK == DOMAIN gui = Clients /\ \A c \in Clients : ClientOK(gui[c])

\* Only a client with a session has sent something that is still on its way.
PacketsOK ==
  /\ up \in [Clients -> Seq(UpPacket)]
  /\ down \in [Clients -> Seq(DownPacket)]
  /\ \A c \in Clients : up[c] # << >> => mUniqueId[c] # 0

JobsOK == BagOf(Job, jobs)

IInv == ServerOK /\ IdsOK /\ GuisOK /\ PacketsOK /\ JobsOK

----------------------------------------------------------------------------
(* The server's part of a step: one of GameManager's own, within what this *)
(* game allows.                                                            *)
ServerKeeps ==
  /\ [Manager!Next]_(Manager!game)
  /\ mCurrentWorldFrame' <= MaxFrame
  /\ ResyncWithinGame'
  /\ \A s \in Sides : mPlayerUid'[s] <= mCurrentIssuedId

(* The session of a client whose packet the server handles.                *)
LEMMA Handled ==
  ASSUME IInv, NEW c \in Clients, up[c] # << >>
  PROVE  /\ mUniqueId[c] \in 1 .. MaxUid /\ mUniqueId[c] <= mCurrentIssuedId
         /\ Head(up[c]) \in UpPacket /\ Tail(up[c]) \in Seq(UpPacket)
<1>1. /\ mUniqueId[c] \in 0 .. mCurrentIssuedId /\ mUniqueId[c] # 0
      /\ mCurrentIssuedId \in 0 .. MaxUid
  BY DEF IInv, IdsOK, PacketsOK
<1>2. mUniqueId[c] \in 1 .. MaxUid /\ mUniqueId[c] <= mCurrentIssuedId
  BY <1>1, PongAssumption, SMT
<1>3. Head(up[c]) \in UpPacket /\ Tail(up[c]) \in Seq(UpPacket)
  BY HeadTailProperties DEF IInv, PacketsOK
<1> QED BY <1>2, <1>3

(* A step the server takes no part in.                                     *)
LEMMA ServerAside ==
  ASSUME IInv, UNCHANGED server
  PROVE  ServerKeeps
<1>1. UNCHANGED Manager!game
  BY DEF server, Manager!game
<1>2. mCurrentWorldFrame' <= MaxFrame /\ \A s \in Sides : mPlayerUid'[s] <= mCurrentIssuedId
  BY DEF server, IInv, ServerOK, IdsOK
<1>3. ResyncWithinGame'
  <2>1. Server!IsPlaying' <=> Server!IsPlaying
    BY DEF server, Server!IsPlaying, Server!GetCurrentGameStatus, Server!GetGameStatus
  <2> QED BY <2>1 DEF server, IInv, ServerOK, ResyncWithinGame
<1> QED BY <1>1, <1>2, <1>3 DEF ServerKeeps

(* The session that starts holds an id, so the seat it takes is of an id   *)
(* that was issued.                                                        *)
LEMMA StartStep ==
  ASSUME IInv, NEW c \in Clients, Handler_PKT_CS_START(c)
  PROVE  ServerKeeps
<1>1. PICK uid \in 1 .. MaxUid : uid = mUniqueId[c] /\ uid <= mCurrentIssuedId
  BY Handled DEF Handler_PKT_CS_START, Receive
<1>2. Server!StartGame(uid)
  BY <1>1 DEF Handler_PKT_CS_START
<1>3. Manager!IInv /\ Manager!StartGame(uid)
  BY <1>2, SameOperations DEF IInv, ServerOK
<1>4. Manager!Next
  BY <1>1, <1>3 DEF Manager!Next, Manager!Start
<1>5. \/ UNCHANGED Manager!game
      \/ /\ mPlayerUid' = [mPlayerUid EXCEPT ![PLAYER_LEFT] = uid]
         /\ UNCHANGED <<mCurrentWorldFrame, mFrameHistory>>
      \/ /\ mPlayerUid' = [mPlayerUid EXCEPT ![PLAYER_RIGHT] = uid]
         /\ Manager!IsPlaying' /\ mCurrentWorldFrame' = 0
  BY <1>3, ManagerConstants, RulesAssumption, SameSides, Manager!StartKeeps
<1>6. mResyncNeededInputFrame' = mResyncNeededInputFrame
  BY <1>3 DEF Manager!StartGame, Manager!game
<1>7. mPlayerUid \in [Sides -> Nat]
  <2>1. mPlayerUid \in [Sides -> 1 .. MaxUid \cup {0}]
    BY <1>3, SameSides DEF Manager!IInv, Manager!TypeOK
  <2>2. \A n \in 1 .. MaxUid \cup {0} : n \in Nat
    BY SMT
  <2> QED BY <2>1, <2>2
<1>8. \A s \in Sides : mPlayerUid'[s] <= mCurrentIssuedId
  BY <1>1, <1>5, <1>7 DEF Manager!game, IInv, IdsOK
<1>9. mCurrentWorldFrame' <= MaxFrame
  BY <1>5, PongAssumption, SMT DEF Manager!game, IInv, ServerOK
<1>10. ResyncWithinGame'
  <2>1. CASE UNCHANGED <<mCurrentWorldFrame, mFrameHistory>>
    <3>1. Server!IsPlaying' <=> Server!IsPlaying
      BY <2>1 DEF Server!IsPlaying, Server!GetCurrentGameStatus, Server!GetGameStatus
    <3> QED BY <1>6, <3>1 DEF IInv, ServerOK, ResyncWithinGame
  <2>2. CASE Manager!IsPlaying'
    BY <2>2, PlayingAfter DEF ResyncWithinGame
  <2> QED BY <1>5, <2>1, <2>2 DEF Manager!game
<1> QED BY <1>4, <1>8, <1>9, <1>10 DEF ServerKeeps

(* Only a player surrenders, and that is the end of the game.              *)
LEMMA ExitStep ==
  ASSUME IInv, NEW c \in Clients, Handler_PKT_CS_EXIT(c)
  PROVE  ServerKeeps
<1> DEFINE player == Head(up[c]).mPlayerType
<1>1. CASE player # Server!GetPlayerType(mUniqueId[c])
  <2>1. UNCHANGED server
    BY <1>1 DEF Handler_PKT_CS_EXIT
  <2> QED BY <2>1, ServerAside
<1>2. CASE player = Server!GetPlayerType(mUniqueId[c])
  <2>1. /\ mUniqueId[c] \in 1 .. MaxUid /\ Head(up[c]) \in UpPacket
        /\ Head(up[c]).mType = "PKT_CS_EXIT"
    BY Handled DEF Handler_PKT_CS_EXIT, Receive
  <2>2. player \in Sides
    BY <2>1 DEF UpPacket
  <2>3. Manager!GetPlayerType(mUniqueId[c]) = player /\ player # Manager!PLAYER_NONE
    BY <1>2, <2>2, SameOperations, SameSides DEF Sides, PLAYER_LEFT, PLAYER_RIGHT, PLAYER_NONE
  <2>4. Manager!RequestGiveUp(player)
    BY <1>2, SameOperations DEF Handler_PKT_CS_EXIT
  <2> HIDE DEF player
  <2>5. Manager!Next
    BY <2>1, <2>3, <2>4 DEF Manager!Next, Manager!GiveUp
  <2>6. /\ mPlayerUid' = [s \in Sides |-> 0] /\ mResyncNeededInputFrame' = [s \in Sides |-> 0]
        /\ mCurrentWorldFrame' = 0
    BY <2>4, SameSides DEF Manager!RequestGiveUp, Manager!GameEnd, Manager!ResetGameStatus
  <2>7. ResyncWithinGame'
    BY <2>6 DEF ResyncWithinGame
  <2>8. mCurrentIssuedId \in Nat /\ 0 <= MaxFrame
    BY PongAssumption, SMT DEF IInv, IdsOK
  <2>9. \A s \in Sides : mPlayerUid'[s] <= mCurrentIssuedId
    BY <2>6, <2>8, SMT
  <2> QED BY <2>5, <2>6, <2>7, <2>8, <2>9 DEF ServerKeeps
<1> QED BY <1>1, <1>2

(* GameManager judges a request by whether its hash is the server's own    *)
(* one: any other hash is as good as OtherHash.                            *)
LEMMA OnlyHashMatters ==
  ASSUME NEW req, NEW other,
         other.mPlayerType = req.mPlayerType,
         other.mRecentWorldFrame = req.mRecentWorldFrame,
         other.mInputFrame = req.mInputFrame,
         other.mPosDiff = req.mPosDiff, other.mIsShoot = req.mIsShoot,
         other.mStatusHash = Manager!GetGameStatusHash(Manager!Rewound(req))
           <=> req.mStatusHash = Manager!GetGameStatusHash(Manager!Rewound(req)),
         Manager!RacketAction(req)
  PROVE  Manager!RacketAction(other)
<1>1. Manager!Rewound(other) = Manager!Rewound(req)
  BY DEF Manager!Rewound
<1>2. Manager!Desync(other) <=> Manager!Desync(req)
  BY <1>1 DEF Manager!Desync
<1>3. Manager!KnownFrame(other) <=> Manager!KnownFrame(req)
  BY DEF Manager!KnownFrame
<1> QED BY <1>2, <1>3 DEF Manager!RacketAction

(* A racket job: the request is one GameManager's own module allows, and   *)
(* it is turned away before its hash is compared unless a game runs,       *)
(* because an idle server is at frame 0 and no request is for frame 0.     *)
LEMMA RacketStep ==
  ASSUME IInv, NEW j \in Due, RunRacketAction(j)
  PROVE  ServerKeeps
<1> DEFINE req == j.arg
<1>1. /\ req.mPlayerType \in Sides /\ req.mPosDiff \in PosDiffs /\ req.mIsShoot \in BOOLEAN
      /\ req.mRecentWorldFrame \in Nat \ {0} /\ req.mInputFrame \in 0 .. MaxInput
  <2>1. j \in Job /\ j.task = "RacketAction"
    BY DEF IInv, JobsOK, BagOf, Due, BagToSet, RunRacketAction
  <2>2. req \in Request
    BY <2>1 DEF Job
  <2> HIDE DEF req
  <2> QED BY <2>2 DEF Request
<1>2. Manager!InRange(req) /\ (Manager!RacketAction(req) \/ Manager!RejectRacket(req))
  BY SameOperations DEF RunRacketAction
<1> HIDE DEF req
<1>3. CASE Manager!RejectRacket(req)
  <2>1. UNCHANGED server
    BY <1>3 DEF Manager!RejectRacket, Manager!game, server
  <2> QED BY <2>1, ServerAside
<1>4. CASE Manager!RacketAction(req)
  <2>0. Manager!IInv /\ mCurrentWorldFrame <= MaxFrame /\ mCurrentWorldFrame \in Nat
    BY DEF IInv, ServerOK, Manager!IInv, Manager!TypeOK
  <2>1. req.mRecentWorldFrame <= mCurrentWorldFrame
    BY <1>4 DEF Manager!RacketAction, Manager!KnownFrame
  <2> DEFINE r == [mPlayerType |-> req.mPlayerType, mRecentWorldFrame |-> req.mRecentWorldFrame,
                   mInputFrame |-> req.mInputFrame, mPosDiff |-> req.mPosDiff,
                   mIsShoot |-> req.mIsShoot]
             own == Manager!GetGameStatusHash(Manager!Rewound(req))
             hash == IF req.mStatusHash = own THEN own ELSE Manager!OtherHash
             w == Manager!WithHash(r, hash)
  <2>2. r \in Manager!Requests
    <3>1. req.mRecentWorldFrame \in 0 .. MaxFrame
      BY <1>1, <2>0, <2>1, PongAssumption, SMT
    <3> QED BY <1>1, <3>1, SameSides DEF Manager!Requests, PosDiffs
  <2>3. Manager!InRange(r) /\ Manager!Rewound(r) = Manager!Rewound(req)
    BY <1>2 DEF Manager!InRange, Manager!Rewound
  <2>4. Manager!OtherHash # own
    BY DEF Manager!OtherHash, Manager!GetGameStatusHash
  <2> HIDE DEF own
  <2>5. /\ w.mPlayerType = req.mPlayerType /\ w.mRecentWorldFrame = req.mRecentWorldFrame
        /\ w.mInputFrame = req.mInputFrame /\ w.mPosDiff = req.mPosDiff
        /\ w.mIsShoot = req.mIsShoot /\ w.mStatusHash = hash
    BY DEF Manager!WithHash
  <2>6. Manager!RacketAction(w)
    <3>1. w.mStatusHash = own <=> req.mStatusHash = own
      BY <2>4, <2>5
    <3> HIDE DEF w
    <3> QED BY <1>4, <2>5, <3>1, OnlyHashMatters DEF own
  <2>7. Manager!Next
    <3>1. hash \in {Manager!GetGameStatusHash(Manager!Rewound(r)), Manager!OtherHash}
      BY <2>3 DEF own
    <3> HIDE DEF r, hash
    <3> QED BY <2>2, <2>3, <2>6, <3>1 DEF Manager!Next, Manager!Racket
  <2>8. /\ mPlayerUid' = mPlayerUid /\ mCurrentWorldFrame' = mCurrentWorldFrame
        /\ Manager!IsPlaying' <=> Manager!IsPlaying
    <3>1. req.mInputFrame \in Nat /\ req.mPosDiff \in Int
      <4>1. req.mInputFrame \in Nat
        BY <1>1, PongAssumption, SMT
      <4> QED BY <1>1, <4>1, PongAssumption DEF PosDiffs
    <3> QED BY <1>1, <1>4, <2>0, <3>1, ManagerConstants, RulesAssumption, Manager!RacketKeeps
  <2>9. ResyncWithinGame'
    <3>1. Manager!IsPlaying
      <4>1. mCurrentWorldFrame # 0
        BY <1>1, <2>0, <2>1, SMT
      <4> QED BY <2>0, <4>1 DEF Manager!IInv, Manager!ScoreOpen
    <3> QED BY <2>8, <3>1, PlayingAfter DEF ResyncWithinGame
  <2> QED BY <2>0, <2>7, <2>8, <2>9 DEF ServerKeeps, IInv, IdsOK
<1> QED BY <1>2, <1>3, <1>4

(* A frame: the resyncs that were owed are in its broadcast.               *)
LEMMA FrameStep ==
  ASSUME IInv, OnFrameUpdate
  PROVE  ServerKeeps
<1>1. CASE ~Server!IsPlaying
  <2>1. UNCHANGED server
    BY <1>1 DEF OnFrameUpdate
  <2> QED BY <2>1, ServerAside
<1>2. CASE Server!IsPlaying
  <2>0. Manager!IInv /\ mCurrentWorldFrame \in Nat /\ mCurrentWorldFrame < MaxFrame
    BY DEF IInv, ServerOK, Manager!IInv, Manager!TypeOK, OnFrameUpdate
  <2>1. Manager!OnFrameUpdate
    BY <1>2, SameOperations DEF OnFrameUpdate
  <2>2. Manager!Next
    BY <2>0, <2>1 DEF Manager!Next, Manager!Frame
  <2>3. /\ mCurrentWorldFrame' \in {0, mCurrentWorldFrame + 1}
        /\ mResyncNeededInputFrame' = [s \in Sides |-> 0]
        /\ mPlayerUid' \in {mPlayerUid, [s \in Sides |-> 0]}
    BY <2>0, <2>1, ManagerConstants, RulesAssumption, SameSides, Manager!FrameKeeps
  <2>4. mCurrentWorldFrame' <= MaxFrame
    BY <2>0, <2>3, PongAssumption, SMT
  <2>5. ResyncWithinGame'
    BY <2>3 DEF ResyncWithinGame
  <2>6. \A s \in Sides : mPlayerUid'[s] <= mCurrentIssuedId
    <3>1. mCurrentIssuedId \in Nat /\ 0 <= mCurrentIssuedId
      BY PongAssumption, SMT DEF IInv, IdsOK
    <3>2. CASE mPlayerUid' = mPlayerUid
      BY <3>2 DEF IInv, IdsOK
    <3>3. CASE mPlayerUid' = [s \in Sides |-> 0]
      BY <3>1, <3>3
    <3> QED BY <2>3, <3>2, <3>3
  <2> QED BY <2>2, <2>4, <2>5, <2>6 DEF ServerKeeps
<1> QED BY <1>1, <1>2

(* Every step of the game is a step of GameManager's own module, or leaves *)
(* it alone.                                                               *)
LEMMA ServerStep ==
  ASSUME IInv, [Next]_vars
  PROVE  ServerKeeps
<1>1. CASE UNCHANGED server
  BY <1>1, ServerAside
<1>2. ASSUME NEW c \in Clients,
             \/ Connect(c) \/ Disconnect(c) \/ Idle(c) \/ MenuStart(c) \/ MenuGiveUp(c)
             \/ ProcessPacket(c) \/ Handler_PKT_CS_RACKET(c)
      PROVE  UNCHANGED server
  BY <1>2 DEF Connect, Disconnect, Idle, MenuStart, MenuGiveUp, ProcessPacket,
              Handler_PKT_CS_RACKET, vars
<1>3. ASSUME NEW c \in Clients, NEW input \in Inputs, OnUpdate(c, input[1], input[2])
      PROVE  UNCHANGED server
  BY <1>3 DEF OnUpdate
<1>4. ASSUME NEW j \in Due, RunSendGameStatus(j) PROVE UNCHANGED server
  BY <1>4 DEF RunSendGameStatus
<1> QED BY <1>1, <1>2, <1>3, <1>4, StartStep, ExitStep, RacketStep, FrameStep DEF Next, vars

----------------------------------------------------------------------------
(* What the server broadcasts.                                             *)

(* The frame of a running game is past frame 0.                            *)
LEMMA FramePacketOK ==
  ASSUME IInv, Server!IsPlaying
  PROVE  Server!FramePacket \in Status
<1> DEFINE next == Manager!GetUpdatedGameStatus(Manager!NextFrameStatus)
<1>1. Server!FramePacket
        = [mGameStatus |-> next, mResyncNeededInputFrame |-> mResyncNeededInputFrame]
  BY SameReads, SameRules DEF Server!FramePacket, Server!NextFrameStatus, Manager!NextFrameStatus
<1>2. Manager!IInv /\ mCurrentWorldFrame \in Nat
  BY DEF IInv, ServerOK, Manager!IInv, Manager!TypeOK
<1>3. next \in Manager!GameStatus /\ next.mWorldFrame = mCurrentWorldFrame + 1
  BY <1>2, ManagerConstants, RulesAssumption, Manager!NextStatus
<1> HIDE DEF next
<1>4. next \in GameStatus /\ next.mWorldFrame > 0
  BY <1>2, <1>3, SameReads, SMT
<1>5. mResyncNeededInputFrame \in [Sides -> Nat]
  BY <1>2, SameSides DEF Manager!IInv, Manager!TypeOK
<1> QED BY <1>1, <1>4, <1>5 DEF Status

(* The status of a surrender is that of a game that is over.               *)
LEMMA GiveUpPacketOK ==
  ASSUME IInv, NEW player
  PROVE  [mGameStatus |-> Server!GiveUpStatus(player),
          mResyncNeededInputFrame |-> Server!NoResync] \in Status
<1> DEFINE current == Manager!GetCurrentGameStatus
           won == IF player = PLAYER_LEFT THEN CGS_GAME_OVER_RIGHT_WIN ELSE CGS_GAME_OVER_LEFT_WIN
<1>1. current \in GameStatus
  <2>1. Manager!TypeOK /\ Manager!RewindIsExact
    BY DEF IInv, ServerOK, Manager!IInv
  <2> QED BY <2>1, ManagerConstants, RulesAssumption, SameReads, Manager!CurrentRemembered
<1>2. Server!GiveUpStatus(player) = [current EXCEPT !.mCurrentStatus = won]
  BY SameReads DEF Server!GiveUpStatus, Server!GaveUp, Server!WonBy, Server!Opponent, Server!SideOf,
       Server!PLAYER_LEFT, Server!PLAYER_RIGHT, Server!CGS_GAME_OVER_LEFT_WIN, Server!CGS_GAME_OVER_RIGHT_WIN,
       PLAYER_LEFT, CGS_GAME_OVER_LEFT_WIN, CGS_GAME_OVER_RIGHT_WIN
<1>3. won \in GameOver /\ won \in CurrentGameStatus
  BY DEF GameOver, CurrentGameStatus
<1> HIDE DEF current, won
<1>4. /\ [current EXCEPT !.mCurrentStatus = won] \in GameStatus
      /\ [current EXCEPT !.mCurrentStatus = won].mCurrentStatus = won
  BY <1>1, <1>3 DEF GameStatus
<1>5. Server!NoResync \in [Sides -> Nat]
  BY SameReads, SameSides
<1> QED BY <1>2, <1>3, <1>4, <1>5 DEF Status

LEMMA WriteOK ==
  ASSUME IInv, NEW S, NEW packet \in DownPacket, Write(S, packet)
  PROVE  down' \in [Clients -> Seq(DownPacket)]
<1>1. \A c \in Clients : down[c] \in Seq(DownPacket)
  BY DEF IInv, PacketsOK
<1>2. \A c \in Clients : Append(down[c], packet) \in Seq(DownPacket)
  BY <1>1, AppendProperties
<1> QED BY <1>1, <1>2 DEF Write

LEMMA StatusPacketOK ==
  ASSUME NEW status \in Status
  PROVE  StatusPacket(status) \in DownPacket
BY DEF StatusPacket, DownPacket

LEMMA SendOK ==
  ASSUME IInv, NEW c \in Connected, NEW packet \in UpPacket, Send(c, packet)
  PROVE  /\ up' \in [Clients -> Seq(UpPacket)]
         /\ \A d \in Clients : up'[d] # << >> => mUniqueId[d] # 0
<1>1. c \in Clients /\ mUniqueId[c] # 0 /\ up \in [Clients -> Seq(UpPacket)]
  BY DEF Connected, IInv, PacketsOK
<1>2. Append(up[c], packet) \in Seq(UpPacket)
  BY <1>1, AppendProperties
<1>3. up' = [up EXCEPT ![c] = Append(up[c], packet)]
  BY DEF Send
<1> QED BY <1>1, <1>2, <1>3 DEF IInv, PacketsOK

LEMMA ReceiveOK ==
  ASSUME IInv, NEW c \in Clients, NEW type, Receive(c, type)
  PROVE  /\ up' \in [Clients -> Seq(UpPacket)]
         /\ \A d \in Clients : up'[d] # << >> => mUniqueId[d] # 0
<1>1. up[c] # << >> /\ mUniqueId[c] # 0 /\ up \in [Clients -> Seq(UpPacket)]
  BY DEF Receive, IInv, PacketsOK
<1>2. Tail(up[c]) \in Seq(UpPacket)
  BY <1>1, Handled
<1>3. up' = [up EXCEPT ![c] = Tail(up[c])]
  BY DEF Receive
<1> QED BY <1>1, <1>2, <1>3 DEF IInv, PacketsOK

----------------------------------------------------------------------------
(* The steps of clients, packets, ids and jobs.                            *)

(* Every client stays one whose frame and input numbers are in order.      *)
LEMMA GuisStep ==
  ASSUME IInv, [Next]_vars
  PROVE  GuisOK'
<1>0. DOMAIN gui = Clients /\ \A c \in Clients : ClientOK(gui[c])
  BY DEF IInv, GuisOK
<1>1. ASSUME NEW c \in Clients, NEW g, ClientOK(g), gui' = [gui EXCEPT ![c] = g]
      PROVE  GuisOK'
  BY <1>0, <1>1 DEF GuisOK
<1>2. CASE UNCHANGED gui
  BY <1>0, <1>2 DEF GuisOK
<1>3. ASSUME NEW c \in Clients, Connect(c) PROVE GuisOK'
  <2>1. PICK w \in Garbage, i \in Garbage : gui' = [gui EXCEPT ![c] = Fresh(w, i)]
    BY <1>3 DEF Connect
  <2>2. ClientOK(Fresh(w, i))
    BY PongAssumption, FreshOK
  <2> QED BY <1>1, <2>1, <2>2
<1>4. ASSUME NEW c \in Clients, Disconnect(c) PROVE GuisOK'
  <2>1. ClientOK(Reset)
    BY 0 \in Int, FreshOK
  <2> QED BY <1>1, <1>4, <2>1 DEF Disconnect
<1>5. ASSUME NEW c \in Clients, NEW input \in Inputs, OnUpdate(c, input[1], input[2])
      PROVE  GuisOK'
  <2>1. /\ gui' = [gui EXCEPT ![c] = AfterUpdate(gui[c], input[1], input[2])]
        /\ Started(gui[c]) /\ input[1] \in Int /\ input[2] \in BOOLEAN
    BY <1>5, PongAssumption DEF OnUpdate
  <2>2. ClientOK(AfterUpdate(gui[c], input[1], input[2]))
    BY <1>0, <2>1, UpdateOK
  <2> QED BY <1>1, <2>1, <2>2
<1>6. ASSUME NEW c \in Clients, ProcessPacket(c) PROVE GuisOK'
  <2> DEFINE packet == Head(down[c])
             after == IF packet.mType = "PKT_SC_START"
                      THEN OnGameStart(packet.mYourPlayerType)
                      ELSE OnStatusChange(gui[c], packet.mStatus)
  <2>1. gui' = [gui EXCEPT ![c] = after]
    BY <1>6 DEF ProcessPacket
  <2>2. packet \in DownPacket
    <3>1. down[c] \in Seq(DownPacket) /\ down[c] # << >>
      BY <1>6 DEF ProcessPacket, IInv, PacketsOK
    <3> QED BY <3>1, HeadTailProperties
  <2> HIDE DEF packet
  <2>3. CASE packet.mType = "PKT_SC_START"
    <3>1. packet.mYourPlayerType \in Sides
      BY <2>2, <2>3 DEF DownPacket
    <3>2. ClientOK(after)
      BY <2>3, <3>1, GameStartOK
    <3> QED BY <1>1, <2>1, <3>2
  <2>4. CASE packet.mType # "PKT_SC_START"
    <3>1. packet.mStatus \in Status
      BY <2>2, <2>4 DEF DownPacket
    <3>2. ClientOK(after)
      BY <1>0, <2>4, <3>1, StatusChangeOK
    <3> QED BY <1>1, <2>1, <3>2
  <2> QED BY <2>3, <2>4
<1>7. ASSUME NEW c \in Clients,
             \/ Idle(c) \/ MenuStart(c) \/ MenuGiveUp(c) \/ Handler_PKT_CS_START(c)
             \/ Handler_PKT_CS_EXIT(c) \/ Handler_PKT_CS_RACKET(c)
      PROVE  UNCHANGED gui
  BY <1>7 DEF Idle, MenuStart, MenuGiveUp, Handler_PKT_CS_START, Handler_PKT_CS_EXIT,
              Handler_PKT_CS_RACKET, vars
<1>8. ASSUME NEW j \in Due, RunRacketAction(j) \/ RunSendGameStatus(j) PROVE UNCHANGED gui
  BY <1>8 DEF RunRacketAction, RunSendGameStatus
<1>9. OnFrameUpdate => UNCHANGED gui
  BY DEF OnFrameUpdate
<1> QED BY <1>2, <1>3, <1>4, <1>5, <1>6, <1>7, <1>8, <1>9 DEF Next, vars

(* What is on its way stays well formed, and is of clients with a session. *)
LEMMA PacketsStep ==
  ASSUME IInv, [Next]_vars
  PROVE  PacketsOK'
<1>0. /\ up \in [Clients -> Seq(UpPacket)] /\ down \in [Clients -> Seq(DownPacket)]
      /\ \A c \in Clients : up[c] # << >> => mUniqueId[c] # 0
      /\ mUniqueId \in [Clients -> 0 .. mCurrentIssuedId] /\ mCurrentIssuedId \in Nat
  BY PongAssumption, SMT DEF IInv, PacketsOK, IdsOK
<1>1. CASE UNCHANGED <<up, down, mUniqueId>>
  BY <1>0, <1>1 DEF PacketsOK
<1>2. ASSUME NEW c \in Clients, Connect(c) PROVE PacketsOK'
  <2>1. /\ mUniqueId' = [mUniqueId EXCEPT ![c] = mCurrentIssuedId + 1]
        /\ UNCHANGED <<up, down>>
    BY <1>2 DEF Connect
  <2>2. mCurrentIssuedId + 1 # 0
    BY <1>0, SMT
  <2> QED BY <1>0, <2>1, <2>2 DEF PacketsOK
<1>3. ASSUME NEW c \in Clients, Disconnect(c) PROVE PacketsOK'
  <2>1. /\ mUniqueId' = [mUniqueId EXCEPT ![c] = 0]
        /\ up' = [up EXCEPT ![c] = << >>] /\ down' = [down EXCEPT ![c] = << >>]
    BY <1>3 DEF Disconnect
  <2>2. << >> \in Seq(UpPacket) /\ << >> \in Seq(DownPacket)
    BY EmptySeq
  <2> QED BY <1>0, <2>1, <2>2 DEF PacketsOK
<1>4. ASSUME NEW c \in Connected, NEW packet \in UpPacket, Send(c, packet),
             UNCHANGED <<down, mUniqueId>>
      PROVE  PacketsOK'
  BY <1>0, <1>4, SendOK DEF PacketsOK
<1>5. ASSUME NEW c \in Clients, MenuStart(c) PROVE PacketsOK'
  <2>1. [mType |-> "PKT_CS_START"] \in UpPacket
    BY DEF UpPacket
  <2> QED BY <1>4, <1>5, <2>1 DEF MenuStart, session
<1>6. ASSUME NEW c \in Clients, MenuGiveUp(c) PROVE PacketsOK'
  <2>1. gui[c].mMyPlayerType \in Sides
    BY <1>6 DEF MenuGiveUp, Plays, IInv, GuisOK, ClientOK, Gui, PlayerType
  <2>2. [mType |-> "PKT_CS_EXIT", mPlayerType |-> gui[c].mMyPlayerType] \in UpPacket
    BY <2>1 DEF UpPacket
  <2> QED BY <1>4, <1>6, <2>2 DEF MenuGiveUp, session
<1>7. ASSUME NEW c \in Clients, NEW input \in Inputs, OnUpdate(c, input[1], input[2])
      PROVE  PacketsOK'
  <2> DEFINE req == RacketRequest(gui[c], input[1], input[2])
  <2>1. UNCHANGED <<down, mUniqueId>> /\ c \in Connected
    BY <1>7 DEF OnUpdate, session
  <2>2. CASE Changed(gui[c], input[1], input[2]) /\ Plays(gui[c])
    <3>1. /\ Started(gui[c]) /\ gui[c].mRecentInputFrame < MaxInput
          /\ Send(c, [mType |-> "PKT_CS_RACKET", mRequest |-> req])
      BY <1>7, <2>2 DEF OnUpdate
    <3>2. ClientOK(gui[c]) /\ input[1] \in PosDiffs /\ input[2] \in BOOLEAN
      BY PongAssumption DEF IInv, GuisOK, PosDiffs
    <3>3. req \in Request
      BY <2>2, <3>1, <3>2, RequestOK
    <3> HIDE DEF req
    <3>4. [mType |-> "PKT_CS_RACKET", mRequest |-> req] \in UpPacket
      BY <3>3 DEF UpPacket
    <3> QED BY <1>4, <2>1, <3>1, <3>4
  <2>3. CASE ~(Changed(gui[c], input[1], input[2]) /\ Plays(gui[c]))
    BY <1>1, <1>7, <2>1, <2>3 DEF OnUpdate
  <2> QED BY <2>2, <2>3
<1>8. ASSUME NEW c \in Clients, ProcessPacket(c) PROVE PacketsOK'
  <2>1. down' = [down EXCEPT ![c] = Tail(down[c])] /\ UNCHANGED <<up, mUniqueId>>
    BY <1>8 DEF ProcessPacket, session
  <2>2. Tail(down[c]) \in Seq(DownPacket)
    <3>1. down[c] \in Seq(DownPacket) /\ down[c] # << >>
      BY <1>0, <1>8 DEF ProcessPacket
    <3> QED BY <3>1, HeadTailProperties
  <2> QED BY <1>0, <2>1, <2>2 DEF PacketsOK
<1>9. ASSUME NEW c \in Clients, Handler_PKT_CS_START(c) PROVE PacketsOK'
  <2>1. Receive(c, "PKT_CS_START") /\ UNCHANGED mUniqueId
    BY <1>9 DEF Handler_PKT_CS_START, session
  <2>2. down' \in [Clients -> Seq(DownPacket)]
    <3>1. CASE UNCHANGED down
      BY <1>0, <3>1
    <3>2. CASE Write({c}, [mType |-> "PKT_SC_START", mYourPlayerType |-> Server!StartResult])
      <4>1. Server!StartResult # PLAYER_NONE => Server!StartResult \in Sides
        BY DEF Server!StartResult, Server!PLAYER_LEFT, Server!PLAYER_RIGHT, Server!PLAYER_NONE,
               Sides, PLAYER_LEFT, PLAYER_RIGHT, PLAYER_NONE
      <4>2. CASE Server!StartResult \in Sides
        <5>1. [mType |-> "PKT_SC_START", mYourPlayerType |-> Server!StartResult] \in DownPacket
          BY <4>2 DEF DownPacket
        <5> QED BY <3>2, <5>1, WriteOK
      <4>3. CASE Server!StartResult = PLAYER_NONE
        BY <1>0, <1>9, <4>3 DEF Handler_PKT_CS_START
      <4> QED BY <4>1, <4>2, <4>3
    <3> QED BY <1>9, <3>1, <3>2 DEF Handler_PKT_CS_START
  <2> QED BY <2>1, <2>2, ReceiveOK DEF PacketsOK
<1>10. ASSUME NEW c \in Clients, Handler_PKT_CS_EXIT(c) PROVE PacketsOK'
  <2>1. Receive(c, "PKT_CS_EXIT") /\ UNCHANGED mUniqueId
    BY <1>10 DEF Handler_PKT_CS_EXIT, session
  <2>2. down' \in [Clients -> Seq(DownPacket)]
    <3> DEFINE status(player) == [mGameStatus |-> Server!GiveUpStatus(player),
                                  mResyncNeededInputFrame |-> Server!NoResync]
               player == Head(up[c]).mPlayerType
    <3>1. StatusPacket(status(player)) \in DownPacket
      <4>1. status(player) \in Status
        BY GiveUpPacketOK
      <4> HIDE DEF status
      <4> QED BY <4>1, StatusPacketOK
    <3>2. UNCHANGED down \/ Write(Connected, StatusPacket(status(player)))
      BY <1>10 DEF Handler_PKT_CS_EXIT
    <3> HIDE DEF status, player
    <3> QED BY <1>0, <3>1, <3>2, WriteOK
  <2> QED BY <2>1, <2>2, ReceiveOK DEF PacketsOK
<1>11. ASSUME NEW c \in Clients, Handler_PKT_CS_RACKET(c) PROVE PacketsOK'
  <2>1. Receive(c, "PKT_CS_RACKET") /\ UNCHANGED <<down, mUniqueId>>
    BY <1>11 DEF Handler_PKT_CS_RACKET, session
  <2> QED BY <1>0, <2>1, ReceiveOK DEF PacketsOK
<1>12. ASSUME NEW j \in Due, RunSendGameStatus(j) PROVE PacketsOK'
  <2>1. /\ Write(SessionOf(j.mOwner), StatusPacket(j.arg)) /\ UNCHANGED <<up, mUniqueId>>
        /\ j.task = "SendGameStatus" /\ j \in Job
    BY <1>12 DEF RunSendGameStatus, session, IInv, JobsOK, BagOf, Due, BagToSet
  <2>2. j.arg \in Status
    BY <2>1 DEF Job
  <2> QED BY <1>0, <2>1, <2>2, StatusPacketOK, WriteOK DEF PacketsOK
<1>13. ASSUME NEW c \in Clients, Idle(c) PROVE PacketsOK'
  BY <1>1, <1>13 DEF Idle, vars, session
<1>14. ASSUME NEW j \in Due, RunRacketAction(j) PROVE PacketsOK'
  BY <1>1, <1>14 DEF RunRacketAction, session
<1>15. OnFrameUpdate => PacketsOK'
  BY <1>1 DEF OnFrameUpdate, session
<1>16. CASE UNCHANGED vars
  BY <1>1, <1>16 DEF vars, session
<1> QED BY <1>2, <1>3, <1>5, <1>6, <1>7, <1>8, <1>9, <1>10, <1>11, <1>12, <1>13, <1>14, <1>15,
           <1>16 DEF Next

(* Jobs stay well formed, whatever their delay and order.                  *)
LEMMA JobsStep ==
  ASSUME IInv, [Next]_vars
  PROVE  /\ JobsOK'
         /\ \A j \in DOMAIN jobs' : j.mOwner <= mCurrentIssuedId
<1>0. /\ BagOf(Job, jobs) /\ \A j \in DOMAIN jobs : j.mOwner <= mCurrentIssuedId
      /\ mUniqueId \in [Clients -> 0 .. mCurrentIssuedId] /\ mCurrentIssuedId \in Nat
  BY PongAssumption, SMT DEF IInv, JobsOK, IdsOK
<1> DEFINE Goal == BagOf(Job, jobs') /\ \A j \in DOMAIN jobs' : j.mOwner <= mCurrentIssuedId
<1>1. CASE UNCHANGED jobs
  BY <1>0, <1>1 DEF JobsOK
<1>2. ASSUME NEW c \in Clients, Handler_PKT_CS_RACKET(c) PROVE Goal
  <2> DEFINE req == Head(up[c]).mRequest
  <2>1. CASE UNCHANGED jobs
    BY <1>0, <2>1
  <2>2. ASSUME NEW wait \in 0 .. MaxWait,
               jobs' = jobs (+) SetToBag({RacketJob(mUniqueId[c], wait, req)})
        PROVE  Goal
    <3>1. /\ Head(up[c]) \in UpPacket /\ Head(up[c]).mType = "PKT_CS_RACKET"
          /\ mUniqueId[c] \in 1 .. MaxUid /\ mUniqueId[c] <= mCurrentIssuedId
      BY <1>2, Handled DEF Handler_PKT_CS_RACKET, Receive
    <3>2. req \in Request
      BY <3>1 DEF UpPacket
    <3> HIDE DEF req
    <3> DEFINE job == RacketJob(mUniqueId[c], wait, req)
    <3>3. job \in Job /\ job.mOwner = mUniqueId[c]
      <4>1. mUniqueId[c] \in Nat /\ wait \in Int
        BY <3>1, SMT
      <4> QED BY <3>2, <4>1 DEF RacketJob, Job
    <3> DEFINE sum == jobs (+) SetToBag({job})
    <3>4. jobs' = sum
      BY <2>2
    <3>5. BagOf(Job, sum) /\ DOMAIN sum = DOMAIN jobs \cup {job}
      <4>1. {job} \subseteq Job
        BY <3>3
      <4>2. BagOf(Job, jobs)
        BY <1>0
      <4> HIDE DEF job
      <4> QED BY <4>1, <4>2, BagAddOK
    <3> HIDE DEF job, sum
    <3> QED BY <1>0, <3>1, <3>3, <3>4, <3>5
  <2> QED BY <1>2, <2>1, <2>2 DEF Handler_PKT_CS_RACKET
<1>3. ASSUME NEW j \in Due, RunRacketAction(j) \/ RunSendGameStatus(j) PROVE Goal
  <2>1. jobs' = jobs (-) SetToBag({j})
    BY <1>3 DEF RunRacketAction, RunSendGameStatus, Runs
  <2> QED BY <1>0, <2>1, BagRemoveOK
<1>4. ASSUME OnFrameUpdate PROVE Goal
  <2> DEFINE soon == OneFrameSooner(jobs)
  <2>1. BagOf(Job, soon) /\ \A j \in DOMAIN soon : j.mOwner <= mCurrentIssuedId
    BY <1>0, FrameSoonerOK
  <2>2. CASE jobs' = soon
    BY <2>1, <2>2
  <2>3. ASSUME Server!IsPlaying, NEW wait \in 0 .. MaxWait - 1,
               jobs' = soon (+) Broadcast(wait, Server!FramePacket)
        PROVE  Goal
    <3> DEFINE T == {StatusJob(mUniqueId[c], wait, Server!FramePacket) : c \in Connected}
           sum == soon (+) SetToBag(T)
    <3>1. jobs' = sum
      BY <2>3 DEF Broadcast
    <3>2. ASSUME NEW j \in T PROVE j \in Job /\ j.mOwner <= mCurrentIssuedId
      <4>1. PICK c \in Clients : j = StatusJob(mUniqueId[c], wait, Server!FramePacket)
        BY DEF Connected
      <4>2. mUniqueId[c] \in Nat /\ mUniqueId[c] <= mCurrentIssuedId /\ wait \in Int
        <5>1. mUniqueId[c] \in 0 .. mCurrentIssuedId
          BY <1>0
        <5> QED BY <1>0, <5>1, PongAssumption, SMT
      <4>3. Server!FramePacket \in Status
        BY <2>3, FramePacketOK
      <4> QED BY <4>1, <4>2, <4>3 DEF StatusJob, Job
    <3> HIDE DEF T, soon
    <3>3. BagOf(Job, sum) /\ DOMAIN sum = DOMAIN soon \cup T
      <4>1. T \subseteq Job
        BY <3>2
      <4>2. BagOf(Job, soon)
        BY <2>1
      <4> QED BY <4>1, <4>2, BagAddOK
    <3> HIDE DEF sum
    <3> QED BY <2>1, <3>1, <3>2, <3>3
  <2> QED BY <1>4, <2>2, <2>3 DEF OnFrameUpdate
<1>5. ASSUME NEW c \in Clients,
             \/ Connect(c) \/ Disconnect(c) \/ Idle(c) \/ MenuStart(c) \/ MenuGiveUp(c)
             \/ ProcessPacket(c) \/ Handler_PKT_CS_START(c) \/ Handler_PKT_CS_EXIT(c)
      PROVE  UNCHANGED jobs
  BY <1>5 DEF Connect, Disconnect, Idle, MenuStart, MenuGiveUp, ProcessPacket,
              Handler_PKT_CS_START, Handler_PKT_CS_EXIT, vars
<1>6. ASSUME NEW c \in Clients, NEW input \in Inputs, OnUpdate(c, input[1], input[2])
      PROVE  UNCHANGED jobs
  BY <1>6 DEF OnUpdate
<1>7. Goal
  BY <1>0, <1>1, <1>2, <1>3, <1>4, <1>5, <1>6 DEF Next, vars
<1> QED BY <1>7 DEF JobsOK

(* Ids only grow: what holds an id holds one that was issued.              *)
LEMMA IdsStep ==
  ASSUME IInv, [Next]_vars
  PROVE  IdsOK'
<1>0. /\ mUniqueId \in [Clients -> 0 .. mCurrentIssuedId]
      /\ mCurrentIssuedId \in 0 .. MaxUid /\ mCurrentIssuedId \in Nat
  BY PongAssumption, SMT DEF IInv, IdsOK
<1>1. /\ mPlayerUid' \in [Sides -> Nat] /\ \A s \in Sides : mPlayerUid'[s] <= mCurrentIssuedId
  <2>1. Manager!IInv'
    BY ServerStep, ManagerConstants, RulesAssumption, Manager!NextInvariant
       DEF IInv, ServerOK, ServerKeeps
  <2>2. mPlayerUid' \in [Sides -> 1 .. MaxUid \cup {0}]
    BY <2>1, SameSides DEF Manager!IInv, Manager!TypeOK
  <2>3. \A n \in 1 .. MaxUid \cup {0} : n \in Nat
    BY SMT
  <2> QED BY <2>2, <2>3, ServerStep DEF ServerKeeps
<1>2. /\ \A j \in DOMAIN jobs' : j.mOwner <= mCurrentIssuedId
      /\ \A j \in DOMAIN jobs' : j.mOwner \in Nat
  BY JobsStep DEF JobsOK, BagOf, Job
<1>3. CASE UNCHANGED session
  BY <1>0, <1>1, <1>2, <1>3 DEF session, IdsOK
<1>4. ASSUME NEW c \in Clients, Connect(c) PROVE IdsOK'
  <2> DEFINE next == mCurrentIssuedId + 1
  <2>1. /\ mCurrentIssuedId' = next /\ mCurrentIssuedId < MaxUid
        /\ mUniqueId' = [mUniqueId EXCEPT ![c] = next]
    BY <1>4 DEF Connect
  <2>2. /\ next \in 0 .. MaxUid /\ next \in 0 .. next
        /\ \A n \in Nat : n <= mCurrentIssuedId => n <= next
        /\ \A n \in 0 .. mCurrentIssuedId : n \in 0 .. next
    BY <1>0, <2>1, PongAssumption, SMT
  <2> HIDE DEF next
  <2> QED BY <1>0, <1>1, <1>2, <2>1, <2>2, Zenon DEF IdsOK
<1>5. ASSUME NEW c \in Clients, Disconnect(c) PROVE IdsOK'
  <2>1. /\ mCurrentIssuedId' = mCurrentIssuedId /\ mUniqueId' = [mUniqueId EXCEPT ![c] = 0]
    BY <1>5 DEF Disconnect
  <2>2. 0 \in 0 .. mCurrentIssuedId
    BY <1>0, SMT
  <2> QED BY <1>0, <1>1, <1>2, <2>1, <2>2 DEF IdsOK
<1>6. ASSUME NEW c \in Clients,
             \/ Idle(c) \/ MenuStart(c) \/ MenuGiveUp(c) \/ ProcessPacket(c)
             \/ Handler_PKT_CS_START(c) \/ Handler_PKT_CS_EXIT(c) \/ Handler_PKT_CS_RACKET(c)
      PROVE  UNCHANGED session
  BY <1>6 DEF Idle, MenuStart, MenuGiveUp, ProcessPacket,
              Handler_PKT_CS_START, Handler_PKT_CS_EXIT, Handler_PKT_CS_RACKET, vars
<1>7. ASSUME NEW c \in Clients, NEW input \in Inputs, OnUpdate(c, input[1], input[2])
      PROVE  UNCHANGED session
  BY <1>7 DEF OnUpdate
<1>8. ASSUME NEW j \in Due, RunRacketAction(j) \/ RunSendGameStatus(j) PROVE UNCHANGED session
  BY <1>8 DEF RunRacketAction, RunSendGameStatus
<1>9. OnFrameUpdate => UNCHANGED session
  BY DEF OnFrameUpdate
<1> QED BY <1>3, <1>4, <1>5, <1>6, <1>7, <1>8, <1>9 DEF Next, vars

----------------------------------------------------------------------------
(* IInv is inductive.                                                      *)

(* Nobody is connected, nothing is on its way, the server is idle.         *)
LEMMA InitInvariant == Init => IInv
<1> SUFFICES ASSUME Init PROVE IInv
  OBVIOUS
<1>1. Manager!Init
  BY SameOperations DEF Init
<1>2. Manager!IInv
  BY <1>1, ManagerConstants, RulesAssumption, Manager!InitInvariant
<1>3. /\ mPlayerUid = [s \in Sides |-> 0] /\ mResyncNeededInputFrame = [s \in Sides |-> 0]
      /\ mCurrentWorldFrame = 0
  BY <1>1, SameSides DEF Manager!Init
<1>4. ServerOK
  BY <1>2, <1>3, PongAssumption, SMT DEF ServerOK, ResyncWithinGame
<1>5. jobs = [j \in {} |-> 1]
  BY DEF Init, EmptyBag, SetToBag
<1>6. IdsOK
  <2>1. /\ mCurrentIssuedId = 0 /\ 0 \in 0 .. MaxUid /\ 0 \in 0 .. 0 /\ 0 <= 0
        /\ mUniqueId = [c \in Clients |-> 0]
    BY PongAssumption, SMT DEF Init
  <2> QED BY <1>3, <1>5, <2>1 DEF IdsOK
<1>7. GuisOK
  BY 0 \in Int, FreshOK DEF Init, GuisOK
<1>8. PacketsOK
  BY EmptySeq DEF Init, PacketsOK
<1>9. JobsOK
  BY <1>5 DEF JobsOK, BagOf
<1> QED BY <1>4, <1>6, <1>7, <1>8, <1>9 DEF IInv

LEMMA NextInvariant == IInv /\ [Next]_vars => IInv'
<1> SUFFICES ASSUME IInv, [Next]_vars PROVE IInv'
  OBVIOUS
<1>1. ServerOK'
  <2>1. Manager!IInv'
    BY ServerStep, ManagerConstants, RulesAssumption, Manager!NextInvariant
       DEF IInv, ServerOK, ServerKeeps
  <2> QED BY <2>1, ServerStep DEF ServerOK, ServerKeeps
<1> QED BY <1>1, IdsStep, GuisStep, PacketsStep, JobsStep DEF IInv

(* The inductive invariant holds of every behaviour of the whole game.     *)
THEOREM PongInvariant == Spec => []IInv
BY InitInvariant, NextInvariant, PTL DEF Spec

----------------------------------------------------------------------------
(* What it says.                                                           *)

(* The state of the whole game has its type: the server's own, the         *)
(* clients' statuses and sides, ids of issued sessions, and a bag of jobs. *)
THEOREM PongTypeCorrect == Spec => []TypeOK
<1>1. IInv => TypeOK
  <2> SUFFICES ASSUME IInv PROVE TypeOK
    OBVIOUS
  <2>1. Server!TypeOK
    BY SameOperations DEF IInv, ServerOK, Manager!IInv
  <2>2. \A c \in Clients : /\ gui[c].mGameStatus \in GameStatus
                          /\ gui[c].mMyPlayerType \in PlayerType
    BY DEF IInv, GuisOK, ClientOK, Gui
  <2>3. IsABag(jobs)
    <3>1. Nat \ {0} = {n \in Nat : n > 0}
      BY SMT
    <3> QED BY <3>1 DEF IsABag, IInv, JobsOK, BagOf
  <2> QED BY <2>1, <2>2, <2>3 DEF TypeOK, IInv, IdsOK
<1> QED BY <1>1, PongInvariant, PTL

(* Any client that shows a running game sends for the frame it shows,      *)
(* never for frame 0, for any delays, inputs and resyncs.                  *)
THEOREM ClientsSendForShownFrame == Spec => []SendsForShownFrame
<1>1. IInv => SendsForShownFrame
  BY DEF IInv, GuisOK, ClientOK, Sane, SendsForShownFrame, Connected
<1> QED BY <1>1, PongInvariant, PTL

(* The inputs any client may have to replay are its last ones, none        *)
(* missing and in order.                                                   *)
THEOREM InputsStayNumbered == Spec => []InputsNumbered
<1>1. IInv => InputsNumbered
  BY DEF IInv, GuisOK, ClientOK, Numbered, InputsNumbered, Connected
<1> QED BY <1>1, PongInvariant, PTL

(* A resync is only ever owed while a game runs.                           *)
THEOREM ResyncOnlyWithinGame == Spec => []ResyncWithinGame
<1>1. IInv => ResyncWithinGame
  BY DEF IInv, ServerOK
<1> QED BY <1>1, PongInvariant, PTL

(* Nobody who connects finds himself seated or served another's status:    *)
(* whatever holds an id holds one that was issued before, and the one who  *)
(* connects gets the next.                                                 *)
THEOREM NobodyInherits == Spec => NoInheritance
<1> DEFINE Inherits == \A c \in Clients : mUniqueId'[c] # mUniqueId[c] /\ mUniqueId'[c] # 0 =>
                         /\ Server!GetPlayerType(mUniqueId'[c]) = PLAYER_NONE
                         /\ \A j \in BagToSet(jobs) : j.mOwner # mUniqueId'[c]
                         /\ \A d \in Connected : mUniqueId[d] # mUniqueId'[c]
<1>1. IInv /\ [Next]_vars => [Inherits]_vars
  <2> SUFFICES ASSUME IInv, Next PROVE Inherits
    OBVIOUS
  <2>0. /\ mUniqueId \in [Clients -> 0 .. mCurrentIssuedId]
        /\ \A d \in Clients : mUniqueId[d] <= mCurrentIssuedId
        /\ mCurrentIssuedId \in Nat
        /\ \A s \in Sides : mPlayerUid[s] <= mCurrentIssuedId
        /\ \A j \in BagToSet(jobs) : j.mOwner <= mCurrentIssuedId
    <3>1. \A n \in 0 .. mCurrentIssuedId : n <= mCurrentIssuedId
      BY PongAssumption, SMT DEF IInv, IdsOK
    <3> QED BY <3>1, PongAssumption DEF IInv, IdsOK, BagToSet
  <2>1. CASE UNCHANGED mUniqueId
    BY <2>1
  <2>2. ASSUME NEW c \in Clients, Connect(c) PROVE Inherits
    <3> DEFINE next == mCurrentIssuedId + 1
    <3>1. mUniqueId' = [mUniqueId EXCEPT ![c] = next]
      BY <2>2 DEF Connect
    <3>2. \A n : n <= mCurrentIssuedId => n # next
      BY <2>0, SMT
    <3> HIDE DEF next
    <3>3. \A d \in Clients : mUniqueId'[d] # mUniqueId[d] => mUniqueId'[d] = next
      BY <2>0, <3>1
    <3>4. Server!GetPlayerType(next) = PLAYER_NONE
      BY <2>0, <3>2 DEF Server!GetPlayerType, Server!PLAYER_LEFT, Server!PLAYER_RIGHT,
            Server!PLAYER_NONE, Sides, PLAYER_LEFT, PLAYER_RIGHT, PLAYER_NONE
    <3> QED BY <2>0, <3>2, <3>3, <3>4 DEF Connected
  <2>3. ASSUME NEW c \in Clients, Disconnect(c) PROVE Inherits
    BY <2>0, <2>3 DEF Disconnect
  <2>4. ASSUME NEW c \in Clients,
               \/ Idle(c) \/ MenuStart(c) \/ MenuGiveUp(c) \/ ProcessPacket(c)
               \/ Handler_PKT_CS_START(c) \/ Handler_PKT_CS_EXIT(c) \/ Handler_PKT_CS_RACKET(c)
        PROVE  UNCHANGED mUniqueId
    BY <2>4 DEF Idle, MenuStart, MenuGiveUp, ProcessPacket,
                Handler_PKT_CS_START, Handler_PKT_CS_EXIT, Handler_PKT_CS_RACKET, vars, session
  <2>5. ASSUME NEW c \in Clients, NEW input \in Inputs, OnUpdate(c, input[1], input[2])
        PROVE  UNCHANGED mUniqueId
    BY <2>5 DEF OnUpdate, session
  <2>6. ASSUME NEW j \in Due, RunRacketAction(j) \/ RunSendGameStatus(j)
        PROVE  UNCHANGED mUniqueId
    BY <2>6 DEF RunRacketAction, RunSendGameStatus, session
  <2>7. OnFrameUpdate => UNCHANGED mUniqueId
    BY DEF OnFrameUpdate, session
  <2> QED BY <2>1, <2>2, <2>3, <2>4, <2>5, <2>6, <2>7 DEF Next
<1> QED BY <1>1, PongInvariant, PTL DEF Spec, NoInheritance

----------------------------------------------------------------------------
(* Clients, however late, stale or out of order their packets and jobs     *)
(* are, drive the GameManager only as its own module assumes: what is      *)
(* proved of it holds of the whole game.                                   *)
THEOREM PongImplementsGameManager == Spec => ImplementsGameManager
<1>1. Init => Server!Init
  BY DEF Init
<1>2. IInv /\ [Next]_vars => [Server!Next]_(Server!game)
  BY ServerStep, SameStep, SameOperations DEF ServerKeeps, Server!game, Manager!game
<1> QED BY <1>1, <1>2, PongInvariant, PTL DEF Spec, ImplementsGameManager, Server!Spec

(* So the seats and the score of the whole game are those of a Match:      *)
(* delays, predictions, resyncs and disconnections never show in them.     *)
THEOREM PongImplementsMatch == Spec => Manager!ImplementsMatch
<1>1. Init => Manager!Init
  BY SameOperations DEF Init
<1>2. IInv /\ [Next]_vars => [Manager!Next]_(Manager!game)
  BY ServerStep DEF ServerKeeps
<1>3. Manager!Spec => Manager!ImplementsMatch
  BY ManagerConstants, RulesAssumption, Manager!ManagerImplementsMatch
<1> QED BY <1>1, <1>2, <1>3, PongInvariant, PTL DEF Spec, Manager!Spec
=============================================================================
