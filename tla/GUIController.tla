--------------------------- MODULE GUIController ---------------------------
(***************************************************************************)
(* The client program: GUIController with the requests NetController sends *)
(* for it.  A client shows the status it received last, advanced by its    *)
(* own inputs before the server has seen them, and remembers the inputs so *)
(* that it can put them on top of the server's status after a desync.      *)
(*                                                                         *)
(* A client is a record with the fields of the class.  mInputHistory is a  *)
(* std::map whose keys only grow between two clears, so it is the sequence *)
(* of its elements in key order.                                           *)
(***************************************************************************)
EXTENDS GameRules, Sequences

InputElem(inputFrame, posDiff, shoot) ==
  [mInputFrame |-> inputFrame, mPosDiff |-> posDiff, mShoot |-> shoot]

\* Reset, and what the constructor leaves when the two counters it does not
\* initialize happen to be worldFrame and inputFrame.
Fresh(worldFrame, inputFrame) ==
  [ mMyPlayerType     |-> PLAYER_NONE,
    mGameStatus       |-> ResetStatus,
    mRecentWorldFrame |-> worldFrame,
    mRecentInputFrame |-> inputFrame,
    mInputHistory     |-> << >> ]

Reset == Fresh(0, 0)

Started(g) == g.mGameStatus.mCurrentStatus = CGS_STARTED

----------------------------------------------------------------------------
(* Inputs                                                                  *)

\* A frame of the client's own: the input, then the rules.
Predict(g, posDiff, shoot) ==
  GetUpdatedGameStatus(ChangeGameStatus(g.mGameStatus, g.mMyPlayerType, posDiff, shoot))

\* Is there an input to send?
Changed(g, posDiff, shoot) ==
  ChangesStatus(g.mGameStatus, g.mMyPlayerType, posDiff, shoot)

\* Seeded mistake: every update takes a number, also one with no input.
AfterUpdateCounting(g, posDiff, shoot) ==
  LET predicted == [g EXCEPT !.mGameStatus = Predict(g, posDiff, shoot),
                             !.mRecentInputFrame = @ + 1]
  IN  IF Changed(g, posDiff, shoot)
      THEN [predicted EXCEPT !.mInputHistory =
              Append(@, InputElem(g.mRecentInputFrame, posDiff, shoot))]
      ELSE predicted

\* OnUpdate of a client that is Started.
AfterUpdate(g, posDiff, shoot) ==
  LET predicted == [g EXCEPT !.mGameStatus = Predict(g, posDiff, shoot)]
      input     == InputElem(g.mRecentInputFrame, posDiff, shoot)
  IN  IF Changed(g, posDiff, shoot)
      THEN [predicted EXCEPT !.mInputHistory = Append(@, input),
                             !.mRecentInputFrame = @ + 1]
      ELSE predicted

\* What RequestRacket sends, unless the client plays no side.
RacketRequest(g, posDiff, shoot) ==
  [ mPlayerType |-> g.mMyPlayerType, mPosDiff |-> posDiff, mIsShoot |-> shoot,
    mRecentWorldFrame |-> g.mRecentWorldFrame, mInputFrame |-> g.mRecentInputFrame,
    mStatusHash |-> GetGameStatusHash(Predict(g, posDiff, shoot)) ]

Plays(g) == g.mMyPlayerType # PLAYER_NONE

----------------------------------------------------------------------------
(* Packets from the server                                                 *)

OnGameStart(myType) == [Reset EXCEPT !.mMyPlayerType = myType]

\* Inputs up to fromFrame are in the status; the later ones go on top of it.
Replay(g, fromFrame, stat, e) ==
  IF e.mInputFrame <= fromFrame THEN stat
  ELSE GetUpdatedGameStatus(ChangeGameStatus(stat, g.mMyPlayerType, e.mPosDiff, e.mShoot))

Replayed(g, fromFrame) ==
  LET h == g.mInputHistory
      status[i \in 0 .. Len(h)] ==
        IF i = 0 THEN g.mGameStatus ELSE Replay(g, fromFrame, status[i - 1], h[i])
  IN  status[Len(h)]

Resync(g, fromFrame) ==
  [g EXCEPT !.mGameStatus = Replayed(g, fromFrame), !.mInputHistory = << >>]

\* The resync request of the packet for the side the client plays, 0 if none.
ResyncFrom(g, packet) ==
  IF Plays(g) THEN packet.mResyncNeededInputFrame[g.mMyPlayerType] ELSE 0

\* Seeded mistake: the status is shown, its frame is not remembered.
OnStatusForgettingFrame(g, packet) ==
  LET stat  == packet.mGameStatus
      shown == [g EXCEPT !.mGameStatus = stat]
  IN  IF ~Started(g) /\ stat.mCurrentStatus # CGS_STARTED THEN g
      ELSE IF stat.mCurrentStatus \in GameOver           THEN Reset
      ELSE IF ResyncFrom(g, packet) > 0                  THEN Resync(shown, ResyncFrom(g, packet))
      ELSE shown

OnStatusChange(g, packet) ==
  LET stat  == packet.mGameStatus
      shown == [g EXCEPT !.mGameStatus = stat, !.mRecentWorldFrame = stat.mWorldFrame]
  IN  IF ~Started(g) /\ stat.mCurrentStatus # CGS_STARTED THEN g
      ELSE IF stat.mCurrentStatus \in GameOver           THEN Reset
      ELSE IF ResyncFrom(g, packet) > 0                  THEN Resync(shown, ResyncFrom(g, packet))
      ELSE shown
=============================================================================
