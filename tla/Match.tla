------------------------------- MODULE Match -------------------------------
(***************************************************************************)
(* What the server promises about a game, with no frames, history, rackets *)
(* or lasers in it: who sits where, and the score.  A first player waits,  *)
(* a second one starts the game at love all, points come one at a time,    *)
(* the point that reaches WinningScore ends the game, and so does a        *)
(* surrender.  Ending a game empties both seats and forgets the score.     *)
(***************************************************************************)
EXTENDS Integers

CONSTANTS Sides, First, Second, Uids, WinningScore

Nobody == 0

VARIABLES
  seat,    \* the uid on each side, or Nobody
  score    \* points of each side in the running game

match == <<seat, score>>

LoveAll == [s \in Sides |-> 0]
Empty   == [s \in Sides |-> Nobody]
Playing == \A s \in Sides : seat[s] # Nobody

Init == seat = Empty /\ score = LoveAll

Wait(uid) ==
  /\ seat = Empty
  /\ seat' = [Empty EXCEPT ![First] = uid]
  /\ score' = LoveAll

Start(uid) ==
  /\ seat[First] # Nobody /\ seat[Second] = Nobody
  /\ seat' = [seat EXCEPT ![Second] = uid]
  /\ score' = LoveAll

Point(side) ==
  /\ Playing
  /\ score[side] + 1 < WinningScore
  /\ score' = [score EXCEPT ![side] = @ + 1]
  /\ UNCHANGED seat

End ==
  /\ seat' = Empty
  /\ score' = LoveAll

Win(side) == Playing /\ score[side] + 1 = WinningScore /\ End

\* A player who waits alone may surrender too.
Surrender == seat # Empty /\ End

Next ==
  \/ \E uid \in Uids : Wait(uid) \/ Start(uid)
  \/ \E side \in Sides : Point(side) \/ Win(side)
  \/ Surrender

Spec == Init /\ [][Next]_match
=============================================================================
