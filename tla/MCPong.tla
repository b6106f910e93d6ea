------------------------------ MODULE MCPong ------------------------------
(* Pong for TLC: client machines are interchangeable.  The player does     *)
(* nothing or shoots; or does nothing or moves and shoots at once, which   *)
(* misses from level and hits once both have moved.                        *)
EXTENDS Pong, TLC

Machines == Permutations(Clients)

Shooting     == {<<0, FALSE>>, <<0, TRUE>>}
MoveAndShoot == {<<0, FALSE>>, <<1, TRUE>>}
=============================================================================
