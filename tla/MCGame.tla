------------------------------- MODULE MCGame -------------------------------
(* A game of at most two players; a third comes only by set_player_count(). *)
EXTENDS Game

CONSTANT notGiven

Debt == -1
MCAllocations == {-1, 0, 2}
MCCounts == {0, 3}
MCArguments == {-1, 1}
=============================================================================
