---------------------------- MODULE MCGameClient ----------------------------
(* The player at the page and another one, who comes, stays or goes.       *)
EXTENDS GameClient

MCPlayers == 1 .. 2
=============================================================================
