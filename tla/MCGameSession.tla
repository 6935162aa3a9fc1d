--------------------------- MODULE MCGameSession ---------------------------
(* Small instances of GameSession: a second is two milliseconds long and   *)
(* a dog retires after one idle second.                                    *)
EXTENDS GameSession, TLC

CONSTANT office   \* the one office of the map

MCOffices == {office}
MCShortTicks == {1}
MCDeltas == {1, 2}
=============================================================================
