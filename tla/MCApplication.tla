--------------------------- MODULE MCApplication ---------------------------
(* Small instances of Application.  There is one token more than there are *)
(* players, so that a token can come back after its player has left.       *)
EXTENDS Application, TLC

CONSTANTS park, town, t1, t2, t3, t4

MCOneMap == {park}
MCTwoMaps == {park, town}
MCTokens == {t1, t2, t3, t4}
TokenSymmetry == Permutations(MCTokens)
=============================================================================
