---------------------------- MODULE MCSavedGame ----------------------------
(* Small instances of SavedGame.                                           *)
EXTENDS SavedGame, TLC

CONSTANTS t1, t2, t3, t4

MCTokens == {t1, t2, t3, t4}
TokenSymmetry == Permutations(MCTokens)
=============================================================================
