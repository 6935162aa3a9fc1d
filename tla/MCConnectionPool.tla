-------------------------- MODULE MCConnectionPool --------------------------
(* Small instances of ConnectionPool.                                      *)
EXTENDS ConnectionPool

CONSTANTS a, b, c, d

MCThreads == {a, b, c, d}
=============================================================================
