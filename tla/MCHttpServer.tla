---------------------------- MODULE MCHttpServer ----------------------------
(* Small instances of HttpServer.                                          *)
EXTENDS HttpServer

CONSTANTS a, b

MCClients == {a, b}
=============================================================================
