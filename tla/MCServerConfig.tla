--------------------------- MODULE MCServerConfig ---------------------------
(***************************************************************************)
(* Small instances of ServerConfig for TLC.                                *)
(***************************************************************************)
EXTENDS ServerConfig

\* The limits of the directives, their neighbours, and the default timeout.
MCNumbers == {-1, 0, 1, 10, 11, 100, 60000, 60001}
=============================================================================
