--------------------------- MODULE MCConnectRetry ---------------------------
(***************************************************************************)
(* Small instances of ConnectRetry for TLC.                                *)
(***************************************************************************)
EXTENDS ConnectRetry

\* 1 << i for the shifts of this instance.
MCShl == [i \in 0..MaxRetries |-> 2 ^ i]
=============================================================================
