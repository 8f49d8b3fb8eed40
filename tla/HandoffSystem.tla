---------------------------- MODULE HandoffSystem ----------------------------
(***************************************************************************)
(* The Apache module and the Go daemon together: the workers of            *)
(* HandoffFilter on one side of the Unix socket, GoDaemon on the other in  *)
(* place of the daemon's contract.                                         *)
(***************************************************************************)
EXTENDS HandoffFilter, Sequences

CONSTANTS MaxConnections, NoRequest

VARIABLES mainPc, ctxDone, drained, acceptPc, acur, sem, activeConns, gpc, answer,
          end, gone

Go == INSTANCE GoDaemon

daemonVars == <<mainPc, ctxDone, drained, acceptPc, acur, sem, activeConns, gpc,
                answer, end, gone>>
systemVars == <<vars, daemonVars>>

SystemInit == Init /\ Go!GoInit

SystemNext ==
    \/ (\E r \in Requests : WorkerStep(r)) /\ UNCHANGED daemonVars
    \/ Go!GoStep /\ UNCHANGED workerVars

SystemSpec == SystemInit /\ [][SystemNext]_systemVars

-----------------------------------------------------------------------------

\* The Go daemon keeps the contract that the module is built on: every step of
\* it is a step of the daemon in HandoffFilter, or changes nothing that Apache
\* or the client can see.
KeepsContract == Spec

\* The ways of the Go daemon to lose a client without a word: the receive failed, the
\* listener was closed on the descriptor, it could not be wrapped, the process ended,
\* the upstream was reset or ended well without a byte.
Losses == {"dropped", "discarded", "nodup", "killed", "reset", "empty"}

\* From the request to the end of the response, a client is answered by exactly one
\* side: when the worker is done and the daemon no longer has the descriptor, either
\* Apache or the daemon has answered, and nobody has only if the daemon lost the
\* client in one of the ways above.
ClientAnswered ==
    \A r \in Requests :
        wpc[r] = "closed" /\ ~AtDaemon(r) /\ gpc[r] \notin {"rejecting", "setup"}
          => \/ wrote[r] = {"daemon"}
             \/ wrote[r] # {} /\ wrote[r] \subseteq {"body", "error"}
             \/ wrote[r] = {} /\ end[r] \in Losses
=============================================================================
