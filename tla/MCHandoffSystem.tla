--------------------------- MODULE MCHandoffSystem ---------------------------
(***************************************************************************)
(* Small instances of HandoffSystem for TLC.                               *)
(***************************************************************************)
EXTENDS HandoffSystem, TLC

\* Requests are interchangeable: no action or invariant names one.
Symmetry == Permutations(Requests)

\* Bound: only requests that reach the filter with a path to hand off to, and
\* clients that stay; HandoffFilter.cfg and GoDaemon.cfg check the others.
HandoffsOnly ==
    \A r \in Requests :
        /\ wpc[r] = "handler" /\ left[r] > 0 => kind[r] = "handoff" /\ filterOn[r]
        /\ ~gone[r]
=============================================================================
