-------------------------- MODULE SocketPathProofs --------------------------
(***************************************************************************)
(* A daemon that serves can be reached, and no start is refused for what a *)
(* predecessor left, for any number of daemons that do not overlap.        *)
(***************************************************************************)
EXTENDS SocketPath, TLAPS

\* A daemon has a listening socket from listen() to its close or its end.
ListenPlaces ==
    \A p \in Daemons : p \in listens <=> pc[p] \in {"serving", "unlink", "close"}

\* Without overlap one daemon at most is up ...
OneUp ==
    ~overlap => \A p, q \in Daemons : pc[p] # "down" /\ pc[q] # "down" => p = q

\* ... and what it last saw or did to the path still holds.
PathKnown ==
    ~overlap =>
        \A p \in Daemons :
            /\ pc[p] = "probe" => path # NoFile
            /\ pc[p] = "bind" => path = NoFile
            /\ pc[p] \in {"listen", "serving", "unlink"} => path = p

IInv == TypeOK /\ ListenPlaces /\ OneUp /\ PathKnown /\ NoFalseRefusal

\* No daemon, no file.
LEMMA InitIInv == Init => IInv
BY PathAssumption
   DEF Init, IInv, TypeOK, ListenPlaces, OneUp, PathKnown, NoFalseRefusal

\* Every step of a daemon's startup and end keeps the invariant.
LEMMA NextIInv == IInv /\ [Next]_vars => IInv'
<1> SUFFICES ASSUME IInv, [Next]_vars PROVE IInv'
  OBVIOUS
<1> USE PathAssumption
    DEF IInv, TypeOK, ListenPlaces, OneUp, PathKnown, NoFalseRefusal, Goto, Refuse
<1>1. ASSUME NEW p \in Daemons, Start(p) PROVE IInv'
  <2>1. PICK place \in {"init", "lstat", "remove"} : pc' = [pc EXCEPT ![p] = place]
    BY <1>1 DEF Start
  <2> QED
    BY ZenonT(40), <1>1, <2>1 DEF Start
<1>2. ASSUME NEW p \in Daemons, Lstat(p) PROVE IInv'
  BY <1>2 DEF Lstat
<1>3. ASSUME NEW p \in Daemons, Probe(p) PROVE IInv'
  <2>1. CASE UNCHANGED refused
    BY <1>3, <2>1 DEF Probe
  <2>2. CASE Refuse(p)
    <3>1. overlap
      BY <1>3, <2>2 DEF Probe
    <3>2. PICK place \in {"down", "final"} : pc' = [pc EXCEPT ![p] = place]
      BY <2>2
    <3> QED
      BY <1>3, <2>2, <3>1, <3>2 DEF Probe
  <2> QED
    BY <1>3, <2>1, <2>2 DEF Probe
<1>4. ASSUME NEW p \in Daemons, Remove(p) PROVE IInv'
  BY <1>4 DEF Remove
<1>5. ASSUME NEW p \in Daemons, Bind(p) PROVE IInv'
  BY <1>5 DEF Bind
<1>6. ASSUME NEW p \in Daemons, Listen(p) PROVE IInv'
  BY <1>6 DEF Listen
<1>7. ASSUME NEW p \in Daemons, Shutdown(p) PROVE IInv'
  BY <1>7 DEF Shutdown
<1>8. ASSUME NEW p \in Daemons, Unlink(p) PROVE IInv'
  BY <1>8 DEF Unlink
<1>9. ASSUME NEW p \in Daemons, Close(p) PROVE IInv'
  BY <1>9 DEF Close
<1>10. ASSUME NEW p \in Daemons, FinalRemove(p) PROVE IInv'
  BY <1>10 DEF FinalRemove
<1>11. ASSUME NEW p \in Daemons, Kill(p) PROVE IInv'
  BY <1>11 DEF Kill
<1>12. ASSUME NEW p \in Daemons, UringInit(p) PROVE IInv'
  BY <1>12 DEF UringInit
<1>13. ASSUME NEW p \in Daemons, ListenFails(p) PROVE IInv'
  <2>1. PICK place \in {"down", "final"} : pc' = [pc EXCEPT ![p] = place]
    BY <1>13 DEF ListenFails
  <2> QED
    BY <1>13, <2>1 DEF ListenFails
<1>14. CASE UNCHANGED vars
  BY <1>14 DEF vars
<1> QED
  BY <1>1, <1>2, <1>3, <1>4, <1>5, <1>6, <1>7, <1>8, <1>9, <1>10, <1>11, <1>12, <1>13,
     <1>14
     DEF Next

\* The invariant the theorems below are read from.
LEMMA AlwaysIInv == Spec => []IInv
BY InitIInv, NextIInv, PTL DEF Spec

\* Daemons that are started one after the other serve on a path that leads to
\* them, whatever ended their predecessors.
THEOREM ServingReachableHolds == Spec => []ServingReachable
<1>1. IInv => ServingReachable
  BY DEF IInv, ListenPlaces, PathKnown, ServingReachable
<1> QED
  BY <1>1, AlwaysIInv, PTL

\* A start that runs alone is never refused: the probe tells a stale socket from
\* one in use.
THEOREM NoFalseRefusalHolds == Spec => []NoFalseRefusal
<1>1. IInv => NoFalseRefusal
  BY DEF IInv
<1> QED
  BY <1>1, AlwaysIInv, PTL

\* Every variable keeps its type, for any set of daemons and any history of the path.
THEOREM SpecTypeOK == Spec => []TypeOK
<1>1. IInv => TypeOK
  BY DEF IInv
<1> QED
  BY <1>1, AlwaysIInv, PTL
=============================================================================
