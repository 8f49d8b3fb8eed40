-------------------------- MODULE HandoffOwnership --------------------------
(***************************************************************************)
(* What the handoff promises each client: at any moment at most one        *)
(* process may answer on its connection, and the whole response comes from *)
(* one of them.  The connection starts with Apache; it can be given away   *)
(* only before Apache has said anything; it may be lost on the way to the  *)
(* daemon or with it, and is never given back.                             *)
(***************************************************************************)
CONSTANT Requests

VARIABLES owner,  \* who can answer the client; "transit": nobody yet
          voice   \* who has answered the client so far

ownershipVars == <<owner, voice>>

Init ==
    /\ owner = [r \in Requests |-> "apache"]
    /\ voice = [r \in Requests |-> "none"]

\* Apache sends some of its response.
ApacheAnswers(r) ==
    /\ owner[r] = "apache"
    /\ voice' = [voice EXCEPT ![r] = "apache"]
    /\ UNCHANGED owner

\* Apache gives the connection away; it has said nothing.
HandOver(r) ==
    /\ owner[r] = "apache"
    /\ voice[r] = "none"
    /\ owner' = [owner EXCEPT ![r] = "transit"]
    /\ UNCHANGED voice

\* The daemon takes the connection.
Take(r) ==
    /\ owner[r] = "transit"
    /\ owner' = [owner EXCEPT ![r] = "daemon"]
    /\ UNCHANGED voice

\* The daemon sends some of its response.
DaemonAnswers(r) ==
    /\ owner[r] = "daemon"
    /\ voice' = [voice EXCEPT ![r] = "daemon"]
    /\ UNCHANGED owner

\* Some connections end: closed by their owner, or lost with it.
Release(S) ==
    /\ owner' = [r \in Requests |-> IF r \in S THEN "closed" ELSE owner[r]]
    /\ UNCHANGED voice

Next ==
    \/ \E r \in Requests : \/ ApacheAnswers(r)
                           \/ HandOver(r)
                           \/ Take(r)
                           \/ DaemonAnswers(r)
    \/ \E S \in SUBSET Requests : Release(S)

Spec == Init /\ [][Next]_ownershipVars
=============================================================================
