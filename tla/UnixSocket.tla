----------------------------- MODULE UnixSocket -----------------------------
(***************************************************************************)
(* The kernel's side of the handoff, as the module and the daemons use it: *)
(* one AF_UNIX SOCK_SEQPACKET listener on the daemon's path, and for each  *)
(* request at most one connection to it, which carries one message with    *)
(* the client's descriptor attached (SCM_RIGHTS).  A request makes at most *)
(* one successful connection, so connections are named by their request.   *)
(***************************************************************************)
EXTENDS FiniteSets, Naturals

CONSTANTS Requests,  \* the requests, one client connection each
          Backlog    \* connections the kernel queues before accept()

VARIABLES
    listener,  \* "absent": no socket file; "refusing": a file, no listener
    chan,      \* the daemon's end of the connection of each request
    qmsg,      \* TRUE: the message with the client's fd waits to be received
    apEnd      \* TRUE: Apache's end of the connection is open

kernelVars == <<listener, chan, qmsg, apEnd>>

KernelTypeOK ==
    /\ listener \in {"absent", "refusing", "listening"}
    /\ chan \in [Requests -> {"none", "queued", "accepted", "gone"}]
    /\ qmsg \in [Requests -> BOOLEAN]
    /\ apEnd \in [Requests -> BOOLEAN]

KernelInit ==
    /\ listener = "absent"
    /\ chan = [r \in Requests |-> "none"]
    /\ qmsg = [r \in Requests |-> FALSE]
    /\ apEnd = [r \in Requests |-> FALSE]

\* Connections that wait in the listener's backlog.
Pending == {r \in Requests : chan[r] = "queued"}

BacklogFull == Cardinality(Pending) >= Backlog

\* connect() to a listening socket with room in its backlog.
Connect(r) ==
    /\ listener = "listening"
    /\ ~BacklogFull
    /\ chan' = [chan EXCEPT ![r] = "queued"]
    /\ apEnd' = [apEnd EXCEPT ![r] = TRUE]
    /\ UNCHANGED <<listener, qmsg>>

\* sendmsg(): the message and the descriptor are queued together, or not at
\* all; it fails once the daemon's end is gone.
SendMsg(r) ==
    /\ chan[r] \in {"queued", "accepted"}
    /\ qmsg' = [qmsg EXCEPT ![r] = TRUE]
    /\ UNCHANGED <<listener, chan, apEnd>>

\* close() of Apache's end; what was sent can still be received.
CloseApacheEnd(r) ==
    /\ apEnd' = [apEnd EXCEPT ![r] = FALSE]
    /\ UNCHANGED <<listener, chan, qmsg>>

\* accept() by the daemon.
Accept(r) ==
    /\ chan[r] = "queued"
    /\ chan' = [chan EXCEPT ![r] = "accepted"]
    /\ UNCHANGED <<listener, qmsg, apEnd>>

\* recvmsg() by the daemon, which then closes its end of the connection.
RecvMsg(r) ==
    /\ chan[r] = "accepted"
    /\ qmsg[r]
    /\ qmsg' = [qmsg EXCEPT ![r] = FALSE]
    /\ chan' = [chan EXCEPT ![r] = "gone"]
    /\ UNCHANGED <<listener, apEnd>>

\* close() by the daemon of an accepted connection it has not received from:
\* the kernel discards a queued message and the descriptor in it.
CloseDaemonEnd(r) ==
    /\ chan[r] = "accepted"
    /\ chan' = [chan EXCEPT ![r] = "gone"]
    /\ qmsg' = [qmsg EXCEPT ![r] = FALSE]
    /\ UNCHANGED <<listener, apEnd>>

\* The listener is closed, leaving the path in state st; the kernel resets the
\* connections in its backlog and discards what was sent on them.  With whole
\* = TRUE the process dies and takes its accepted connections along.
StopListening(st, whole) ==
    LET lost == {r \in Requests : \/ chan[r] = "queued"
                                  \/ whole /\ chan[r] = "accepted"}
    IN  /\ listener' = st
        /\ chan' = [r \in Requests |-> IF r \in lost THEN "gone" ELSE chan[r]]
        /\ qmsg' = [r \in Requests |-> qmsg[r] /\ r \notin lost]
        /\ UNCHANGED apEnd
=============================================================================
