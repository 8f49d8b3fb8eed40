--------------------------- MODULE HandoffFilter ---------------------------
(***************************************************************************)
(* mod_socket_handoff.c: the Apache output filter that hands a client      *)
(* connection to a daemon.  Each request is served by an Apache worker     *)
(* thread; wpc[r] is where it is.  The worker is split into steps at the   *)
(* system calls the daemon can observe.  Time is abstract here (a deadline *)
(* may expire at any check); ConnectRetry models it.                       *)
(*                                                                         *)
(* The daemon is any program that keeps the contract in the header comment *)
(* of the module: it accepts, receives the descriptor, answers, closes; it *)
(* may also refuse, drop, restart or crash at any moment.                  *)
(***************************************************************************)
EXTENDS UnixSocket

CONSTANTS MaxRetries,   \* SocketHandoffMaxRetries
          MaxBrigades   \* bound: brigades a handler's output is made of

ASSUME FilterAssumption == MaxRetries \in Nat /\ MaxBrigades \in Nat \ {0}

VARIABLES
    wpc,       \* the worker's place
    kind,      \* what the request asks for
    filterOn,  \* the SOCKET_HANDOFF filter is in the request's chain
    left,      \* brigades the handler has still to pass down
    attempt,   \* the loop counter of connect_with_retry
    connSock,  \* the socket in the connection's core config
    aborted,   \* c->aborted
    apRef,     \* Apache holds a descriptor of the client's socket
    shut,      \* Apache has shut the client's socket down
    held,      \* the daemon holds a descriptor of the client's socket
    wrote      \* what the client has been sent

workerVars == <<wpc, kind, filterOn, left, attempt, connSock, aborted, apRef, shut>>
clientVars == <<held, wrote>>
vars == <<kernelVars, workerVars, clientVars>>

\* "plain": no X-Socket-Handoff header; "http2": one, over HTTP/2; "outside":
\* one whose path validate_socket_path refuses; "handoff": one to act on.
Kinds == {"plain", "http2", "outside", "handoff"}

TypeOK ==
    /\ KernelTypeOK
    /\ wpc \in [Requests -> {"idle", "handler", "connect", "send", "commit",
                             "error", "closed"}]
    /\ kind \in [Requests -> Kinds]
    /\ filterOn \in [Requests -> BOOLEAN]
    /\ left \in [Requests -> 0..MaxBrigades]
    /\ attempt \in [Requests -> 0..MaxRetries]
    /\ connSock \in [Requests -> {"client", "dummy"}]
    /\ aborted \in [Requests -> BOOLEAN]
    /\ apRef \in [Requests -> BOOLEAN]
    /\ shut \in [Requests -> BOOLEAN]
    /\ held \in [Requests -> BOOLEAN]
    /\ wrote \in [Requests -> SUBSET {"body", "error", "daemon"}]

Init ==
    /\ KernelInit
    /\ wpc = [r \in Requests |-> "idle"]
    /\ kind = [r \in Requests |-> "plain"]
    /\ filterOn = [r \in Requests |-> FALSE]
    /\ left = [r \in Requests |-> 0]
    /\ attempt = [r \in Requests |-> 0]
    /\ connSock = [r \in Requests |-> "client"]
    /\ aborted = [r \in Requests |-> FALSE]
    /\ apRef = [r \in Requests |-> TRUE]
    /\ shut = [r \in Requests |-> FALSE]
    /\ held = [r \in Requests |-> FALSE]
    /\ wrote = [r \in Requests |-> {}]

-----------------------------------------------------------------------------
(* The worker.                                                             *)

Goto(r, place) == wpc' = [wpc EXCEPT ![r] = place]

\* ap_pass_brigade(f->next, bb): the filters below and the core output filter,
\* which drops everything once the connection is marked aborted.
PassBrigade(r, what) ==
    wrote' = [wrote EXCEPT ![r] = IF aborted[r] THEN @ ELSE @ \cup {what}]

\* socket_handoff_insert_filter: the filter is added if the server has it
\* enabled; then the handler runs.
InsertFilter(r) ==
    /\ wpc[r] = "idle"
    /\ \E k \in Kinds : kind' = [kind EXCEPT ![r] = k]
    /\ \E enabled \in BOOLEAN : filterOn' = [filterOn EXCEPT ![r] = enabled]
    /\ \E n \in 1..MaxBrigades : left' = [left EXCEPT ![r] = n]
    /\ Goto(r, "handler")
    /\ UNCHANGED <<kernelVars, attempt, connSock, aborted, apRef, shut, clientVars>>

\* The handler passes a brigade down a chain without the filter.
HandlerOutput(r) ==
    /\ wpc[r] = "handler"
    /\ left[r] > 0
    /\ ~filterOn[r]
    /\ left' = [left EXCEPT ![r] = @ - 1]
    /\ PassBrigade(r, "body")
    /\ UNCHANGED <<kernelVars, wpc, kind, filterOn, attempt, connSock, aborted,
                   apRef, shut, held>>

\* socket_handoff_output_filter with no handoff header: remove the filter and
\* pass the brigade on.
FilterPassThrough(r) ==
    /\ wpc[r] = "handler"
    /\ left[r] > 0
    /\ filterOn[r]
    /\ kind[r] = "plain"
    /\ left' = [left EXCEPT ![r] = @ - 1]
    /\ filterOn' = [filterOn EXCEPT ![r] = FALSE]
    /\ PassBrigade(r, "body")
    /\ UNCHANGED <<kernelVars, wpc, kind, attempt, connSock, aborted, apRef,
                   shut, held>>

\* The checks that end in an error response: HTTP/2 (500), a path outside the
\* allowed prefix (403), no dummy socket, no client socket or no client fd (500).
FilterRefuse(r) ==
    /\ wpc[r] = "handler"
    /\ left[r] > 0
    /\ filterOn[r]
    /\ kind[r] # "plain"
    /\ left' = [left EXCEPT ![r] = @ - 1]
    /\ Goto(r, "error")
    /\ UNCHANGED <<kernelVars, kind, filterOn, attempt, connSock, aborted,
                   apRef, shut, clientVars>>

\* The checks pass: a dummy socket is created, the response body discarded, the
\* client's fd looked up, the deadline computed.
FilterStart(r) ==
    /\ wpc[r] = "handler"
    /\ left[r] > 0
    /\ filterOn[r]
    /\ kind[r] = "handoff"
    /\ left' = [left EXCEPT ![r] = @ - 1]
    /\ attempt' = [attempt EXCEPT ![r] = 0]
    /\ Goto(r, "connect")
    /\ UNCHANGED <<kernelVars, kind, filterOn, connSock, aborted, apRef, shut,
                   clientVars>>

\* connect_with_retry: an attempt succeeds.
ConnectOk(r) ==
    /\ wpc[r] = "connect"
    /\ Connect(r)
    /\ Goto(r, "send")
    /\ UNCHANGED <<kind, filterOn, left, attempt, connSock, aborted, apRef, shut,
                   clientVars>>

\* connect_with_retry: ENOENT or ECONNREFUSED, and retries are left.
ConnectAgain(r) ==
    /\ wpc[r] = "connect"
    /\ listener \in {"absent", "refusing"}
    /\ attempt[r] < MaxRetries
    /\ attempt' = [attempt EXCEPT ![r] = @ + 1]
    /\ UNCHANGED <<kernelVars, wpc, kind, filterOn, left, connSock, aborted,
                   apRef, shut, clientVars>>

\* Faulty variant: a connect() without a timeout, that waits for room in the
\* backlog.
ConnectFailNoTimeout(r) ==
    /\ wpc[r] = "connect"
    /\ listener # "listening"
    /\ Goto(r, "error")
    /\ UNCHANGED <<kernelVars, kind, filterOn, left, attempt, connSock, aborted,
                   apRef, shut, clientVars>>

\* connect_with_retry gives up: the final attempt failed, an error that is not
\* transient (EAGAIN of a full backlog, EACCES, EMFILE ...), a timeout, or the
\* deadline.  Each failed attempt has closed its own socket.  (503)
ConnectFail(r) ==
    /\ wpc[r] = "connect"
    /\ Goto(r, "error")
    /\ UNCHANGED <<kernelVars, kind, filterOn, left, attempt, connSock, aborted,
                   apRef, shut, clientVars>>

\* send_fd_with_data succeeds: from here the daemon can have the descriptor.
SendOk(r) ==
    /\ wpc[r] = "send"
    /\ SendMsg(r)
    /\ Goto(r, "commit")
    /\ UNCHANGED <<kind, filterOn, left, attempt, connSock, aborted, apRef, shut,
                   clientVars>>

\* send_fd_with_data fails before sendmsg() queued anything: the daemon's end
\* is gone, the wait timed out, or the deadline has passed.  (500)
SendFail(r) ==
    /\ wpc[r] = "send"
    /\ Goto(r, "error")
    /\ UNCHANGED <<kernelVars, kind, filterOn, left, attempt, connSock, aborted,
                   apRef, shut, clientVars>>

\* Faulty variant: the dummy socket is swapped in, the connection is not
\* marked aborted.
CommitNotAborted(r) ==
    /\ wpc[r] = "commit"
    /\ CloseApacheEnd(r)
    /\ connSock' = [connSock EXCEPT ![r] = "dummy"]
    /\ filterOn' = [filterOn EXCEPT ![r] = FALSE]
    /\ Goto(r, "handler")
    /\ UNCHANGED <<kind, left, attempt, aborted, apRef, shut, clientVars>>

\* Faulty variant: the send is treated like any other response.
CommitNothing(r) ==
    /\ wpc[r] = "commit"
    /\ CloseApacheEnd(r)
    /\ filterOn' = [filterOn EXCEPT ![r] = FALSE]
    /\ Goto(r, "handler")
    /\ UNCHANGED <<kind, left, attempt, connSock, aborted, apRef, shut, clientVars>>

\* After the send: close the daemon connection, put the dummy socket in the
\* connection's core config, mark the connection aborted, remove the filter.
Commit(r) ==
    /\ wpc[r] = "commit"
    /\ CloseApacheEnd(r)
    /\ connSock' = [connSock EXCEPT ![r] = "dummy"]
    /\ aborted' = [aborted EXCEPT ![r] = TRUE]
    /\ filterOn' = [filterOn EXCEPT ![r] = FALSE]
    /\ Goto(r, "handler")
    /\ UNCHANGED <<kind, left, attempt, apRef, shut, clientVars>>

\* Faulty variant: the error path forgets the connection to the daemon.
ErrorResponseLeak(r) ==
    /\ wpc[r] = "error"
    /\ filterOn' = [filterOn EXCEPT ![r] = FALSE]
    /\ PassBrigade(r, "error")
    /\ Goto(r, "handler")
    /\ UNCHANGED <<kernelVars, kind, left, attempt, connSock, aborted, apRef,
                   shut, held>>

\* Faulty variant: the error path only discards the brigade.
ErrorResponseSilent(r) ==
    /\ wpc[r] = "error"
    /\ CloseApacheEnd(r)
    /\ filterOn' = [filterOn EXCEPT ![r] = FALSE]
    /\ Goto(r, "handler")
    /\ UNCHANGED <<kind, left, attempt, connSock, aborted, apRef, shut, clientVars>>

\* The cleanup label with an error status: close the daemon connection if it is
\* open, remove the filter, discard the brigade, send the error page.
ErrorResponse(r) ==
    /\ wpc[r] = "error"
    /\ CloseApacheEnd(r)
    /\ filterOn' = [filterOn EXCEPT ![r] = FALSE]
    /\ PassBrigade(r, "error")
    /\ Goto(r, "handler")
    /\ UNCHANGED <<kind, left, attempt, connSock, aborted, apRef, shut, held>>

\* Apache ends the connection: a lingering close shuts down the socket in the
\* core config, unless the connection is aborted; the connection pool closes
\* every descriptor it holds.
Teardown(r) ==
    /\ wpc[r] = "handler"
    /\ left[r] = 0
    /\ shut' = [shut EXCEPT ![r] = ~aborted[r] /\ connSock[r] = "client"]
    /\ apRef' = [apRef EXCEPT ![r] = FALSE]
    /\ Goto(r, "closed")
    /\ UNCHANGED <<kernelVars, kind, filterOn, left, attempt, connSock, aborted,
                   clientVars>>

WorkerStep(r) ==
    \/ InsertFilter(r)
    \/ HandlerOutput(r)
    \/ FilterPassThrough(r)
    \/ FilterRefuse(r)
    \/ FilterStart(r)
    \/ ConnectOk(r)
    \/ ConnectAgain(r)
    \/ ConnectFail(r)
    \/ SendOk(r)
    \/ SendFail(r)
    \/ Commit(r)
    \/ ErrorResponse(r)
    \/ Teardown(r)

-----------------------------------------------------------------------------
(* The daemon, as far as its contract goes.                                *)

\* The daemon binds its path and listens.
DaemonListen ==
    /\ listener # "listening"
    /\ listener' = "listening"
    /\ UNCHANGED <<chan, qmsg, apEnd, workerVars, clientVars>>

\* The daemon stops listening; its path is removed or left behind.
DaemonStopListening ==
    /\ listener = "listening"
    /\ \E st \in {"absent", "refusing"} : StopListening(st, FALSE)
    /\ UNCHANGED <<workerVars, clientVars>>

\* The path is removed or replaced by a dead socket while nobody listens.
DaemonPathChange ==
    /\ listener # "listening"
    /\ listener' \in {"absent", "refusing"} \ {listener}
    /\ UNCHANGED <<chan, qmsg, apEnd, workerVars, clientVars>>

\* The daemon process ends; every descriptor it has is closed.
DaemonExit ==
    /\ \E st \in {"absent", "refusing"} : StopListening(st, TRUE)
    /\ held' = [r \in Requests |-> FALSE]
    /\ UNCHANGED <<workerVars, wrote>>

DaemonAccept(r) ==
    /\ Accept(r)
    /\ UNCHANGED <<workerVars, clientVars>>

\* The daemon receives the client's descriptor.
DaemonReceive(r) ==
    /\ RecvMsg(r)
    /\ held' = [held EXCEPT ![r] = TRUE]
    /\ UNCHANGED <<workerVars, wrote>>

\* The daemon gives up on an accepted connection (timeout, error, no fd).
DaemonDrop(r) ==
    /\ CloseDaemonEnd(r)
    /\ UNCHANGED <<workerVars, clientVars>>

DaemonWrite(r) ==
    /\ held[r]
    /\ wrote' = [wrote EXCEPT ![r] = @ \cup {"daemon"}]
    /\ UNCHANGED <<kernelVars, workerVars, held>>

DaemonClose(r) ==
    /\ held[r]
    /\ held' = [held EXCEPT ![r] = FALSE]
    /\ UNCHANGED <<kernelVars, workerVars, wrote>>

DaemonStep ==
    \/ DaemonListen
    \/ DaemonStopListening
    \/ DaemonPathChange
    \/ DaemonExit
    \/ \E r \in Requests : \/ DaemonAccept(r)
                           \/ DaemonReceive(r)
                           \/ DaemonDrop(r)
                           \/ DaemonWrite(r)
                           \/ DaemonClose(r)

Next == (\E r \in Requests : WorkerStep(r)) \/ DaemonStep

Spec == Init /\ [][Next]_vars

\* Workers are threads of a running Apache and every system call they make is
\* bounded by a timeout.  Nothing is assumed of the daemon.
FairSpec == Spec /\ \A r \in Requests : WF_vars(WorkerStep(r))

-----------------------------------------------------------------------------
(* Properties.                                                             *)

\* The daemon can get hold of the client: its descriptor is in the queue or in
\* the daemon's hands.
AtDaemon(r) == qmsg[r] \/ held[r]

\* Apache and the daemon never both write to one client: once the descriptor
\* is sent, the swap and the aborted flag keep Apache silent for good, and
\* before that nothing of Apache's response has gone out.
NoSplitOwnership ==
    \A r \in Requests :
        AtDaemon(r) \/ "daemon" \in wrote[r] => wrote[r] \subseteq {"daemon"}

\* Apache's close of the connection never shuts down a socket that the daemon
\* has or will receive: shutdown() acts on every descriptor of the socket.
HandedOffNotShut ==
    \A r \in Requests : AtDaemon(r) \/ "daemon" \in wrote[r] => ~shut[r]

\* When the worker is done with a request it has released its connection to
\* the daemon and the client's descriptor, whichever way the filter returned.
NoDescriptorLeak ==
    \A r \in Requests : wpc[r] = "closed" => ~apEnd[r] /\ ~apRef[r]

\* A client is never dropped in silence by Apache: a request that was not
\* handed off has been answered when its connection is closed.
AnsweredOrHandedOff ==
    \A r \in Requests :
        wpc[r] = "closed" /\ ~aborted[r] => wrote[r] \cap {"body", "error"} # {}

\* The worker is freed whatever the daemon does: it may never accept, or
\* appear and disappear for ever.
WorkerFreed ==
    \A r \in Requests : wpc[r] # "idle" ~> wpc[r] = "closed"

\* Who can answer the client, and who has, in the terms of HandoffOwnership.
OwnerOf(r) ==
    CASE qmsg[r] -> "transit"
      [] ~qmsg[r] /\ held[r] -> "daemon"
      [] ~AtDaemon(r) /\ (aborted[r] \/ wpc[r] \in {"commit", "closed"}) -> "closed"
      [] OTHER -> "apache"

VoiceOf(r) ==
    IF "daemon" \in wrote[r] THEN "daemon"
    ELSE IF wrote[r] # {} THEN "apache" ELSE "none"

Ownership ==
    INSTANCE HandoffOwnership
      WITH owner <- [r \in Requests |-> OwnerOf(r)],
           voice <- [r \in Requests |-> VoiceOf(r)]

\* The filter and any daemon together keep the promise of HandoffOwnership,
\* step by step: a client is given away at most once, before Apache has sent
\* it anything, is answered only by its owner, and never comes back.
ImplementsOwnership == Ownership!Spec

\* What the comments on the two bucket loops say: a request that asks for a
\* handoff has its response body discarded; with an error page, only the page
\* goes to the client.
BodyDiscarded ==
    \A r \in Requests : "error" \in wrote[r] => "body" \notin wrote[r]
=============================================================================
