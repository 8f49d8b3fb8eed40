------------------------------ MODULE GoDaemon ------------------------------
(***************************************************************************)
(* examples/streaming-daemon-go/streaming_daemon.go: the main goroutine    *)
(* with its shutdown sequence, the accept loop with the connection         *)
(* semaphore, and one goroutine for each accepted connection, from the     *)
(* receipt of the client's descriptor to its close.  What the backends do  *)
(* is reduced to what the connection's goroutine sees of them: a first     *)
(* write, an end, an error of some kind or a panic.                        *)
(*                                                                         *)
(* The peer on the other side of the Unix socket is any process that       *)
(* connects, may send one descriptor, and closes; HandoffSystem puts the   *)
(* Apache module in its place.                                             *)
(***************************************************************************)
EXTENDS UnixSocket, Sequences

CONSTANTS MaxConnections,  \* max_connections: capacity of the semaphore
          NoRequest        \* no connection in the accept loop's hands

ASSUME GoAssumption == MaxConnections \in Nat \ {0} /\ NoRequest \notin Requests

VARIABLES
    held,         \* the daemon holds a descriptor of the client's socket
    wrote,        \* what the client has been sent, in the terms of HandoffFilter
    mainPc,       \* the main goroutine; "down": no process
    ctxDone,      \* the signal context is cancelled
    drained,      \* drainCtx is cancelled
    acceptPc,     \* the accept loop
    acur,         \* the connection the accept loop has in its hands
    sem,          \* connSemaphore: the connections that hold a slot
    activeConns,  \* the atomic counter
    gpc,          \* the goroutine of each connection; "dead": lost with the process
    answer,       \* the parts of the response sent to the client
    end,          \* why the connection's goroutine stopped answering
    gone          \* the client has closed its side

mainVars == <<mainPc, ctxDone, drained>>
acceptVars == <<acceptPc, acur>>
slotVars == <<sem, activeConns>>
connVars == <<gpc, answer, end, gone>>
clientVars == <<held, wrote>>
goVars == <<mainVars, acceptVars, slotVars, connVars>>
vars == <<kernelVars, clientVars, goVars>>

\* The kinds of error a backend's Stream returns.  "reset": ECONNRESET or EPIPE
\* on the connection to the upstream; "clientgone": the same on the client's.
StreamErrors == {"upstream", "reset", "timeout", "canceled", "clientgone"}

Ends == {"none", "ok", "empty", "rejected", "badrequest", "panic", "dropped",
         "discarded", "nodup", "killed"} \cup StreamErrors

Places == {"none", "start", "reject", "rejecting", "recv", "setup", "stream",
           "body", "closing", "unwind", "dec", "done", "dead"}

TypeOK ==
    /\ KernelTypeOK
    /\ held \in [Requests -> BOOLEAN]
    /\ wrote \in [Requests -> SUBSET {"daemon"}]
    /\ mainPc \in {"down", "serving", "awaitAccept", "waiting", "grace", "cleanup"}
    /\ ctxDone \in BOOLEAN
    /\ drained \in BOOLEAN
    /\ acceptPc \in {"accept", "errsleep", "check", "sem", "pause", "exited"}
    /\ acur \in Requests \cup {NoRequest}
    /\ sem \in SUBSET Requests
    /\ activeConns \in Nat
    /\ gpc \in [Requests -> Places]
    /\ answer \in [Requests -> Seq({"headers", "status", "event", "done"})]
    /\ end \in [Requests -> Ends]
    /\ gone \in [Requests -> BOOLEAN]

GoInit ==
    /\ mainPc = "down"
    /\ ctxDone = FALSE
    /\ drained = FALSE
    /\ acceptPc = "exited"
    /\ acur = NoRequest
    /\ sem = {}
    /\ activeConns = 0
    /\ gpc = [r \in Requests |-> "none"]
    /\ answer = [r \in Requests |-> <<>>]
    /\ end = [r \in Requests |-> "none"]
    /\ gone = [r \in Requests |-> FALSE]

Init ==
    /\ KernelInit
    /\ held = [r \in Requests |-> FALSE]
    /\ wrote = [r \in Requests |-> {}]
    /\ GoInit

-----------------------------------------------------------------------------
(* The main goroutine.                                                     *)

\* The goroutines that connWg counts.
Running == {r \in Requests : gpc[r] \notin {"none", "done", "dead"}}

\* main() up to the accept loop: a stale socket is removed, the path is bound.
Start ==
    /\ mainPc = "down"
    /\ listener # "listening"
    /\ listener' = "listening"
    /\ mainPc' = "serving"
    /\ ctxDone' = FALSE
    /\ drained' = FALSE
    /\ acceptPc' = "accept"
    /\ acur' = NoRequest
    /\ sem' = {}
    /\ activeConns' = 0
    /\ UNCHANGED <<chan, qmsg, apEnd, clientVars, connVars>>

\* SIGTERM or SIGINT cancels the signal context.
Signal ==
    /\ mainPc = "serving"
    /\ ~ctxDone
    /\ ctxDone' = TRUE
    /\ UNCHANGED <<kernelVars, clientVars, mainPc, drained, acceptVars, slotVars,
                   connVars>>

\* main() closes the listener, which unlinks its path; connections that the
\* accept loop has not taken yet are discarded by the kernel.
CloseListener ==
    /\ mainPc = "serving"
    /\ ctxDone
    /\ StopListening("absent", FALSE)
    /\ end' = [r \in Requests |-> IF chan[r] = "queued" THEN "discarded" ELSE end[r]]
    /\ mainPc' = "awaitAccept"
    /\ UNCHANGED <<clientVars, ctxDone, drained, acceptVars, slotVars, gpc, answer,
                   gone>>

\* <-acceptDone
AwaitAccept ==
    /\ mainPc = "awaitAccept"
    /\ acceptPc = "exited"
    /\ mainPc' = "waiting"
    /\ UNCHANGED <<kernelVars, clientVars, ctxDone, drained, acceptVars, slotVars,
                   connVars>>

\* Faulty variant: the drain waits for the slots, not for every goroutine.
DrainDoneSlotsOnly ==
    /\ mainPc \in {"waiting", "grace"}
    /\ sem = {}
    /\ mainPc' = "cleanup"
    /\ UNCHANGED <<kernelVars, clientVars, ctxDone, drained, acceptVars, slotVars,
                   connVars>>

\* connWg.Wait() returns: every goroutine has finished.
DrainDone ==
    /\ mainPc \in {"waiting", "grace"}
    /\ Running = {}
    /\ mainPc' = "cleanup"
    /\ UNCHANGED <<kernelVars, clientVars, ctxDone, drained, acceptVars, slotVars,
                   connVars>>

\* Faulty variant: the streams that are left are cancelled and waited for
\* without a limit.
DrainExpiredForever ==
    /\ mainPc = "waiting"
    /\ drained' = TRUE
    /\ mainPc' = "grace"
    /\ UNCHANGED <<kernelVars, clientVars, ctxDone, acceptVars, slotVars, connVars>>

\* ShutdownTimeout: the remaining streams are cancelled; DrainCancelGrace: the
\* ones that did not react are left to their fate.
DrainExpired ==
    /\ \/ mainPc = "waiting" /\ drained' = TRUE /\ mainPc' = "grace"
       \/ mainPc = "grace" /\ mainPc' = "cleanup" /\ UNCHANGED drained
    /\ UNCHANGED <<kernelVars, clientVars, ctxDone, acceptVars, slotVars, connVars>>

\* The process ends: the kernel closes all its descriptors.
ProcessEnds(path) ==
    /\ StopListening(path, TRUE)
    /\ held' = [r \in Requests |-> FALSE]
    /\ mainPc' = "down"
    /\ acceptPc' = "exited"
    /\ acur' = NoRequest
    /\ gpc' = [r \in Requests |-> IF r \in Running THEN "dead" ELSE gpc[r]]
    /\ end' = [r \in Requests |->
                 IF end[r] = "none" /\ (r \in Running \/ chan[r] \in {"queued", "accepted"})
                   THEN "killed" ELSE end[r]]
    /\ UNCHANGED <<wrote, ctxDone, drained, slotVars, answer, gone>>

\* main() removes the socket path and returns.
Exit ==
    /\ mainPc = "cleanup"
    /\ ProcessEnds("absent")

\* A crash, a SIGKILL, or a second SIGTERM after stop().
Kill ==
    /\ mainPc # "down"
    /\ ProcessEnds(IF listener = "listening" THEN "refusing" ELSE listener)

-----------------------------------------------------------------------------
(* The accept loop.                                                        *)

\* listener.Accept() returns a connection.
AcceptConn ==
    /\ acceptPc = "accept"
    /\ listener = "listening"
    /\ \E r \in Requests : Accept(r) /\ acur' = r
    /\ acceptPc' = "check"
    /\ UNCHANGED <<clientVars, mainVars, slotVars, connVars>>

\* listener.Accept() fails (EMFILE, or the listener is closed): the loop ends
\* if the context is cancelled and sleeps otherwise.
AcceptFail ==
    /\ acceptPc = "accept"
    /\ mainPc # "down"
    /\ acceptPc' = IF ctxDone THEN "exited" ELSE "errsleep"
    /\ UNCHANGED <<kernelVars, clientVars, mainVars, acur, slotVars, connVars>>

AcceptRetry ==
    /\ acceptPc = "errsleep"
    /\ acceptPc' = "accept"
    /\ UNCHANGED <<kernelVars, clientVars, mainVars, acur, slotVars, connVars>>

\* The first look at the context: during a shutdown the connection is rejected
\* and the loop ends.
CheckContext ==
    /\ acceptPc = "check"
    /\ \/ /\ ctxDone
          /\ gpc' = [gpc EXCEPT ![acur] = "reject"]
          /\ acceptPc' = "exited"
          /\ acur' = NoRequest
       \/ /\ ~ctxDone
          /\ acceptPc' = "sem"
          /\ UNCHANGED <<gpc, acur>>
    /\ UNCHANGED <<kernelVars, clientVars, mainVars, slotVars, answer, end, gone>>

\* A slot is free: take it, count the connection, start its goroutine.
TakeSlot ==
    /\ acceptPc = "sem"
    /\ Cardinality(sem) < MaxConnections
    /\ sem' = sem \cup {acur}
    /\ activeConns' = activeConns + 1
    /\ gpc' = [gpc EXCEPT ![acur] = "start"]
    /\ acceptPc' = "accept"
    /\ acur' = NoRequest
    /\ UNCHANGED <<kernelVars, clientVars, mainVars, answer, end, gone>>

\* No slot: reject the connection in a goroutine of its own, and pause.
OverLimit ==
    /\ acceptPc = "sem"
    /\ Cardinality(sem) >= MaxConnections
    /\ gpc' = [gpc EXCEPT ![acur] = "reject"]
    /\ acceptPc' = "pause"
    /\ acur' = NoRequest
    /\ UNCHANGED <<kernelVars, clientVars, mainVars, slotVars, answer, end, gone>>

\* The pause ends after 10 ms, or with the context.
PauseEnds ==
    /\ acceptPc = "pause"
    /\ \/ acceptPc' = "accept"
       \/ ctxDone /\ acceptPc' = "exited"
    /\ UNCHANGED <<kernelVars, clientVars, mainVars, acur, slotVars, connVars>>

-----------------------------------------------------------------------------
(* The goroutine of a connection.                                          *)

\* Send the client a part of a response.
Say(r, part) ==
    /\ answer' = [answer EXCEPT ![r] = Append(@, part)]
    /\ wrote' = [wrote EXCEPT ![r] = @ \cup {"daemon"}]

\* The goroutine goes on to place p.
Move(r, p) == gpc' = [gpc EXCEPT ![r] = p]

\* Record why the response ends here.
Because(r, why) == end' = [end EXCEPT ![r] = why]

\* The second look at the context, inside the goroutine.
Enter(r) ==
    /\ gpc[r] = "start"
    /\ Move(r, IF ctxDone THEN "reject" ELSE "recv")
    /\ UNCHANGED <<kernelVars, clientVars, mainVars, acceptVars, slotVars, answer,
                   end, gone>>

\* Faulty variant: the message is only looked at, and stays in the queue.
ReceivePeek(r) ==
    /\ gpc[r] \in {"reject", "recv"}
    /\ chan[r] = "accepted"
    /\ qmsg[r]
    /\ held' = [held EXCEPT ![r] = TRUE]
    /\ Move(r, IF gpc[r] = "reject" THEN "rejecting" ELSE "setup")
    /\ UNCHANGED <<kernelVars, wrote, mainVars, acceptVars, slotVars, answer, end,
                   gone>>

\* receiveFd succeeds, in rejectHandoff or in handleConnection.
Receive(r) ==
    /\ gpc[r] \in {"reject", "recv"}
    /\ RecvMsg(r)
    /\ held' = [held EXCEPT ![r] = TRUE]
    /\ Move(r, IF gpc[r] = "reject" THEN "rejecting" ELSE "setup")
    /\ UNCHANGED <<wrote, mainVars, acceptVars, slotVars, answer, end, gone>>

\* receiveFd fails: HandoffTimeout, EOF, truncated data, no descriptor.
ReceiveFail(r) ==
    /\ gpc[r] \in {"reject", "recv"}
    /\ CloseDaemonEnd(r)
    /\ Because(r, "dropped")
    /\ Move(r, "unwind")
    /\ UNCHANGED <<clientVars, mainVars, acceptVars, slotVars, answer, gone>>

\* The descriptor cannot be wrapped (dup fails), or is no stream socket.
WrapFail(r) ==
    /\ gpc[r] \in {"rejecting", "setup"}
    /\ Because(r, "nodup")
    /\ Move(r, "closing")
    /\ UNCHANGED <<kernelVars, clientVars, mainVars, acceptVars, slotVars, answer, gone>>

\* Faulty variant: the rejected client is closed without an answer.
RejectSilent(r) ==
    /\ gpc[r] = "rejecting"
    /\ Because(r, "rejected")
    /\ Move(r, "closing")
    /\ UNCHANGED <<kernelVars, clientVars, mainVars, acceptVars, slotVars, answer, gone>>

\* rejectHandoff answers with a 503.
Reject(r) ==
    /\ gpc[r] = "rejecting"
    /\ Say(r, "status")
    /\ Because(r, "rejected")
    /\ Move(r, "closing")
    /\ UNCHANGED <<kernelVars, held, mainVars, acceptVars, slotVars, gone>>

\* The handoff data is parsed and its files are resolved, or a 400 is sent.
Prepare(r) ==
    /\ gpc[r] = "setup"
    /\ \/ /\ Say(r, "status")
          /\ Because(r, "badrequest")
          /\ Move(r, "closing")
       \/ /\ Move(r, "stream")
          /\ UNCHANGED <<answer, wrote, end>>
    /\ UNCHANGED <<kernelVars, held, mainVars, acceptVars, slotVars, gone>>

\* lazyHeaderConn.Write: the headers go out with the backend's first chunk.
FirstWrite(r) ==
    /\ gpc[r] = "stream"
    /\ Say(r, "headers")
    /\ Move(r, "body")
    /\ UNCHANGED <<kernelVars, held, mainVars, acceptVars, slotVars, end, gone>>

\* The backend's Stream returns without an error: after its [DONE] event, or
\* without one (langgraph passes on what the upstream sends).
StreamEnd(r) ==
    /\ gpc[r] = "body"
    /\ Say(r, "done") \/ UNCHANGED <<answer, wrote>>
    /\ Because(r, "ok")
    /\ Move(r, "closing")
    /\ UNCHANGED <<kernelVars, held, mainVars, acceptVars, slotVars, gone>>

\* It can also return without an error and without a write: proxySSE does when
\* the upstream's 200 has an empty body.  Nothing is sent then, no headers either.
StreamEndsEmpty(r) ==
    /\ gpc[r] = "stream"
    /\ Because(r, "empty")
    /\ Move(r, "closing")
    /\ UNCHANGED <<kernelVars, clientVars, mainVars, acceptVars, slotVars, answer, gone>>

\* classifyError: connection resets are taken for the client's.
ClientDisconnected(err) == err \in {"reset", "clientgone"}

\* The backend's Stream may return err now: "canceled" after the drain's expiry or the
\* client's leaving, "clientgone" when a write found the client gone.
MayFail(r, err) ==
    /\ gpc[r] \in {"stream", "body"}
    /\ err = "canceled" => drained \/ gone[r]
    /\ err = "clientgone" => gone[r] /\ gpc[r] = "body"

\* Faulty variant: a stream that fails after the headers is just closed.
StreamFailQuiet(r, err) ==
    /\ MayFail(r, err)
    /\ IF ClientDisconnected(err) \/ gpc[r] = "body"
         THEN UNCHANGED <<answer, wrote>>
         ELSE Say(r, "status")
    /\ Because(r, err)
    /\ Move(r, "closing")
    /\ UNCHANGED <<kernelVars, held, mainVars, acceptVars, slotVars, gone>>

\* The backend's Stream returns an error: the client is told with a status if
\* nothing has been sent yet and with an event otherwise, unless it is gone.
StreamFail(r, err) ==
    /\ MayFail(r, err)
    /\ IF ClientDisconnected(err)
         THEN UNCHANGED <<answer, wrote>>
         ELSE Say(r, IF gpc[r] = "stream" THEN "status" ELSE "event")
    /\ Because(r, err)
    /\ Move(r, "closing")
    /\ UNCHANGED <<kernelVars, held, mainVars, acceptVars, slotVars, gone>>

\* Faulty variant: the recovery does not look at headersSent.
PanicAlwaysStatus(r) ==
    /\ gpc[r] \in {"setup", "stream", "body"}
    /\ Say(r, "status")
    /\ Because(r, "panic")
    /\ Move(r, "closing")
    /\ UNCHANGED <<kernelVars, held, mainVars, acceptVars, slotVars, gone>>

\* A panic, recovered in handleConnection: a 500 or, after the headers, an event.
Panic(r) ==
    /\ gpc[r] \in {"setup", "stream", "body"}
    /\ Say(r, IF gpc[r] = "body" THEN "event" ELSE "status")
    /\ Because(r, "panic")
    /\ Move(r, "closing")
    /\ UNCHANGED <<kernelVars, held, mainVars, acceptVars, slotVars, gone>>

\* clientConn.Close()
CloseClient(r) ==
    /\ gpc[r] = "closing"
    /\ held' = [held EXCEPT ![r] = FALSE]
    /\ Move(r, "unwind")
    /\ UNCHANGED <<kernelVars, wrote, mainVars, acceptVars, slotVars, answer, end, gone>>

\* Faulty variant: only the counter is given back.
UnwindKeepsSlot(r) ==
    /\ gpc[r] = "unwind"
    /\ Move(r, IF r \in sem THEN "dec" ELSE "done")
    /\ UNCHANGED <<kernelVars, clientVars, mainVars, acceptVars, slotVars,
                   answer, end, gone>>

\* The deferred <-connSemaphore of a goroutine that has a slot; rejected
\* connections may have none.
Unwind(r) ==
    /\ gpc[r] = "unwind"
    /\ sem' = sem \ {r}
    /\ Move(r, IF r \in sem THEN "dec" ELSE "done")
    /\ UNCHANGED <<kernelVars, clientVars, mainVars, acceptVars, activeConns,
                   answer, end, gone>>

\* Then the counter; the goroutine ends.
Uncount(r) ==
    /\ gpc[r] = "dec"
    /\ activeConns' = activeConns - 1
    /\ Move(r, "done")
    /\ UNCHANGED <<kernelVars, clientVars, mainVars, acceptVars, sem, answer, end, gone>>

\* The client closes its side of the connection.
ClientLeaves(r) ==
    /\ ~gone[r]
    /\ held[r]
    /\ gone' = [gone EXCEPT ![r] = TRUE]
    /\ UNCHANGED <<kernelVars, clientVars, mainVars, acceptVars, slotVars, gpc,
                   answer, end>>

-----------------------------------------------------------------------------

\* The steps main() and the accept loop take by themselves.
MainStep == CloseListener \/ AwaitAccept \/ DrainDone \/ DrainExpired \/ Exit

AcceptStep ==
    \/ AcceptConn
    \/ AcceptFail
    \/ AcceptRetry
    \/ CheckContext
    \/ TakeSlot
    \/ OverLimit
    \/ PauseEnds

ConnStep(r) ==
    \/ Enter(r)
    \/ Receive(r)
    \/ ReceiveFail(r)
    \/ WrapFail(r)
    \/ Reject(r)
    \/ Prepare(r)
    \/ FirstWrite(r)
    \/ StreamEnd(r)
    \/ StreamEndsEmpty(r)
    \/ \E err \in StreamErrors : StreamFail(r, err)
    \/ Panic(r)
    \/ CloseClient(r)
    \/ Unwind(r)
    \/ Uncount(r)

GoStep ==
    \/ Start
    \/ Signal
    \/ Kill
    \/ MainStep
    \/ AcceptStep
    \/ \E r \in Requests : ConnStep(r) \/ ClientLeaves(r)

\* The peer: connects, may send the descriptor, closes.
PeerConnect(r) ==
    /\ chan[r] = "none"
    /\ Connect(r)
    /\ UNCHANGED <<clientVars, goVars>>

PeerSend(r) ==
    /\ apEnd[r]
    /\ ~qmsg[r]
    /\ SendMsg(r)
    /\ UNCHANGED <<clientVars, goVars>>

\* The peer gives up.  A close after the message changes nothing for the daemon,
\* which can still receive what was sent, and is left out.
PeerClose(r) ==
    /\ apEnd[r]
    /\ ~qmsg[r]
    /\ chan[r] \in {"queued", "accepted"}
    /\ CloseApacheEnd(r)
    /\ UNCHANGED <<clientVars, goVars>>

PeerStep(r) == PeerConnect(r) \/ PeerSend(r) \/ PeerClose(r)

Next == GoStep \/ \E r \in Requests : PeerStep(r)

Spec == Init /\ [][Next]_vars

\* main() and the accept loop are scheduled; time.After fires.  Nothing is
\* assumed of the connections' goroutines, which may wait for ever.
FairSpec == Spec /\ WF_vars(MainStep) /\ WF_vars(AcceptStep)

-----------------------------------------------------------------------------
(* Properties.                                                             *)

\* The client gets one well-formed response: at most one status line, always
\* first, and at most one closing event, always last, whatever combination of
\* first writes, upstream errors, cancellations and panics ends the stream.
OneResponse ==
    \A r \in Requests :
        answer[r] \in {<<>>, <<"status">>, <<"headers">>, <<"headers", "done">>,
                       <<"headers", "event">>}

\* A stream runs only in a slot of the semaphore, so there are never more than
\* max_connections of them, rejections and late releases included.
StreamsHaveSlots ==
    /\ \A r \in Requests : gpc[r] \in {"recv", "setup", "stream", "body"} => r \in sem
    /\ Cardinality(sem) <= MaxConnections

\* Slots and counter are given back on every path: a running daemon's slots
\* belong to goroutines that have yet to release them, and activeConns counts
\* these and the ones between the release and the decrement.
SlotsReturned ==
    mainPc # "down" =>
        /\ sem \subseteq Running \ {r \in Requests : gpc[r] = "dec"}
        /\ activeConns = Cardinality(sem \cup {r \in Requests : gpc[r] = "dec"})

\* What a client has been sent when its goroutine is done with it, by the way the
\* goroutine ended: a rejection or a bad request has its status, and a stream that
\* fails or panics is never taken for one that ended well.  Nothing at all is sent only
\* where there is nothing to send on, and in the two cases in which the code does not
\* keep what it says of lazyHeaderConn ("instead of an empty 200 that just closes") and
\* of streamToClientWithBytes: an upstream's reset, which classifyError takes for the
\* client's, and an upstream that ends well without a byte.
FateOf(why) ==
    CASE why \in {"rejected", "badrequest"} -> {<<"status">>}
      [] why \in {"panic", "upstream", "timeout", "canceled"} ->
             {<<"status">>, <<"headers", "event">>}
      [] why = "ok" -> {<<"headers">>, <<"headers", "done">>}
      [] why = "clientgone" -> {<<"headers">>}
      [] why = "reset" -> {<<>>, <<"headers">>}
      [] why \in {"dropped", "nodup", "empty"} -> {<<>>}
      [] OTHER -> {}

\* Every client whose descriptor the daemon received is sent what FateOf says before
\* the daemon lets go of it, in a shutdown and over the limit too.
ReceivedIsAnswered ==
    \A r \in Requests :
        chan[r] = "gone" /\ gpc[r] \in {"unwind", "dec", "done"}
          => answer[r] \in FateOf(end[r])

\* A shutdown that did not run into ShutdownTimeout leaves nobody behind: when
\* main() goes on to exit, every connection taken off the backlog is finished.
GracefulExit ==
    mainPc = "cleanup" /\ ~drained =>
        \A r \in Requests : ~held[r] /\ chan[r] # "accepted"

\* connWg.Go is never called once main() may be in connWg.Wait (the comment on
\* acceptDone): no goroutine starts after the accept loop was waited for.
NoLateStart ==
    [][\A r \in Requests :
         mainPc \in {"waiting", "grace", "cleanup"} /\ gpc[r] = "none"
           => gpc'[r] = "none"]_vars

\* A SIGTERM ends the process, whatever the streams and the peers do.
ShutdownEnds == ctxDone /\ mainPc # "down" ~> mainPc = "down"
=============================================================================
