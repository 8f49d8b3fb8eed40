---------------------------- MODULE UringDaemon ----------------------------
(***************************************************************************)
(* The io_uring daemon (examples/streaming-daemon-uring): the event loop,  *)
(* the connection slots, the submission queue and its linked timeouts,     *)
(* direct streaming, and the thread pool with its completion ring.         *)
(* UringCurl has the curl_multi mode.                                      *)
(*                                                                         *)
(* A completion of the kernel and the handler that process_cqe calls for   *)
(* it are one action: the loop is a single thread, and a slot has one      *)
(* operation in flight.  Submission is an action of its own, as the loop   *)
(* handles any number of completions before it submits.                    *)
(***************************************************************************)
EXTENDS Integers, Sequences, FiniteSets

CONSTANTS NumClients,   \* bound: connections that Apache makes
          MaxConnections,   \* max_connections
          Workers,      \* threads of the pool
          Messages,     \* messages of a response, without headers and [DONE]
          SQSize,       \* entries of the submission queue
          None          \* not a client, not a slot

Clients == 1..NumClients
Slots == 0..(MaxConnections - 1)      \* the ids of ctx->connections

ASSUME ConstantsAssumption ==
    /\ NumClients \in Nat /\ MaxConnections \in Nat \ {0}
    /\ Messages \in Nat /\ SQSize \in Nat \ {0, 1}
    /\ None \notin Clients /\ None \notin Slots

VARIABLES usePool,      \* use_thread_pool
          phase,        \* where daemon_run and daemon_cleanup are
          shutdown,     \* shutdown_requested
          loop,         \* "wait", "eventfd" inside handle_eventfd, or "overrun"
          peer,         \* what became of each connection
          slot,         \* the connection structures
          free,         \* free_list
          active,       \* active_connections
          queued,       \* operations on slots in the submission queue
          ops,          \* operations on slots that the kernel has
          acceptOp,     \* the multishot accept: "none", "queued", "kernel", "lost"
          eventOp,      \* the read of the eventfd: "none", "queued", "kernel"
          work,         \* the pool's work queue
          worker,       \* the slot each worker has, and where it is with it
          ring, ringHead, ringTail,   \* completions of the pool
          signalled     \* the eventfd's counter is not zero

connVars == <<peer, slot, free, active>>
sqVars == <<queued, ops, acceptOp, eventOp>>
poolVars == <<work, worker, ring, ringHead, ringTail, signalled>>
loopVars == <<usePool, phase, shutdown, loop>>
vars == <<loopVars, connVars, sqVars, poolVars>>

-----------------------------------------------------------------------------

\* A response is the headers (part 0), the messages, and [DONE].
Done == Messages + 1
Parts == 0..Done

ConnStates == {"UNUSED", "RECEIVING_FD", "LLM_QUEUED", "STREAMING", "STREAMED",
               "CLOSING"}
\* part is the part being written, short whether some of it is already out, and
\* bytes_sent counts the parts that are out.
Conn(state, client, part, short, bytes_sent) ==
    [state |-> state, client |-> client, part |-> part, short |-> short,
     bytes_sent |-> bytes_sent]
Unused == Conn("UNUSED", None, 0, FALSE, 0)

\* user_data names the operation and the slot; the client and the part are what
\* the kernel was given with it.
Op(op, s, c, part) == [op |-> op, slot |-> s, client |-> c, part |-> part]
OpType == [op : {"recv", "write"}, slot : Slots, client : Clients, part : Parts]

RingSucc(i) == (i + 1) % MaxConnections
RingFull == RingSucc(ringTail) = ringHead
RingEmpty == ringHead = ringTail
Idle == [slot |-> None, at |-> "idle"]
WorkerType == {Idle} \cup [slot : Slots, at : {"call", "add", "signal"}]

\* Entries of the submission queue in use; a write has its timeout behind it.
Used == Cardinality(queued) + Cardinality({o \in queued : o.op = "write"})
        + (IF acceptOp = "queued" THEN 1 ELSE 0)
        + (IF eventOp = "queued" THEN 1 ELSE 0)
InKernel(op) == IF op = "queued" THEN "kernel" ELSE op

-----------------------------------------------------------------------------

Init ==
    /\ usePool \in BOOLEAN
    /\ phase = "run" /\ shutdown = FALSE /\ loop = "wait"
    /\ peer = [c \in Clients |-> "new"]
    /\ slot = [s \in Slots |-> Unused]
    /\ free = [i \in 1..MaxConnections |-> i - 1]
    /\ active = 0
    /\ queued = {} /\ ops = {}
    /\ acceptOp = "kernel"
    /\ eventOp = IF usePool THEN "kernel" ELSE "none"
    /\ work = <<>>
    /\ worker = [w \in Workers |-> Idle]
    /\ ring = [i \in Slots |-> None] /\ ringHead = 0 /\ ringTail = 0
    /\ signalled = FALSE

\* Faulty variant: the connection is not subtracted from active_connections.
CleanupKeepsCount(s, how) ==
    /\ slot' = [slot EXCEPT ![s] = Unused]
    /\ free' = <<s>> \o free
    /\ active' = active
    /\ peer' = [peer EXCEPT ![slot[s].client] = how]

\* cleanup_connection and conn_free: both descriptors are closed and the slot is
\* on the free list; operations still queued for it stay queued.
Cleanup(s, how) ==
    /\ slot' = [slot EXCEPT ![s] = Unused]
    /\ free' = <<s>> \o free
    /\ active' = active - 1
    /\ peer' = [peer EXCEPT ![slot[s].client] = how]

\* ring_get_sqe_flush: a full queue is submitted first.
Flush(full, rest, used) ==
    /\ ops' = IF full THEN rest \cup queued ELSE rest
    /\ queued' = (IF full THEN {} ELSE queued) \cup used

\* ring_submit_write with ring_submit_linked_timeout, which does not flush.  If the
\* write took the last entry there is no room for the timeout: the connection is
\* cleaned up while its write stays queued.  Bound: the loop is not followed any
\* further then.
SubmitWrite(s, state, part, short, bytes, rest) ==
    LET full == Used = SQSize
        linked == full \/ Used + 2 <= SQSize
    IN /\ Flush(full, rest, {Op("write", s, slot[s].client, part)})
       /\ acceptOp' = IF full THEN InKernel(acceptOp) ELSE acceptOp
       /\ eventOp' = IF full THEN InKernel(eventOp) ELSE eventOp
       /\ loop' = IF linked THEN loop ELSE "overrun"
       /\ \/ /\ linked
             /\ slot' = [slot EXCEPT ![s] = Conn(state, @.client, part, short, bytes)]
             /\ UNCHANGED <<free, active, peer>>
          \/ ~linked /\ Cleanup(s, "gone")

\* start_streaming
StartStreaming(s, rest) == SubmitWrite(s, "STREAMING", 0, FALSE, 0, rest)

-----------------------------------------------------------------------------

\* The loop handles completions while it waits, running or draining.
Handling == loop = "wait" /\ phase \in {"run", "drain"}

\* The accept after its completion: a multishot that has ended is submitted again,
\* without a flush, and lost if there is no room.
AcceptAfter(more) ==
    IF more THEN "kernel"
    ELSE IF shutdown THEN "none"
    ELSE IF Used < SQSize THEN "queued" ELSE "lost"

\* Apache's connections are accepted in the order in which they were made.
Oldest(c) == peer[c] = "new" /\ \A d \in 1..(c - 1) : peer[d] # "new"

\* handle_accept without a free slot
AcceptRefused(c, more) ==
    /\ Handling /\ acceptOp = "kernel" /\ Oldest(c)
    /\ free = <<>>
    /\ acceptOp' = AcceptAfter(more)
    /\ peer' = [peer EXCEPT ![c] = "gone"]
    /\ UNCHANGED <<loopVars, slot, free, active, queued, ops, eventOp, poolVars>>

\* handle_accept and conn_alloc
Accept(c, more) ==
    LET s == Head(free)
        after == AcceptAfter(more)
        full == Used + (IF after = "queued" THEN 1 ELSE 0) = SQSize
    IN /\ Handling /\ acceptOp = "kernel" /\ Oldest(c)
       /\ free # <<>>
       /\ free' = Tail(free)
       /\ active' = active + 1
       /\ slot' = [slot EXCEPT ![s] = Conn("RECEIVING_FD", c, 0, FALSE, 0)]
       /\ peer' = [peer EXCEPT ![c] = "slot"]
       /\ Flush(full, ops, {Op("recv", s, c, 0)})
       /\ acceptOp' = IF full THEN InKernel(after) ELSE after
       /\ eventOp' = IF full THEN InKernel(eventOp) ELSE eventOp
       /\ UNCHANGED <<loopVars, poolVars>>

\* handle_accept with an error, which ends the multishot
AcceptFails ==
    /\ Handling /\ acceptOp = "kernel"
    /\ acceptOp' = AcceptAfter(FALSE)
    /\ UNCHANGED <<loopVars, connVars, queued, ops, eventOp, poolVars>>

Receiving(o) ==
    /\ Handling /\ o \in ops /\ o.op = "recv"
    /\ slot[o.slot].state = "RECEIVING_FD"

\* handle_recv_fd: an error, no descriptor, or one that is not a stream socket
RecvFails(o) ==
    /\ Receiving(o)
    /\ ops' = ops \ {o}
    /\ Cleanup(o.slot, "gone")
    /\ UNCHANGED <<loopVars, queued, acceptOp, eventOp, poolVars>>

\* handle_recv_fd: direct streaming, or pool_submit
RecvStream(o) ==
    /\ Receiving(o) /\ ~usePool
    /\ StartStreaming(o.slot, ops \ {o})
    /\ UNCHANGED <<usePool, phase, shutdown, poolVars>>

RecvSubmit(o) ==
    /\ Receiving(o) /\ usePool
    /\ ops' = ops \ {o}
    /\ slot' = [slot EXCEPT ![o.slot].state = "LLM_QUEUED"]
    /\ work' = Append(work, o.slot)
    /\ UNCHANGED <<loopVars, peer, free, active, queued, acceptOp, eventOp,
                   worker, ring, ringHead, ringTail, signalled>>

\* process_cqe lets a write through by the state of the slot.
Writing(o) ==
    /\ Handling /\ o \in ops /\ o.op = "write"
    /\ slot[o.slot].state \in {"STREAMING", "CLOSING"}

\* handle_write: an error, or a short write of headers or [DONE]
WriteFails(o) ==
    /\ Writing(o)
    /\ ops' = ops \ {o}
    /\ Cleanup(o.slot, "gone")
    /\ UNCHANGED <<loopVars, queued, acceptOp, eventOp, poolVars>>

\* handle_write: the rest of a message, which is submitted again.  Bound: a
\* message is written in at most two pieces.
WriteShort(o) ==
    /\ Writing(o)
    /\ slot[o.slot].part \notin {0, Done} /\ ~slot[o.slot].short
    /\ SubmitWrite(o.slot, slot[o.slot].state, slot[o.slot].part, TRUE,
                   slot[o.slot].bytes_sent, ops \ {o})
    /\ UNCHANGED <<usePool, phase, shutdown, poolVars>>

\* Faulty variant: the connection is freed as soon as [DONE] is submitted.
WriteNextFrees(o) ==
    LET s == o.slot
        next == slot[s].part + 1
    IN /\ Writing(o) /\ slot[s].state = "STREAMING"
       /\ IF next = Done
          THEN /\ Flush(Used = SQSize, ops \ {o}, {Op("write", s, o.client, next)})
               /\ Cleanup(s, "completed")
               /\ UNCHANGED <<loop, acceptOp, eventOp>>
          ELSE SubmitWrite(s, "STREAMING", next, FALSE, slot[s].bytes_sent + 1, ops \ {o})
       /\ UNCHANGED <<usePool, phase, shutdown, poolVars>>

\* Faulty variant: the state is not set when [DONE] is submitted.
WriteNextStaysOpen(o) ==
    LET s == o.slot
        next == slot[s].part + 1
    IN /\ Writing(o) /\ slot[s].state = "STREAMING"
       /\ SubmitWrite(s, "STREAMING", next, FALSE, slot[s].bytes_sent + 1, ops \ {o})
       /\ UNCHANGED <<usePool, phase, shutdown, poolVars>>

\* handle_write: the next message, or [DONE] with the state set first
WriteNext(o) ==
    LET s == o.slot
        next == slot[s].part + 1
    IN /\ Writing(o)
       /\ slot[s].state = "STREAMING"
       /\ SubmitWrite(s, IF next = Done THEN "CLOSING" ELSE "STREAMING", next, FALSE,
                      slot[s].bytes_sent + 1, ops \ {o})
       /\ UNCHANGED <<usePool, phase, shutdown, poolVars>>

\* handle_write: [DONE] was sent
WriteDone(o) ==
    /\ Writing(o)
    /\ slot[o.slot].state = "CLOSING"
    /\ ops' = ops \ {o}
    /\ Cleanup(o.slot, "completed")
    /\ UNCHANGED <<loopVars, queued, acceptOp, eventOp, poolVars>>

\* ring_submit at the end of a round
Submit ==
    /\ Handling /\ Used > 0
    /\ ops' = ops \cup queued /\ queued' = {}
    /\ acceptOp' = InKernel(acceptOp) /\ eventOp' = InKernel(eventOp)
    /\ UNCHANGED <<loopVars, connVars, poolVars>>

-----------------------------------------------------------------------------

\* worker_thread takes the head of the queue; at shutdown the queue is emptied first.
WorkerTakes(w) ==
    /\ worker[w] = Idle /\ work # <<>>
    /\ worker' = [worker EXCEPT ![w] = [slot |-> Head(work), at |-> "call"]]
    /\ work' = Tail(work)
    /\ UNCHANGED <<loopVars, connVars, sqVars, ring, ringHead, ringTail, signalled>>

\* Faulty variant: no completion for a connection whose backend failed.
WorkerReturnsDrops(w, state) ==
    /\ worker[w].at = "call"
    /\ slot' = [slot EXCEPT ![worker[w].slot].state = state]
    /\ worker' = [worker EXCEPT ![w] = IF state = "CLOSING" THEN Idle ELSE [@ EXCEPT !.at = "add"]]
    /\ UNCHANGED <<loopVars, peer, free, active, sqVars, work, ring, ringHead, ringTail,
                   signalled>>

\* worker_thread: the result of backend_process decides the state.  "STREAMED" means
\* that the backend has written the response itself.
WorkerReturns(w, state) ==
    /\ worker[w].at = "call"
    /\ slot' = [slot EXCEPT ![worker[w].slot].state = state]
    /\ worker' = [worker EXCEPT ![w].at = "add"]
    /\ UNCHANGED <<loopVars, peer, free, active, sqVars, work, ring, ringHead, ringTail,
                   signalled>>

\* Faulty variant: the index is advanced before the entry is stored.
WorkerAddsPastTail(w) ==
    /\ worker[w].at = "add" /\ ~RingFull
    /\ ring' = [ring EXCEPT ![RingSucc(ringTail)] = worker[w].slot]
    /\ ringTail' = RingSucc(ringTail)
    /\ worker' = [worker EXCEPT ![w].at = "signal"]
    /\ UNCHANGED <<loopVars, connVars, sqVars, work, ringHead, signalled>>

\* pool_add_completion, once the ring has room
WorkerAdds(w) ==
    /\ worker[w].at = "add" /\ ~RingFull
    /\ ring' = [ring EXCEPT ![ringTail] = worker[w].slot]
    /\ ringTail' = RingSucc(ringTail)
    /\ worker' = [worker EXCEPT ![w].at = "signal"]
    /\ UNCHANGED <<loopVars, connVars, sqVars, work, ringHead, signalled>>

\* pool_add_completion writes to the eventfd
WorkerSignals(w) ==
    /\ worker[w].at = "signal"
    /\ signalled' = TRUE
    /\ worker' = [worker EXCEPT ![w] = Idle]
    /\ UNCHANGED <<loopVars, connVars, sqVars, work, ring, ringHead, ringTail>>

\* handle_eventfd begins: the ring's read and its own read clear the counter
EventfdBegin ==
    /\ Handling /\ eventOp = "kernel" /\ signalled
    /\ signalled' = FALSE /\ eventOp' = "none" /\ loop' = "eventfd"
    /\ UNCHANGED <<usePool, phase, shutdown, connVars, queued, ops, acceptOp,
                   work, worker, ring, ringHead, ringTail>>

\* handle_eventfd with the next entry of pool_get_completion
EventfdNext ==
    LET s == ring[ringHead]
    IN /\ loop = "eventfd" /\ ~RingEmpty
       /\ ringHead' = RingSucc(ringHead)
       /\ \/ slot[s].state = "STREAMING" /\ StartStreaming(s, ops)
          \/ /\ slot[s].state = "STREAMED" /\ Cleanup(s, "gone")
             /\ UNCHANGED <<sqVars, loop>>
          \/ /\ slot[s].state = "CLOSING" /\ Cleanup(s, "gone")
             /\ UNCHANGED <<sqVars, loop>>
       /\ UNCHANGED <<usePool, phase, shutdown, work, worker, ring, ringTail, signalled>>

\* Faulty variant: the ring is not read to its end.
EventfdEndEarly ==
    LET full == ~shutdown /\ Used = SQSize
    IN /\ loop = "eventfd"
       /\ loop' = "wait"
       /\ Flush(full, ops, {})
       /\ acceptOp' = IF full THEN InKernel(acceptOp) ELSE acceptOp
       /\ eventOp' = IF shutdown THEN "none" ELSE "queued"
       /\ UNCHANGED <<usePool, phase, shutdown, connVars, poolVars>>

\* Faulty variant: the read is not submitted again.
EventfdEndUnarmed ==
    /\ loop = "eventfd" /\ RingEmpty
    /\ loop' = "wait"
    /\ UNCHANGED <<usePool, phase, shutdown, connVars, sqVars, poolVars>>

\* handle_eventfd ends; process_cqe submits the read again unless shutting down.
EventfdEnd ==
    LET full == ~shutdown /\ Used = SQSize
    IN /\ loop = "eventfd" /\ RingEmpty
       /\ loop' = "wait"
       /\ Flush(full, ops, {})
       /\ acceptOp' = IF full THEN InKernel(acceptOp) ELSE acceptOp
       /\ eventOp' = IF shutdown THEN "none" ELSE "queued"
       /\ UNCHANGED <<usePool, phase, shutdown, connVars, poolVars>>

-----------------------------------------------------------------------------

\* signal_handler
Signal ==
    /\ phase = "run" /\ ~shutdown
    /\ shutdown' = TRUE
    /\ UNCHANGED <<usePool, phase, loop, connVars, sqVars, poolVars>>

\* daemon_run leaves the main loop at the end of a round.
BeginDrain ==
    /\ phase = "run" /\ shutdown /\ loop = "wait" /\ Used = 0
    /\ phase' = "drain"
    /\ UNCHANGED <<usePool, shutdown, loop, connVars, sqVars, poolVars>>

\* daemon_run ends with no connection left, or when shutdown_timeout_s is over.
DrainDone ==
    /\ phase = "drain" /\ loop = "wait" /\ Used = 0 /\ active = 0
    /\ phase' = "join"
    /\ UNCHANGED <<usePool, shutdown, loop, connVars, sqVars, poolVars>>

\* Faulty variant: the loop waits for the connections without end.
DrainTimeoutNever ==
    /\ phase = "drain" /\ loop = "wait" /\ Used = 0 /\ active < 0
    /\ phase' = "join"
    /\ UNCHANGED <<usePool, shutdown, loop, connVars, sqVars, poolVars>>

DrainTimeout ==
    /\ phase = "drain" /\ loop = "wait" /\ Used = 0 /\ active > 0
    /\ phase' = "join"
    /\ UNCHANGED <<usePool, shutdown, loop, connVars, sqVars, poolVars>>

\* daemon_cleanup: pool_cleanup joins the workers, which end with the queue empty;
\* then every descriptor is closed.
Stop ==
    /\ phase = "join"
    /\ work = <<>> /\ \A w \in Workers : worker[w] = Idle
    /\ phase' = "stopped"
    /\ peer' = [c \in Clients |-> IF peer[c] = "slot" THEN "cut" ELSE peer[c]]
    /\ queued' = {} /\ ops' = {} /\ acceptOp' = "none" /\ eventOp' = "none"
    /\ UNCHANGED <<usePool, shutdown, loop, slot, free, active, poolVars>>

LoopStep ==
    \/ \E c \in Clients, more \in BOOLEAN :
          AcceptRefused(c, more) \/ Accept(c, more)
    \/ AcceptFails
    \/ \E o \in ops :
          \/ RecvFails(o) \/ RecvStream(o) \/ RecvSubmit(o)
          \/ WriteFails(o) \/ WriteShort(o) \/ WriteNext(o) \/ WriteDone(o)
    \/ Submit
    \/ EventfdBegin \/ EventfdNext \/ EventfdEnd
    \/ BeginDrain \/ DrainDone \/ DrainTimeout \/ Stop

WorkerStep(w) ==
    \/ WorkerTakes(w) \/ WorkerAdds(w) \/ WorkerSignals(w)
    \/ \E state \in {"STREAMING", "STREAMED", "CLOSING"} : WorkerReturns(w, state)

Next ==
    \/ LoopStep
    \/ \E w \in Workers : WorkerStep(w)
    \/ Signal

Spec == Init /\ [][Next]_vars

\* The loop is a running thread that waits with a timeout, the shutdown timeout
\* passes, every linked write ends, and every call of the backend returns.  Nothing
\* is assumed of what Apache sends.
WriteEnds(s) ==
    \E o \in ops : o.slot = s /\ (WriteFails(o) \/ WriteNext(o) \/ WriteDone(o))
LoopEnds == BeginDrain \/ DrainDone \/ DrainTimeout \/ Stop

Fairness ==
    /\ WF_vars(Submit) /\ WF_vars(EventfdBegin) /\ WF_vars(EventfdNext) /\ WF_vars(EventfdEnd)
    /\ WF_vars(LoopEnds)
    /\ \A s \in Slots : WF_vars(WriteEnds(s))
    /\ \A w \in Workers : WF_vars(WorkerStep(w))

FairSpec == Spec /\ Fairness

-----------------------------------------------------------------------------

\* Types of all variables.
TypeOK ==
    /\ usePool \in BOOLEAN /\ shutdown \in BOOLEAN /\ signalled \in BOOLEAN
    /\ phase \in {"run", "drain", "join", "stopped"} /\ loop \in {"wait", "eventfd", "overrun"}
    /\ peer \in [Clients -> {"new", "slot", "completed", "gone", "cut"}]
    /\ slot \in [Slots -> [state : ConnStates, client : Clients \cup {None}, part : Parts,
                           short : BOOLEAN, bytes_sent : Parts]]
    /\ free \in Seq(Slots) /\ active \in 0..MaxConnections
    /\ queued \subseteq OpType /\ ops \subseteq OpType
    /\ acceptOp \in {"none", "queued", "kernel", "lost"} /\ eventOp \in {"none", "queued", "kernel"}
    /\ work \in Seq(Slots) /\ worker \in [Workers -> WorkerType]
    /\ ring \in [Slots -> Slots \cup {None}]
    /\ ringHead \in Slots /\ ringTail \in Slots

\* The free list, the states and the counter always agree, and every connection
\* that was taken in has one slot: no slot is freed twice or lost, whatever
\* completions arrive late (conn_alloc, conn_free).  And every variable keeps its type.
SlotsConserved ==
    /\ TypeOK
    /\ {free[i] : i \in DOMAIN free} = {s \in Slots : slot[s] = Unused}
    /\ Len(free) + active = MaxConnections
    /\ \A i, j \in DOMAIN free : free[i] = free[j] => i = j
    /\ phase # "stopped" =>
         \A c \in Clients : (peer[c] = "slot") <=> (\E s \in Slots : slot[s].client = c)
    /\ \A s, t \in Slots : slot[s].client = slot[t].client => s = t \/ slot[s] = Unused

\* process_cqe is right to go by the slot's state alone: an operation that is
\* queued or in flight belongs to the connection in its slot and to its present
\* state, and is the only one.
OwnCompletion ==
    loop # "overrun" => \A o \in queued \cup ops :
        /\ slot[o.slot].client = o.client
        /\ slot[o.slot].state \in (IF o.op = "recv" THEN {"RECEIVING_FD"}
                                                    ELSE {"STREAMING", "CLOSING"})
        /\ \A p \in queued \cup ops : p.slot = o.slot => p = o

\* The places from which a connection is worked on.
InRing == {ring[i] : i \in {j \in Slots :
              IF ringHead <= ringTail THEN ringHead <= j /\ j < ringTail
                                      ELSE ringHead <= j \/ j < ringTail}}
Drivers(s) ==
    {<<"op", o>> : o \in {p \in queued \cup ops : p.slot = s /\ p.client = slot[s].client}}
    \cup {<<"work", i>> : i \in {j \in 1..Len(work) : work[j] = s}}
    \cup {<<"worker", w>> : w \in {v \in Workers : worker[v].slot = s /\ worker[v].at # "signal"}}
    \cup {<<"ring", t>> : t \in InRing \cap {s}}

\* While the loop runs, every connection in a slot has exactly one thing that will
\* bring it forward: an operation, a place in the work queue, a worker, or a
\* place in the completion ring.  None is forgotten, none is handled twice.
OneDriver ==
    phase \in {"run", "drain"} =>
        \A s \in Slots : slot[s] # Unused => Cardinality(Drivers(s)) = 1

\* A client gets the headers, the messages in order, and [DONE]: the write in
\* flight is always of the part after those that are out, and nothing follows the
\* part that ends the response.
ResponseInOrder ==
    \A o \in queued \cup ops : o.op = "write" /\ slot[o.slot].client = o.client =>
        /\ o.part = slot[o.slot].bytes_sent
        /\ (o.part = Done) <=> (slot[o.slot].state = "CLOSING")

\* No wake-up is lost: a completion in the ring has set the counter, or its worker
\* is about to, or the loop is reading the ring; and until a shutdown the loop
\* listens for it, and for connections unless the accept was lost.
CompletionsAnnounced ==
    /\ ~RingEmpty /\ loop = "wait" => signalled \/ \E w \in Workers : worker[w].at = "signal"
    /\ phase = "run" /\ ~shutdown /\ loop = "wait" =>
          acceptOp # "none" /\ (usePool => eventOp # "none")

\* The completion ring is a bounded first-in-first-out queue: nothing is
\* overwritten or read twice, and it holds one entry less than its size.
Fifo == INSTANCE BoundedFifo WITH
            Capacity <- MaxConnections - 1, Elements <- Slots,
            q <- [i \in 1..((ringTail - ringHead + MaxConnections) % MaxConnections) |->
                     ring[(ringHead + i - 1) % MaxConnections]]
RingIsFifo == Fifo!Spec

\* pool_cleanup waits for workers that wait for room in a ring that nobody reads.
JoinHangs == phase = "join" /\ RingFull

\* A connection whose descriptor has arrived is let go in the end.
Held(s) == slot[s].state \notin {"UNUSED", "RECEIVING_FD"} /\ phase # "stopped"
ReceivedIsReleased ==
    \A s \in Slots : Held(s) ~> (~Held(s) \/ JoinHangs \/ loop = "overrun")

\* A shutdown ends the process, whatever peers keep silent.
ShutdownEnds == shutdown ~> (phase = "stopped" \/ JoinHangs \/ loop = "overrun")
=============================================================================
