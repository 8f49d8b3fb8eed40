----------------------------- MODULE UringCurl -----------------------------
(***************************************************************************)
(* The io_uring daemon in curl_multi mode: libcurl's transfers, the write  *)
(* buffers, the list of connections with data to write (dirty list), and   *)
(* the writes, on one thread.                                              *)
(*                                                                         *)
(* A completion from libcurl's sockets or timer is handled in three steps, *)
(* which the loop runs without interruption: libcurl's callbacks ("curl"), *)
(* curl_manager_check_completions ("check"), and the flush of the dirty    *)
(* list.  The submission queue is taken to have room: UringDaemon has it   *)
(* full.  CurlEvents has the polls and the timer.                          *)
(***************************************************************************)
EXTENDS WriteBuffer, Sequences, FiniteSets

CONSTANTS NumClients,       \* bound: connections that Apache makes
          MaxConnections,   \* max_connections
          MessageUnits,     \* bound: what the API sends for a request, in units
          None              \* no client, no buffer

Clients == 1..NumClients
Slots == 0..(MaxConnections - 1)

ASSUME ConstantsAssumption ==
    /\ NumClients \in Nat /\ MaxConnections \in Nat \ {0} /\ MessageUnits \in Nat
    /\ None \notin Clients /\ None \notin Buffer

VARIABLES phase,        \* "run", "drain" or "stopped": where daemon_run is
          shutdown,     \* shutdown_requested
          loop,         \* "wait", or the part of the handler that runs: "curl", "check"
          peer,         \* what became of each connection
          slot,         \* the connection structures
          free,         \* free_list
          dirty,        \* the dirty list
          recvs,        \* slots whose recvmsg the kernel has
          writes,       \* writes that the kernel has
          moved         \* slots whose write reads memory that was released under it

vars == <<phase, shutdown, loop, peer, slot, free, dirty, recvs, writes, moved>>
outer == <<phase, shutdown>>

-----------------------------------------------------------------------------

\* easy is the transfer behind curl_easy: none, running, or ended with a result
\* that check_completions has not read.  The response is a sequence of units: unit
\* 1 is the headers, the last is [DONE] if done; appended of them have been put into
\* the buffer and bytes_sent are out.
Conn(state, client, easy, wb, appended, done, bytes_sent) ==
    [state |-> state, client |-> client, easy |-> easy, wb |-> wb,
     appended |-> appended, done |-> done, bytes_sent |-> bytes_sent]
Unused == Conn("UNUSED", None, "none", None, 0, FALSE, 0)

\* The units that a write has been given: len of them, from the first that is not out.
Write(s, client, from, len) == [slot |-> s, client |-> client, from |-> from, len |-> len]
MaxUnits == MessageUnits + 2
Units == 0..MaxUnits

HasBuffer(s) == slot[s].wb # None
Busy(conn) == conn.wb # None /\ conn.wb.write_pending
Unsent(conn) == conn.wb # None /\ HasData(conn.wb)

\* daemon_mark_connection_dirty, daemon_unmark_connection_dirty
Listed(list, s) == \E i \in DOMAIN list : list[i] = s
Marked(list, s) == IF Listed(list, s) THEN list ELSE Append(list, s)

\* What is left of a list, in its order, when only the connections in stay remain;
\* there is one such list, as no connection is on the list twice.
Lists == UNION {[1..n -> Slots] : n \in 0..MaxConnections}
Remaining(list, stay) ==
    {new \in Lists :
        /\ \A s \in Slots : Listed(new, s) <=> Listed(list, s) /\ s \in stay
        /\ \A i, j \in DOMAIN new :
              i < j => \E k, l \in DOMAIN list : k < l /\ list[k] = new[i] /\ list[l] = new[j]}
Unmarked(list, s) == Remaining(list, Slots \ {s})

\* Faulty variant: the write is not marked as pending.
SubmittedUnmarked(conn) == conn

\* try_immediate_write and start_async_write, for a connection with data and no
\* write in flight: everything in the buffer is submitted at once.
CanStart(conn) == Unsent(conn) /\ ~Busy(conn)
Submitted(conn) == [conn EXCEPT !.wb = SetPending(@, TRUE)]
StartedWrite(s, conn) ==
    Write(s, conn.client, conn.bytes_sent, Size(conn.wb))

-----------------------------------------------------------------------------

Init ==
    /\ phase = "run" /\ shutdown = FALSE /\ loop = "wait"
    /\ peer = [c \in Clients |-> "new"]
    /\ slot = [s \in Slots |-> Unused]
    /\ free = [i \in 1..MaxConnections |-> i - 1]
    /\ dirty = <<>> /\ recvs = {} /\ writes = {} /\ moved = {}

\* Faulty variant: the connection stays on the dirty list.
CleanupListed(s, how) ==
    /\ slot' = [slot EXCEPT ![s] = Unused]
    /\ free' = <<s>> \o free
    /\ dirty' = dirty
    /\ peer' = [peer EXCEPT ![slot[s].client] = how]

\* cleanup_connection: curl_manager_cancel_request, unmark, and conn_free, which
\* frees the buffer.
Cleanup(s, how) ==
    /\ slot' = [slot EXCEPT ![s] = Unused]
    /\ free' = <<s>> \o free
    /\ dirty' \in Unmarked(dirty, s)
    /\ peer' = [peer EXCEPT ![slot[s].client] = how]

Handling == loop = "wait" /\ phase \in {"run", "drain"}

\* handle_accept; Apache's connections come in the order in which they were made.
Accept(c) ==
    /\ Handling /\ peer[c] = "new" /\ \A d \in 1..(c - 1) : peer[d] # "new"
    /\ \/ /\ free = <<>>
          /\ peer' = [peer EXCEPT ![c] = "gone"]
          /\ UNCHANGED <<slot, free, recvs>>
       \/ /\ free # <<>>
          /\ peer' = [peer EXCEPT ![c] = "slot"]
          /\ slot' = [slot EXCEPT ![Head(free)] =
                         Conn("RECEIVING_FD", c, "none", None, 0, FALSE, 0)]
          /\ free' = Tail(free)
          /\ recvs' = recvs \cup {Head(free)}
    /\ UNCHANGED <<outer, loop, dirty, writes, moved>>

\* handle_recv_fd: no usable descriptor, or curl_manager_start_request fails
RecvFails(s) ==
    /\ Handling /\ s \in recvs
    /\ recvs' = recvs \ {s}
    /\ Cleanup(s, "gone")
    /\ UNCHANGED <<outer, loop, writes, moved>>

\* handle_recv_fd and curl_manager_start_request, which calls libcurl: its callbacks
\* may run for other transfers too, without a check for completions after them.
RecvStart(s) ==
    /\ Handling /\ s \in recvs
    /\ recvs' = recvs \ {s}
    /\ slot' = [slot EXCEPT ![s].state = "CURL_PENDING", ![s].easy = "running"]
    /\ loop' = "start"
    /\ UNCHANGED <<outer, peer, free, dirty, writes, moved>>

StartReturns ==
    /\ loop = "start"
    /\ loop' = "wait"
    /\ UNCHANGED <<outer, peer, slot, free, dirty, recvs, writes, moved>>

\* handle_curl_poll, handle_curl_timeout: libcurl is called.
Running == \E s \in Slots : slot[s].easy = "running"
CurlEvent ==
    /\ Handling /\ \E s \in Slots : slot[s].easy # "none"
    /\ loop' = "curl"
    /\ UNCHANGED <<outer, peer, slot, free, dirty, recvs, writes, moved>>

-----------------------------------------------------------------------------

InCurl == loop \in {"start", "curl"}

\* len units are appended, and a write is tried: the connection, and the write.
AppendUnits(conn, len) == [conn EXCEPT !.wb = Appended(@, len), !.appended = @ + len]
Tried(conn) == IF CanStart(conn) THEN Submitted(conn) ELSE conn
TriedWrite(s, conn) == IF CanStart(conn) THEN {StartedWrite(s, conn)} ELSE {}

\* The memory of the connection's buffer may move as units are appended; where it was,
\* the write in flight goes on reading.
MayMove(s, len) ==
    \/ moved' = moved
    \/ MovesUnderWrite(slot[s].wb, len) /\ moved' = moved \cup {s}

\* write_callback with the first data: headers are appended to a new buffer and
\* written at once; the data are the next call.
FirstData(s) ==
    LET conn == AppendUnits([slot[s] EXCEPT !.state = "CURL_ACTIVE", !.wb = EmptyBuffer], 1)
    IN /\ InCurl /\ slot[s].easy = "running" /\ ~HasBuffer(s)
       /\ slot' = [slot EXCEPT ![s] = Tried(conn)]
       /\ writes' = writes \cup TriedWrite(s, conn)
       /\ dirty' = Marked(dirty, s)
       /\ UNCHANGED <<outer, loop, peer, free, recvs, moved>>

\* write_callback and process_sse_line with a message of len units
MessageComes(s, len) ==
    /\ InCurl /\ slot[s].easy = "running" /\ HasBuffer(s)
    /\ slot[s].appended + len <= MessageUnits + 1

Message(s, len) ==
    LET conn == AppendUnits(slot[s], len)
    IN /\ MessageComes(s, len)
       /\ Accepts(slot[s].wb, len)
       /\ MayMove(s, len)
       /\ slot' = [slot EXCEPT ![s] = Tried(conn)]
       /\ writes' = writes \cup TriedWrite(s, conn)
       /\ dirty' = Marked(dirty, s)
       /\ UNCHANGED <<outer, loop, peer, free, recvs>>

\* The buffer has no room for the message, or gets none: libcurl is told to give the
\* transfer up.
MessageRefused(s, len) ==
    /\ MessageComes(s, len)
    /\ MayRefuse(slot[s].wb, len)
    /\ slot' = [slot EXCEPT ![s].wb = Refused(@, len), ![s].easy = "failed"]
    /\ UNCHANGED <<outer, loop, peer, free, dirty, recvs, writes, moved>>

\* External: libcurl ends a transfer, with CURLE_OK or an error.
TransferEnds(s, result) ==
    /\ InCurl /\ slot[s].easy = "running"
    /\ slot' = [slot EXCEPT ![s].easy = result]
    /\ UNCHANGED <<outer, loop, peer, free, dirty, recvs, writes, moved>>

CurlReturns ==
    /\ loop = "curl"
    /\ loop' = "check"
    /\ UNCHANGED <<outer, peer, slot, free, dirty, recvs, writes, moved>>

-----------------------------------------------------------------------------

\* Faulty variant: the state is not set.
ReapStaysOpen(s) ==
    LET conn == [slot[s] EXCEPT !.easy = "none"]
        tries == slot[s].easy = "ok" /\ HasBuffer(s)
    IN /\ loop = "check" /\ slot[s].easy \in {"ok", "failed"}
       /\ \/ /\ tries /\ Accepts(conn.wb, 1)
             /\ MayMove(s, 1)
             /\ slot' = [slot EXCEPT ![s] = [AppendUnits(conn, 1) EXCEPT !.done = TRUE]]
             /\ dirty' = Marked(dirty, s)
          \/ /\ tries /\ MayRefuse(conn.wb, 1)
             /\ slot' = [slot EXCEPT ![s] = [conn EXCEPT !.wb = Refused(@, 1)]]
             /\ UNCHANGED <<dirty, moved>>
          \/ /\ ~tries
             /\ slot' = [slot EXCEPT ![s] = conn]
             /\ UNCHANGED <<dirty, moved>>
       /\ UNCHANGED <<outer, loop, peer, free, recvs, writes>>

\* curl_manager_check_completions: [DONE] follows what a transfer that ended well has
\* brought, if it has brought anything and the buffer has room and memory for it.
Reap(s) ==
    LET conn == [slot[s] EXCEPT !.state = "CLOSING", !.easy = "none"]
        tries == slot[s].easy = "ok" /\ HasBuffer(s)
    IN /\ loop = "check" /\ slot[s].easy \in {"ok", "failed"}
       /\ \/ /\ tries /\ Accepts(conn.wb, 1)
             /\ MayMove(s, 1)
             /\ slot' = [slot EXCEPT ![s] = [AppendUnits(conn, 1) EXCEPT !.done = TRUE]]
             /\ dirty' = Marked(dirty, s)
          \/ /\ tries /\ MayRefuse(conn.wb, 1)
             /\ slot' = [slot EXCEPT ![s] = [conn EXCEPT !.wb = Refused(@, 1)]]
             /\ UNCHANGED <<dirty, moved>>
          \/ /\ ~tries
             /\ slot' = [slot EXCEPT ![s] = conn]
             /\ UNCHANGED <<dirty, moved>>
       /\ UNCHANGED <<outer, loop, peer, free, recvs, writes>>

\* flush_streaming_connections: every listed connection is tried, and those with
\* nothing left to write are taken off the list.
Flush ==
    /\ slot' = [s \in Slots |-> IF Listed(dirty, s) THEN Tried(slot[s]) ELSE slot[s]]
    /\ writes' = writes \cup UNION {TriedWrite(s, slot[s]) : s \in {t \in Slots : Listed(dirty, t)}}
    /\ dirty' \in Remaining(dirty, {s \in Slots : Unsent(slot[s]) \/ Busy(slot[s])})

\* The end of handle_curl_poll and handle_curl_timeout
CheckDone ==
    /\ loop = "check" /\ \A s \in Slots : slot[s].easy \notin {"ok", "failed"}
    /\ loop' = "wait"
    /\ Flush
    /\ UNCHANGED <<outer, peer, free, recvs, moved>>

\* The end of a round of the main loop; the loop that drains has no flush.
RoundEnds ==
    /\ phase = "run" /\ loop = "wait" /\ dirty # <<>>
    /\ Flush
    /\ UNCHANGED <<outer, loop, peer, free, recvs, moved>>

-----------------------------------------------------------------------------

\* process_cqe and handle_async_write with an error
WriteFails(w) ==
    /\ Handling /\ w \in writes /\ HasBuffer(w.slot)
    /\ writes' = writes \ {w} /\ moved' = moved \ {w.slot}
    /\ Cleanup(w.slot, "gone")
    /\ UNCHANGED <<outer, loop, recvs>>

\* Faulty variant: all that was submitted is taken to be out.
AfterWriteAll(w, n) ==
    [slot[w.slot] EXCEPT !.bytes_sent = @ + n,
                         !.wb = SetPending(Consumed(@, w.len), FALSE)]

\* handle_async_write: n units are out.
AfterWrite(w, n) ==
    [slot[w.slot] EXCEPT !.bytes_sent = @ + n,
                         !.wb = SetPending(Consumed(@, n), FALSE)]

\* handle_async_write: what is left in the buffer is written next.
WriteMore(w, n) ==
    LET conn == AfterWrite(w, n)
    IN /\ Handling /\ w \in writes /\ HasBuffer(w.slot)
       /\ CanStart(conn)
       /\ slot' = [slot EXCEPT ![w.slot] = Submitted(conn)]
       /\ writes' = (writes \ {w}) \cup {StartedWrite(w.slot, conn)}
       /\ moved' = moved \ {w.slot}
       /\ UNCHANGED <<outer, loop, peer, free, dirty, recvs>>

\* handle_async_write: the buffer is drained, and more may come.
WriteDrains(w, n) ==
    LET conn == AfterWrite(w, n)
    IN /\ Handling /\ w \in writes /\ HasBuffer(w.slot)
       /\ ~Unsent(conn) /\ conn.state = "CURL_ACTIVE"
       /\ slot' = [slot EXCEPT ![w.slot] = conn]
       /\ writes' = writes \ {w} /\ moved' = moved \ {w.slot}
       /\ UNCHANGED <<outer, loop, peer, free, dirty, recvs>>

\* Faulty variant: the request has ended, and the buffer is not looked at.
WriteLastEarly(w, n) ==
    /\ Handling /\ w \in writes /\ HasBuffer(w.slot)
    /\ slot[w.slot].state = "CLOSING"
    /\ writes' = writes \ {w} /\ moved' = moved \ {w.slot}
    /\ Cleanup(w.slot, "completed")
    /\ UNCHANGED <<outer, loop, recvs>>

\* handle_async_write: the buffer is drained, and the request has ended.
WriteLast(w, n) ==
    /\ Handling /\ w \in writes /\ HasBuffer(w.slot)
    /\ ~Unsent(AfterWrite(w, n)) /\ slot[w.slot].state = "CLOSING"
    /\ writes' = writes \ {w} /\ moved' = moved \ {w.slot}
    /\ Cleanup(w.slot, "completed")
    /\ UNCHANGED <<outer, loop, recvs>>

-----------------------------------------------------------------------------

\* signal_handler
Signal ==
    /\ phase = "run" /\ ~shutdown
    /\ shutdown' = TRUE
    /\ UNCHANGED <<phase, loop, peer, slot, free, dirty, recvs, writes, moved>>

BeginDrain ==
    /\ phase = "run" /\ shutdown /\ loop = "wait"
    /\ phase' = "drain"
    /\ UNCHANGED <<shutdown, loop, peer, slot, free, dirty, recvs, writes, moved>>

\* daemon_run ends when no connection is left or the time for it is over, and
\* daemon_cleanup closes what is open.
Stop ==
    /\ phase = "drain" /\ loop = "wait"
    /\ phase' = "stopped"
    /\ peer' = [c \in Clients |-> IF peer[c] = "slot" THEN "cut" ELSE peer[c]]
    /\ recvs' = {} /\ writes' = {} /\ moved' = {}
    /\ UNCHANGED <<shutdown, loop, slot, free, dirty>>

CurlStep(s) ==
    \/ FirstData(s)
    \/ \E len \in 1..MessageUnits : Message(s, len) \/ MessageRefused(s, len)
    \/ TransferEnds(s, "ok") \/ TransferEnds(s, "failed")

WriteStep(w) ==
    \/ WriteFails(w)
    \/ \E n \in 1..w.len : WriteMore(w, n) \/ WriteDrains(w, n) \/ WriteLast(w, n)

Next ==
    \/ \E c \in Clients : Accept(c)
    \/ \E s \in Slots : RecvFails(s) \/ RecvStart(s) \/ CurlStep(s) \/ Reap(s)
    \/ StartReturns \/ CurlEvent \/ CurlReturns \/ CheckDone \/ RoundEnds
    \/ \E w \in writes : WriteStep(w)
    \/ Signal \/ BeginDrain \/ Stop

Spec == Init /\ [][Next]_vars

\* The loop runs, every linked write ends (write_timeout_ms), a transfer ends in the
\* end (CURLOPT_TIMEOUT) and libcurl's sockets and timer fire while it has one that runs.
Fairness ==
    /\ WF_vars(StartReturns) /\ WF_vars(Running /\ CurlEvent) /\ WF_vars(CurlReturns)
    /\ WF_vars(CheckDone) /\ WF_vars(RoundEnds) /\ WF_vars(BeginDrain)
    /\ \A s \in Slots :
          /\ WF_vars(Reap(s))
          /\ SF_vars(TransferEnds(s, "ok") \/ TransferEnds(s, "failed"))
          /\ SF_vars(\E w \in writes : w.slot = s /\ WriteStep(w))
    /\ WF_vars(Stop)

FairSpec == Spec /\ Fairness

-----------------------------------------------------------------------------

States == {"UNUSED", "RECEIVING_FD", "CURL_PENDING", "CURL_ACTIVE", "CLOSING"}

ConnOK(conn) ==
    /\ conn = Conn(conn.state, conn.client, conn.easy, conn.wb, conn.appended, conn.done,
                   conn.bytes_sent)
    /\ conn.state \in States /\ conn.client \in Clients \cup {None}
    /\ conn.easy \in {"none", "running", "ok", "failed"}
    /\ conn.wb = None \/ conn.wb.capacity \in Nat
    /\ conn.appended \in Units /\ conn.bytes_sent \in Units /\ conn.done \in BOOLEAN

\* Types of all variables.
TypeOK ==
    /\ phase \in {"run", "drain", "stopped"} /\ shutdown \in BOOLEAN
    /\ loop \in {"wait", "start", "curl", "check"}
    /\ peer \in [Clients -> {"new", "slot", "completed", "gone", "cut"}]
    /\ \A s \in Slots : ConnOK(slot[s])
    /\ DOMAIN slot = Slots /\ free \in Seq(Slots) /\ dirty \in Seq(Slots)
    /\ recvs \subseteq Slots /\ moved \subseteq Slots
    /\ writes \subseteq [slot : Slots, client : Clients, from : Units, len : Units \ {0}]

\* Whatever is appended to a buffer and consumed from it, its positions are in order
\* and in its memory, which keeps to the limit: no append writes beyond it.
BuffersInBounds == \A s \in Slots : slot[s].wb # None => WellFormed(slot[s].wb)

\* A connection has at most one write in flight, which its buffer knows of; the
\* write is of the connection in the slot, begins where its stream stands, and ends
\* within what the buffer holds.  So no write outlives its connection, and no unit goes
\* out twice, out of order, or to another client.  This is about the units' positions:
\* the memory that a write reads may have moved from under it (moved), and what it then
\* sends in their place is not known.
WritesInOrder ==
    /\ phase # "stopped" =>
         \A s \in Slots : Busy(slot[s]) <=> \E w \in writes : w.slot = s
    /\ \A w \in writes :
          /\ slot[w.slot].client = w.client
          /\ w.from = slot[w.slot].bytes_sent
          /\ w.from + w.len <= slot[w.slot].appended
          /\ \A v \in writes : v.slot = w.slot => v = w

\* Nothing in a buffer is forgotten: whenever the loop waits, a connection with
\* data has a write in flight, and none is on the dirty list or off it wrongly.
\* And every variable keeps its type.
DataMoves ==
    /\ TypeOK
    /\ \A s \in Slots : Unsent(slot[s]) =>
          /\ Listed(dirty, s)
          /\ loop = "wait" /\ phase # "stopped" => Busy(slot[s])
    /\ \A i \in DOMAIN dirty : slot[dirty[i]].state \in {"CURL_ACTIVE", "CLOSING"}
    /\ \A i, j \in DOMAIN dirty : dirty[i] = dirty[j] => i = j

\* What is appended is what is out or in the buffer, so that nothing is lost or
\* repeated by compaction, growth and reset; and [DONE] is the last unit.
StreamConserved ==
    \A s \in Slots :
        /\ slot[s].wb # None => slot[s].appended = slot[s].bytes_sent + Size(slot[s].wb)
        /\ slot[s].done => slot[s].state = "CLOSING" /\ slot[s].easy = "none"

\* A response counted as completed was sent to the last unit that was appended, by a
\* write that ended then: nothing is left in the buffer that cleanup_connection frees.
CompletedIsFlushed ==
    [][\A s \in Slots : slot[s] # Unused /\ slot'[s] = Unused
          /\ peer'[slot[s].client] = "completed" =>
             \E w \in writes : /\ w.slot = s /\ w \notin writes'
                               /\ w.from + w.len = slot[s].appended]_vars

\* A request whose transfer ended with nothing to write is never looked at again;
\* nor is one that ended while another was started, if libcurl has nothing to do.
Leaked(s) ==
    /\ loop = "wait"
    /\ \/ slot[s].state = "CLOSING" /\ ~Busy(slot[s]) /\ ~Unsent(slot[s])
       \/ slot[s].easy \in {"ok", "failed"} /\ ~Running

\* A received connection is released in the end, unless it leaks.
Held(s) == slot[s].state \in {"CURL_PENDING", "CURL_ACTIVE", "CLOSING"} /\ phase # "stopped"
ReceivedIsReleased == \A s \in Slots : Held(s) ~> (~Held(s) \/ Leaked(s))
=============================================================================
