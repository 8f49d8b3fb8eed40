----------------------------- MODULE CurlEvents -----------------------------
(***************************************************************************)
(* The io_uring daemon in curl_multi mode: how libcurl's sockets and its   *)
(* timer are kept as polls and timeouts of the kernel (socket_callback,    *)
(* timer_callback).  What libcurl and the kernel do is external.           *)
(***************************************************************************)
EXTENDS Naturals, Sequences

CONSTANTS Fds,          \* numbers that a socket of libcurl gets
          Masks,        \* poll masks, without the empty one
          NoMask,       \* the empty mask
          MaxFiles,     \* bound: sockets that libcurl opens
          MaxTimers     \* bound: timer ids, far from their wrap-around

ASSUME EventsAssumption ==
    MaxFiles \in Nat /\ MaxTimers \in Nat /\ NoMask \notin Masks

VARIABLES round,        \* "wait", or "curl" while libcurl is called
          file,         \* the socket behind each number, 0 if there is none
          opened,       \* sockets opened so far
          wants,        \* libcurl: the mask it waits for, by number
          sockets,      \* mgr->sockets
          sq,           \* the submission queue, as far as libcurl is concerned
          polls,        \* multishot polls that the kernel has
          ended,        \* sockets whose poll the kernel has ended by itself
          wanted,       \* libcurl: the timer set for its next timeout, or 0
          timer_id, timer_active,   \* mgr->timer_id, mgr->timer_active
          timers,       \* timeouts that the kernel has
          timer_cqes    \* completions of timeouts, fired or removed

pollVars == <<file, opened, wants, sockets, polls, ended>>
timerVars == <<wanted, timer_id, timer_active, timers, timer_cqes>>
eventVars == <<round, sq, pollVars, timerVars>>

-----------------------------------------------------------------------------

Info(mask, active) == [poll_mask |-> mask, poll_active |-> active]
NoInfo == Info(NoMask, FALSE)
Poll(fd, f, mask) == [fd |-> fd, file |-> f, mask |-> mask]

\* ring_submit_poll_add, ring_submit_poll_cancel, ring_submit_curl_timeout,
\* ring_cancel_curl_timeout
PollAdd(fd, mask) == [op |-> "poll", fd |-> fd, mask |-> mask]
PollCancel(fd) == [op |-> "cancel", fd |-> fd]
Timeout(id) == [op |-> "timeout", id |-> id]
TimeoutRemove(id) == [op |-> "remove", id |-> id]

\* External: what the kernel does with one entry.  The number of a poll or a
\* cancellation is looked up when it is submitted; a number that is closed by then is
\* an error.
Kernel(k, e) ==
    CASE e.op = "poll" /\ file[e.fd] # 0 ->
            [k EXCEPT !.polls = @ \cup {Poll(e.fd, file[e.fd], e.mask)},
                      !.ended = @ \ {file[e.fd]}]
      [] e.op = "cancel" /\ file[e.fd] # 0 ->
            [k EXCEPT !.polls = {p \in @ : p.file # file[e.fd]}]
      [] e.op = "timeout" -> [k EXCEPT !.timers = @ \cup {e.id}]
      [] e.op = "remove" /\ e.id \in k.timers ->
            [k EXCEPT !.timers = @ \ {e.id}, !.cqes = @ \cup {[id |-> e.id, fired |-> FALSE]}]
      [] OTHER -> k

\* io_uring_submit: the entries in their order
Processed(entries) ==
    LET run[i \in 0..Len(entries)] ==
            IF i = 0 THEN [polls |-> polls, ended |-> ended, timers |-> timers, cqes |-> timer_cqes]
            ELSE Kernel(run[i - 1], entries[i])
    IN run[Len(entries)]

SubmitNow(entries) ==
    LET k == Processed(entries)
    IN /\ sq' = <<>>
       /\ polls' = k.polls /\ ended' = k.ended /\ timers' = k.timers /\ timer_cqes' = k.cqes

-----------------------------------------------------------------------------

EventsInit ==
    /\ round = "wait" /\ sq = <<>>
    /\ file = [fd \in Fds |-> 0] /\ opened = 0
    /\ wants = [fd \in Fds |-> NoMask] /\ sockets = [fd \in Fds |-> NoInfo]
    /\ polls = {} /\ ended = {}
    /\ wanted = 0 /\ timer_id = 0 /\ timer_active = FALSE
    /\ timers = {} /\ timer_cqes = {}

\* curl_manager_start_request calls libcurl.
Start ==
    /\ round = "wait" /\ round' = "curl"
    /\ UNCHANGED <<sq, pollVars, timerVars>>

\* External: libcurl opens a socket.
Opens(fd) ==
    /\ round = "curl" /\ file[fd] = 0 /\ opened < MaxFiles
    /\ opened' = opened + 1
    /\ file' = [file EXCEPT ![fd] = opened + 1]
    /\ UNCHANGED <<round, sq, wants, sockets, polls, ended, timerVars>>

\* Faulty variant: the poll that is there is not cancelled.
WaitsUncancelled(fd, mask) ==
    /\ round = "curl" /\ file[fd] # 0 /\ wants[fd] # mask
    /\ wants' = [wants EXCEPT ![fd] = mask]
    /\ sockets' = [sockets EXCEPT ![fd] = Info(mask, TRUE)]
    /\ SubmitNow(sq \o <<PollAdd(fd, mask)>>)
    /\ UNCHANGED <<round, file, opened, wanted, timer_id, timer_active>>

\* socket_callback with a new mask: the old poll is cancelled, the new one added, and
\* both are submitted.
Waits(fd, mask) ==
    LET old == sockets[fd].poll_active /\ sockets[fd].poll_mask # mask
    IN /\ round = "curl" /\ file[fd] # 0 /\ wants[fd] # mask
       /\ wants' = [wants EXCEPT ![fd] = mask]
       /\ sockets' = [sockets EXCEPT ![fd] = Info(mask, TRUE)]
       /\ SubmitNow(sq \o (IF old THEN <<PollCancel(fd)>> ELSE <<>>) \o <<PollAdd(fd, mask)>>)
       /\ UNCHANGED <<round, file, opened, wanted, timer_id, timer_active>>

\* socket_callback with CURL_POLL_REMOVE, after which libcurl keeps the socket for
\* another request or closes it.  The cancellation waits for the next submission.
Removes(fd, closes) ==
    /\ round = "curl" /\ wants[fd] # NoMask
    /\ wants' = [wants EXCEPT ![fd] = NoMask]
    /\ sq' = IF sockets[fd].poll_active THEN Append(sq, PollCancel(fd)) ELSE sq
    /\ sockets' = [sockets EXCEPT ![fd] = NoInfo]
    /\ file' = IF closes THEN [file EXCEPT ![fd] = 0] ELSE file
    /\ UNCHANGED <<round, opened, polls, ended, timerVars>>

\* External: libcurl closes a socket that it kept.
Closes(fd) ==
    /\ round = "curl" /\ file[fd] # 0 /\ wants[fd] = NoMask
    /\ file' = [file EXCEPT ![fd] = 0]
    /\ UNCHANGED <<round, sq, opened, wants, sockets, polls, ended, timerVars>>

\* timer_callback with -1
TimerOff ==
    /\ round = "curl" /\ wanted # 0
    /\ wanted' = 0
    /\ sq' = IF timer_active THEN Append(sq, TimeoutRemove(timer_id)) ELSE sq
    /\ timer_active' = FALSE
    /\ UNCHANGED <<round, pollVars, timer_id, timers, timer_cqes>>

\* Faulty variant: the id is advanced before the timer is cancelled.
TimerSetFirst ==
    /\ round = "curl" /\ timer_id < MaxTimers
    /\ timer_id' = timer_id + 1
    /\ wanted' = timer_id + 1 /\ timer_active' = TRUE
    /\ SubmitNow(sq \o <<Timeout(timer_id + 1)>>
                 \o (IF timer_active THEN <<TimeoutRemove(timer_id + 1)>> ELSE <<>>))
    /\ UNCHANGED <<round, file, opened, wants, sockets>>

\* timer_callback with a time, 0 being taken as 1
TimerSet ==
    /\ round = "curl" /\ timer_id < MaxTimers
    /\ timer_id' = timer_id + 1
    /\ wanted' = timer_id + 1 /\ timer_active' = TRUE
    /\ SubmitNow(sq \o (IF timer_active THEN <<TimeoutRemove(timer_id)>> ELSE <<>>)
                 \o <<Timeout(timer_id + 1)>>)
    /\ UNCHANGED <<round, file, opened, wants, sockets>>

Returns ==
    /\ round = "curl" /\ round' = "wait"
    /\ UNCHANGED <<sq, pollVars, timerVars>>

\* ring_submit at the end of a round
Submit ==
    /\ round = "wait" /\ sq # <<>>
    /\ SubmitNow(sq)
    /\ UNCHANGED <<round, file, opened, wants, sockets, wanted, timer_id, timer_active>>

\* handle_curl_poll; without more the kernel has ended the poll, and nothing adds it
\* again.
PollFires(p, more) ==
    /\ round = "wait" /\ round' = "curl"
    /\ polls' = IF more THEN polls ELSE polls \ {p}
    /\ ended' = IF more THEN ended ELSE ended \cup {p.file}
    /\ UNCHANGED <<sq, file, opened, wants, sockets, timerVars>>

\* External: a timeout is over.
TimerFires(id) ==
    /\ timers' = timers \ {id}
    /\ timer_cqes' = timer_cqes \cup {[id |-> id, fired |-> TRUE]}
    /\ UNCHANGED <<round, sq, pollVars, wanted, timer_id, timer_active>>

\* handle_curl_timeout, which does not ask which timeout it is, nor whether it was
\* removed; libcurl goes by the clock.
TimerHandled(e) ==
    /\ round = "wait" /\ round' = "curl"
    /\ timer_cqes' = timer_cqes \ {e}
    /\ timer_active' = FALSE
    /\ wanted' = IF e.fired /\ e.id = wanted THEN 0 ELSE wanted
    /\ UNCHANGED <<sq, pollVars, timer_id, timers>>

EventsNext ==
    \/ Start \/ Returns \/ Submit \/ TimerOff \/ TimerSet
    \/ \E fd \in Fds :
          \/ Opens(fd) \/ Closes(fd)
          \/ \E mask \in Masks : Waits(fd, mask)
          \/ \E closes \in BOOLEAN : Removes(fd, closes)
    \/ \E p \in polls, more \in BOOLEAN : PollFires(p, more)
    \/ \E id \in timers : TimerFires(id)
    \/ \E e \in timer_cqes : TimerHandled(e)

EventsSpec == EventsInit /\ [][EventsNext]_eventVars

-----------------------------------------------------------------------------

\* Types of all variables.
EventsTypeOK ==
    /\ round \in {"wait", "curl"} /\ timer_active \in BOOLEAN
    /\ file \in [Fds -> 0..MaxFiles] /\ opened \in 0..MaxFiles
    /\ wants \in [Fds -> Masks \cup {NoMask}]
    /\ sockets \in [Fds -> [poll_mask : Masks \cup {NoMask}, poll_active : BOOLEAN]]
    /\ polls \subseteq [fd : Fds, file : 1..MaxFiles, mask : Masks] /\ ended \subseteq 1..MaxFiles
    /\ wanted \in 0..MaxTimers /\ timer_id \in 0..MaxTimers /\ timers \subseteq 1..MaxTimers
    /\ timer_cqes \subseteq [id : 1..MaxTimers, fired : BOOLEAN]

\* What the kernel polls is what libcurl waits for: once all is submitted, an open
\* socket has the one poll that libcurl asked for last, and none when libcurl asked
\* for none, whichever sockets had its number before; unless the kernel ended it.
\* And every variable keeps its type.
PollsFollowWants ==
    /\ EventsTypeOK
    /\ round = "wait" /\ sq = <<>> =>
        \A fd \in Fds :
            LET have == {p.mask : p \in {q \in polls : q.file = file[fd]}}
                want == {wants[fd]} \ {NoMask}
            IN file[fd] # 0 => have = want \/ (file[fd] \in ended /\ have = {})

\* libcurl's next timeout is never lost: the timer set for it is in the kernel, or has
\* fired and is about to be handled, however completions of earlier ones come late.
TimeoutIsArmed ==
    wanted # 0 => wanted \in timers \/ [id |-> wanted, fired |-> TRUE] \in timer_cqes

\* A timer that is taken for active is libcurl's and still to be handled, so that the
\* next timer_callback never removes one that was not its own; stale ones that it does
\* not remove fire once and do nothing.
ActiveTimerIsWanted ==
    timer_active => timer_id = wanted /\ (timer_id \in timers
                                          \/ [id |-> timer_id, fired |-> TRUE] \in timer_cqes)

\* The kernel's timers serve libcurl's, whatever completions of removed and superseded
\* ones come between timer_callback and handle_curl_timeout.
TimerFollowsWants == TimeoutIsArmed /\ ActiveTimerIsWanted
=============================================================================
