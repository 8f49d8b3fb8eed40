---------------------------- MODULE ConnectRetry ----------------------------
(***************************************************************************)
(* The time budget of one handoff in mod_socket_handoff.c: the deadline    *)
(* computed by compute_handoff_deadline, the connect loop with its         *)
(* exponential backoff (connect_with_retry), and the wait for the send     *)
(* (send_fd_with_data).  Time is counted in milliseconds, the unit of      *)
(* every timeout in the code.  Each poll() or nanosleep() ends after any   *)
(* number of milliseconds up to the timeout it was given; everything else  *)
(* that makes the clock run (scheduling, a late wake-up, the syscalls      *)
(* themselves, the fraction of a millisecond that a timeout is cut by) is  *)
(* the action Delay, and its total is kept in late.                        *)
(***************************************************************************)
EXTENDS Integers

CONSTANTS MaxRetries,      \* SocketHandoffMaxRetries
          ConnectTimeout,  \* SocketHandoffConnectTimeoutMs
          SendTimeout,     \* SocketHandoffSendTimeoutMs
          Shl,             \* the C expression 1 << i, for the shifts that occur
          MaxLate,         \* bound: milliseconds of unplanned delay
          MaxSignals       \* bound: signals that interrupt a poll()

\* The ranges enforced by set_connect_timeout, set_send_timeout and
\* set_max_retries.
ASSUME ConfigAssumption ==
    /\ MaxRetries \in Nat /\ MaxRetries <= 10
    /\ ConnectTimeout \in Nat /\ 1 <= ConnectTimeout /\ ConnectTimeout <= 60000
    /\ SendTimeout \in Nat /\ 1 <= SendTimeout /\ SendTimeout <= 60000

\* 1 << i for i in 0..MaxRetries
ASSUME ShlAssumption ==
    /\ Shl \in [0..MaxRetries -> Nat]
    /\ Shl[0] = 1
    /\ \A i \in 0..(MaxRetries - 1) : Shl[i + 1] = 2 * Shl[i]

ASSUME BoundAssumption == MaxLate \in Nat /\ MaxSignals \in Nat

RETRY_BASE_DELAY_MS == 10
INT32_MAX == 2147483647

VARIABLES pc,        \* where the worker thread is
          attempt,   \* the loop counter of connect_with_retry
          now,       \* the clock, in ms; 0 when the deadline is computed
          deadline,  \* the absolute deadline
          wait,      \* the timeout handed to the poll() in progress
          late,      \* unplanned delay so far
          lag,       \* delay and restarted polls since the deadline was read
          sigs,      \* polls interrupted so far
          intr,      \* time spent in polls that EINTR restarted
          result     \* "none" until the handoff ends

vars == <<pc, attempt, now, deadline, wait, late, lag, sigs, intr, result>>

-----------------------------------------------------------------------------

Lesser(a, b) == IF a < b THEN a ELSE b

\* remaining_timeout_ms(deadline): 0 once the deadline has passed.  The clamp
\* to INT_MAX cannot act: a deadline is at most INT32_MAX ms away.
Remaining == IF now >= deadline THEN 0 ELSE deadline - now

\* Faulty variant: the last backoff of the loop left out.
BackoffTotalShort ==
    IF MaxRetries > 0
      THEN RETRY_BASE_DELAY_MS * (Shl[MaxRetries - 1] - 1)
      ELSE 0

\* The sum of all backoffs of the loop; the shift is capped at 30.
BackoffTotal ==
    IF MaxRetries > 0
      THEN RETRY_BASE_DELAY_MS * (Shl[Lesser(MaxRetries, 30)] - 1)
      ELSE 0

\* Faulty variant: the attempts counted without the first one.
TotalMsRetriesOnly ==
    LET sum == MaxRetries * ConnectTimeout + SendTimeout + BackoffTotal
    IN  IF sum < 1 THEN 1 ELSE Lesser(sum, INT32_MAX)

\* total_ms of compute_handoff_deadline, clamped to 1..INT32_MAX.
TotalMs ==
    LET sum == (MaxRetries + 1) * ConnectTimeout + SendTimeout + BackoffTotal
    IN  IF sum < 1 THEN 1 ELSE Lesser(sum, INT32_MAX)

\* delay_ms before retrying after the given attempt; the shift is capped at 20.
BackoffDelay(a) == RETRY_BASE_DELAY_MS * Shl[Lesser(a, 20)]

Init ==
    /\ pc = "start"
    /\ attempt = 0
    /\ now = 0
    /\ deadline = 0
    /\ wait = 0
    /\ late = 0
    /\ lag = 0
    /\ sigs = 0
    /\ intr = 0
    /\ result = "none"

\* The filter computes the deadline and enters connect_with_retry.
ComputeDeadline ==
    /\ pc = "start"
    /\ deadline' = now + TotalMs
    /\ pc' = "loop"
    /\ UNCHANGED <<attempt, now, wait, late, lag, sigs, intr, result>>

\* Top of the for loop: give up at the deadline, otherwise connect with the
\* smaller of the connect timeout and what is left.
LoopTop ==
    /\ pc = "loop"
    /\ \/ /\ Remaining <= 0
          /\ pc' = "done"
          /\ result' = "deadline"
          /\ UNCHANGED <<wait, lag>>
       \/ /\ Remaining > 0
          /\ pc' = "connecting"
          /\ wait' = Lesser(Remaining, ConnectTimeout)
          /\ lag' = 0
          /\ UNCHANGED result
    /\ UNCHANGED <<attempt, now, deadline, late, sigs, intr>>

\* connect_to_socket returns a connected socket after d milliseconds.
ConnectOk ==
    /\ pc = "connecting"
    /\ \E d \in 0..wait : now' = now + d
    /\ pc' = "send"
    /\ UNCHANGED <<attempt, deadline, wait, late, lag, sigs, intr, result>>

\* connect_to_socket fails with ENOENT or ECONNREFUSED (is_transient_error):
\* back off and retry, unless this was the final attempt.
ConnectTransient ==
    /\ pc = "connecting"
    /\ \E d \in 0..wait : now' = now + d
    /\ \/ /\ attempt >= MaxRetries
          /\ pc' = "done"
          /\ result' = "exhausted"
       \/ /\ attempt < MaxRetries
          /\ pc' = "backoff"
          /\ UNCHANGED result
    /\ UNCHANGED <<attempt, deadline, wait, late, lag, sigs, intr>>

\* connect_to_socket fails with any other error, or times out: never retried.
ConnectFatal ==
    /\ pc = "connecting"
    /\ \E d \in 0..wait : now' = now + d
    /\ pc' = "done"
    /\ result' = "refused"
    /\ UNCHANGED <<attempt, deadline, wait, late, lag, sigs, intr>>

\* Faulty variant: the retry is not counted.
BackoffUncounted ==
    /\ pc = "backoff"
    /\ \/ /\ Remaining <= 0
          /\ pc' = "done"
          /\ result' = "deadline"
          /\ UNCHANGED <<now, lag>>
       \/ /\ Remaining > 0
          /\ \E d \in 0..Lesser(BackoffDelay(attempt), Remaining) : now' = now + d
          /\ lag' = 0
          /\ pc' = "loop"
          /\ UNCHANGED result
    /\ UNCHANGED <<attempt, deadline, wait, late, sigs, intr>>

\* The backoff: nanosleep() for the exponential delay, cut to what is left.
\* A signal may end the sleep early; it is not resumed.
Backoff ==
    /\ pc = "backoff"
    /\ \/ /\ Remaining <= 0
          /\ pc' = "done"
          /\ result' = "deadline"
          /\ UNCHANGED <<attempt, now, lag>>
       \/ /\ Remaining > 0
          /\ \E d \in 0..Lesser(BackoffDelay(attempt), Remaining) : now' = now + d
          /\ attempt' = attempt + 1
          /\ lag' = 0
          /\ pc' = "loop"
          /\ UNCHANGED result
    /\ UNCHANGED <<deadline, wait, late, sigs, intr>>

\* Faulty variant: the wait is not cut to what is left.
SendTopUncut ==
    /\ pc = "send"
    /\ pc' = "sending"
    /\ wait' = SendTimeout
    /\ lag' = 0
    /\ UNCHANGED <<attempt, now, deadline, late, sigs, intr, result>>

\* send_fd_with_data computes how long it may wait for the socket.
SendTop ==
    /\ pc = "send"
    /\ \/ /\ Remaining <= 0
          /\ pc' = "done"
          /\ result' = "deadline"
          /\ UNCHANGED <<wait, lag>>
       \/ /\ Remaining > 0
          /\ pc' = "sending"
          /\ wait' = Lesser(Remaining, SendTimeout)
          /\ lag' = 0
          /\ UNCHANGED result
    /\ UNCHANGED <<attempt, now, deadline, late, sigs, intr>>

\* wait_for_write returns and sendmsg() succeeds, or one of them fails.
SendResult ==
    /\ pc = "sending"
    /\ \E d \in 0..wait : now' = now + d
    /\ pc' = "done"
    /\ result' \in {"sent", "sendfail"}
    /\ UNCHANGED <<attempt, deadline, wait, late, lag, sigs, intr>>

\* A signal interrupts the poll() of connect_to_socket or wait_for_write after
\* d milliseconds; the do-while loop calls poll() again with the same timeout.
PollInterrupted ==
    /\ pc \in {"connecting", "sending"}
    /\ sigs < MaxSignals
    /\ sigs' = sigs + 1
    /\ \E d \in 0..wait :
         now' = now + d /\ intr' = intr + d /\ lag' = lag + d
    /\ UNCHANGED <<pc, attempt, deadline, wait, late, result>>

\* The clock runs while the worker is not in a timed wait, or a timed wait
\* ends later than asked for.
Delay ==
    /\ pc \notin {"start", "done"}
    /\ late < MaxLate
    /\ now' = now + 1
    /\ late' = late + 1
    /\ lag' = lag + 1
    /\ UNCHANGED <<pc, attempt, deadline, wait, sigs, intr, result>>

Finished == pc = "done" /\ UNCHANGED vars

WorkerStep ==
    \/ ComputeDeadline
    \/ LoopTop
    \/ ConnectOk
    \/ ConnectTransient
    \/ ConnectFatal
    \/ Backoff
    \/ SendTop
    \/ SendResult

Next == WorkerStep \/ PollInterrupted \/ Delay \/ Finished

\* The worker is an Apache thread: it is scheduled, and every poll() and
\* nanosleep() it makes has a timeout and returns.
Spec == Init /\ [][Next]_vars /\ WF_vars(WorkerStep)

-----------------------------------------------------------------------------

TypeOK ==
    /\ pc \in {"start", "loop", "connecting", "backoff", "send", "sending", "done"}
    /\ attempt \in 0..MaxRetries
    /\ now \in Nat
    /\ deadline \in Nat
    /\ wait \in Nat
    /\ late \in 0..MaxLate
    /\ lag \in Nat
    /\ sigs \in 0..MaxSignals
    /\ intr \in Nat
    /\ result \in {"none", "deadline", "exhausted", "refused", "sent", "sendfail"}

\* However the connect attempts and the backoffs went, the wait for the send
\* gets the whole configured send timeout, short only of the time the thread
\* lost to unplanned delays: the budget of compute_handoff_deadline covers
\* every attempt and every backoff of connect_with_retry.
SendBudget ==
    pc = "sending" => wait >= SendTimeout - late - intr

\* The configured retries are never cut short by the deadline itself: a
\* handoff that fails on the deadline has lost time to unplanned delays.
NoSpuriousExpiry ==
    result = "deadline" => late + intr > 0

\* No wait is planned past the deadline of compute_handoff_deadline: however
\* much time was lost before, the worker overshoots the deadline only by what
\* it has lost since it last looked at the clock.
DeadlineHolds ==
    pc # "start" => now <= deadline + lag

\* Whatever the daemon does, the worker gets out of the connect and send code.
Terminates == <>(pc = "done")
=============================================================================
