------------------------- MODULE ConnectRetryProofs -------------------------
(***************************************************************************)
(* TLAPS proofs about ConnectRetry, for every configuration that the       *)
(* directives of mod_socket_handoff.c accept and any amount of delay.      *)
(***************************************************************************)
EXTENDS ConnectRetry, TLAPS

\* The most that n connect attempts can take.
AttemptsTime(n) == n * ConnectTimeout

\* The most that n attempts and the backoffs before attempt a can take.
Planned(n, a) == AttemptsTime(n) + RETRY_BASE_DELAY_MS * (Shl[a] - 1)

\* The time spent in the waits that the code planned.
Spent == now - late - intr

\* The bound on the planned time at each place of the worker.
SpentBound ==
    /\ pc \in {"loop", "connecting"} => Spent <= Planned(attempt, attempt)
    /\ pc \in {"backoff", "send"} => Spent <= Planned(attempt + 1, attempt)

\* A wait in progress ends by the deadline, but for the lag since it began.
WaitBound ==
    /\ pc = "connecting" => wait <= ConnectTimeout
    /\ pc \in {"connecting", "sending"} => now + wait <= deadline + lag

\* The inductive invariant.
IInv ==
    /\ TypeOK
    /\ pc = "start" => now = 0 /\ late = 0 /\ lag = 0 /\ intr = 0 /\ attempt = 0
                       /\ result = "none"
    /\ pc # "start" => deadline = Planned(MaxRetries + 1, MaxRetries) + SendTimeout
    /\ pc = "backoff" => attempt < MaxRetries
    /\ SpentBound
    /\ WaitBound
    /\ SendBudget
    /\ NoSpuriousExpiry
    /\ DeadlineHolds

USE DEF RETRY_BASE_DELAY_MS

-----------------------------------------------------------------------------

\* The assumptions on the configuration, without their large numbers.
LEMMA ConfigFacts ==
    /\ MaxRetries \in Nat
    /\ MaxRetries <= 10
    /\ ConnectTimeout \in Nat
    /\ SendTimeout \in Nat
    /\ SendTimeout > 0
  BY ConfigAssumption, SMT

\* The shifts that occur, which the limit on MaxRetries keeps small.
LEMMA ShlValues ==
    \A i \in 0..MaxRetries :
        \/ i = 0 /\ Shl[i] = 1
        \/ i = 1 /\ Shl[i] = 2
        \/ i = 2 /\ Shl[i] = 4
        \/ i = 3 /\ Shl[i] = 8
        \/ i = 4 /\ Shl[i] = 16
        \/ i = 5 /\ Shl[i] = 32
        \/ i = 6 /\ Shl[i] = 64
        \/ i = 7 /\ Shl[i] = 128
        \/ i = 8 /\ Shl[i] = 256
        \/ i = 9 /\ Shl[i] = 512
        \/ i = 10 /\ Shl[i] = 1024
  <1>1. \A i \in Nat : i < MaxRetries => Shl[i + 1] = 2 * Shl[i]
    BY ConfigFacts, ShlAssumption
  <1>2. Shl[0] = 1 /\ (0 < MaxRetries => Shl[0 + 1] = 2)
    BY <1>1, ConfigFacts, ShlAssumption
  <1>3. /\ 1 < MaxRetries => Shl[1 + 1] = 2 * Shl[1]
        /\ 2 < MaxRetries => Shl[2 + 1] = 2 * Shl[2]
        /\ 3 < MaxRetries => Shl[3 + 1] = 2 * Shl[3]
        /\ 4 < MaxRetries => Shl[4 + 1] = 2 * Shl[4]
        /\ 5 < MaxRetries => Shl[5 + 1] = 2 * Shl[5]
        /\ 6 < MaxRetries => Shl[6 + 1] = 2 * Shl[6]
        /\ 7 < MaxRetries => Shl[7 + 1] = 2 * Shl[7]
        /\ 8 < MaxRetries => Shl[8 + 1] = 2 * Shl[8]
        /\ 9 < MaxRetries => Shl[9 + 1] = 2 * Shl[9]
    BY ONLY <1>1
  <1>4. \A i \in 0..MaxRetries : i \in {0, 1, 2, 3, 4, 5, 6, 7, 8, 9, 10}
    BY ConfigFacts
  <1>5. QED
    BY SMTT(30), <1>2, <1>3, <1>4, ConfigFacts, ShlAssumption

\* Shifts are positive, at most 1024, and grow.
LEMMA ShlBounds ==
    /\ \A i \in 0..MaxRetries : 1 <= Shl[i] /\ Shl[i] <= 1024
    /\ \A i, j \in 0..MaxRetries : i <= j => Shl[i] <= Shl[j]
  BY ShlValues, ConfigFacts

\* One more attempt takes one more connect timeout.
LEMMA AttemptsTimeStep ==
    ASSUME NEW a \in Nat
    PROVE  /\ AttemptsTime(a) \in Nat
           /\ AttemptsTime(a + 1) = AttemptsTime(a) + ConnectTimeout
  BY ConfigFacts DEF AttemptsTime

\* More attempts take no less time.
LEMMA AttemptsTimeMonotone ==
    ASSUME NEW a \in Nat, NEW b \in Nat, a <= b
    PROVE  AttemptsTime(a) <= AttemptsTime(b)
  <1>1. ConnectTimeout \in Nat
    BY ConfigFacts
  <1>2. b - a \in Nat
    OBVIOUS
  <1>3. (b - a) * ConnectTimeout \in Nat
    BY <1>1, <1>2
  <1>4. (b - a) * ConnectTimeout = b * ConnectTimeout - a * ConnectTimeout
    BY <1>1
  <1>5. a * ConnectTimeout \in Nat /\ b * ConnectTimeout \in Nat
    BY <1>1
  <1>6. QED
    BY <1>3, <1>4, <1>5 DEF AttemptsTime

\* What the attempts before the last and their backoffs take is at most what
\* the deadline of compute_handoff_deadline sets aside for them.
LEMMA PlannedBounds ==
    ASSUME NEW a \in 0..MaxRetries
    PROVE  /\ Planned(a, a) \in Nat
           /\ Planned(a + 1, a) = Planned(a, a) + ConnectTimeout
           /\ Planned(a + 1, a) <= Planned(MaxRetries + 1, MaxRetries)
           /\ a < MaxRetries =>
                Planned(a + 1, a + 1) = Planned(a + 1, a) + BackoffDelay(a)
  <1>1. /\ Shl[a] \in Nat /\ 1 <= Shl[a]
        /\ Shl[MaxRetries] \in Nat
        /\ Shl[a] <= Shl[MaxRetries]
    BY ConfigFacts, ShlAssumption, ShlBounds
  <1>2. a < MaxRetries => Shl[a + 1] = 2 * Shl[a]
    BY ConfigFacts, ShlAssumption
  <1>3. /\ AttemptsTime(a) \in Nat
        /\ AttemptsTime(a + 1) = AttemptsTime(a) + ConnectTimeout
        /\ AttemptsTime(MaxRetries + 1) \in Nat
        /\ AttemptsTime(a + 1) <= AttemptsTime(MaxRetries + 1)
    <2>1. a \in Nat /\ a + 1 \in Nat /\ MaxRetries + 1 \in Nat /\ a + 1 <= MaxRetries + 1
      BY ConfigFacts
    <2>2. QED
      BY <2>1, AttemptsTimeStep, AttemptsTimeMonotone
  <1>4. Lesser(a, 20) = a
    BY ConfigFacts DEF Lesser
  <1>5. QED
    BY <1>1, <1>2, <1>3, <1>4, ConfigFacts DEF Planned, BackoffDelay

\* The clamps of compute_handoff_deadline never act on an accepted
\* configuration: the deadline is the sum of all timeouts and backoffs.
LEMMA TotalMsExact ==
    /\ TotalMs = Planned(MaxRetries + 1, MaxRetries) + SendTimeout
    /\ TotalMs \in Nat
  <1>1. /\ Shl[MaxRetries] \in Nat /\ 1 <= Shl[MaxRetries] /\ Shl[MaxRetries] <= 1024
        /\ MaxRetries = 0 => Shl[MaxRetries] = 1
        /\ Lesser(MaxRetries, 30) = MaxRetries
    BY ConfigFacts, ShlAssumption, ShlBounds DEF Lesser
  <1>2. BackoffTotal = 10 * (Shl[MaxRetries] - 1)
    BY <1>1, ConfigFacts DEF BackoffTotal
  <1>3. AttemptsTime(MaxRetries + 1) \in Nat /\ AttemptsTime(MaxRetries + 1) <= 660000
    <2>1. MaxRetries + 1 \in Nat /\ 11 \in Nat /\ MaxRetries + 1 <= 11
      BY ConfigFacts
    <2>2. AttemptsTime(11) <= 660000
      BY ConfigAssumption, SMT DEF AttemptsTime
    <2>3. AttemptsTime(11) \in Nat
      BY AttemptsTimeStep
    <2>4. AttemptsTime(MaxRetries + 1) \in Nat
      BY <2>1, AttemptsTimeStep
    <2>5. AttemptsTime(MaxRetries + 1) <= AttemptsTime(11)
      BY <2>1, AttemptsTimeMonotone
    <2>6. QED
      BY <2>2, <2>3, <2>4, <2>5, SMT
  <1>4. DEFINE sum == AttemptsTime(MaxRetries + 1) + SendTimeout + BackoffTotal
  <1>5. TotalMs = IF sum < 1 THEN 1 ELSE Lesser(sum, INT32_MAX)
    BY DEF TotalMs, AttemptsTime
  <1>6. /\ sum = Planned(MaxRetries + 1, MaxRetries) + SendTimeout
        /\ sum \in Nat
        /\ sum >= 1
        /\ sum < INT32_MAX
    BY <1>1, <1>2, <1>3, ConfigAssumption, SMT DEF Planned, INT32_MAX
  <1>7. TotalMs = sum
    <2> HIDE DEF sum
    <2>1. QED
      BY <1>5, <1>6, SMT DEF Lesser, INT32_MAX
  <1>8. QED
    BY <1>6, <1>7

-----------------------------------------------------------------------------

\* The invariant holds when the filter starts a handoff.
LEMMA InitIInv == Init => IInv
  BY ConfigFacts, BoundAssumption
     DEF Init, IInv, TypeOK, SpentBound, WaitBound, SendBudget, NoSpuriousExpiry,
         DeadlineHolds

\* Every step of the worker, of a signal or of the clock keeps the invariant.
LEMMA NextIInv == IInv /\ [Next]_vars => IInv'
  <1> SUFFICES ASSUME IInv, [Next]_vars PROVE IInv'
    OBVIOUS
  <1> USE ConfigFacts, BoundAssumption
  <1> DEFINE Total == Planned(MaxRetries + 1, MaxRetries) + SendTimeout
  <1>0. /\ attempt \in 0..MaxRetries
        /\ Planned(attempt, attempt) \in Nat
        /\ Planned(attempt + 1, attempt) = Planned(attempt, attempt) + ConnectTimeout
        /\ Planned(attempt + 1, attempt) <= Planned(MaxRetries + 1, MaxRetries)
        /\ attempt < MaxRetries =>
             Planned(attempt + 1, attempt + 1)
               = Planned(attempt + 1, attempt) + BackoffDelay(attempt)
        /\ TotalMs = Total /\ Total \in Nat
        /\ Planned(MaxRetries + 1, MaxRetries) \in Int
    <2>1. attempt \in 0..MaxRetries
      BY DEF IInv, TypeOK
    <2>2. MaxRetries \in 0..MaxRetries
      OBVIOUS
    <2>3. Planned(MaxRetries + 1, MaxRetries) \in Int
      BY <2>2, PlannedBounds
    <2>4. QED
      BY <2>1, <2>3, PlannedBounds, TotalMsExact
  <1>1. CASE ComputeDeadline
    BY <1>1, <1>0
       DEF ComputeDeadline, IInv, TypeOK, SpentBound, WaitBound, SendBudget,
           NoSpuriousExpiry, DeadlineHolds, Spent
  <1>2. CASE LoopTop
    BY <1>2, <1>0
       DEF LoopTop, IInv, TypeOK, SpentBound, WaitBound, SendBudget,
           NoSpuriousExpiry, DeadlineHolds, Spent, Remaining, Lesser
  <1>3. CASE ConnectOk
    BY <1>3, <1>0
       DEF ConnectOk, IInv, TypeOK, SpentBound, WaitBound, SendBudget,
           NoSpuriousExpiry, DeadlineHolds, Spent
  <1>4. CASE ConnectTransient
    BY <1>4, <1>0
       DEF ConnectTransient, IInv, TypeOK, SpentBound, WaitBound, SendBudget,
           NoSpuriousExpiry, DeadlineHolds, Spent
  <1>5. CASE ConnectFatal
    BY <1>5, <1>0
       DEF ConnectFatal, IInv, TypeOK, SpentBound, WaitBound, SendBudget,
           NoSpuriousExpiry, DeadlineHolds, Spent
  <1>6. CASE Backoff
    <2>1. /\ pc = "backoff" /\ attempt < MaxRetries /\ now \in Nat
          /\ Spent <= Planned(attempt + 1, attempt)
          /\ UNCHANGED <<deadline, wait, late, sigs, intr>>
      BY <1>6 DEF Backoff, IInv, TypeOK, SpentBound
    <2>2. BackoffDelay(attempt) \in Nat
      <3>1. attempt \in 0..MaxRetries /\ Lesser(attempt, 20) = attempt
        BY <1>0 DEF Lesser
      <3>2. QED
        BY <3>1, ShlAssumption, ShlBounds DEF BackoffDelay
    <2>3. CASE Remaining <= 0
      BY <1>6, <1>0, <2>1, <2>3
         DEF Backoff, IInv, TypeOK, SpentBound, WaitBound, SendBudget,
             NoSpuriousExpiry, DeadlineHolds, Spent, Remaining
    <2>4. CASE Remaining > 0
      <3>1. PICK d \in 0..Lesser(BackoffDelay(attempt), Remaining) : now' = now + d
        BY <1>6, <2>1, <2>4 DEF Backoff, IInv, TypeOK, Remaining
      <3>2. /\ attempt' = attempt + 1 /\ lag' = 0 /\ pc' = "loop" /\ result' = result
        BY <1>6, <2>1, <2>4 DEF Backoff, IInv, TypeOK, Remaining
      <3>3. d \in Nat /\ d <= BackoffDelay(attempt) /\ now + d <= deadline
        BY <3>1, <2>1, <2>2, <2>4 DEF Lesser, Remaining, IInv, TypeOK
      <3>4. Planned(attempt', attempt') = Planned(attempt + 1, attempt) + BackoffDelay(attempt)
        BY <3>2, <2>1, <1>0
      <3>5. Spent' <= Planned(attempt', attempt')
        BY <3>1, <3>3, <3>4, <2>1, <2>2, <1>0 DEF Spent, IInv, TypeOK
      <3>6. QED
        BY <3>1, <3>2, <3>3, <3>5, <2>1
           DEF IInv, TypeOK, SpentBound, WaitBound, SendBudget, NoSpuriousExpiry,
               DeadlineHolds
    <2>5. QED
      BY <2>3, <2>4 DEF Remaining, IInv, TypeOK
  <1>7. CASE SendTop
    BY <1>7, <1>0
       DEF SendTop, IInv, TypeOK, SpentBound, WaitBound, SendBudget,
           NoSpuriousExpiry, DeadlineHolds, Spent, Remaining, Lesser
  <1>8. CASE SendResult
    BY <1>8, <1>0
       DEF SendResult, IInv, TypeOK, SpentBound, WaitBound, SendBudget,
           NoSpuriousExpiry, DeadlineHolds, Spent
  <1>9. CASE PollInterrupted
    BY <1>9, <1>0
       DEF PollInterrupted, IInv, TypeOK, SpentBound, WaitBound, SendBudget,
           NoSpuriousExpiry, DeadlineHolds, Spent
  <1>10. CASE Delay
    BY <1>10, <1>0
       DEF Delay, IInv, TypeOK, SpentBound, WaitBound, SendBudget,
           NoSpuriousExpiry, DeadlineHolds, Spent
  <1>11. CASE UNCHANGED vars
    BY <1>11 DEF vars, IInv, TypeOK, SpentBound, WaitBound, SendBudget,
           NoSpuriousExpiry, DeadlineHolds, Spent
  <1>12. QED
    BY <1>1, <1>2, <1>3, <1>4, <1>5, <1>6, <1>7, <1>8, <1>9, <1>10, <1>11
       DEF Next, WorkerStep, Finished

-----------------------------------------------------------------------------

\* The invariant holds in every reachable state.
LEMMA AlwaysIInv == Spec => []IInv
  BY InitIInv, NextIInv, PTL DEF Spec

\* Every variable of the handoff keeps its type; in particular the loop never
\* makes more than MaxRetries + 1 attempts.
THEOREM TypeCorrect == Spec => []TypeOK
  <1>1. IInv => TypeOK
    BY DEF IInv
  <1>2. QED
    BY AlwaysIInv, <1>1, PTL

\* With any accepted configuration the send gets its whole timeout, short only
\* of unplanned delay (compute_handoff_deadline against connect_with_retry).
THEOREM SendBudgetHolds == Spec => []SendBudget
  <1>1. IInv => SendBudget
    BY DEF IInv
  <1>2. QED
    BY AlwaysIInv, <1>1, PTL

\* With any accepted configuration the deadline itself never cuts a retry short.
THEOREM NoSpuriousExpiryHolds == Spec => []NoSpuriousExpiry
  <1>1. IInv => NoSpuriousExpiry
    BY DEF IInv
  <1>2. QED
    BY AlwaysIInv, <1>1, PTL

\* No connect, backoff or send is planned past the deadline.
THEOREM DeadlineAlwaysHolds == Spec => []DeadlineHolds
  <1>1. IInv => DeadlineHolds
    BY DEF IInv
  <1>2. QED
    BY AlwaysIInv, <1>1, PTL
=============================================================================
