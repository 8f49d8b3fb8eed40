---------------------------- MODULE StreamGauges ----------------------------
(***************************************************************************)
(* streaming_daemon.go: the accounting of streams in handleConnection, and *)
(* in BenchmarkStats for benchmark mode.  The counters are atomic; the     *)
(* gauges exported from them are set in a step of their own, and the peak  *)
(* is raised in a compare-and-swap loop.                                   *)
(***************************************************************************)
EXTENDS FiniteSets, Integers

CONSTANTS Streams        \* the goroutines that stream a response

ASSUME StreamsAssumption == IsFiniteSet(Streams)

VARIABLES benchmarkMode, \* -benchmark: counters only, no gauges; fixed at the start
          pc,            \* where each goroutine is in its accounting
          current,       \* its result of the atomic add
          seen,          \* its last load of peakStreams
          activeStreams,
          peakStreams,
          gaugeActive,   \* metricActiveStreams
          gaugePeak,     \* metricPeakStreams
          started,       \* totalStarted, benchmark mode only
          ended,         \* totalCompleted + totalFailed, benchmark mode only
          highest        \* history: the largest value of activeStreams so far

vars == <<benchmarkMode, pc, current, seen, activeStreams, peakStreams, gaugeActive,
          gaugePeak, started, ended, highest>>

gauges == <<gaugeActive, gaugePeak>>
totals == <<benchmarkMode, started, ended>>

Places == {"idle", "add", "gauge", "load", "cas", "gaugepeak", "streaming",
           "gaugeend", "count", "done"}

\* The counters are signed in the code, and never go below zero.
TypeOK ==
    /\ benchmarkMode \in BOOLEAN
    /\ pc \in [Streams -> Places]
    /\ current \in [Streams -> Nat]
    /\ seen \in [Streams -> Nat]
    /\ activeStreams \in Nat
    /\ peakStreams \in Nat
    /\ gaugeActive \in Nat
    /\ gaugePeak \in Nat
    /\ started \in Nat
    /\ ended \in Nat
    /\ highest \in Nat

Init ==
    /\ benchmarkMode \in BOOLEAN
    /\ pc = [s \in Streams |-> "idle"]
    /\ current = [s \in Streams |-> 0]
    /\ seen = [s \in Streams |-> 0]
    /\ activeStreams = 0
    /\ peakStreams = 0
    /\ gaugeActive = 0
    /\ gaugePeak = 0
    /\ started = 0
    /\ ended = 0
    /\ highest = 0

-----------------------------------------------------------------------------

Goto(s, place) == pc' = [pc EXCEPT ![s] = place]

\* streamStart: the total first.
CountStart(s) ==
    /\ pc[s] = "idle"
    /\ benchmarkMode
    /\ started' = started + 1
    /\ Goto(s, "add")
    /\ UNCHANGED <<benchmarkMode, current, seen, activeStreams, peakStreams, ended,
                   highest, gauges>>

\* atomic.AddInt64(&activeStreams, 1)
Add(s) ==
    /\ pc[s] = IF benchmarkMode THEN "add" ELSE "idle"
    /\ activeStreams' = activeStreams + 1
    /\ current' = [current EXCEPT ![s] = activeStreams + 1]
    /\ highest' = IF activeStreams + 1 > highest THEN activeStreams + 1 ELSE highest
    /\ Goto(s, IF benchmarkMode THEN "load" ELSE "gauge")
    /\ UNCHANGED <<seen, peakStreams, gauges, totals>>

\* metricActiveStreams.Set(current), at the start and at the end of a stream.
SetActive(s) ==
    /\ pc[s] \in {"gauge", "gaugeend"}
    /\ gaugeActive' = current[s]
    /\ Goto(s, IF pc[s] = "gauge" THEN "load" ELSE "done")
    /\ UNCHANGED <<current, seen, activeStreams, peakStreams, gaugePeak, highest,
                   totals>>

\* The loop: load the peak, and leave if it is high enough.
LoadPeak(s) ==
    /\ pc[s] = "load"
    /\ seen' = [seen EXCEPT ![s] = peakStreams]
    /\ Goto(s, IF current[s] <= peakStreams THEN "streaming" ELSE "cas")
    /\ UNCHANGED <<current, activeStreams, peakStreams, highest, gauges, totals>>

\* Faulty variant: a failed compare-and-swap is not tried again.
CompareAndSwapOnce(s) ==
    /\ pc[s] = "cas"
    /\ peakStreams' = IF peakStreams = seen[s] THEN current[s] ELSE peakStreams
    /\ Goto(s, IF benchmarkMode THEN "streaming" ELSE "gaugepeak")
    /\ UNCHANGED <<current, seen, activeStreams, highest, gauges, totals>>

\* atomic.CompareAndSwapInt64: on failure the loop starts over.
CompareAndSwap(s) ==
    /\ pc[s] = "cas"
    /\ \/ /\ peakStreams = seen[s]
          /\ peakStreams' = current[s]
          /\ Goto(s, IF benchmarkMode THEN "streaming" ELSE "gaugepeak")
       \/ /\ peakStreams # seen[s]
          /\ Goto(s, "load")
          /\ UNCHANGED peakStreams
    /\ UNCHANGED <<current, seen, activeStreams, highest, gauges, totals>>

\* metricPeakStreams.Set(current)
SetPeak(s) ==
    /\ pc[s] = "gaugepeak"
    /\ gaugePeak' = current[s]
    /\ Goto(s, "streaming")
    /\ UNCHANGED <<current, seen, activeStreams, peakStreams, gaugeActive, highest,
                   totals>>

\* Faulty variant: a stream is not counted down.
SubtractNothing(s) ==
    /\ pc[s] = "streaming"
    /\ Goto(s, IF benchmarkMode THEN "count" ELSE "gaugeend")
    /\ UNCHANGED <<current, seen, activeStreams, peakStreams, highest, gauges,
                   totals>>

\* The deferred accounting, also after a panic: atomic.AddInt64(.., -1).
Subtract(s) ==
    /\ pc[s] = "streaming"
    /\ activeStreams' = activeStreams - 1
    /\ current' = [current EXCEPT ![s] = activeStreams - 1]
    /\ Goto(s, IF benchmarkMode THEN "count" ELSE "gaugeend")
    /\ UNCHANGED <<seen, peakStreams, highest, gauges, totals>>

\* streamEnd: the stream is counted as completed or as failed.
CountEnd(s) ==
    /\ pc[s] = "count"
    /\ ended' = ended + 1
    /\ Goto(s, "done")
    /\ UNCHANGED <<benchmarkMode, current, seen, activeStreams, peakStreams,
                   started, highest, gauges>>

Finished ==
    /\ \A s \in Streams : pc[s] = "done"
    /\ UNCHANGED vars

Next ==
    \/ \E s \in Streams :
         \/ CountStart(s) \/ Add(s) \/ SetActive(s) \/ LoadPeak(s)
         \/ CompareAndSwap(s) \/ SetPeak(s) \/ Subtract(s) \/ CountEnd(s)
    \/ Finished

Spec == Init /\ [][Next]_vars

-----------------------------------------------------------------------------
(* Properties.                                                             *)

\* The streams that are on their way to raise the peak.
Raising == {s \in Streams : pc[s] \in {"gauge", "load", "cas"}}

\* peakStreams is the largest number of streams there have been at once, as soon
\* as no goroutine is in the loop, whatever the order in which the streams of a
\* burst got their numbers, read the peak and swapped it.
PeakIsHighest == Raising = {} => peakStreams = highest

\* The peak never goes down, also when a goroutine that was overtaken swaps late.
PeakNeverFalls == [][peakStreams' >= peakStreams]_vars

\* Every stream that has been counted is counted down again: at rest nothing is
\* active and, in benchmark mode, every started stream is in the summary.
AtRestNothingActive ==
    (\A s \in Streams : pc[s] \in {"idle", "done"})
      => activeStreams = 0 /\ started = ended

\* No gauge shows more streams than there have been: a goroutine publishes the
\* peak only after its own swap, and a count that was taken.
GaugesNotAhead == gaugePeak <= peakStreams /\ gaugeActive <= highest
=============================================================================
