------------------------- MODULE StreamGaugesProofs -------------------------
(***************************************************************************)
(* The counters of the Go daemon's streams are right for any number of     *)
(* streams: at rest all are counted down again, the peak is the highest    *)
(* count once nobody is in the compare-and-swap loop, and it never falls.  *)
(***************************************************************************)
EXTENDS StreamGauges, FiniteSetTheorems, TLAPS

\* The streams at some of the places.
In(p, A) == {s \in Streams : p[s] \in A}

\* The streams in activeStreams, and those in totalStarted but not yet in the totals
\* of streamEnd.
Counted == {"gauge", "load", "cas", "gaugepeak", "streaming"}
Open == Counted \cup {"add", "gaugeend", "count"}

TypeInv ==
    /\ benchmarkMode \in BOOLEAN
    /\ pc \in [Streams -> Places]
    /\ current \in [Streams -> Nat]
    /\ seen \in [Streams -> Nat]
    /\ peakStreams \in Nat
    /\ gaugeActive \in Nat
    /\ gaugePeak \in Nat
    /\ ended \in Nat
    /\ highest \in Nat

\* The counters are the numbers of streams at the places between their steps.
CountInv ==
    /\ activeStreams = Cardinality(In(pc, Counted))
    /\ started = ended + (IF benchmarkMode THEN Cardinality(In(pc, Open)) ELSE 0)
    /\ \A s \in Streams :
          /\ pc[s] \in {"add", "count"} => benchmarkMode
          /\ pc[s] \in {"gauge", "gaugeend"} => ~benchmarkMode

\* No count that was taken is above the highest, a goroutine swaps only upwards, and
\* the highest is in the peak or on its way into it.
PeakInv ==
    /\ activeStreams <= highest /\ peakStreams <= highest
    /\ gaugePeak <= peakStreams /\ gaugeActive <= highest
    /\ \A s \in Streams :
          /\ current[s] <= highest
          /\ pc[s] = "cas" => seen[s] <= peakStreams /\ seen[s] < current[s]
          /\ pc[s] = "gaugepeak" => current[s] <= peakStreams
    /\ highest <= peakStreams \/ \E s \in Raising : current[s] = highest

IInv == TypeInv /\ CountInv /\ PeakInv

-----------------------------------------------------------------------------

\* A stream that moves changes the number of those at some places by one at most.
LEMMA Moves ==
    ASSUME NEW p \in [Streams -> Places], NEW s \in Streams, NEW x \in Places, NEW A
    PROVE  LET q == [p EXCEPT ![s] = x] IN
           /\ Cardinality(In(p, A)) \in Nat
           /\ p[s] \in A => Cardinality(In(p, A)) >= 1
           /\ (p[s] \in A <=> x \in A) => Cardinality(In(q, A)) = Cardinality(In(p, A))
           /\ p[s] \in A /\ x \notin A => Cardinality(In(q, A)) = Cardinality(In(p, A)) - 1
           /\ p[s] \notin A /\ x \in A => Cardinality(In(q, A)) = Cardinality(In(p, A)) + 1
<1> DEFINE q == [p EXCEPT ![s] = x]
<1>1. IsFiniteSet(In(p, A)) /\ Cardinality(In(p, A)) \in Nat
  BY StreamsAssumption, FS_Subset, FS_CardinalityType DEF In
<1>2. p[s] \in A => Cardinality(In(p, A)) >= 1
  <2>1. p[s] \in A => s \in In(p, A)
    BY DEF In
  <2> QED
    BY <1>1, <2>1, FS_EmptySet
<1>3. In(q, A) = IF x \in A THEN In(p, A) \cup {s} ELSE In(p, A) \ {s}
  BY DEF In
<1>4. s \in In(p, A) <=> p[s] \in A
  BY DEF In
<1>5. CASE x \in A
  BY <1>1, <1>2, <1>3, <1>4, <1>5, FS_AddElement
<1>6. CASE x \notin A
  <2>1. Cardinality(In(q, A)) = IF s \in In(p, A) THEN Cardinality(In(p, A)) - 1
                                                ELSE Cardinality(In(p, A))
    BY <1>1, <1>3, <1>6, FS_RemoveElement
  <2> QED
    BY <1>1, <1>2, <1>4, <1>6, <2>1
<1> QED
  BY <1>5, <1>6

\* The same of a step that moves a stream.
LEMMA Counts ==
    ASSUME IInv, NEW s \in Streams, NEW x \in Places, Goto(s, x), NEW A
    PROVE  /\ Cardinality(In(pc, A)) \in Nat
           /\ pc[s] \in A => Cardinality(In(pc, A)) >= 1
           /\ (pc[s] \in A <=> x \in A) => Cardinality(In(pc', A)) = Cardinality(In(pc, A))
           /\ pc[s] \in A /\ x \notin A => Cardinality(In(pc', A)) = Cardinality(In(pc, A)) - 1
           /\ pc[s] \notin A /\ x \in A => Cardinality(In(pc', A)) = Cardinality(In(pc, A)) + 1
<1>1. pc \in [Streams -> Places] /\ pc' = [pc EXCEPT ![s] = x]
  BY DEF IInv, TypeInv, Goto
<1> QED
  BY ZenonT(40), <1>1, Moves

-----------------------------------------------------------------------------

\* The counters start at zero, with no stream in any of the places.
LEMMA InitInv == Init => IInv
<1> SUFFICES ASSUME Init PROVE IInv
  OBVIOUS
<1>1. TypeInv
  BY DEF Init, TypeInv, Places
<1>2. In(pc, Counted) = {} /\ In(pc, Open) = {}
  BY DEF Init, In, Counted, Open
<1>3. CountInv
  BY <1>2, FS_EmptySet DEF Init, CountInv
<1>4. PeakInv
  BY DEF Init, PeakInv
<1> QED
  BY <1>1, <1>3, <1>4 DEF IInv

\* Each atomic step of the accounting keeps the counts and the peak together.
LEMMA StepInv == IInv /\ [Next]_vars => IInv'
<1> SUFFICES ASSUME IInv, [Next]_vars PROVE IInv'
  OBVIOUS
<1>0. TypeInv /\ CountInv /\ PeakInv
  BY DEF IInv
<1>1. ASSUME NEW s \in Streams, CountStart(s) PROVE IInv'
  <2>1. TypeInv'
    BY <1>0, <1>1 DEF TypeInv, CountStart, Goto, Places, gauges
  <2>2. CountInv'
    <3>1. Goto(s, "add") /\ "add" \in Places /\ pc[s] = "idle"
      BY <1>1 DEF CountStart, Places
    <3>2. /\ Cardinality(In(pc', Counted)) = Cardinality(In(pc, Counted))
          /\ Cardinality(In(pc', Open)) = Cardinality(In(pc, Open)) + 1
          /\ Cardinality(In(pc, Open)) \in Nat
      BY <3>1, Counts DEF Counted, Open
    <3> QED
      BY <1>0, <1>1, <3>2 DEF CountInv, TypeInv, CountStart, Goto
  <2>3. PeakInv'
    BY <1>0, <1>1 DEF PeakInv, TypeInv, CountStart, Goto, gauges, Raising
  <2> QED
    BY <2>1, <2>2, <2>3 DEF IInv
<1>2. ASSUME NEW s \in Streams, Add(s) PROVE IInv'
  <2> DEFINE x == IF benchmarkMode THEN "load" ELSE "gauge"
  <2>1. Goto(s, x) /\ x \in Places /\ pc[s] = (IF benchmarkMode THEN "add" ELSE "idle")
    BY <1>2 DEF Add, Places
  <2>2. /\ Cardinality(In(pc', Counted)) = Cardinality(In(pc, Counted)) + 1
        /\ Cardinality(In(pc, Counted)) \in Nat
        /\ benchmarkMode => Cardinality(In(pc', Open)) = Cardinality(In(pc, Open))
    BY <2>1, Counts DEF Counted, Open
  <2>3. activeStreams \in Nat /\ activeStreams' = activeStreams + 1
    BY <1>0, <1>2, <2>2 DEF CountInv, Add
  <2>4. TypeInv'
    BY <1>0, <1>2, <2>3 DEF TypeInv, Add, Goto, Places, gauges, totals
  <2>5. CountInv'
    BY <1>0, <1>2, <2>2, <2>3 DEF CountInv, TypeInv, Add, Goto, totals
  <2>6. /\ highest' \in Nat /\ highest <= highest' /\ activeStreams' <= highest'
        /\ highest' = highest \/ highest' = activeStreams'
        /\ current' = [current EXCEPT ![s] = activeStreams']
        /\ s \in Raising' /\ Raising' = Raising \cup {s} /\ s \notin Raising
    BY <1>0, <1>2, <2>3 DEF TypeInv, Add, Goto, Raising
  <2>7. highest' <= peakStreams' \/ \E t \in Raising' : current'[t] = highest'
    <3>1. CASE highest' = activeStreams'
      BY <1>0, <2>6, <3>1 DEF TypeInv
    <3>2. CASE highest' = highest
      BY <1>0, <1>2, <2>6, <3>2 DEF TypeInv, PeakInv, Add, Raising
    <3> QED
      BY <2>6, <3>1, <3>2
  <2>8. PeakInv'
    BY <1>0, <1>2, <2>3, <2>6, <2>7 DEF PeakInv, TypeInv, Add, Goto, gauges
  <2> QED
    BY <2>4, <2>5, <2>8 DEF IInv
<1>3. ASSUME NEW s \in Streams, SetActive(s) PROVE IInv'
  <2> DEFINE x == IF pc[s] = "gauge" THEN "load" ELSE "done"
  <2>1. Goto(s, x) /\ x \in Places /\ pc[s] \in {"gauge", "gaugeend"}
    BY <1>3 DEF SetActive, Places
  <2>2. TypeInv'
    BY <1>0, <1>3 DEF TypeInv, SetActive, Goto, Places, totals
  <2>3. ~benchmarkMode
    BY <1>0, <2>1 DEF CountInv
  <2>4. Cardinality(In(pc', Counted)) = Cardinality(In(pc, Counted))
    BY <2>1, Counts DEF Counted
  <2>5. CountInv'
    BY <1>0, <1>3, <2>1, <2>3, <2>4 DEF CountInv, TypeInv, SetActive, Goto, totals
  <2>6. PeakInv'
    BY <1>0, <1>3 DEF PeakInv, TypeInv, SetActive, Goto, totals, Raising
  <2> QED
    BY <2>2, <2>5, <2>6 DEF IInv
<1>4. ASSUME NEW s \in Streams, LoadPeak(s) PROVE IInv'
  <2> DEFINE x == IF current[s] <= peakStreams THEN "streaming" ELSE "cas"
  <2>1. Goto(s, x) /\ x \in Places /\ x \in Counted /\ pc[s] = "load"
    BY <1>4 DEF LoadPeak, Places, Counted
  <2>2. TypeInv'
    BY <1>0, <1>4 DEF TypeInv, LoadPeak, Goto, Places, gauges, totals
  <2>3. /\ Cardinality(In(pc', Counted)) = Cardinality(In(pc, Counted))
        /\ Cardinality(In(pc', Open)) = Cardinality(In(pc, Open))
    BY <2>1, Counts DEF Counted, Open
  <2>4. CountInv'
    BY <1>0, <1>4, <2>3 DEF CountInv, TypeInv, LoadPeak, Goto, totals
  <2>5. PeakInv'
    BY <1>0, <1>4 DEF PeakInv, TypeInv, LoadPeak, Goto, gauges, totals, Raising
  <2> QED
    BY <2>2, <2>4, <2>5 DEF IInv
<1>5. ASSUME NEW s \in Streams, CompareAndSwap(s) PROVE IInv'
  <2>1. CASE peakStreams = seen[s]
    <3> DEFINE x == IF benchmarkMode THEN "streaming" ELSE "gaugepeak"
    <3>1. /\ Goto(s, x) /\ x \in Places /\ x \in Counted /\ pc[s] = "cas"
          /\ peakStreams' = current[s]
      BY <1>5, <2>1 DEF CompareAndSwap, Places, Counted
    <3>2. TypeInv'
      BY <1>0, <1>5, <3>1 DEF TypeInv, CompareAndSwap, Goto, Places, gauges, totals
    <3>3. /\ Cardinality(In(pc', Counted)) = Cardinality(In(pc, Counted))
          /\ Cardinality(In(pc', Open)) = Cardinality(In(pc, Open))
      BY <3>1, Counts DEF Counted, Open
    <3>4. CountInv'
      BY <1>0, <1>5, <3>1, <3>3 DEF CountInv, TypeInv, CompareAndSwap, Goto, totals
    <3>5. peakStreams < peakStreams' /\ peakStreams' <= highest
      BY <1>0, <2>1, <3>1 DEF PeakInv, TypeInv
    <3>6. highest' <= peakStreams' \/ \E t \in Raising' : current'[t] = highest'
      BY <1>0, <1>5, <3>1, <3>5 DEF PeakInv, TypeInv, CompareAndSwap, Goto, Raising
    <3>7. PeakInv'
      BY <1>0, <1>5, <3>1, <3>5, <3>6
         DEF PeakInv, TypeInv, CompareAndSwap, Goto, gauges, totals
    <3> QED
      BY <3>2, <3>4, <3>7 DEF IInv
  <2>2. CASE peakStreams # seen[s]
    <3>1. Goto(s, "load") /\ "load" \in Places /\ pc[s] = "cas" /\ UNCHANGED peakStreams
      BY <1>5, <2>2 DEF CompareAndSwap, Places
    <3>2. TypeInv'
      BY <1>0, <1>5, <3>1 DEF TypeInv, CompareAndSwap, Goto, gauges, totals
    <3>3. /\ Cardinality(In(pc', Counted)) = Cardinality(In(pc, Counted))
          /\ Cardinality(In(pc', Open)) = Cardinality(In(pc, Open))
      BY <3>1, Counts DEF Counted, Open
    <3>4. CountInv'
      BY <1>0, <1>5, <3>1, <3>3 DEF CountInv, TypeInv, CompareAndSwap, Goto, totals
    <3>5. PeakInv'
      BY <1>0, <1>5, <3>1
         DEF PeakInv, TypeInv, CompareAndSwap, Goto, gauges, totals, Raising
    <3> QED
      BY <3>2, <3>4, <3>5 DEF IInv
  <2> QED
    BY <2>1, <2>2
<1>6. ASSUME NEW s \in Streams, SetPeak(s) PROVE IInv'
  <2>1. Goto(s, "streaming") /\ "streaming" \in Places /\ pc[s] = "gaugepeak"
    BY <1>6 DEF SetPeak, Places
  <2>2. TypeInv'
    BY <1>0, <1>6, <2>1 DEF TypeInv, SetPeak, Goto, totals
  <2>3. /\ Cardinality(In(pc', Counted)) = Cardinality(In(pc, Counted))
        /\ Cardinality(In(pc', Open)) = Cardinality(In(pc, Open))
    BY <2>1, Counts DEF Counted, Open
  <2>4. CountInv'
    BY <1>0, <1>6, <2>3 DEF CountInv, TypeInv, SetPeak, Goto, totals
  <2>5. PeakInv'
    BY <1>0, <1>6 DEF PeakInv, TypeInv, SetPeak, Goto, totals, Raising
  <2> QED
    BY <2>2, <2>4, <2>5 DEF IInv
<1>7. ASSUME NEW s \in Streams, Subtract(s) PROVE IInv'
  <2> DEFINE x == IF benchmarkMode THEN "count" ELSE "gaugeend"
  <2>1. Goto(s, x) /\ x \in Places /\ pc[s] = "streaming"
    BY <1>7 DEF Subtract, Places
  <2>2. /\ Cardinality(In(pc', Counted)) = Cardinality(In(pc, Counted)) - 1
        /\ Cardinality(In(pc', Open)) = Cardinality(In(pc, Open))
        /\ Cardinality(In(pc, Counted)) \in Nat /\ Cardinality(In(pc, Counted)) >= 1
    BY <2>1, Counts DEF Counted, Open
  <2>3. /\ activeStreams \in Nat /\ activeStreams - 1 \in Nat
        /\ activeStreams' = activeStreams - 1
    BY <1>0, <1>7, <2>2 DEF CountInv, Subtract
  <2>4. TypeInv'
    BY <1>0, <1>7, <2>1, <2>3 DEF TypeInv, Subtract, Goto, gauges, totals
  <2>5. CountInv'
    BY <1>0, <1>7, <2>1, <2>2, <2>3 DEF CountInv, TypeInv, Subtract, Goto, totals
  <2>6. Raising' = Raising /\ s \notin Raising
    BY <1>0, <1>7, <2>1 DEF TypeInv, Subtract, Goto, Raising
  <2>7. \A t \in Streams : t # s => pc'[t] = pc[t] /\ current'[t] = current[t]
    BY <1>0, <1>7 DEF TypeInv, Subtract, Goto
  <2>8. /\ pc'[s] \in {"count", "gaugeend"} /\ current'[s] = activeStreams - 1
        /\ UNCHANGED <<seen, peakStreams, highest, gaugePeak, gaugeActive>>
    BY <1>0, <1>7 DEF TypeInv, Subtract, Goto, gauges
  <2>9. activeStreams - 1 <= highest
    BY <1>0, <2>3 DEF PeakInv, TypeInv
  <2>10. highest' <= peakStreams' \/ \E t \in Raising' : current'[t] = highest'
    BY <1>0, <2>6, <2>7, <2>8 DEF PeakInv, Raising
  <2>11. PeakInv'
    BY <1>0, <2>3, <2>7, <2>8, <2>9, <2>10 DEF PeakInv
  <2> QED
    BY <2>4, <2>5, <2>11 DEF IInv
<1>8. ASSUME NEW s \in Streams, CountEnd(s) PROVE IInv'
  <2>1. Goto(s, "done") /\ "done" \in Places /\ pc[s] = "count"
    BY <1>8 DEF CountEnd, Places
  <2>2. /\ Cardinality(In(pc', Counted)) = Cardinality(In(pc, Counted))
        /\ Cardinality(In(pc', Open)) = Cardinality(In(pc, Open)) - 1
        /\ Cardinality(In(pc, Open)) \in Nat
    BY <2>1, Counts DEF Counted, Open
  <2>3. TypeInv'
    BY <1>0, <1>8, <2>1 DEF TypeInv, CountEnd, Goto, gauges
  <2>4. CountInv'
    BY <1>0, <1>8, <2>1, <2>2 DEF CountInv, TypeInv, CountEnd, Goto
  <2>5. PeakInv'
    BY <1>0, <1>8 DEF PeakInv, TypeInv, CountEnd, Goto, gauges, Raising
  <2> QED
    BY <2>3, <2>4, <2>5 DEF IInv
<1>9. CASE UNCHANGED vars
  <2>1. TypeInv' /\ CountInv'
    BY <1>0, <1>9 DEF TypeInv, CountInv, vars
  <2>2. PeakInv'
    BY <1>0, <1>9 DEF PeakInv, Raising, vars
  <2> QED
    BY <2>1, <2>2 DEF IInv
<1> QED
  BY <1>1, <1>2, <1>3, <1>4, <1>5, <1>6, <1>7, <1>8, <1>9 DEF Next, Finished

-----------------------------------------------------------------------------

\* The invariant holds of every reachable state, for any number of streams.
LEMMA SpecInv == Spec => []IInv
<1> QED
  BY InitInv, StepInv, PTL DEF Spec

\* No counter goes below zero and every variable keeps its type.
THEOREM SpecTypeOK == Spec => []TypeOK
<1>1. IInv => TypeOK
  <2> SUFFICES ASSUME IInv PROVE TypeOK
    OBVIOUS
  <2>1. /\ Cardinality(In(pc, Counted)) \in Nat /\ Cardinality(In(pc, Open)) \in Nat
    BY StreamsAssumption, FS_Subset, FS_CardinalityType DEF In
  <2> QED
    BY <2>1 DEF IInv, TypeInv, CountInv, TypeOK
<1> QED
  BY <1>1, SpecInv, PTL

\* When no stream is in the loop, the peak is the highest count there has been
\* (handleConnection's and streamStart's compare-and-swap loops).
THEOREM SpecPeakIsHighest == Spec => []PeakIsHighest
<1>1. IInv => PeakIsHighest
  BY DEF IInv, TypeInv, PeakInv, PeakIsHighest
<1> QED
  BY <1>1, SpecInv, PTL

\* With no stream under way nothing is active, and what was started has been counted
\* as ended (the deferred decrement, streamEnd).
THEOREM SpecAtRestNothingActive == Spec => []AtRestNothingActive
<1>1. IInv => AtRestNothingActive
  <2> SUFFICES ASSUME IInv, \A s \in Streams : pc[s] \in {"idle", "done"}
               PROVE  activeStreams = 0 /\ started = ended
    BY DEF AtRestNothingActive
  <2>1. In(pc, Counted) = {} /\ In(pc, Open) = {}
    BY DEF In, Counted, Open
  <2> QED
    BY <2>1, FS_EmptySet DEF IInv, TypeInv, CountInv
<1> QED
  BY <1>1, SpecInv, PTL

\* No gauge shows more streams than there have been (metricPeakStreams and
\* metricActiveStreams are set after the counters).
THEOREM SpecGaugesNotAhead == Spec => []GaugesNotAhead
<1>1. IInv => GaugesNotAhead
  BY DEF IInv, PeakInv, GaugesNotAhead
<1> QED
  BY <1>1, SpecInv, PTL

\* The peak only rises: a swap succeeds on the value that was compared.
THEOREM SpecPeakNeverFalls == Spec => PeakNeverFalls
<1>1. IInv /\ [Next]_vars => [peakStreams' >= peakStreams]_vars
  <2> SUFFICES ASSUME IInv, Next PROVE peakStreams' >= peakStreams
    OBVIOUS
  <2>1. peakStreams \in Nat
    BY DEF IInv, TypeInv
  <2>2. ASSUME NEW s \in Streams, CompareAndSwap(s) PROVE peakStreams' >= peakStreams
    BY <2>1, <2>2 DEF IInv, TypeInv, PeakInv, CompareAndSwap
  <2> QED
    BY <2>1, <2>2 DEF Next, Finished, CountStart, Add, SetActive, LoadPeak, SetPeak,
       Subtract, CountEnd, vars
<1> QED
  BY <1>1, SpecInv, PTL DEF Spec, PeakNeverFalls
=============================================================================
