------------------------- MODULE HandoffFilterProofs -------------------------
(***************************************************************************)
(* TLAPS proofs about HandoffFilter, for any set of requests, any backlog, *)
(* any number of retries and any daemon that keeps the contract; and about *)
(* HandoffSystem: the Go daemon is such a daemon.                          *)
(***************************************************************************)
EXTENDS HandoffSystem, TLAPS

\* A client's descriptor leaves Apache only through the send, and from then on
\* the worker is committed: what makes NoSplitOwnership inductive.
Committed(r) == wpc[r] = "commit" \/ aborted[r]

\* Nothing has been sent to the client while the filter is in the chain, but
\* for what a daemon that has the descriptor has sent.
FilterSilent(r) ==
    /\ wpc[r] = "idle" => wrote[r] = {} /\ ~aborted[r]
    /\ wpc[r] \in {"connect", "send", "commit", "error"} => filterOn[r]
    /\ filterOn[r] /\ wpc[r] # "commit" => wrote[r] = {}

DaemonAfterCommit(r) ==
    /\ AtDaemon(r) \/ "daemon" \in wrote[r] => Committed(r)
    /\ Committed(r) => wrote[r] \subseteq {"daemon"} /\ ~shut[r]
    /\ aborted[r] => wpc[r] \in {"handler", "closed"} /\ ~filterOn[r]
    /\ shut[r] => wpc[r] = "closed"

\* A message is queued on a live connection, and one that the daemon has
\* received is gone with its connection.
MessageOnce(r) ==
    /\ qmsg[r] => chan[r] \in {"queued", "accepted"}
    /\ held[r] => chan[r] = "gone"

\* Where the worker can hold its connection to the daemon, and when it has
\* given up the client's descriptor.
DescriptorPlaces(r) ==
    /\ apEnd[r] => wpc[r] \in {"send", "commit", "error"}
    /\ wpc[r] = "closed" => ~apRef[r]

\* A worker that has output to come, or has answered, or has handed off.
WillAnswer(r) ==
    wpc[r] \in {"handler", "closed"} /\ ~aborted[r]
      => \/ wrote[r] \cap {"body", "error"} # {}
         \/ wpc[r] = "handler" /\ left[r] > 0

RequestInv(r) ==
    /\ FilterSilent(r)
    /\ DaemonAfterCommit(r)
    /\ MessageOnce(r)
    /\ DescriptorPlaces(r)
    /\ WillAnswer(r)

\* The inductive invariant.
IInv == TypeOK /\ \A r \in Requests : RequestInv(r)

-----------------------------------------------------------------------------

\* The invariant holds when the server starts.
LEMMA InitIInv == Init => IInv
  BY FilterAssumption
     DEF Init, KernelInit, IInv, TypeOK, KernelTypeOK, Kinds, RequestInv,
         FilterSilent, DaemonAfterCommit, Committed, MessageOnce, DescriptorPlaces,
         WillAnswer, AtDaemon

\* A step of a worker keeps the invariant.
LEMMA WorkerIInv ==
    ASSUME IInv, NEW r \in Requests, WorkerStep(r)
    PROVE  IInv'
  <1> USE DEF IInv, TypeOK, KernelTypeOK, kernelVars, workerVars, clientVars
  <1> USE DEF RequestInv, FilterSilent, DaemonAfterCommit, Committed, MessageOnce,
              DescriptorPlaces, WillAnswer, AtDaemon
  <1>1. CASE InsertFilter(r)
    <2>1. TypeOK'
      BY <1>1, FilterAssumption DEF InsertFilter, Goto, Kinds
    <2>2. ASSUME NEW q \in Requests PROVE RequestInv(q)'
      BY <1>1 DEF InsertFilter, Goto
    <2>3. QED
      BY <2>1, <2>2
  <1>2. CASE HandlerOutput(r)
    <2>1. TypeOK'
      BY <1>2, FilterAssumption DEF HandlerOutput, PassBrigade
    <2>2. ASSUME NEW q \in Requests PROVE RequestInv(q)'
      BY <1>2 DEF HandlerOutput, PassBrigade
    <2>3. QED
      BY <2>1, <2>2
  <1>3. CASE FilterPassThrough(r)
    <2>1. TypeOK'
      BY <1>3, FilterAssumption DEF FilterPassThrough, PassBrigade
    <2>2. ASSUME NEW q \in Requests PROVE RequestInv(q)'
      BY ZenonT(40), <1>3 DEF FilterPassThrough, PassBrigade
    <2>3. QED
      BY <2>1, <2>2
  <1>4. CASE FilterRefuse(r)
    <2>1. TypeOK'
      BY <1>4, FilterAssumption DEF FilterRefuse, Goto
    <2>2. ASSUME NEW q \in Requests PROVE RequestInv(q)'
      BY <1>4 DEF FilterRefuse, Goto
    <2>3. QED
      BY <2>1, <2>2
  <1>5. CASE FilterStart(r)
    <2>1. TypeOK'
      BY <1>5, FilterAssumption DEF FilterStart, Goto
    <2>2. ASSUME NEW q \in Requests PROVE RequestInv(q)'
      BY <1>5 DEF FilterStart, Goto
    <2>3. QED
      BY <2>1, <2>2
  <1>6. CASE ConnectOk(r)
    <2>1. TypeOK'
      BY <1>6 DEF ConnectOk, Goto, Connect
    <2>2. ASSUME NEW q \in Requests PROVE RequestInv(q)'
      BY <1>6 DEF ConnectOk, Goto, Connect
    <2>3. QED
      BY <2>1, <2>2
  <1>7. CASE ConnectAgain(r)
    <2>1. TypeOK'
      BY <1>7, FilterAssumption DEF ConnectAgain
    <2>2. ASSUME NEW q \in Requests PROVE RequestInv(q)'
      BY <1>7 DEF ConnectAgain
    <2>3. QED
      BY <2>1, <2>2
  <1>8. CASE ConnectFail(r)
    <2>1. TypeOK'
      BY <1>8 DEF ConnectFail, Goto
    <2>2. ASSUME NEW q \in Requests PROVE RequestInv(q)'
      BY <1>8 DEF ConnectFail, Goto
    <2>3. QED
      BY <2>1, <2>2
  <1>9. CASE SendOk(r)
    <2>1. TypeOK'
      BY <1>9 DEF SendOk, Goto, SendMsg
    <2>2. ASSUME NEW q \in Requests PROVE RequestInv(q)'
      BY <1>9 DEF SendOk, Goto, SendMsg
    <2>3. QED
      BY <2>1, <2>2
  <1>10. CASE SendFail(r)
    <2>1. TypeOK'
      BY <1>10 DEF SendFail, Goto
    <2>2. ASSUME NEW q \in Requests PROVE RequestInv(q)'
      BY <1>10 DEF SendFail, Goto
    <2>3. QED
      BY <2>1, <2>2
  <1>11. CASE Commit(r)
    <2>1. TypeOK'
      BY <1>11 DEF Commit, Goto, CloseApacheEnd
    <2>2. ASSUME NEW q \in Requests PROVE RequestInv(q)'
      BY <1>11 DEF Commit, Goto, CloseApacheEnd
    <2>3. QED
      BY <2>1, <2>2
  <1>12. CASE ErrorResponse(r)
    <2>1. TypeOK'
      BY <1>12 DEF ErrorResponse, Goto, CloseApacheEnd, PassBrigade
    <2>2. ASSUME NEW q \in Requests PROVE RequestInv(q)'
      BY <1>12 DEF ErrorResponse, Goto, CloseApacheEnd, PassBrigade
    <2>3. QED
      BY <2>1, <2>2
  <1>13. CASE Teardown(r)
    <2>1. TypeOK'
      BY <1>13 DEF Teardown, Goto
    <2>2. ASSUME NEW q \in Requests PROVE RequestInv(q)'
      BY <1>13 DEF Teardown, Goto
    <2>3. QED
      BY <2>1, <2>2
  <1>14. QED
    BY <1>1, <1>2, <1>3, <1>4, <1>5, <1>6, <1>7, <1>8, <1>9, <1>10, <1>11, <1>12, <1>13 DEF WorkerStep

\* A step of the daemon keeps the invariant.
LEMMA DaemonIInv ==
    ASSUME IInv, DaemonStep
    PROVE  IInv'
  <1> USE DEF IInv, TypeOK, KernelTypeOK, kernelVars, workerVars, clientVars
  <1> USE DEF RequestInv, FilterSilent, DaemonAfterCommit, Committed, MessageOnce,
              DescriptorPlaces, WillAnswer, AtDaemon
  <1>1. CASE DaemonListen
    <2>1. TypeOK'
      BY <1>1 DEF DaemonListen
    <2>2. ASSUME NEW q \in Requests PROVE RequestInv(q)'
      BY <1>1 DEF DaemonListen
    <2>3. QED
      BY <2>1, <2>2
  <1>2. CASE DaemonStopListening
    <2>1. TypeOK'
      BY <1>2 DEF DaemonStopListening, StopListening
    <2>2. ASSUME NEW q \in Requests PROVE RequestInv(q)'
      BY <1>2 DEF DaemonStopListening, StopListening
    <2>3. QED
      BY <2>1, <2>2
  <1>3. CASE DaemonPathChange
    <2>1. TypeOK'
      BY <1>3 DEF DaemonPathChange
    <2>2. ASSUME NEW q \in Requests PROVE RequestInv(q)'
      BY <1>3 DEF DaemonPathChange
    <2>3. QED
      BY <2>1, <2>2
  <1>4. CASE DaemonExit
    <2>1. TypeOK'
      BY <1>4 DEF DaemonExit, StopListening
    <2>2. ASSUME NEW q \in Requests PROVE RequestInv(q)'
      BY <1>4 DEF DaemonExit, StopListening
    <2>3. QED
      BY <2>1, <2>2
  <1>5. ASSUME NEW r \in Requests,
               DaemonAccept(r) \/ DaemonReceive(r) \/ DaemonDrop(r)
                 \/ DaemonWrite(r) \/ DaemonClose(r)
        PROVE  IInv'
    <2>1. CASE DaemonAccept(r)
      <3>1. TypeOK'
        BY <2>1 DEF DaemonAccept, Accept
      <3>2. ASSUME NEW q \in Requests PROVE RequestInv(q)'
        BY <2>1 DEF DaemonAccept, Accept
      <3>3. QED
        BY <3>1, <3>2
    <2>2. CASE DaemonReceive(r)
      <3>1. TypeOK'
        BY <2>2 DEF DaemonReceive, RecvMsg
      <3>2. ASSUME NEW q \in Requests PROVE RequestInv(q)'
        BY <2>2 DEF DaemonReceive, RecvMsg
      <3>3. QED
        BY <3>1, <3>2
    <2>3. CASE DaemonDrop(r)
      <3>1. TypeOK'
        BY <2>3 DEF DaemonDrop, CloseDaemonEnd
      <3>2. ASSUME NEW q \in Requests PROVE RequestInv(q)'
        BY <2>3 DEF DaemonDrop, CloseDaemonEnd
      <3>3. QED
        BY <3>1, <3>2
    <2>4. CASE DaemonWrite(r)
      <3>1. TypeOK'
        BY <2>4 DEF DaemonWrite
      <3>2. ASSUME NEW q \in Requests PROVE RequestInv(q)'
        BY <2>4 DEF DaemonWrite
      <3>3. QED
        BY <3>1, <3>2
    <2>5. CASE DaemonClose(r)
      <3>1. TypeOK'
        BY <2>5 DEF DaemonClose
      <3>2. ASSUME NEW q \in Requests PROVE RequestInv(q)'
        BY <2>5 DEF DaemonClose
      <3>3. QED
        BY <3>1, <3>2
    <2>6. QED
      BY <1>5, <2>1, <2>2, <2>3, <2>4, <2>5
  <1>6. QED
    BY <1>1, <1>2, <1>3, <1>4, <1>5 DEF DaemonStep

\* Every step keeps the invariant.
LEMMA NextIInv == IInv /\ [Next]_vars => IInv'
  <1> SUFFICES ASSUME IInv, [Next]_vars PROVE IInv'
    OBVIOUS
  <1>1. CASE \E r \in Requests : WorkerStep(r)
    BY <1>1, WorkerIInv
  <1>2. CASE DaemonStep
    BY <1>2, DaemonIInv
  <1>3. CASE UNCHANGED vars
    BY <1>3
       DEF IInv, TypeOK, KernelTypeOK, RequestInv, FilterSilent, DaemonAfterCommit,
           Committed, MessageOnce, DescriptorPlaces, WillAnswer, AtDaemon, vars,
           kernelVars, workerVars, clientVars
  <1>4. QED
    BY <1>1, <1>2, <1>3 DEF Next

\* The invariant holds in every reachable state.
LEMMA AlwaysIInv == Spec => []IInv
  BY InitIInv, NextIInv, PTL DEF Spec

-----------------------------------------------------------------------------

\* Every variable keeps its type; in particular connect_with_retry never
\* counts past MaxRetries.
THEOREM TypeCorrect == Spec => []TypeOK
  <1>1. IInv => TypeOK
    BY DEF IInv
  <1>2. QED
    BY AlwaysIInv, <1>1, PTL

\* Apache and the daemon never both answer a client, for any number of
\* requests, retries and brigades and whatever the daemon does.
THEOREM NoSplitOwnershipHolds == Spec => []NoSplitOwnership
  <1>1. IInv => NoSplitOwnership
    BY DEF IInv, RequestInv, DaemonAfterCommit, NoSplitOwnership
  <1>2. QED
    BY AlwaysIInv, <1>1, PTL

\* Apache never shuts down a connection it has handed off.
THEOREM HandedOffNotShutHolds == Spec => []HandedOffNotShut
  <1>1. IInv => HandedOffNotShut
    BY DEF IInv, RequestInv, DaemonAfterCommit, HandedOffNotShut
  <1>2. QED
    BY AlwaysIInv, <1>1, PTL

\* A worker that is done holds no descriptor, on every path of the filter.
THEOREM NoDescriptorLeakHolds == Spec => []NoDescriptorLeak
  <1>1. IInv => NoDescriptorLeak
    BY DEF IInv, RequestInv, DescriptorPlaces, NoDescriptorLeak
  <1>2. QED
    BY AlwaysIInv, <1>1, PTL

\* A request that was not handed off has been answered by Apache.
THEOREM AnsweredOrHandedOffHolds == Spec => []AnsweredOrHandedOff
  <1>1. IInv => AnsweredOrHandedOff
    BY DEF IInv, RequestInv, WillAnswer, AnsweredOrHandedOff
  <1>2. QED
    BY AlwaysIInv, <1>1, PTL

-----------------------------------------------------------------------------

\* A step that changes neither who owns nor who has answered any client.
LEMMA OwnershipStutters ==
    ASSUME \A q \in Requests : OwnerOf(q)' = OwnerOf(q) /\ VoiceOf(q)' = VoiceOf(q)
    PROVE  UNCHANGED Ownership!ownershipVars
  BY DEF Ownership!ownershipVars

\* A step in which Apache answers a client that it owns.
LEMMA OwnershipApacheAnswers ==
    ASSUME NEW r \in Requests,
           OwnerOf(r) = "apache",
           VoiceOf(r)' = "apache",
           \A q \in Requests : OwnerOf(q)' = OwnerOf(q),
           \A q \in Requests \ {r} : VoiceOf(q)' = VoiceOf(q)
    PROVE  Ownership!Next
  <1>1. Ownership!ApacheAnswers(r)
    BY DEF Ownership!ApacheAnswers
  <1>2. QED
    BY <1>1 DEF Ownership!Next

\* A step in which Apache gives away a client it has not answered.
LEMMA OwnershipHandOver ==
    ASSUME NEW r \in Requests,
           OwnerOf(r) = "apache",
           VoiceOf(r) = "none",
           OwnerOf(r)' = "transit",
           \A q \in Requests \ {r} : OwnerOf(q)' = OwnerOf(q),
           \A q \in Requests : VoiceOf(q)' = VoiceOf(q)
    PROVE  Ownership!Next
  <1>1. Ownership!HandOver(r)
    BY DEF Ownership!HandOver
  <1>2. QED
    BY <1>1 DEF Ownership!Next

\* A step in which the daemon takes a client.
LEMMA OwnershipTake ==
    ASSUME NEW r \in Requests,
           OwnerOf(r) = "transit",
           OwnerOf(r)' = "daemon",
           \A q \in Requests \ {r} : OwnerOf(q)' = OwnerOf(q),
           \A q \in Requests : VoiceOf(q)' = VoiceOf(q)
    PROVE  Ownership!Next
  <1>1. Ownership!Take(r)
    BY DEF Ownership!Take
  <1>2. QED
    BY <1>1 DEF Ownership!Next

\* A step in which the daemon answers a client that it owns.
LEMMA OwnershipDaemonAnswers ==
    ASSUME NEW r \in Requests,
           OwnerOf(r) = "daemon",
           VoiceOf(r)' = "daemon",
           \A q \in Requests : OwnerOf(q)' = OwnerOf(q),
           \A q \in Requests \ {r} : VoiceOf(q)' = VoiceOf(q)
    PROVE  Ownership!Next
  <1>1. Ownership!DaemonAnswers(r)
    BY DEF Ownership!DaemonAnswers
  <1>2. QED
    BY <1>1 DEF Ownership!Next

\* A step that ends some connections and changes nothing else.
LEMMA OwnershipRelease ==
    ASSUME \A q \in Requests : OwnerOf(q)' \in {OwnerOf(q), "closed"},
           \A q \in Requests : VoiceOf(q)' = VoiceOf(q)
    PROVE  Ownership!Next
  <1> DEFINE S == {q \in Requests : OwnerOf(q)' = "closed"}
  <1>1. S \in SUBSET Requests
    OBVIOUS
  <1>2. Ownership!Release(S)
    BY DEF Ownership!Release
  <1>3. QED
    BY <1>1, <1>2 DEF Ownership!Next

\* A step of a worker is a step or a stutter of HandoffOwnership.
LEMMA WorkerRefines ==
    ASSUME IInv, NEW r \in Requests, WorkerStep(r)
    PROVE  [Ownership!Next]_(Ownership!ownershipVars)
  <1> USE DEF IInv, TypeOK, KernelTypeOK, kernelVars, workerVars, clientVars
  <1> USE DEF RequestInv, FilterSilent, DaemonAfterCommit, Committed, MessageOnce,
              DescriptorPlaces, WillAnswer, AtDaemon
  <1> USE DEF OwnerOf, VoiceOf
  <1>1. CASE InsertFilter(r)
    <2>1. \A q \in Requests : OwnerOf(q)' = OwnerOf(q) /\ VoiceOf(q)' = VoiceOf(q)
      BY <1>1 DEF InsertFilter, Goto
    <2>2. QED
      BY <2>1, OwnershipStutters
  <1>2. CASE HandlerOutput(r)
    <2>1. CASE aborted[r]
      <3>1. \A q \in Requests : OwnerOf(q)' = OwnerOf(q) /\ VoiceOf(q)' = VoiceOf(q)
        BY <1>2, <2>1 DEF HandlerOutput, PassBrigade
      <3>2. QED
        BY <3>1, OwnershipStutters
    <2>2. CASE ~aborted[r]
      <3>1. /\ OwnerOf(r) = "apache"
            /\ VoiceOf(r)' = "apache"
            /\ \A q \in Requests : OwnerOf(q)' = OwnerOf(q)
            /\ \A q \in Requests \ {r} : VoiceOf(q)' = VoiceOf(q)
        BY <1>2, <2>2 DEF HandlerOutput, PassBrigade
      <3>2. QED
        BY <3>1, OwnershipApacheAnswers
    <2>3. QED
      BY <2>1, <2>2
  <1>3. CASE FilterPassThrough(r)
    <2>1. CASE aborted[r]
      <3>1. \A q \in Requests : OwnerOf(q)' = OwnerOf(q) /\ VoiceOf(q)' = VoiceOf(q)
        BY <1>3, <2>1 DEF FilterPassThrough, PassBrigade
      <3>2. QED
        BY <3>1, OwnershipStutters
    <2>2. CASE ~aborted[r]
      <3>1. /\ OwnerOf(r) = "apache"
            /\ VoiceOf(r)' = "apache"
            /\ \A q \in Requests : OwnerOf(q)' = OwnerOf(q)
            /\ \A q \in Requests \ {r} : VoiceOf(q)' = VoiceOf(q)
        BY <1>3, <2>2 DEF FilterPassThrough, PassBrigade
      <3>2. QED
        BY <3>1, OwnershipApacheAnswers
    <2>3. QED
      BY <2>1, <2>2
  <1>4. CASE FilterRefuse(r)
    <2>1. \A q \in Requests : OwnerOf(q)' = OwnerOf(q) /\ VoiceOf(q)' = VoiceOf(q)
      BY <1>4 DEF FilterRefuse, Goto
    <2>2. QED
      BY <2>1, OwnershipStutters
  <1>5. CASE FilterStart(r)
    <2>1. \A q \in Requests : OwnerOf(q)' = OwnerOf(q) /\ VoiceOf(q)' = VoiceOf(q)
      BY <1>5 DEF FilterStart, Goto
    <2>2. QED
      BY <2>1, OwnershipStutters
  <1>6. CASE ConnectOk(r)
    <2>1. \A q \in Requests : OwnerOf(q)' = OwnerOf(q) /\ VoiceOf(q)' = VoiceOf(q)
      BY <1>6 DEF ConnectOk, Goto, Connect
    <2>2. QED
      BY <2>1, OwnershipStutters
  <1>7. CASE ConnectAgain(r)
    <2>1. \A q \in Requests : OwnerOf(q)' = OwnerOf(q) /\ VoiceOf(q)' = VoiceOf(q)
      BY <1>7 DEF ConnectAgain
    <2>2. QED
      BY <2>1, OwnershipStutters
  <1>8. CASE ConnectFail(r)
    <2>1. \A q \in Requests : OwnerOf(q)' = OwnerOf(q) /\ VoiceOf(q)' = VoiceOf(q)
      BY <1>8 DEF ConnectFail, Goto
    <2>2. QED
      BY <2>1, OwnershipStutters
  <1>9. CASE SendOk(r)
    <2>1. /\ OwnerOf(r) = "apache"
          /\ VoiceOf(r) = "none"
          /\ OwnerOf(r)' = "transit"
          /\ \A q \in Requests \ {r} : OwnerOf(q)' = OwnerOf(q)
          /\ \A q \in Requests : VoiceOf(q)' = VoiceOf(q)
      BY <1>9 DEF SendOk, Goto, SendMsg
    <2>2. QED
      BY <2>1, OwnershipHandOver
  <1>10. CASE SendFail(r)
    <2>1. \A q \in Requests : OwnerOf(q)' = OwnerOf(q) /\ VoiceOf(q)' = VoiceOf(q)
      BY <1>10 DEF SendFail, Goto
    <2>2. QED
      BY <2>1, OwnershipStutters
  <1>11. CASE Commit(r)
    <2>1. \A q \in Requests : OwnerOf(q)' = OwnerOf(q) /\ VoiceOf(q)' = VoiceOf(q)
      BY <1>11 DEF Commit, Goto, CloseApacheEnd
    <2>2. QED
      BY <2>1, OwnershipStutters
  <1>12. CASE ErrorResponse(r)
    <2>1. CASE aborted[r]
      <3>1. \A q \in Requests : OwnerOf(q)' = OwnerOf(q) /\ VoiceOf(q)' = VoiceOf(q)
        BY <1>12, <2>1 DEF ErrorResponse, Goto, CloseApacheEnd, PassBrigade
      <3>2. QED
        BY <3>1, OwnershipStutters
    <2>2. CASE ~aborted[r]
      <3>1. /\ OwnerOf(r) = "apache"
            /\ VoiceOf(r)' = "apache"
            /\ \A q \in Requests : OwnerOf(q)' = OwnerOf(q)
            /\ \A q \in Requests \ {r} : VoiceOf(q)' = VoiceOf(q)
        BY <1>12, <2>2 DEF ErrorResponse, Goto, CloseApacheEnd, PassBrigade
      <3>2. QED
        BY <3>1, OwnershipApacheAnswers
    <2>3. QED
      BY <2>1, <2>2
  <1>13. CASE Teardown(r)
    <2>1. \A q \in Requests : /\ OwnerOf(q)' \in {OwnerOf(q), "closed"}
                             /\ VoiceOf(q)' = VoiceOf(q)
      BY <1>13 DEF Teardown, Goto
    <2>2. QED
      BY <2>1, OwnershipRelease
  <1>14. QED
    BY <1>1, <1>2, <1>3, <1>4, <1>5, <1>6, <1>7, <1>8, <1>9, <1>10, <1>11, <1>12, <1>13 DEF WorkerStep

\* A step of the daemon is a step or a stutter of HandoffOwnership.
LEMMA DaemonRefines ==
    ASSUME IInv, DaemonStep
    PROVE  [Ownership!Next]_(Ownership!ownershipVars)
  <1> USE DEF IInv, TypeOK, KernelTypeOK, kernelVars, workerVars, clientVars
  <1> USE DEF RequestInv, FilterSilent, DaemonAfterCommit, Committed, MessageOnce,
              DescriptorPlaces, WillAnswer, AtDaemon
  <1> USE DEF OwnerOf, VoiceOf
  <1>1. CASE DaemonListen
    <2>1. \A q \in Requests : OwnerOf(q)' = OwnerOf(q) /\ VoiceOf(q)' = VoiceOf(q)
      BY <1>1 DEF DaemonListen
    <2>2. QED
      BY <2>1, OwnershipStutters
  <1>2. CASE DaemonStopListening
    <2>1. \A q \in Requests : /\ OwnerOf(q)' \in {OwnerOf(q), "closed"}
                             /\ VoiceOf(q)' = VoiceOf(q)
      BY <1>2 DEF DaemonStopListening, StopListening
    <2>2. QED
      BY <2>1, OwnershipRelease
  <1>3. CASE DaemonPathChange
    <2>1. \A q \in Requests : OwnerOf(q)' = OwnerOf(q) /\ VoiceOf(q)' = VoiceOf(q)
      BY <1>3 DEF DaemonPathChange
    <2>2. QED
      BY <2>1, OwnershipStutters
  <1>4. CASE DaemonExit
    <2>1. \A q \in Requests : /\ OwnerOf(q)' \in {OwnerOf(q), "closed"}
                             /\ VoiceOf(q)' = VoiceOf(q)
      BY <1>4 DEF DaemonExit, StopListening
    <2>2. QED
      BY <2>1, OwnershipRelease
  <1>5. ASSUME NEW r \in Requests,
               DaemonAccept(r) \/ DaemonReceive(r) \/ DaemonDrop(r)
                 \/ DaemonWrite(r) \/ DaemonClose(r)
        PROVE  [Ownership!Next]_(Ownership!ownershipVars)
    <2>1. CASE DaemonAccept(r)
      <3>1. \A q \in Requests : OwnerOf(q)' = OwnerOf(q) /\ VoiceOf(q)' = VoiceOf(q)
        BY <2>1 DEF DaemonAccept, Accept
      <3>2. QED
        BY <3>1, OwnershipStutters
    <2>2. CASE DaemonReceive(r)
      <3>1. /\ OwnerOf(r) = "transit"
            /\ OwnerOf(r)' = "daemon"
            /\ \A q \in Requests \ {r} : OwnerOf(q)' = OwnerOf(q)
            /\ \A q \in Requests : VoiceOf(q)' = VoiceOf(q)
        BY <2>2 DEF DaemonReceive, RecvMsg
      <3>2. QED
        BY <3>1, OwnershipTake
    <2>3. CASE DaemonDrop(r)
      <3>1. \A q \in Requests : /\ OwnerOf(q)' \in {OwnerOf(q), "closed"}
                               /\ VoiceOf(q)' = VoiceOf(q)
        BY <2>3 DEF DaemonDrop, CloseDaemonEnd
      <3>2. QED
        BY <3>1, OwnershipRelease
    <2>4. CASE DaemonWrite(r)
      <3>1. /\ OwnerOf(r) = "daemon"
            /\ VoiceOf(r)' = "daemon"
            /\ \A q \in Requests : OwnerOf(q)' = OwnerOf(q)
            /\ \A q \in Requests \ {r} : VoiceOf(q)' = VoiceOf(q)
        BY <2>4 DEF DaemonWrite
      <3>2. QED
        BY <3>1, OwnershipDaemonAnswers
    <2>5. CASE DaemonClose(r)
      <3>1. \A q \in Requests : /\ OwnerOf(q)' \in {OwnerOf(q), "closed"}
                               /\ VoiceOf(q)' = VoiceOf(q)
        BY <2>5 DEF DaemonClose
      <3>2. QED
        BY <3>1, OwnershipRelease
    <2>6. QED
      BY <1>5, <2>1, <2>2, <2>3, <2>4, <2>5
  <1>6. QED
    BY <1>1, <1>2, <1>3, <1>4, <1>5 DEF DaemonStep

\* The filter with any daemon implements HandoffOwnership: at any moment at
\* most one process can answer a client, and one answers all of it.
THEOREM FilterImplementsOwnership == Spec => ImplementsOwnership
  <1>1. Init => Ownership!Init
    BY DEF Init, KernelInit, Ownership!Init, OwnerOf, VoiceOf, AtDaemon
  <1>2. IInv /\ [Next]_vars => [Ownership!Next]_(Ownership!ownershipVars)
    <2> SUFFICES ASSUME IInv, [Next]_vars
                 PROVE  [Ownership!Next]_(Ownership!ownershipVars)
      OBVIOUS
    <2>1. CASE \E r \in Requests : WorkerStep(r)
      BY <2>1, WorkerRefines
    <2>2. CASE DaemonStep
      BY <2>2, DaemonRefines
    <2>3. CASE UNCHANGED vars
      <3>1. \A q \in Requests : OwnerOf(q)' = OwnerOf(q) /\ VoiceOf(q)' = VoiceOf(q)
        BY <2>3 DEF vars, kernelVars, workerVars, clientVars, OwnerOf, VoiceOf, AtDaemon
      <3>2. QED
        BY <3>1, OwnershipStutters
    <2>4. QED
      BY <2>1, <2>2, <2>3 DEF Next
  <1>3. QED
    BY <1>1, <1>2, AlwaysIInv, PTL DEF Spec, ImplementsOwnership, Ownership!Spec

-----------------------------------------------------------------------------
(* HandoffSystem: the Go daemon in the place of the contract.              *)

\* Where a goroutine has the client's descriptor.
HoldingPlaces == {"rejecting", "setup", "stream", "body", "closing"}

GoTypeInv ==
    /\ mainPc \in {"down", "serving", "awaitAccept", "waiting", "grace", "cleanup"}
    /\ acceptPc \in {"accept", "errsleep", "check", "sem", "pause", "exited"}
    /\ gpc \in [Requests -> Go!Places]
    /\ end \in [Requests -> Go!Ends]

\* A daemon that has not been told to stop listens.
ListenInv == mainPc = "serving" => listener = "listening"

\* The connection in the accept loop's hands has no goroutine yet.
AcceptInv ==
    acceptPc \in {"check", "sem"} =>
        acur \in Requests /\ chan[acur] = "accepted" /\ gpc[acur] = "none"

\* A request connects at most once.
ConnectInv(r) ==
    /\ wpc[r] \in {"idle", "connect"} => chan[r] = "none"
    /\ wpc[r] = "handler" /\ filterOn[r] => chan[r] = "none"

\* What the place of the goroutine says of the connection and the descriptor.
PlaceInv(r) ==
    /\ chan[r] \in {"none", "queued"} => gpc[r] = "none"
    /\ chan[r] = "accepted" => gpc[r] \in {"none", "start", "reject", "recv"}
    /\ held[r] <=> (gpc[r] \in HoldingPlaces)

\* A response that has not ended has no end recorded; one that has is an answer
\* or a named loss, and so is every descriptor that was sent and is nowhere now.
FateInv(r) ==
    /\ chan[r] # "gone" => end[r] = "none"
    /\ gpc[r] \in HoldingPlaces \ {"closing"} => end[r] = "none"
    /\ gpc[r] = "body" => wrote[r] # {}
    /\ gpc[r] = "closing" => wrote[r] # {} \/ end[r] \in Losses
    /\ Committed(r) /\ ~AtDaemon(r) => wrote[r] # {} \/ end[r] \in Losses

ConnectionInv(r) == ConnectInv(r) /\ PlaceInv(r) /\ FateInv(r)

\* The inductive invariant of the two together, next to IInv.
SystemInv ==
    /\ GoTypeInv
    /\ ListenInv
    /\ AcceptInv
    /\ \A r \in Requests : ConnectionInv(r)

\* A step of the Go daemon that writes to a client whose descriptor it has.
LEMMA WriteIsContract ==
    ASSUME NEW r \in Requests, held[r], UNCHANGED <<kernelVars, workerVars, held>>,
           wrote' = [wrote EXCEPT ![r] = @ \cup {"daemon"}]
    PROVE  Next
  <1>1. DaemonWrite(r)
    BY DEF DaemonWrite
  <1>2. QED
    BY <1>1 DEF Next, DaemonStep

\* The steps of main keep the contract: they are those of a daemon that begins
\* and ceases to listen and ends.
LEMMA MainKeepsContract ==
    ASSUME IInv, SystemInv, UNCHANGED workerVars,
           Go!Start \/ Go!Signal \/ Go!Kill \/ Go!MainStep
    PROVE  [Next]_vars
  <1> USE DEF Go!kernelVars, Go!clientVars, kernelVars, clientVars
  <1>1. CASE Go!Start
    <2>1. DaemonListen
      BY <1>1 DEF Go!Start, DaemonListen
    <2>2. QED
      BY <2>1 DEF Next, DaemonStep
  <1>2. CASE Go!CloseListener
    <2>1. listener = "listening"
      BY <1>2 DEF Go!CloseListener, SystemInv, ListenInv
    <2>2. DaemonStopListening
      BY <1>2, <2>1 DEF Go!CloseListener, Go!StopListening, DaemonStopListening, StopListening
    <2>3. QED
      BY <2>2 DEF Next, DaemonStep
  <1>3. CASE Go!Exit
    <2>1. DaemonExit
      BY <1>3 DEF Go!Exit, Go!ProcessEnds, Go!StopListening, DaemonExit, StopListening
    <2>2. QED
      BY <2>1 DEF Next, DaemonStep
  <1>4. CASE Go!Kill
    <2>1. PICK st \in {"absent", "refusing"} : Go!ProcessEnds(st)
      BY <1>4 DEF Go!Kill, IInv, TypeOK, KernelTypeOK
    <2>2. DaemonExit
      BY <2>1 DEF Go!ProcessEnds, Go!StopListening, DaemonExit, StopListening
    <2>3. QED
      BY <2>2 DEF Next, DaemonStep
  <1>5. CASE Go!Signal \/ Go!AwaitAccept \/ Go!DrainDone \/ Go!DrainExpired
    BY <1>5 DEF Go!Signal, Go!AwaitAccept, Go!DrainDone, Go!DrainExpired, vars
  <1>6. QED
    BY <1>1, <1>2, <1>3, <1>4, <1>5 DEF Go!MainStep

\* The accept loop touches the connections only to accept one.
LEMMA AcceptKeepsContract ==
    ASSUME UNCHANGED workerVars, Go!AcceptStep
    PROVE  [Next]_vars
  <1> USE DEF Go!kernelVars, Go!clientVars, kernelVars, clientVars
  <1>1. CASE Go!AcceptConn
    <2>1. PICK r \in Requests : Go!Accept(r)
      BY <1>1 DEF Go!AcceptConn
    <2>2. DaemonAccept(r)
      BY <1>1, <2>1 DEF Go!AcceptConn, Go!Accept, DaemonAccept, Accept
    <2>3. QED
      BY <2>2 DEF Next, DaemonStep
  <1>2. CASE Go!AcceptFail \/ Go!AcceptRetry \/ Go!CheckContext
    BY <1>2 DEF Go!AcceptFail, Go!AcceptRetry, Go!CheckContext, vars
  <1>3. CASE Go!TakeSlot \/ Go!OverLimit \/ Go!PauseEnds
    BY <1>3 DEF Go!TakeSlot, Go!OverLimit, Go!PauseEnds, vars
  <1>4. QED
    BY <1>1, <1>2, <1>3 DEF Go!AcceptStep

\* A connection's goroutine keeps the contract: it writes and closes only while
\* it has the descriptor.
LEMMA ConnKeepsContract ==
    ASSUME IInv, SystemInv, UNCHANGED workerVars, NEW r \in Requests,
           Go!ConnStep(r) \/ Go!ClientLeaves(r)
    PROVE  [Next]_vars
  <1> USE DEF Go!kernelVars, Go!clientVars, kernelVars, clientVars
  <1>0. held[r] <=> (gpc[r] \in HoldingPlaces)
    BY DEF SystemInv, ConnectionInv, PlaceInv
  <1>1. CASE Go!Receive(r)
    <2>1. DaemonReceive(r)
      BY <1>1 DEF Go!Receive, Go!RecvMsg, DaemonReceive, RecvMsg
    <2>2. QED
      BY <2>1 DEF Next, DaemonStep
  <1>2. CASE Go!ReceiveFail(r)
    <2>1. DaemonDrop(r)
      BY <1>2 DEF Go!ReceiveFail, Go!CloseDaemonEnd, DaemonDrop, CloseDaemonEnd
    <2>2. QED
      BY <2>1 DEF Next, DaemonStep
  <1>3. CASE Go!CloseClient(r)
    <2>1. DaemonClose(r)
      BY <1>0, <1>3 DEF Go!CloseClient, DaemonClose, HoldingPlaces
    <2>2. QED
      BY <2>1 DEF Next, DaemonStep
  <1>4. CASE Go!Reject(r) \/ Go!FirstWrite(r) \/ Go!Panic(r)
    BY <1>0, <1>4, WriteIsContract
       DEF Go!Reject, Go!FirstWrite, Go!Panic, Go!Say, HoldingPlaces
  <1>9. CASE Go!StreamEnd(r)
    <2>1. CASE Go!Say(r, "done")
      BY <1>0, <1>9, <2>1, WriteIsContract DEF Go!StreamEnd, Go!Say, HoldingPlaces
    <2>2. CASE UNCHANGED wrote
      BY <1>9, <2>2 DEF Go!StreamEnd, vars
    <2>3. QED
      BY <1>9, <2>1, <2>2 DEF Go!StreamEnd
  <1>5. CASE Go!Prepare(r)
    <2>1. CASE Go!Say(r, "status")
      BY <1>0, <1>5, <2>1, WriteIsContract DEF Go!Prepare, Go!Say, HoldingPlaces
    <2>2. CASE UNCHANGED wrote
      BY <1>5, <2>2 DEF Go!Prepare, vars
    <2>3. QED
      BY <1>5, <2>1, <2>2 DEF Go!Prepare
  <1>6. ASSUME NEW err \in Go!StreamErrors, Go!StreamFail(r, err)
        PROVE  [Next]_vars
    <2>1. CASE Go!ClientDisconnected(err)
      BY <1>6, <2>1 DEF Go!StreamFail, vars
    <2>2. CASE ~Go!ClientDisconnected(err)
      BY <1>0, <1>6, <2>2, WriteIsContract
         DEF Go!StreamFail, Go!MayFail, Go!Say, HoldingPlaces
    <2>3. QED
      BY <2>1, <2>2
  <1>7. CASE Go!Enter(r) \/ Go!WrapFail(r) \/ Go!StreamEndsEmpty(r) \/ Go!Unwind(r)
               \/ Go!Uncount(r) \/ Go!ClientLeaves(r)
    BY <1>7 DEF Go!Enter, Go!WrapFail, Go!StreamEndsEmpty, Go!Unwind, Go!Uncount,
                Go!ClientLeaves, vars
  <1>8. QED
    BY <1>1, <1>2, <1>3, <1>4, <1>5, <1>6, <1>7, <1>9 DEF Go!ConnStep

\* Any step of the Go daemon keeps the contract.
LEMMA GoKeepsContract ==
    ASSUME IInv, SystemInv, UNCHANGED workerVars, Go!GoStep
    PROVE  [Next]_vars
  BY MainKeepsContract, AcceptKeepsContract, ConnKeepsContract DEF Go!GoStep

\* The invariant holds when Apache runs and the daemon does not yet.
LEMMA InitSystemInv == SystemInit => SystemInv
  BY DEF SystemInit, Init, KernelInit, Go!GoInit, SystemInv, GoTypeInv, ListenInv,
         AcceptInv, ConnectionInv, ConnectInv, PlaceInv, FateInv, HoldingPlaces,
         Committed, Go!Places, Go!Ends

\* A worker's step keeps the invariant: it connects once, sends while the
\* connection is live, and takes back nothing that was sent to the client.
LEMMA WorkerSystemInv ==
    ASSUME IInv, SystemInv, UNCHANGED daemonVars, NEW r \in Requests, WorkerStep(r)
    PROVE  SystemInv'
  <1> USE DEF IInv, TypeOK, KernelTypeOK, kernelVars, workerVars, clientVars
  <1> USE DEF RequestInv, FilterSilent, DaemonAfterCommit, MessageOnce, AtDaemon
  <1> USE DEF ConnectInv, PlaceInv, FateInv, HoldingPlaces, Committed
  <1>1. /\ GoTypeInv'
        /\ UNCHANGED <<mainPc, acceptPc, acur, gpc, end>>
        /\ \A q \in Requests : ConnectInv(q) /\ PlaceInv(q) /\ FateInv(q)
    BY DEF SystemInv, ConnectionInv, GoTypeInv, daemonVars
  <1>2. ListenInv'
    <2>1. UNCHANGED listener
      BY DEF WorkerStep, InsertFilter, HandlerOutput, FilterPassThrough, FilterRefuse,
             FilterStart, ConnectOk, Connect, ConnectAgain, ConnectFail, SendOk, SendMsg,
             SendFail, Commit, CloseApacheEnd, ErrorResponse, Teardown
    <2>2. QED
      BY <1>1, <2>1 DEF SystemInv, ListenInv
  <1>3. \A q \in Requests : chan[q] = "accepted" => chan'[q] = "accepted"
    <2>1. CASE ConnectOk(r)
      BY <1>1, <2>1 DEF ConnectOk, Connect
    <2>2. CASE ~ConnectOk(r)
      <3>1. UNCHANGED chan
        BY <2>2 DEF WorkerStep, InsertFilter, HandlerOutput, FilterPassThrough,
             FilterRefuse, FilterStart, ConnectAgain, ConnectFail, SendOk, SendMsg,
             SendFail, Commit, CloseApacheEnd, ErrorResponse, Teardown
      <3>2. QED
        BY <3>1
    <2>3. QED
      BY <2>1, <2>2
  <1>4. AcceptInv'
    BY <1>1, <1>3 DEF SystemInv, AcceptInv
  <1>5. ASSUME NEW q \in Requests
        PROVE  ConnectInv(q)' /\ PlaceInv(q)' /\ FateInv(q)'
    <2> USE <1>1
    <2>1. CASE InsertFilter(r) \/ HandlerOutput(r) \/ FilterPassThrough(r)
      BY <2>1 DEF InsertFilter, HandlerOutput, FilterPassThrough, PassBrigade, Goto
    <2>2. CASE FilterRefuse(r) \/ FilterStart(r)
      BY <2>2 DEF FilterRefuse, FilterStart, Goto
    <2>3. CASE ConnectOk(r)
      BY <2>3 DEF ConnectOk, Connect, Goto
    <2>4. CASE ConnectAgain(r) \/ ConnectFail(r) \/ SendFail(r)
      BY <2>4 DEF ConnectAgain, ConnectFail, SendFail, Goto
    <2>5. CASE SendOk(r)
      BY <2>5 DEF SendOk, SendMsg, Goto
    <2>6. CASE Commit(r)
      BY <2>6 DEF Commit, CloseApacheEnd, Goto
    <2>7. CASE ErrorResponse(r)
      BY <2>7 DEF ErrorResponse, CloseApacheEnd, PassBrigade, Goto
    <2>8. CASE Teardown(r)
      BY <2>8 DEF Teardown, Goto
    <2>9. QED
      BY <2>1, <2>2, <2>3, <2>4, <2>5, <2>6, <2>7, <2>8 DEF WorkerStep
  <1>6. QED
    BY <1>1, <1>2, <1>4, <1>5 DEF SystemInv, ConnectionInv

\* The steps of main keep the invariant: whoever ends with the listener or with
\* the process has an end recorded for it.
LEMMA MainSystemInv ==
    ASSUME IInv, SystemInv, UNCHANGED workerVars,
           Go!Start \/ Go!Signal \/ Go!Kill \/ Go!MainStep
    PROVE  SystemInv'
  <1> USE DEF IInv, TypeOK, KernelTypeOK, Go!kernelVars, Go!clientVars, workerVars
  <1> USE DEF RequestInv, MessageOnce, AtDaemon, SystemInv, ConnectionInv, GoTypeInv
  <1> USE DEF ConnectInv, PlaceInv, FateInv, HoldingPlaces, Committed
  <1> USE DEF Go!mainVars, Go!acceptVars, Go!slotVars, Go!connVars
  <1>1. CASE Go!Start
    <2>1. GoTypeInv' /\ ListenInv' /\ AcceptInv'
      BY <1>1 DEF Go!Start, ListenInv, AcceptInv
    <2>2. ASSUME NEW q \in Requests PROVE ConnectionInv(q)'
      BY <1>1 DEF Go!Start
    <2>3. QED
      BY <2>1, <2>2
  <1>2. CASE Go!CloseListener
    <2>1. GoTypeInv'
      BY <1>2 DEF Go!CloseListener, Go!Ends
    <2>2. ListenInv' /\ AcceptInv'
      BY <1>2 DEF Go!CloseListener, Go!StopListening, ListenInv, AcceptInv
    <2>3. ASSUME NEW q \in Requests PROVE ConnectionInv(q)'
      BY <1>2 DEF Go!CloseListener, Go!StopListening, Losses
    <2>4. QED
      BY <2>1, <2>2, <2>3
  <1>3. CASE Go!Exit \/ Go!Kill
    <2>1. PICK st \in {"absent", "refusing"} : Go!ProcessEnds(st)
      BY <1>3 DEF Go!Exit, Go!Kill
    <2>2. GoTypeInv'
      BY <2>1 DEF Go!ProcessEnds, Go!Running, Go!Ends, Go!Places
    <2>3. ListenInv' /\ AcceptInv'
      BY <2>1 DEF Go!ProcessEnds, ListenInv, AcceptInv
    <2>4. ASSUME NEW q \in Requests PROVE ConnectionInv(q)'
      <3>1. ConnectInv(q)'
        BY <2>1 DEF Go!ProcessEnds, Go!StopListening
      <3>2. PlaceInv(q)'
        BY <2>1 DEF Go!ProcessEnds, Go!StopListening, Go!Running
      <3>3. FateInv(q)'
        BY <2>1 DEF Go!ProcessEnds, Go!StopListening, Go!Running, Losses
      <3>4. QED
        BY <3>1, <3>2, <3>3
    <2>5. QED
      BY <2>2, <2>3, <2>4
  <1>4. CASE Go!Signal \/ Go!AwaitAccept \/ Go!DrainDone \/ Go!DrainExpired
    <2>1. GoTypeInv' /\ ListenInv' /\ AcceptInv'
      BY <1>4 DEF Go!Signal, Go!AwaitAccept, Go!DrainDone, Go!DrainExpired, ListenInv, AcceptInv
    <2>2. ASSUME NEW q \in Requests PROVE ConnectionInv(q)'
      BY <1>4 DEF Go!Signal, Go!AwaitAccept, Go!DrainDone, Go!DrainExpired
    <2>3. QED
      BY <2>1, <2>2
  <1>5. QED
    BY <1>1, <1>2, <1>3, <1>4 DEF Go!MainStep

\* The accept loop keeps the invariant: a connection passes from the backlog to
\* the loop's hands and from there to a goroutine.
LEMMA AcceptSystemInv ==
    ASSUME IInv, SystemInv, UNCHANGED workerVars, Go!AcceptStep
    PROVE  SystemInv'
  <1> USE DEF IInv, TypeOK, KernelTypeOK, Go!kernelVars, Go!clientVars, workerVars
  <1> USE DEF RequestInv, MessageOnce, AtDaemon, SystemInv, ConnectionInv, GoTypeInv
  <1> USE DEF ConnectInv, PlaceInv, FateInv, HoldingPlaces, Committed
  <1> USE DEF Go!mainVars, Go!acceptVars, Go!slotVars, Go!connVars
  <1>1. CASE Go!AcceptConn
    <2>1. PICK r \in Requests : Go!Accept(r) /\ acur' = r
      BY <1>1 DEF Go!AcceptConn
    <2>2. GoTypeInv' /\ ListenInv' /\ AcceptInv'
      BY <1>1, <2>1 DEF Go!AcceptConn, Go!Accept, ListenInv, AcceptInv
    <2>3. ASSUME NEW q \in Requests PROVE ConnectionInv(q)'
      BY <1>1, <2>1 DEF Go!AcceptConn, Go!Accept
    <2>4. QED
      BY <2>2, <2>3
  <1>2. CASE Go!AcceptFail \/ Go!AcceptRetry \/ Go!PauseEnds
    <2>1. GoTypeInv' /\ ListenInv' /\ AcceptInv'
      BY <1>2 DEF Go!AcceptFail, Go!AcceptRetry, Go!PauseEnds, ListenInv, AcceptInv
    <2>2. ASSUME NEW q \in Requests PROVE ConnectionInv(q)'
      BY <1>2 DEF Go!AcceptFail, Go!AcceptRetry, Go!PauseEnds
    <2>3. QED
      BY <2>1, <2>2
  <1>3. CASE Go!CheckContext \/ Go!TakeSlot \/ Go!OverLimit
    <2>1. acur \in Requests /\ chan[acur] = "accepted" /\ gpc[acur] = "none"
      BY <1>3 DEF Go!CheckContext, Go!TakeSlot, Go!OverLimit, AcceptInv
    <2>2. GoTypeInv' /\ ListenInv' /\ AcceptInv'
      BY <1>3, <2>1
         DEF Go!CheckContext, Go!TakeSlot, Go!OverLimit, ListenInv, AcceptInv, Go!Places
    <2>3. ASSUME NEW q \in Requests PROVE ConnectionInv(q)'
      BY <1>3, <2>1 DEF Go!CheckContext, Go!TakeSlot, Go!OverLimit
    <2>4. QED
      BY <2>2, <2>3
  <1>4. QED
    BY <1>1, <1>2, <1>3 DEF Go!AcceptStep

\* A connection's goroutine keeps the invariant: it lets go of a descriptor only
\* when the client has had an answer or the loss has a name.
LEMMA ConnSystemInv ==
    ASSUME IInv, SystemInv, UNCHANGED workerVars, NEW r \in Requests,
           Go!ConnStep(r) \/ Go!ClientLeaves(r)
    PROVE  SystemInv'
  <1> USE DEF IInv, TypeOK, KernelTypeOK, Go!kernelVars, Go!clientVars, workerVars
  <1> USE DEF RequestInv, MessageOnce, AtDaemon, SystemInv, ConnectionInv, GoTypeInv
  <1> USE DEF ConnectInv, PlaceInv, FateInv, HoldingPlaces, Committed, Losses
  <1> USE DEF Go!mainVars, Go!acceptVars, Go!slotVars, Go!connVars
  <1> USE DEF Go!Move, Go!Because
  <1> DEFINE Writes == wrote' = [wrote EXCEPT ![r] = @ \cup {"daemon"}]
  <1>1. UNCHANGED <<mainPc, acceptPc, acur, listener>>
    BY DEF Go!ConnStep, Go!ClientLeaves, Go!Enter, Go!Receive, Go!RecvMsg,
           Go!ReceiveFail, Go!CloseDaemonEnd, Go!WrapFail, Go!Reject, Go!Prepare,
           Go!FirstWrite, Go!StreamEnd, Go!StreamEndsEmpty, Go!StreamFail, Go!Panic,
           Go!CloseClient,
           Go!Unwind, Go!Uncount
  <1>2. ListenInv'
    BY <1>1 DEF ListenInv
  <1>3. CASE Go!Enter(r)
    <2>1. GoTypeInv' /\ AcceptInv'
      BY <1>1, <1>3 DEF Go!Enter, Go!Places, AcceptInv
    <2>2. ASSUME NEW q \in Requests PROVE ConnectionInv(q)'
      BY <1>3 DEF Go!Enter
    <2>3. QED
      BY <1>2, <2>1, <2>2
  <1>4. CASE Go!Receive(r)
    <2>1. GoTypeInv' /\ AcceptInv'
      BY <1>1, <1>4 DEF Go!Receive, Go!RecvMsg, Go!Places, AcceptInv
    <2>2. ASSUME NEW q \in Requests PROVE ConnectionInv(q)'
      BY <1>4 DEF Go!Receive, Go!RecvMsg
    <2>3. QED
      BY <1>2, <2>1, <2>2
  <1>5. CASE Go!ReceiveFail(r)
    <2>1. GoTypeInv' /\ AcceptInv'
      BY <1>1, <1>5 DEF Go!ReceiveFail, Go!CloseDaemonEnd, Go!Places, Go!Ends, AcceptInv
    <2>2. ASSUME NEW q \in Requests PROVE ConnectionInv(q)'
      BY <1>5 DEF Go!ReceiveFail, Go!CloseDaemonEnd
    <2>3. QED
      BY <1>2, <2>1, <2>2
  <1>6. CASE Go!WrapFail(r)
    <2>1. GoTypeInv' /\ AcceptInv'
      BY <1>1, <1>6 DEF Go!WrapFail, Go!Places, Go!Ends, AcceptInv
    <2>2. ASSUME NEW q \in Requests PROVE ConnectionInv(q)'
      BY <1>6 DEF Go!WrapFail
    <2>3. QED
      BY <1>2, <2>1, <2>2
  <1>14. CASE Go!StreamEndsEmpty(r)
    <2>1. GoTypeInv' /\ AcceptInv'
      BY <1>1, <1>14 DEF Go!StreamEndsEmpty, Go!Places, Go!Ends, AcceptInv
    <2>2. ASSUME NEW q \in Requests PROVE ConnectionInv(q)'
      BY <1>14 DEF Go!StreamEndsEmpty
    <2>3. QED
      BY <1>2, <2>1, <2>2
  <1>15. CASE Go!StreamEnd(r)
    <2>1. GoTypeInv' /\ AcceptInv'
      BY <1>1, <1>15 DEF Go!StreamEnd, Go!Places, Go!Ends, AcceptInv
    <2>2. Writes \/ UNCHANGED wrote
      BY <1>15 DEF Go!StreamEnd, Go!Say
    <2>3. CASE Writes
      <3>1. ASSUME NEW q \in Requests PROVE ConnectionInv(q)'
        BY SMTT(30), <1>15, <2>3 DEF Go!StreamEnd
      <3>2. QED
        BY <1>2, <2>1, <3>1
    <2>4. CASE UNCHANGED wrote
      <3>1. ASSUME NEW q \in Requests PROVE ConnectionInv(q)'
        BY SMTT(30), <1>15, <2>4 DEF Go!StreamEnd
      <3>2. QED
        BY <1>2, <2>1, <3>1
    <2>5. QED
      BY <2>2, <2>3, <2>4
  <1>7. CASE Go!Reject(r) \/ Go!Panic(r)
    <2>0. Writes
      BY <1>7 DEF Go!Reject, Go!Panic, Go!Say
    <2>1. GoTypeInv' /\ AcceptInv'
      BY SMTT(30), <1>1, <1>7, <2>0 DEF Go!Reject, Go!Panic, Go!Places, Go!Ends, AcceptInv
    <2>2. /\ gpc' = [gpc EXCEPT ![r] = "closing"]
          /\ end' = [end EXCEPT ![r] = "rejected"] \/ end' = [end EXCEPT ![r] = "panic"]
          /\ gpc[r] \in {"rejecting", "setup", "stream", "body"}
          /\ UNCHANGED <<listener, chan, qmsg, held>>
      BY <1>7 DEF Go!Reject, Go!Panic
    <2>3. ASSUME NEW q \in Requests PROVE ConnectionInv(q)'
      BY SMTT(30), <2>0, <2>2
    <2>4. QED
      BY <1>2, <2>1, <2>3
  <1>8. CASE Go!Prepare(r)
    <2>1. GoTypeInv' /\ AcceptInv'
      BY <1>1, <1>8 DEF Go!Prepare, Go!Places, Go!Ends, AcceptInv
    <2>2. CASE Go!Say(r, "status") /\ Go!Because(r, "badrequest") /\ Go!Move(r, "closing")
      <3>1. Writes
        BY <2>2 DEF Go!Say
      <3>2. /\ gpc' = [gpc EXCEPT ![r] = "closing"]
            /\ end' = [end EXCEPT ![r] = "badrequest"]
            /\ gpc[r] = "setup"
            /\ UNCHANGED <<listener, chan, qmsg, held>>
        BY <1>8, <2>2 DEF Go!Prepare
      <3>3. ASSUME NEW q \in Requests PROVE ConnectionInv(q)'
        BY <3>1, <3>2
      <3>4. QED
        BY <1>2, <2>1, <3>3
    <2>3. CASE Go!Move(r, "stream") /\ UNCHANGED <<answer, wrote, end>>
      <3>1. ASSUME NEW q \in Requests PROVE ConnectionInv(q)'
        BY <1>8, <2>3 DEF Go!Prepare
      <3>2. QED
        BY <1>2, <2>1, <3>1
    <2>4. QED
      BY <1>8, <2>2, <2>3 DEF Go!Prepare
  <1>9. CASE Go!FirstWrite(r)
    <2>0. Writes
      BY <1>9 DEF Go!FirstWrite, Go!Say
    <2>1. GoTypeInv' /\ AcceptInv'
      BY <1>1, <1>9, <2>0 DEF Go!FirstWrite, Go!Places, Go!Ends, AcceptInv
    <2>2. ASSUME NEW q \in Requests PROVE ConnectionInv(q)'
      BY <1>9, <2>0 DEF Go!FirstWrite
    <2>3. QED
      BY <1>2, <2>1, <2>2
  <1>10. ASSUME NEW err \in Go!StreamErrors, Go!StreamFail(r, err)
         PROVE  SystemInv'
    <2>1. GoTypeInv' /\ AcceptInv'
      BY <1>1, <1>10 DEF Go!StreamFail, Go!MayFail, Go!Places, Go!Ends, AcceptInv
    <2>2. CASE Go!ClientDisconnected(err)
      <3>1. ASSUME NEW q \in Requests PROVE ConnectionInv(q)'
        BY <1>10, <2>2 DEF Go!StreamFail, Go!MayFail, Go!ClientDisconnected
      <3>2. QED
        BY <1>2, <2>1, <3>1
    <2>3. CASE ~Go!ClientDisconnected(err)
      <3>1. Writes
        BY <1>10, <2>3 DEF Go!StreamFail, Go!MayFail, Go!Say
      <3>2. ASSUME NEW q \in Requests PROVE ConnectionInv(q)'
        BY <1>10, <2>3, <3>1 DEF Go!StreamFail, Go!MayFail
      <3>3. QED
        BY <1>2, <2>1, <3>2
    <2>4. QED
      BY <2>2, <2>3
  <1>11. CASE Go!CloseClient(r)
    <2>1. GoTypeInv' /\ AcceptInv'
      BY <1>1, <1>11 DEF Go!CloseClient, Go!Places, AcceptInv
    <2>2. ASSUME NEW q \in Requests PROVE ConnectionInv(q)'
      BY <1>11 DEF Go!CloseClient
    <2>3. QED
      BY <1>2, <2>1, <2>2
  <1>12. CASE Go!Unwind(r) \/ Go!Uncount(r) \/ Go!ClientLeaves(r)
    <2>1. GoTypeInv' /\ AcceptInv'
      BY <1>1, <1>12 DEF Go!Unwind, Go!Uncount, Go!ClientLeaves, Go!Places, AcceptInv
    <2>2. ASSUME NEW q \in Requests PROVE ConnectionInv(q)'
      BY <1>12 DEF Go!Unwind, Go!Uncount, Go!ClientLeaves
    <2>3. QED
      BY <1>2, <2>1, <2>2
  <1>13. QED
    BY <1>3, <1>4, <1>5, <1>6, <1>7, <1>8, <1>9, <1>10, <1>11, <1>12,
       <1>14, <1>15 DEF Go!ConnStep

\* Every step of the two is a step of HandoffFilter or a stutter.
LEMMA SystemKeepsContract ==
    IInv /\ SystemInv /\ [SystemNext]_systemVars => [Next]_vars
  <1> SUFFICES ASSUME IInv, SystemInv, [SystemNext]_systemVars PROVE [Next]_vars
    OBVIOUS
  <1>1. CASE \E r \in Requests : WorkerStep(r)
    BY <1>1 DEF Next
  <1>2. CASE Go!GoStep /\ UNCHANGED workerVars
    BY <1>2, GoKeepsContract
  <1>3. CASE UNCHANGED systemVars
    BY <1>3 DEF systemVars
  <1>4. QED
    BY <1>1, <1>2, <1>3 DEF SystemNext

\* Every step of the two keeps SystemInv.
LEMMA SystemNextInv ==
    IInv /\ SystemInv /\ [SystemNext]_systemVars => SystemInv'
  <1> SUFFICES ASSUME IInv, SystemInv, [SystemNext]_systemVars PROVE SystemInv'
    OBVIOUS
  <1>1. CASE (\E r \in Requests : WorkerStep(r)) /\ UNCHANGED daemonVars
    BY <1>1, WorkerSystemInv
  <1>2. CASE Go!GoStep /\ UNCHANGED workerVars
    BY <1>2, MainSystemInv, AcceptSystemInv, ConnSystemInv DEF Go!GoStep
  <1>3. CASE UNCHANGED systemVars
    BY <1>3
       DEF systemVars, daemonVars, vars, kernelVars, workerVars, clientVars, SystemInv,
           GoTypeInv, ListenInv, AcceptInv, ConnectionInv, ConnectInv, PlaceInv,
           FateInv, Committed, AtDaemon
  <1>4. QED
    BY <1>1, <1>2, <1>3 DEF SystemNext

\* Both invariants hold in every reachable state of the two together.
LEMMA AlwaysSystemInv == SystemSpec => [](IInv /\ SystemInv)
  <1>1. SystemInit => IInv
    BY InitIInv DEF SystemInit
  <1>2. QED
    BY <1>1, InitSystemInv, SystemKeepsContract, SystemNextInv, NextIInv, PTL
       DEF SystemSpec

\* The Go daemon keeps the contract that the module is built on, whatever its
\* streams, upstreams, limits, signals and crashes do: with it in its place,
\* Apache sees only what HandoffFilter allows a daemon.
THEOREM SystemKeepsContractHolds == SystemSpec => KeepsContract
  <1>1. SystemInit => Init
    BY DEF SystemInit
  <1>2. QED
    BY <1>1, AlwaysSystemInv, SystemKeepsContract, PTL
       DEF SystemSpec, KeepsContract, Spec

\* Hence what is proved of the filter with any daemon holds with the Go daemon:
\* at any moment one process can answer a client, and one answers all of it.
THEOREM SystemImplementsOwnership == SystemSpec => ImplementsOwnership
  BY SystemKeepsContractHolds, FilterImplementsOwnership DEF KeepsContract

\* Between Apache and the Go daemon, for any number of requests, every client is
\* answered by one of the two, and by one only; nobody answers only a client that the
\* daemon lost in one of the ways in Losses.
THEOREM SystemClientAnswered == SystemSpec => []ClientAnswered
  <1>1. IInv /\ SystemInv => ClientAnswered
    <2> SUFFICES ASSUME IInv, SystemInv, NEW r \in Requests, wpc[r] = "closed", ~AtDaemon(r),
                        gpc[r] \notin {"rejecting", "setup"}
                 PROVE  \/ wrote[r] = {"daemon"}
                        \/ wrote[r] # {} /\ wrote[r] \subseteq {"body", "error"}
                        \/ wrote[r] = {} /\ end[r] \in Losses
      BY DEF ClientAnswered
    <2>1. CASE Committed(r)
      <3>1. wrote[r] \subseteq {"daemon"}
        BY <2>1 DEF IInv, RequestInv, DaemonAfterCommit
      <3>2. wrote[r] # {} \/ end[r] \in Losses
        BY <2>1 DEF SystemInv, ConnectionInv, FateInv
      <3>3. QED
        BY <3>1, <3>2
    <2>2. CASE ~Committed(r)
      <3>1. wrote[r] \cap {"body", "error"} # {}
        BY <2>2 DEF IInv, RequestInv, WillAnswer, Committed
      <3>2. wrote[r] \subseteq {"body", "error", "daemon"} /\ "daemon" \notin wrote[r]
        BY <2>2 DEF IInv, TypeOK, RequestInv, DaemonAfterCommit
      <3>3. QED
        BY <3>1, <3>2
    <2>3. QED
      BY <2>1, <2>2
  <1>2. QED
    BY <1>1, AlwaysSystemInv, PTL
==============================================================================
