--------------------------- MODULE GoDaemonProofs ---------------------------
(***************************************************************************)
(* The Go daemon answers each client once and well-formed, serves only in  *)
(* its slots, and gives every slot and count back, for any number of       *)
(* connections and slots and any interleaving of the goroutines.           *)
(***************************************************************************)
EXTENDS GoDaemon, FiniteSetTheorems, SequenceTheorems, TLAPS

\* Between the release of its slot and the decrement.
Dec == {r \in Requests : gpc[r] = "dec"}

Answers == {<<>>, <<"status">>, <<"headers">>, <<"headers", "done">>, <<"headers", "event">>}
Silent == {"none", "start", "reject", "rejecting", "recv", "setup", "stream"}
Serving == {"start", "recv", "setup", "stream", "body"}

\* The types, with the answers that a client can get.
TypeInv ==
    /\ KernelTypeOK
    /\ held \in [Requests -> BOOLEAN]
    /\ wrote \in [Requests -> SUBSET {"daemon"}]
    /\ mainPc \in {"down", "serving", "awaitAccept", "waiting", "grace", "cleanup"}
    /\ ctxDone \in BOOLEAN /\ drained \in BOOLEAN
    /\ acceptPc \in {"accept", "errsleep", "check", "sem", "pause", "exited"}
    /\ acur \in Requests \cup {NoRequest}
    /\ sem \in SUBSET Requests
    /\ gpc \in [Requests -> Places]
    /\ answer \in [Requests -> Answers]
    /\ end \in [Requests -> Ends]
    /\ gone \in [Requests -> BOOLEAN]

\* What the place of a goroutine says of its connection, its descriptor, its answer
\* and its slot.
PlaceInv ==
    \A r \in Requests :
        /\ gpc[r] # "none" => chan[r] \in {"accepted", "gone"}
        /\ chan[r] = "accepted" => acur = r \/ gpc[r] \in {"start", "reject", "recv"}
        /\ held[r] => gpc[r] \in {"rejecting", "setup", "stream", "body", "closing"}
        /\ gpc[r] \in Serving => r \in sem

AnswerInv ==
    \A r \in Requests :
        /\ gpc[r] # "none" => chan[r] \in {"accepted", "gone"}
        /\ gpc[r] \in Silent => answer[r] = <<>>
        /\ gpc[r] = "body" => answer[r] = <<"headers">>
        /\ gpc[r] \in {"closing", "unwind", "dec", "done"} => answer[r] \in FateOf(end[r])

\* The accept loop has a connection between accept() and its goroutine, and has
\* ended when main() waits for the goroutines.
AcceptInv ==
    /\ acceptPc \in {"check", "sem"} <=> acur # NoRequest
    /\ acur # NoRequest => gpc[acur] = "none" /\ chan[acur] = "accepted"
    /\ mainPc \in {"down", "waiting", "grace", "cleanup"} => acceptPc = "exited"
    /\ mainPc = "grace" => drained
    /\ mainPc = "down" \/ (mainPc = "cleanup" /\ ~drained) =>
         \A r \in Requests : gpc[r] \in {"none", "done", "dead"}

SlotInv ==
    /\ activeConns \in Nat
    /\ IsFiniteSet(sem) /\ Cardinality(sem) <= MaxConnections
    /\ mainPc # "down" =>
         /\ \A r \in sem : gpc[r] \notin {"none", "dec", "done", "dead"}
         /\ IsFiniteSet(Dec)
         /\ activeConns = Cardinality(sem \cup Dec)

IInv == TypeInv /\ PlaceInv /\ AnswerInv /\ AcceptInv /\ SlotInv

Parts == {"headers", "status", "event", "done"}

\* Two facts on short answers that Say needs.
LEMMA AppendToTwo == ASSUME NEW p \in Parts PROVE Append(<<"headers">>, p) = <<"headers", p>>
<1> DEFINE h == "headers"
<1>0. h \in Parts
  BY DEF Parts
<1> HIDE DEF h
<1>1. <<h>> \in Seq(Parts) /\ <<h, p>> \in Seq(Parts) /\ Append(<<h>>, p) \in Seq(Parts)
  BY <1>0
<1>2. Len(<<h, p>>) = 2 /\ Len(Append(<<h>>, p)) = 2
  OBVIOUS
<1>3. \A i \in 1..2 : Append(<<h>>, p)[i] = <<h, p>>[i]
  OBVIOUS
<1>4. Append(<<h>>, p) = <<h, p>>
  BY <1>1, <1>2, <1>3, SeqEqual
<1> QED
  BY <1>4 DEF h

\* The first part of an answer.
LEMMA AppendToNone == ASSUME NEW p \in Parts PROVE Append(<<>>, p) = <<p>>
<1>1. /\ <<>> \in Seq(Parts) /\ <<p>> \in Seq(Parts) /\ Append(<<>>, p) \in Seq(Parts)
      /\ Len(<<>>) = 0 /\ Len(<<p>>) = 1 /\ Len(Append(<<>>, p)) = 1
  OBVIOUS
<1>2. \A i \in 1..1 : Append(<<>>, p)[i] = <<p>>[i]
  OBVIOUS
<1> QED
  BY <1>1, <1>2, SeqEqual

\* The answers a client can get are sequences of parts (TypeOK of GoDaemon).
LEMMA AnswersType == Answers \subseteq Seq({"headers", "status", "event", "done"})
BY DEF Answers

\* No process, no connection, no answer.
LEMMA InitIInv == Init => IInv
<1> SUFFICES ASSUME Init PROVE IInv
  OBVIOUS
<1> USE GoAssumption DEF Init, GoInit, KernelInit
<1>1. TypeInv
  BY DEF TypeInv, KernelTypeOK, Answers, Ends, Places
<1>2. PlaceInv /\ AnswerInv /\ AcceptInv
  BY DEF PlaceInv, AnswerInv, AcceptInv, Answers, Silent, Serving
<1>3. SlotInv
  BY FS_EmptySet DEF SlotInv
<1> QED
  BY <1>1, <1>2, <1>3 DEF IInv

\* Steps that leave the slots, the counter and the process alone keep SlotInv if no
\* goroutine with a slot ends and none comes to or leaves the decrement.
LEMMA SlotsAlone ==
    ASSUME SlotInv, UNCHANGED slotVars,
           mainPc' # "down" => mainPc # "down",
           mainPc' # "down" => \A r \in sem : gpc'[r] = gpc[r]
                                  \/ gpc'[r] \notin {"none", "dec", "done", "dead"},
           mainPc' # "down" => Dec' = Dec
    PROVE  SlotInv'
BY DEF SlotInv, slotVars

\* The fates one by one.
LEMMA Fates ==
    /\ \A why \in {"rejected", "badrequest", "panic", "upstream", "timeout", "canceled"} :
          <<"status">> \in FateOf(why)
    /\ \A why \in {"panic", "upstream", "timeout", "canceled"} :
          <<"headers", "event">> \in FateOf(why)
    /\ <<"headers">> \in FateOf("ok") /\ <<"headers", "done">> \in FateOf("ok")
    /\ <<"headers">> \in FateOf("clientgone") /\ <<"headers">> \in FateOf("reset")
    /\ \A why \in {"reset", "dropped", "nodup", "empty"} : <<>> \in FateOf(why)
    /\ FateOf("none") = {}
BY DEF FateOf

\* The daemon says a part of a response, once it may.
LEMMA SayKeeps ==
    ASSUME TypeInv, NEW r \in Requests, NEW p \in Parts, Say(r, p),
           \/ answer[r] = <<>> /\ p \in {"status", "headers"}
           \/ answer[r] = <<"headers">> /\ p \in {"done", "event"}
    PROVE  /\ answer' \in [Requests -> Answers]
           /\ answer'[r] = IF p \in {"status", "headers"} THEN <<p>> ELSE <<"headers", p>>
           /\ \A t \in Requests \ {r} : answer'[t] = answer[t]
           /\ wrote' \in [Requests -> SUBSET {"daemon"}]
<1>1. \A t \in Requests : answer'[t] = IF t = r THEN Append(answer[r], p) ELSE answer[t]
  BY DEF Say, TypeInv
<1>2. CASE answer[r] = <<>> /\ p \in {"status", "headers"}
  <2>1. Append(answer[r], p) = <<p>> /\ <<p>> \in Answers
    BY <1>2, AppendToNone DEF Answers
  <2> QED
    BY <1>1, <1>2, <2>1 DEF Say, TypeInv
<1>3. CASE answer[r] = <<"headers">> /\ p \in {"done", "event"}
  <2>1. /\ Append(answer[r], p) = <<"headers", p>> /\ <<"headers", p>> \in Answers
        /\ p \notin {"status", "headers"}
    BY <1>3, AppendToTwo DEF Answers
  <2> QED
    BY <1>1, <1>3, <2>1 DEF Say, TypeInv
<1> QED
  BY <1>2, <1>3
-----------------------------------------------------------------------------
(* The goroutine of a connection.                                          *)

\* What a step of the goroutine of r leaves alone ...
Untouched(r) ==
    /\ UNCHANGED <<mainVars, acceptVars, slotVars, gone, listener, apEnd>>
    /\ \A t \in Requests \ {r} :
          /\ gpc'[t] = gpc[t] /\ chan'[t] = chan[t] /\ held'[t] = held[t]
          /\ answer'[t] = answer[t] /\ end'[t] = end[t]

\* ... and what it must establish for r to keep the invariant.
LEMMA GoroutineKeeps ==
    ASSUME IInv, TypeInv', NEW r \in Requests, Untouched(r),
           gpc[r] \notin {"none", "dec", "done", "dead"},
           gpc'[r] \notin {"none", "dec", "done", "dead"},
           chan'[r] \in {"accepted", "gone"},
           chan'[r] = "accepted" => chan[r] = "accepted" /\ gpc'[r] \in {"start", "reject", "recv"},
           held'[r] => gpc'[r] \in {"rejecting", "setup", "stream", "body", "closing"},
           gpc'[r] \in Serving => gpc[r] \in Serving,
           gpc'[r] \in Silent => answer'[r] = <<>>,
           gpc'[r] = "body" => answer'[r] = <<"headers">>,
           gpc'[r] \in {"closing", "unwind"} => answer'[r] \in FateOf(end'[r])
    PROVE  IInv'
<1> USE DEF IInv, Untouched, mainVars, acceptVars, slotVars
<1>1. PlaceInv'
  BY DEF PlaceInv
<1>2. AnswerInv'
  BY DEF AnswerInv
<1>3. AcceptInv'
  <2>1. acur # NoRequest => acur \in Requests \ {r}
    BY DEF AcceptInv, TypeInv
  <2>2. ~(mainPc = "down" \/ (mainPc = "cleanup" /\ ~drained))
    BY DEF AcceptInv
  <2>3. /\ acceptPc' = acceptPc /\ acur' = acur /\ mainPc' = mainPc /\ drained' = drained
        /\ acur # NoRequest => gpc'[acur] = gpc[acur] /\ chan'[acur] = chan[acur]
    BY <2>1
  <2> QED
    BY <2>2, <2>3 DEF AcceptInv
<1>4. SlotInv'
  <2>1. Dec' = Dec
    BY DEF Dec
  <2>2. \A t \in sem : gpc'[t] = gpc[t] \/ gpc'[t] \notin {"none", "dec", "done", "dead"}
    BY DEF TypeInv
  <2> QED
    BY <2>1, <2>2, SlotsAlone
<1> QED
  BY <1>1, <1>2, <1>3, <1>4

\* The steps of a goroutine up to the release of its slot.
LEMMA ConnKeeps ==
    ASSUME IInv, NEW r \in Requests,
           \/ Enter(r) \/ Receive(r) \/ ReceiveFail(r) \/ WrapFail(r) \/ Reject(r)
           \/ Prepare(r) \/ FirstWrite(r) \/ StreamEnd(r) \/ StreamEndsEmpty(r)
           \/ Panic(r) \/ CloseClient(r)
           \/ \E err \in StreamErrors : StreamFail(r, err)
    PROVE  IInv'
<1> USE DEF mainVars, acceptVars, slotVars, clientVars, kernelVars, Move, Because
<1>0. /\ TypeInv
      /\ gpc[r] # "none" => chan[r] \in {"accepted", "gone"}
      /\ chan[r] = "accepted" /\ gpc[r] # "none" => gpc[r] \in {"start", "reject", "recv"}
      /\ held[r] => gpc[r] \in {"rejecting", "setup", "stream", "body", "closing"}
      /\ gpc[r] \in Silent => answer[r] = <<>>
      /\ gpc[r] = "body" => answer[r] = <<"headers">>
      /\ gpc[r] \in {"closing", "unwind"} => answer[r] \in FateOf(end[r])
  BY GoAssumption DEF IInv, PlaceInv, AnswerInv, AcceptInv
<1>1. CASE Enter(r)
  <2>1. TypeInv' /\ Untouched(r)
    BY <1>0, <1>1 DEF Enter, TypeInv, KernelTypeOK, Places, Untouched
  <2>2. /\ gpc[r] = "start" /\ gpc'[r] \in {"reject", "recv"}
        /\ UNCHANGED <<chan, held, answer, end>>
    BY <1>0, <1>1 DEF Enter, TypeInv
  <2> QED
    BY <1>0, <2>1, <2>2, GoroutineKeeps DEF Serving, Silent
<1>2. CASE Receive(r)
  <2>1. TypeInv' /\ Untouched(r)
    BY <1>0, <1>2 DEF Receive, RecvMsg, TypeInv, KernelTypeOK, Places, Untouched
  <2>2. /\ \/ gpc[r] = "reject" /\ gpc'[r] = "rejecting"
           \/ gpc[r] = "recv" /\ gpc'[r] = "setup"
        /\ chan'[r] = "gone" /\ UNCHANGED <<answer, end>>
    BY <1>0, <1>2 DEF Receive, RecvMsg, TypeInv, KernelTypeOK
  <2> QED
    BY <1>0, <2>1, <2>2, GoroutineKeeps DEF Serving, Silent
<1>3. CASE ReceiveFail(r)
  <2>1. TypeInv' /\ Untouched(r)
    BY <1>0, <1>3 DEF ReceiveFail, CloseDaemonEnd, TypeInv, KernelTypeOK, Places, Ends, Untouched
  <2>2. /\ gpc[r] \in {"reject", "recv"} /\ gpc'[r] = "unwind" /\ end'[r] = "dropped"
        /\ chan'[r] = "gone" /\ UNCHANGED <<answer, held>>
    BY <1>0, <1>3 DEF ReceiveFail, CloseDaemonEnd, TypeInv, KernelTypeOK
  <2>3. answer'[r] \in FateOf(end'[r])
    BY <1>0, <2>2, Fates DEF Silent
  <2> QED
    BY <1>0, <2>1, <2>2, <2>3, GoroutineKeeps DEF Serving, Silent
<1>4. CASE WrapFail(r)
  <2>1. TypeInv' /\ Untouched(r)
    BY <1>0, <1>4 DEF WrapFail, TypeInv, KernelTypeOK, Places, Ends, Untouched
  <2>2. /\ gpc[r] \in {"rejecting", "setup"} /\ gpc'[r] = "closing" /\ end'[r] = "nodup"
        /\ UNCHANGED <<chan, answer, held>>
    BY <1>0, <1>4 DEF WrapFail, TypeInv
  <2>3. answer'[r] \in FateOf(end'[r])
    BY <1>0, <2>2, Fates DEF Silent
  <2> QED
    BY <1>0, <2>1, <2>2, <2>3, GoroutineKeeps DEF Serving, Silent
<1>5. ASSUME NEW p \in Parts, NEW why \in Ends, Say(r, p), Because(r, why), Move(r, "closing"),
             UNCHANGED <<kernelVars, held, mainVars, acceptVars, slotVars, gone>>,
             \/ /\ gpc[r] \in {"rejecting", "setup", "stream"} /\ p = "status"
                /\ <<"status">> \in FateOf(why)
             \/ /\ gpc[r] = "body" /\ p \in {"done", "event"}
                /\ <<"headers", p>> \in FateOf(why)
      PROVE  IInv'
  <2>1. \/ answer[r] = <<>> /\ p = "status"
        \/ answer[r] = <<"headers">> /\ p \in {"done", "event"}
    BY <1>0, <1>5 DEF Silent
  <2>2. /\ answer' \in [Requests -> Answers]
        /\ answer'[r] = IF p \in {"status", "headers"} THEN <<p>> ELSE <<"headers", p>>
        /\ \A t \in Requests \ {r} : answer'[t] = answer[t]
        /\ wrote' \in [Requests -> SUBSET {"daemon"}]
    BY <1>0, <1>5, <2>1, SayKeeps
  <2>3. TypeInv' /\ Untouched(r)
    BY ZenonT(40), <1>0, <1>5, <2>2 DEF TypeInv, KernelTypeOK, Places, Untouched
  <2>4. gpc'[r] = "closing" /\ gpc[r] \in {"rejecting", "setup", "stream", "body"}
    BY <1>0, <1>5 DEF TypeInv
  <2>5. chan'[r] = chan[r] /\ chan[r] = "gone"
    BY <1>0, <1>5, <2>4
  <2>6. answer'[r] \in FateOf(end'[r])
    <3>1. end'[r] = why
      BY <1>0, <1>5 DEF TypeInv
    <3> QED
      BY <1>5, <2>2, <3>1
  <2> QED
    BY <2>2, <2>3, <2>4, <2>5, <2>6, GoroutineKeeps DEF Serving, Silent
<1>6. CASE Reject(r)
  BY <1>5, <1>6, Fates DEF Reject, Parts, Ends
<1>7. CASE Prepare(r)
  <2>1. CASE Say(r, "status") /\ Because(r, "badrequest") /\ Move(r, "closing")
    BY <1>5, <1>7, <2>1, Fates DEF Prepare, Parts, Ends
  <2>2. CASE Move(r, "stream") /\ UNCHANGED <<answer, wrote, end>>
    <3>1. /\ gpc[r] = "setup" /\ gpc'[r] = "stream" /\ UNCHANGED <<chan, held, answer, end>>
      BY <1>0, <1>7, <2>2 DEF Prepare, TypeInv
    <3>2. TypeInv' /\ Untouched(r)
      BY <1>0, <1>7, <2>2 DEF Prepare, TypeInv, KernelTypeOK, Places, Untouched
    <3> QED
      BY <1>0, <3>1, <3>2, GoroutineKeeps DEF Serving, Silent
  <2> QED
    BY <1>7, <2>1, <2>2 DEF Prepare
<1>8. CASE FirstWrite(r)
  <2>1. answer[r] = <<>> /\ gpc[r] = "stream" /\ Say(r, "headers")
    BY <1>0, <1>8 DEF FirstWrite, Silent
  <2>2. /\ answer' \in [Requests -> Answers] /\ answer'[r] = <<"headers">>
        /\ \A t \in Requests \ {r} : answer'[t] = answer[t]
        /\ wrote' \in [Requests -> SUBSET {"daemon"}]
    BY <1>0, <2>1, SayKeeps DEF Parts
  <2>3. TypeInv' /\ Untouched(r)
    BY ZenonT(40), <1>0, <1>8, <2>2 DEF FirstWrite, TypeInv, KernelTypeOK, Places, Untouched
  <2>4. gpc'[r] = "body" /\ UNCHANGED <<chan, held, end>>
    BY <1>0, <1>8 DEF FirstWrite, TypeInv
  <2> QED
    BY <1>0, <2>1, <2>2, <2>3, <2>4, GoroutineKeeps DEF Serving, Silent
<1>9. CASE StreamEnd(r)
  <2>1. CASE Say(r, "done")
    BY <1>5, <1>9, <2>1, Fates DEF StreamEnd, Parts, Ends
  <2>2. CASE UNCHANGED <<answer, wrote>>
    <3>1. TypeInv' /\ Untouched(r)
      BY <1>0, <1>9, <2>2 DEF StreamEnd, TypeInv, KernelTypeOK, Places, Ends, Untouched
    <3>2. /\ gpc[r] = "body" /\ gpc'[r] = "closing" /\ end'[r] = "ok"
          /\ UNCHANGED <<chan, answer, held>>
      BY <1>0, <1>9, <2>2 DEF StreamEnd, TypeInv
    <3>3. answer'[r] \in FateOf(end'[r])
      BY <1>0, <3>2, Fates
    <3> QED
      BY <1>0, <3>1, <3>2, <3>3, GoroutineKeeps DEF Serving, Silent
  <2> QED
    BY <1>9, <2>1, <2>2 DEF StreamEnd
<1>13. CASE StreamEndsEmpty(r)
  <2>1. TypeInv' /\ Untouched(r)
    BY <1>0, <1>13 DEF StreamEndsEmpty, TypeInv, KernelTypeOK, Places, Ends, Untouched
  <2>2. /\ gpc[r] = "stream" /\ gpc'[r] = "closing" /\ end'[r] = "empty"
        /\ UNCHANGED <<chan, answer, held>>
    BY <1>0, <1>13 DEF StreamEndsEmpty, TypeInv
  <2>3. answer'[r] \in FateOf(end'[r])
    BY <1>0, <2>2, Fates DEF Silent
  <2> QED
    BY <1>0, <2>1, <2>2, <2>3, GoroutineKeeps DEF Serving, Silent
<1>10. CASE Panic(r)
  <2>1. CASE gpc[r] = "body"
    BY <1>5, <1>10, <2>1, Fates DEF Panic, Parts, Ends
  <2>2. CASE gpc[r] # "body"
    BY <1>5, <1>10, <2>2, Fates DEF Panic, Parts, Ends
  <2> QED
    BY <2>1, <2>2
<1>11. ASSUME NEW err \in StreamErrors, StreamFail(r, err) PROVE IInv'
  <2>0. /\ err \in Ends
        /\ ClientDisconnected(err) \/ err \in {"upstream", "timeout", "canceled"}
    BY DEF Ends, StreamErrors, ClientDisconnected
  <2>1. CASE ~ClientDisconnected(err) /\ gpc[r] = "stream"
    BY <1>5, <1>11, <2>0, <2>1, Fates DEF StreamFail, Parts
  <2>2. CASE ~ClientDisconnected(err) /\ gpc[r] = "body"
    BY <1>5, <1>11, <2>0, <2>2, Fates DEF StreamFail, Parts
  <2>3. CASE ClientDisconnected(err)
    <3>1. TypeInv' /\ Untouched(r)
      BY <1>0, <1>11, <2>0, <2>3 DEF StreamFail, MayFail, TypeInv, KernelTypeOK, Places, Untouched
    <3>2. /\ gpc[r] \in {"stream", "body"} /\ gpc'[r] = "closing" /\ end'[r] = err
          /\ UNCHANGED <<chan, answer, held>>
      BY <1>0, <1>11, <2>3 DEF StreamFail, MayFail, TypeInv
    <3>3. answer[r] \in FateOf(err)
      <4>1. CASE err = "reset"
        BY <1>0, <3>2, <4>1, Fates DEF Silent
      <4>2. CASE err = "clientgone"
        BY <1>0, <1>11, <4>2, Fates DEF StreamFail, MayFail
      <4> QED
        BY <2>3, <4>1, <4>2 DEF ClientDisconnected
    <3> QED
      BY <1>0, <3>1, <3>2, <3>3, GoroutineKeeps DEF Serving, Silent
  <2> QED
    BY <1>11, <2>1, <2>2, <2>3 DEF StreamFail, MayFail
<1>12. CASE CloseClient(r)
  <2>1. TypeInv' /\ Untouched(r)
    BY <1>0, <1>12 DEF CloseClient, TypeInv, KernelTypeOK, Places, Untouched
  <2>2. /\ gpc[r] = "closing" /\ gpc'[r] = "unwind" /\ ~held'[r]
        /\ UNCHANGED <<chan, answer, end>>
    BY <1>0, <1>12 DEF CloseClient, TypeInv
  <2> QED
    BY <1>0, <2>1, <2>2, GoroutineKeeps DEF Serving, Silent
<1> QED
  BY <1>1, <1>2, <1>3, <1>4, <1>6, <1>7, <1>8, <1>9, <1>10, <1>11, <1>12, <1>13

\* The release of the slot, and the decrement.
LEMMA UnwindKeeps ==
    ASSUME IInv, NEW r \in Requests, Unwind(r)
    PROVE  IInv'
<1> USE DEF kernelVars, clientVars, mainVars, acceptVars, slotVars, Move, IInv
<1>1. /\ gpc[r] = "unwind" /\ sem' = sem \ {r}
      /\ gpc' = [gpc EXCEPT ![r] = IF r \in sem THEN "dec" ELSE "done"]
      /\ UNCHANGED <<listener, chan, qmsg, apEnd, held, wrote, mainPc, ctxDone, drained,
                     acceptPc, acur, activeConns, answer, end, gone>>
  BY DEF Unwind
<1>2. \A t \in Requests : gpc'[t] = IF t = r THEN (IF r \in sem THEN "dec" ELSE "done")
                                           ELSE gpc[t]
  BY <1>1 DEF TypeInv
<1>3. TypeInv'
  BY <1>1 DEF TypeInv, KernelTypeOK, Places
<1>4. PlaceInv' /\ AnswerInv' /\ AcceptInv'
  <2>1. PlaceInv'
    BY <1>1, <1>2 DEF PlaceInv, Serving
  <2>2. AnswerInv'
    BY <1>1, <1>2 DEF AnswerInv, Silent
  <2>3. AcceptInv'
    <3>1. acur # r /\ mainPc # "down"
      BY <1>1, GoAssumption DEF AcceptInv
    <3> QED
      BY <1>1, <1>2, <3>1 DEF AcceptInv, TypeInv
  <2> QED
    BY <2>1, <2>2, <2>3
<1>5. SlotInv'
  <2>1. mainPc # "down"
    BY <1>1 DEF AcceptInv
  <2>2. /\ IsFiniteSet(sem) /\ IsFiniteSet(sem') /\ Cardinality(sem') <= Cardinality(sem)
        /\ Cardinality(sem) \in Nat /\ Cardinality(sem') \in Nat
    <3>1. IsFiniteSet(sem) /\ sem' \subseteq sem
      BY <1>1 DEF SlotInv
    <3> QED
      BY <3>1, FS_Subset, FS_CardinalityType
  <2>3. CASE r \in sem
    <3>1. Dec' = Dec \cup {r}
      BY <1>2, <2>3 DEF Dec
    <3>2. IsFiniteSet(Dec')
      BY <2>1, <3>1, FS_AddElement DEF SlotInv
    <3>3. sem' \cup Dec' = sem \cup Dec
      BY <1>1, <2>3, <3>1
    <3>4. \A t \in sem' : gpc'[t] \notin {"none", "dec", "done", "dead"}
      BY <1>1, <1>2, <2>1 DEF SlotInv, TypeInv
    <3> QED
      BY <1>1, <2>1, <2>2, <3>2, <3>3, <3>4, GoAssumption DEF SlotInv
  <2>4. CASE r \notin sem
    <3>1. Dec' = Dec /\ sem' = sem
      BY <1>1, <1>2, <2>4 DEF Dec
    <3>2. \A t \in sem' : gpc'[t] \notin {"none", "dec", "done", "dead"}
      BY <1>1, <1>2, <2>1, <2>4 DEF SlotInv, TypeInv
    <3> QED
      BY <1>1, <2>1, <3>1, <3>2 DEF SlotInv
  <2> QED
    BY <2>3, <2>4
<1> QED
  BY <1>3, <1>4, <1>5

\* The deferred decrement takes one off the count of sem and Dec.
LEMMA UncountKeeps ==
    ASSUME IInv, NEW r \in Requests, Uncount(r)
    PROVE  IInv'
<1> USE DEF kernelVars, clientVars, mainVars, acceptVars, slotVars, Move, IInv
<1>1. /\ gpc[r] = "dec" /\ activeConns' = activeConns - 1
      /\ gpc' = [gpc EXCEPT ![r] = "done"]
      /\ UNCHANGED <<listener, chan, qmsg, apEnd, held, wrote, mainPc, ctxDone, drained,
                     acceptPc, acur, sem, answer, end, gone>>
  BY DEF Uncount
<1>2. \A t \in Requests : gpc'[t] = IF t = r THEN "done" ELSE gpc[t]
  BY <1>1 DEF TypeInv
<1>3. TypeInv'
  BY <1>1 DEF TypeInv, KernelTypeOK, Places
<1>4. PlaceInv'
  BY <1>1, <1>2 DEF PlaceInv, Serving
<1>5. AnswerInv'
  BY <1>1, <1>2 DEF AnswerInv, Silent
<1>6. AcceptInv'
  <2>1. acur # r /\ mainPc # "down"
    BY <1>1, GoAssumption DEF AcceptInv
  <2> QED
    BY <1>1, <1>2, <2>1 DEF AcceptInv, TypeInv
<1>7. SlotInv'
  <2>1. mainPc # "down"
    BY <1>1 DEF AcceptInv
  <2>2. r \notin sem /\ IsFiniteSet(sem) /\ IsFiniteSet(Dec)
    BY <1>1, <2>1 DEF SlotInv
  <2>3. Dec' = Dec \ {r} /\ r \in Dec
    BY <1>1, <1>2 DEF Dec
  <2>4. sem' \cup Dec' = (sem \cup Dec) \ {r} /\ r \in sem \cup Dec
    BY <1>1, <2>2, <2>3
  <2>5. IsFiniteSet(sem \cup Dec) /\ IsFiniteSet(Dec')
    BY <2>2, <2>3, FS_Union, FS_RemoveElement
  <2>6. /\ Cardinality(sem' \cup Dec') = Cardinality(sem \cup Dec) - 1
        /\ Cardinality(sem' \cup Dec') \in Nat
    BY <2>4, <2>5, FS_RemoveElement, FS_CardinalityType
  <2>7. \A t \in sem' : gpc'[t] \notin {"none", "dec", "done", "dead"}
    BY <1>1, <1>2, <2>1, <2>2 DEF SlotInv, TypeInv
  <2>8. activeConns' = Cardinality(sem' \cup Dec')
    BY <1>1, <2>1, <2>6 DEF SlotInv
  <2> QED
    BY <1>1, <2>5, <2>6, <2>7, <2>8 DEF SlotInv
<1> QED
  BY <1>3, <1>4, <1>5, <1>6, <1>7
-----------------------------------------------------------------------------
(* The main goroutine, the client and the peers.                           *)

\* Steps that move no goroutine, take no connection and touch no slot.
LEMMA OthersKeep ==
    ASSUME IInv, TypeInv', UNCHANGED <<slotVars, gpc, held, answer, acur>>,
           acceptPc' = acceptPc \/ (acur = NoRequest /\ acceptPc' \notin {"check", "sem"}),
           mainPc # "down" /\ mainPc' # "down",
           mainPc' \in {"waiting", "grace", "cleanup"} => acceptPc' = "exited",
           mainPc' = "grace" => drained',
           mainPc' = "cleanup" /\ ~drained' =>
             \A r \in Requests : gpc[r] \in {"none", "done", "dead"},
           \A r \in Requests : \/ chan'[r] = chan[r] /\ (gpc[r] # "none" => end'[r] = end[r])
                               \/ chan[r] \in {"none", "queued"} /\ chan'[r] # "accepted"
    PROVE  IInv'
<1> USE DEF IInv, slotVars
<1>0. \A r \in Requests : gpc[r] # "none" => chan'[r] = chan[r] /\ end'[r] = end[r]
  BY DEF PlaceInv
<1>1. PlaceInv'
  BY <1>0 DEF PlaceInv
<1>2. AnswerInv'
  BY <1>0 DEF AnswerInv
<1>3. AcceptInv'
  <2>1. acur # NoRequest => chan'[acur] = "accepted" /\ acceptPc' = acceptPc
    BY DEF AcceptInv, TypeInv
  <2> QED
    BY <2>1 DEF AcceptInv
<1>4. SlotInv'
  BY DEF SlotInv, Dec
<1> QED
  BY <1>1, <1>2, <1>3, <1>4

\* The main goroutine's waits and the accept loop's failures and pauses.
LEMMA QuietKeeps ==
    ASSUME IInv,
           \/ Signal \/ CloseListener \/ AwaitAccept \/ DrainDone \/ DrainExpired
           \/ AcceptFail \/ AcceptRetry \/ PauseEnds
    PROVE  IInv'
<1> USE DEF IInv, mainVars, acceptVars, slotVars, clientVars, connVars, kernelVars
<1>0. /\ TypeInv /\ AcceptInv
      /\ \A r \in Requests : gpc[r] # "none" => chan[r] \in {"accepted", "gone"}
  BY DEF PlaceInv
<1>1. CASE Signal
  <2>1. TypeInv'
    BY <1>0, <1>1 DEF Signal, TypeInv, KernelTypeOK
  <2> QED
    BY <1>0, <1>1, <2>1, OthersKeep DEF Signal, AcceptInv
<1>2. CASE CloseListener
  <2>1. /\ \A r \in Requests : chan'[r] = IF chan[r] = "queued" THEN "gone" ELSE chan[r]
        /\ \A r \in Requests : end'[r] = IF chan[r] = "queued" THEN "discarded" ELSE end[r]
    BY <1>2 DEF CloseListener, StopListening
  <2>2. KernelTypeOK'
    BY <1>0, <1>2 DEF CloseListener, StopListening, TypeInv, KernelTypeOK
  <2>3. TypeInv'
    BY <1>0, <1>2, <2>2 DEF CloseListener, TypeInv, Ends
  <2> QED
    BY <1>0, <1>2, <2>1, <2>3, OthersKeep DEF CloseListener, AcceptInv
<1>3. CASE AwaitAccept
  <2>1. TypeInv'
    BY <1>0, <1>3 DEF AwaitAccept, TypeInv, KernelTypeOK
  <2> QED
    BY <1>0, <1>3, <2>1, OthersKeep DEF AwaitAccept, AcceptInv
<1>4. CASE DrainDone
  <2>1. TypeInv'
    BY <1>0, <1>4 DEF DrainDone, TypeInv, KernelTypeOK
  <2>2. \A r \in Requests : gpc[r] \in {"none", "done", "dead"}
    BY <1>4 DEF DrainDone, Running
  <2> QED
    BY <1>0, <1>4, <2>1, <2>2, OthersKeep DEF DrainDone, AcceptInv
<1>5. CASE DrainExpired
  <2>1. TypeInv'
    BY <1>0, <1>5 DEF DrainExpired, TypeInv, KernelTypeOK
  <2> QED
    BY <1>0, <1>5, <2>1, OthersKeep DEF DrainExpired, AcceptInv
<1>6. CASE AcceptFail
  <2>1. TypeInv'
    BY <1>0, <1>6 DEF AcceptFail, TypeInv, KernelTypeOK
  <2> QED
    BY <1>0, <1>6, <2>1, OthersKeep DEF AcceptFail, AcceptInv
<1>7. CASE AcceptRetry
  <2>1. TypeInv'
    BY <1>0, <1>7 DEF AcceptRetry, TypeInv, KernelTypeOK
  <2> QED
    BY <1>0, <1>7, <2>1, OthersKeep DEF AcceptRetry, AcceptInv
<1>8. CASE PauseEnds
  <2>1. TypeInv'
    BY <1>0, <1>8 DEF PauseEnds, TypeInv, KernelTypeOK
  <2> QED
    BY <1>0, <1>8, <2>1, OthersKeep DEF PauseEnds, AcceptInv
<1> QED
  BY <1>1, <1>2, <1>3, <1>4, <1>5, <1>6, <1>7, <1>8

\* What the client and the peers do, whether the daemon runs or not.
LEMMA OutsideKeeps ==
    ASSUME IInv, NEW r \in Requests, ClientLeaves(r) \/ PeerStep(r)
    PROVE  IInv'
<1> USE DEF IInv, mainVars, acceptVars, slotVars, clientVars, connVars, kernelVars, goVars
<1>1. /\ UNCHANGED <<slotVars, gpc, held, answer, acur, acceptPc, mainPc, drained, end>>
      /\ \A t \in Requests : \/ chan'[t] = chan[t]
                             \/ chan[t] = "none" /\ chan'[t] = "queued"
  <2>1. CASE ClientLeaves(r)
    BY <2>1 DEF ClientLeaves
  <2>2. CASE PeerConnect(r)
    BY <2>2 DEF PeerConnect, Connect, TypeInv, KernelTypeOK
  <2>3. CASE PeerSend(r)
    BY <2>3 DEF PeerSend, SendMsg
  <2>4. CASE PeerClose(r)
    BY <2>4 DEF PeerClose, CloseApacheEnd
  <2> QED
    BY <2>1, <2>2, <2>3, <2>4 DEF PeerStep
<1>2. TypeInv'
  <2>1. CASE ClientLeaves(r)
    BY <2>1 DEF ClientLeaves, TypeInv, KernelTypeOK
  <2>2. CASE PeerConnect(r)
    BY <2>2 DEF PeerConnect, Connect, TypeInv, KernelTypeOK
  <2>3. CASE PeerSend(r)
    BY <2>3 DEF PeerSend, SendMsg, TypeInv, KernelTypeOK
  <2>4. CASE PeerClose(r)
    BY <2>4 DEF PeerClose, CloseApacheEnd, TypeInv, KernelTypeOK
  <2> QED
    BY <2>1, <2>2, <2>3, <2>4 DEF PeerStep
<1>3. PlaceInv'
  BY <1>1 DEF PlaceInv
<1>4. AnswerInv'
  BY <1>1 DEF AnswerInv
<1>5. AcceptInv'
  BY <1>1 DEF AcceptInv, TypeInv
<1>6. SlotInv'
  BY <1>1 DEF SlotInv, Dec
<1> QED
  BY <1>2, <1>3, <1>4, <1>5, <1>6

\* A new process starts with no goroutine, no slot and no connection.
LEMMA StartKeeps == ASSUME IInv, Start PROVE IInv'
<1> USE DEF IInv, clientVars, connVars
<1>1. /\ mainPc' = "serving" /\ acceptPc' = "accept" /\ acur' = NoRequest /\ sem' = {}
      /\ activeConns' = 0
      /\ UNCHANGED <<chan, gpc, held, answer, end>>
      /\ mainPc = "down"
  BY DEF Start
<1>2. \A r \in Requests : gpc[r] \in {"none", "done", "dead"}
  BY <1>1 DEF AcceptInv
<1>3. TypeInv'
  BY DEF Start, TypeInv, KernelTypeOK
<1>4. acur = NoRequest
  BY <1>1 DEF AcceptInv
<1>5. PlaceInv' /\ AnswerInv'
  BY <1>1, <1>2, <1>4, GoAssumption DEF PlaceInv, AnswerInv, Serving
<1>6. AcceptInv'
  BY <1>1 DEF AcceptInv
<1>7. SlotInv'
  <2>1. Dec' = {}
    BY <1>1, <1>2 DEF Dec
  <2> QED
    BY <1>1, <2>1, FS_EmptySet, GoAssumption DEF SlotInv
<1> QED
  BY <1>3, <1>5, <1>6, <1>7

\* The process ends, with whatever its goroutines were doing.
LEMMA EndKeeps ==
    ASSUME IInv, NEW path \in {"absent", "refusing", "listening"}, ProcessEnds(path)
    PROVE  IInv'
<1> USE DEF IInv, slotVars
<1>1. /\ mainPc' = "down" /\ acceptPc' = "exited" /\ acur' = NoRequest
      /\ UNCHANGED <<wrote, ctxDone, drained, sem, activeConns, answer, gone>>
      /\ \A r \in Requests :
            /\ ~held'[r]
            /\ gpc'[r] = IF r \in Running THEN "dead" ELSE gpc[r]
            /\ chan'[r] = IF chan[r] \in {"queued", "accepted"} THEN "gone" ELSE chan[r]
            /\ end'[r] # end[r] => end[r] = "none"
  BY DEF ProcessEnds, StopListening
<1>2. \A r \in Requests : gpc'[r] \in {"none", "done", "dead"}
  BY <1>1 DEF Running, TypeInv
<1>3. KernelTypeOK'
  BY DEF ProcessEnds, StopListening, TypeInv, KernelTypeOK
<1>4. TypeInv'
  BY <1>3 DEF ProcessEnds, TypeInv, Places, Ends
<1>5. PlaceInv'
  BY <1>1, <1>2 DEF PlaceInv, Running, Serving, TypeInv, KernelTypeOK
<1>6. AnswerInv'
  <2> SUFFICES ASSUME NEW r \in Requests
               PROVE  /\ gpc'[r] # "none" => chan'[r] \in {"accepted", "gone"}
                      /\ gpc'[r] \in Silent => answer'[r] = <<>>
                      /\ gpc'[r] = "body" => answer'[r] = <<"headers">>
                      /\ gpc'[r] \in {"closing", "unwind", "dec", "done"} =>
                           answer'[r] \in FateOf(end'[r])
    BY DEF AnswerInv
  <2>1. CASE r \in Running
    BY <1>1, <2>1 DEF AnswerInv, Running, Silent
  <2>2. CASE r \notin Running
    <3>1. gpc'[r] = gpc[r] /\ gpc[r] \in {"none", "done", "dead"}
      BY <1>1, <2>2 DEF Running
    <3>2. answer'[r] = answer[r]
      BY <1>1
    <3>3. ASSUME gpc[r] = "done" PROVE answer'[r] \in FateOf(end'[r])
      <4>1. answer[r] \in FateOf(end[r])
        BY <3>3 DEF AnswerInv
      <4>2. end[r] # "none"
        BY <4>1, Fates
      <4> QED
        BY <1>1, <3>2, <4>1, <4>2
    <3> QED
      BY <1>1, <3>1, <3>3 DEF AnswerInv, Silent
  <2> QED
    BY <2>1, <2>2
<1>7. AcceptInv'
  BY <1>1, <1>2 DEF AcceptInv
<1>8. SlotInv'
  BY <1>1 DEF SlotInv
<1> QED
  BY <1>4, <1>5, <1>6, <1>7, <1>8
-----------------------------------------------------------------------------
(* The accept loop.                                                        *)

\* accept() hands a queued connection, which has no goroutine yet, to the loop.
LEMMA AcceptKeeps == ASSUME IInv, AcceptConn PROVE IInv'
<1> USE DEF IInv, mainVars, slotVars, clientVars, connVars
<1> PICK r \in Requests : Accept(r) /\ acur' = r
  BY DEF AcceptConn
<1>1. /\ chan[r] = "queued" /\ gpc[r] = "none" /\ acceptPc = "accept" /\ acceptPc' = "check"
      /\ UNCHANGED <<gpc, held, answer, end, sem, activeConns, mainPc, drained>>
      /\ \A t \in Requests : chan'[t] = IF t = r THEN "accepted" ELSE chan[t]
  BY DEF AcceptConn, Accept, PlaceInv, TypeInv, KernelTypeOK
<1>2. acur = NoRequest
  BY <1>1 DEF AcceptInv
<1>3. TypeInv'
  BY DEF AcceptConn, Accept, TypeInv, KernelTypeOK
<1>4. PlaceInv'
  BY <1>1, <1>2, GoAssumption DEF PlaceInv
<1>5. AnswerInv'
  BY <1>1 DEF AnswerInv
<1>6. AcceptInv'
  BY <1>1, GoAssumption DEF AcceptInv
<1>7. SlotInv'
  BY <1>1 DEF SlotInv, Dec
<1> QED
  BY <1>3, <1>4, <1>5, <1>6, <1>7

\* The loop starts the goroutine of the connection it holds, in a slot or to
\* reject it.
LEMMA SpawnKeeps ==
    ASSUME IInv, NEW p \in {"start", "reject"}, acceptPc \in {"check", "sem"},
           gpc' = [gpc EXCEPT ![acur] = p],
           acceptPc' \in {"accept", "pause", "exited"}, acur' = NoRequest,
           UNCHANGED <<kernelVars, clientVars, mainVars, answer, end, gone>>,
           \/ p = "reject" /\ UNCHANGED slotVars
           \/ /\ p = "start" /\ sem' = sem \cup {acur}
              /\ activeConns' = activeConns + 1 /\ Cardinality(sem) < MaxConnections,
           mainPc \in {"waiting", "grace", "cleanup"} => acceptPc' = "exited"
    PROVE  IInv'
<1> USE DEF IInv, mainVars, slotVars, clientVars, kernelVars
<1> DEFINE r == acur
<1>1. /\ r \in Requests /\ gpc[r] = "none" /\ chan[r] = "accepted" /\ r # NoRequest
      /\ mainPc \in {"serving", "awaitAccept"}
  BY DEF AcceptInv, TypeInv
<1>2. \A t \in Requests : gpc'[t] = IF t = r THEN p ELSE gpc[t]
  BY DEF TypeInv
<1> HIDE DEF r
<1>3. TypeInv'
  BY <1>1 DEF TypeInv, KernelTypeOK, Places, r
<1>4. PlaceInv'
  <2>1. \A t \in Requests : sem' = sem \/ (sem' = sem \cup {r} /\ t \in sem => t \in sem')
    BY DEF r
  <2>2. p = "start" => r \in sem'
    BY DEF r
  <2>3. sem \subseteq sem'
    OBVIOUS
  <2> QED
    BY <1>1, <1>2, <2>2, <2>3 DEF PlaceInv, Serving, r
<1>5. AnswerInv'
  BY <1>1, <1>2 DEF AnswerInv, Silent
<1>6. AcceptInv'
  BY <1>1, GoAssumption DEF AcceptInv
<1>7. SlotInv'
  <2>1. /\ IsFiniteSet(sem) /\ IsFiniteSet(Dec) /\ activeConns = Cardinality(sem \cup Dec)
        /\ \A t \in sem : gpc[t] \notin {"none", "dec", "done", "dead"}
        /\ activeConns \in Nat /\ Cardinality(sem) <= MaxConnections
    BY <1>1 DEF SlotInv
  <2>2. Dec' = Dec /\ r \notin sem \cup Dec
    BY <1>1, <1>2, <2>1 DEF Dec
  <2>3. CASE UNCHANGED slotVars
    BY <1>1, <1>2, <2>1, <2>2, <2>3, SlotsAlone
  <2>4. CASE sem' = sem \cup {r} /\ activeConns' = activeConns + 1
             /\ Cardinality(sem) < MaxConnections /\ p = "start"
    <3>1. /\ IsFiniteSet(sem') /\ Cardinality(sem') = Cardinality(sem) + 1
          /\ Cardinality(sem) \in Nat
      BY <2>1, <2>2, <2>4, FS_AddElement, FS_CardinalityType
    <3>2. IsFiniteSet(sem \cup Dec) /\ sem' \cup Dec' = (sem \cup Dec) \cup {r}
      BY <2>1, <2>2, <2>4, FS_Union
    <3>3. Cardinality(sem' \cup Dec') = Cardinality(sem \cup Dec) + 1
      BY <2>2, <3>2, FS_AddElement
    <3>4. \A t \in sem' : gpc'[t] \notin {"none", "dec", "done", "dead"}
      BY <1>1, <1>2, <2>1, <2>4 DEF TypeInv
    <3> QED
      BY <2>1, <2>2, <2>4, <3>1, <3>3, <3>4, GoAssumption DEF SlotInv
  <2> QED
    BY <2>3, <2>4 DEF r
<1> QED
  BY <1>3, <1>4, <1>5, <1>6, <1>7

\* The accept loop's decisions about the connection it holds.
LEMMA LoopKeeps ==
    ASSUME IInv, CheckContext \/ TakeSlot \/ OverLimit
    PROVE  IInv'
<1> USE DEF IInv
<1>0. acceptPc \in {"check", "sem"} => mainPc \notin {"down", "waiting", "grace", "cleanup"}
  BY DEF AcceptInv
<1>1. CASE CheckContext
  <2>1. CASE /\ ctxDone /\ gpc' = [gpc EXCEPT ![acur] = "reject"]
             /\ acceptPc' = "exited" /\ acur' = NoRequest
    BY <1>0, <1>1, <2>1, SpawnKeeps DEF CheckContext
  <2>2. CASE ~ctxDone /\ acceptPc' = "sem" /\ UNCHANGED <<gpc, acur>>
    <3> USE <1>0, <1>1, <2>2 DEF CheckContext, kernelVars, clientVars, mainVars, slotVars
    <3>1. TypeInv' /\ SlotInv'
      BY DEF TypeInv, KernelTypeOK, SlotInv, Dec
    <3>2. PlaceInv' /\ AnswerInv' /\ AcceptInv'
      BY DEF PlaceInv, AnswerInv, AcceptInv
    <3> QED
      BY <3>1, <3>2
  <2> QED
    BY <1>1, <2>1, <2>2 DEF CheckContext
<1>2. CASE TakeSlot
  BY <1>0, <1>2, SpawnKeeps DEF TakeSlot
<1>3. CASE OverLimit
  BY <1>0, <1>3, SpawnKeeps DEF OverLimit
<1> QED
  BY <1>1, <1>2, <1>3

-----------------------------------------------------------------------------
(* The theorems.                                                           *)

\* Every step keeps the invariant: one case for each part of the daemon.
LEMMA NextIInv == IInv /\ [Next]_vars => IInv'
<1> SUFFICES ASSUME IInv, [Next]_vars PROVE IInv'
  OBVIOUS
<1>1. CASE Start
  BY <1>1, StartKeeps
<1>2. CASE Signal \/ CloseListener \/ AwaitAccept \/ DrainDone \/ DrainExpired
           \/ AcceptFail \/ AcceptRetry \/ PauseEnds
  BY <1>2, QuietKeeps
<1>3. CASE Exit
  BY <1>3, EndKeeps DEF Exit
<1>4. CASE Kill
  <2>1. (IF listener = "listening" THEN "refusing" ELSE listener)
           \in {"absent", "refusing", "listening"}
    BY DEF IInv, TypeInv, KernelTypeOK
  <2> QED
    BY <1>4, <2>1, EndKeeps DEF Kill
<1>5. CASE AcceptConn
  BY <1>5, AcceptKeeps
<1>6. CASE CheckContext \/ TakeSlot \/ OverLimit
  BY <1>6, LoopKeeps
<1>7. ASSUME NEW r \in Requests, ConnStep(r) PROVE IInv'
  <2>1. CASE Unwind(r)
    BY <2>1, UnwindKeeps
  <2>2. CASE Uncount(r)
    BY <2>2, UncountKeeps
  <2>3. CASE ~Unwind(r) /\ ~Uncount(r)
    BY <1>7, <2>3, ConnKeeps DEF ConnStep
  <2> QED
    BY <2>1, <2>2, <2>3
<1>8. ASSUME NEW r \in Requests, ClientLeaves(r) \/ PeerStep(r) PROVE IInv'
  BY <1>8, OutsideKeeps
<1>9. CASE UNCHANGED vars
  <2> USE <1>9 DEF vars, goVars, kernelVars, clientVars, mainVars, acceptVars, slotVars,
                   connVars, IInv
  <2>1. TypeInv' /\ SlotInv'
    BY DEF TypeInv, KernelTypeOK, SlotInv, Dec
  <2>2. PlaceInv' /\ AnswerInv' /\ AcceptInv'
    BY DEF PlaceInv, AnswerInv, AcceptInv
  <2> QED
    BY <2>1, <2>2
<1> QED
  BY <1>1, <1>2, <1>3, <1>4, <1>5, <1>6, <1>7, <1>8, <1>9
     DEF Next, GoStep, MainStep, AcceptStep

\* The invariant the theorems below are read from.
THEOREM SpecIInv == Spec => []IInv
BY InitIInv, NextIInv, PTL DEF Spec

\* The types of the daemon's variables, with an answer that is a sequence of parts.
THEOREM SpecTypeOK == Spec => []TypeOK
<1>1. IInv => TypeOK
  BY AnswersType DEF IInv, TypeInv, SlotInv, TypeOK
<1> QED
  BY <1>1, SpecIInv, PTL

\* The client gets one well-formed response, however its stream ends: what
\* lazyHeaderConn's headersSent is for.
THEOREM SpecOneResponse == Spec => []OneResponse
<1>1. IInv => OneResponse
  BY DEF IInv, TypeInv, OneResponse, Answers
<1> QED
  BY <1>1, SpecIInv, PTL

\* A stream runs only in one of the max_connections slots of connSemaphore.
THEOREM SpecStreamsHaveSlots == Spec => []StreamsHaveSlots
<1>1. IInv => StreamsHaveSlots
  BY DEF IInv, PlaceInv, SlotInv, StreamsHaveSlots, Serving
<1> QED
  BY <1>1, SpecIInv, PTL

\* Every slot belongs to a goroutine that has yet to release it, and activeConns
\* counts these and the ones about to be uncounted.
THEOREM SpecSlotsReturned == Spec => []SlotsReturned
<1>1. IInv => SlotsReturned
  BY DEF IInv, TypeInv, SlotInv, SlotsReturned, Running, Dec
<1> QED
  BY <1>1, SpecIInv, PTL

\* Whatever the number of connections and the size of the semaphore, a received client
\* has been sent what FateOf says when its goroutine lets go of it: a failure is never
\* taken for a normal end, and silence is left to the ends that FateOf names for it.
THEOREM SpecReceivedIsAnswered == Spec => []ReceivedIsAnswered
<1>1. IInv => ReceivedIsAnswered
  BY DEF IInv, AnswerInv, ReceivedIsAnswered
<1> QED
  BY <1>1, SpecIInv, PTL

\* A shutdown within ShutdownTimeout ends with no descriptor held and no accepted
\* connection unserved.
THEOREM SpecGracefulExit == Spec => []GracefulExit
<1>1. IInv => GracefulExit
  BY GoAssumption DEF IInv, PlaceInv, AcceptInv, GracefulExit
<1> QED
  BY <1>1, SpecIInv, PTL

\* connWg.Go is never called once main() may be in connWg.Wait.
THEOREM SpecNoLateStart == Spec => NoLateStart
<1>1. IInv /\ [Next]_vars =>
        [\A r \in Requests :
           mainPc \in {"waiting", "grace", "cleanup"} /\ gpc[r] = "none"
             => gpc'[r] = "none"]_vars
  <2> SUFFICES ASSUME IInv, Next, NEW r \in Requests,
                      mainPc \in {"waiting", "grace", "cleanup"}, gpc[r] = "none"
               PROVE  gpc'[r] = "none"
    OBVIOUS
  <2> USE DEF connVars, Move
  <2>1. gpc \in [Requests -> Places] /\ acceptPc = "exited" /\ mainPc # "down"
    BY DEF IInv, TypeInv, AcceptInv
  <2>2. CASE Start \/ Signal \/ MainStep \/ Kill \/ AcceptStep
    BY <2>1, <2>2 DEF Start, Signal, MainStep, CloseListener, AwaitAccept, DrainDone,
         DrainExpired, Exit, Kill, ProcessEnds, Running, AcceptStep, AcceptConn, AcceptFail,
         AcceptRetry, CheckContext, TakeSlot, OverLimit, PauseEnds
  <2>3. ASSUME NEW t \in Requests, ConnStep(t) PROVE gpc'[r] = "none"
    <3>1. /\ gpc[t] # "none"
          /\ gpc' = [gpc EXCEPT ![t] = gpc'[t]]
      BY <2>1, <2>3 DEF ConnStep, Enter, Receive, ReceiveFail, WrapFail, Reject, Prepare,
           FirstWrite, StreamEnd, StreamEndsEmpty, StreamFail, MayFail, Panic, CloseClient, Unwind, Uncount
    <3> QED
      BY <2>1, <3>1
  <2>4. ASSUME NEW t \in Requests, ClientLeaves(t) \/ PeerStep(t) PROVE gpc'[r] = "none"
    BY <2>4 DEF ClientLeaves, PeerStep, PeerConnect, PeerSend, PeerClose, goVars
  <2> QED
    BY <2>2, <2>3, <2>4 DEF Next, GoStep
<1> QED
  BY <1>1, SpecIInv, PTL DEF Spec, NoLateStart
=============================================================================
