------------------------- MODULE UringDaemonProofs -------------------------
(***************************************************************************)
(* The io_uring daemon keeps its slots, its operations and its responses   *)
(* apart, forgets no connection, and its completion ring is a bounded      *)
(* queue, for any number of connections, slots, threads and messages, any  *)
(* size of the submission queue, and any order of completions.             *)
(***************************************************************************)
EXTENDS UringDaemon, FiniteSetTheorems, SequenceTheorems, TLAPS

ConnType == [state : ConnStates, client : Clients \cup {None}, part : Parts,
             short : BOOLEAN, bytes_sent : Parts]

\* The operations that are queued or in flight, and those among them that are of the
\* connection in their slot; after an overrun there is one that is not.
AllOps == queued \cup ops
Mine(o) == slot[o.slot].client = o.client

\* The entries of the completion ring.
Live(j) == IF ringHead <= ringTail THEN ringHead <= j /\ j < ringTail
                                   ELSE ringHead <= j \/ j < ringTail

\* What can bring a connection forward: an operation, or the pool, which has it in
\* its queue, at a worker, or on the ring.
HasOp(s) == \E o \in AllOps : o.slot = s /\ Mine(o)
InWork(s) == \E i \in DOMAIN work : work[i] = s
AtWorker(s) == \E w \in Workers : worker[w].at \in {"call", "add"} /\ worker[w].slot = s
OnRing(s) == \E j \in Slots : Live(j) /\ ring[j] = s
Pooled(s) == InWork(s) \/ AtWorker(s) \/ OnRing(s)

Streamable == {"STREAMING", "STREAMED", "CLOSING"}
InUse == {s \in Slots : slot[s].state # "UNUSED"}

-----------------------------------------------------------------------------
(* The inductive invariant.                                                *)

LoopInv ==
    /\ usePool \in BOOLEAN /\ shutdown \in BOOLEAN /\ signalled \in BOOLEAN
    /\ phase \in {"run", "drain", "join", "stopped"}
    /\ loop \in {"wait", "eventfd", "overrun"}
    /\ acceptOp \in {"none", "queued", "kernel", "lost"}
    /\ eventOp \in {"none", "queued", "kernel"}
    /\ phase = "run" /\ ~shutdown =>
          acceptOp # "none" /\ (usePool /\ loop = "wait" => eventOp # "none")
    /\ phase \notin {"run", "drain"} => loop = "wait"

\* What holds of every connection by itself, and that no two slots have one client.
SlotInv ==
    /\ slot \in [Slots -> ConnType]
    /\ \A s \in Slots :
          /\ slot[s].state = "UNUSED" => slot[s] = Unused
          /\ slot[s].state # "UNUSED" => slot[s].client \in Clients
          /\ slot[s].part = slot[s].bytes_sent
    /\ \A s, t \in Slots : slot[s].client = slot[t].client => s = t \/ slot[s] = Unused

FreeInv ==
    /\ free \in Seq(Slots)
    /\ \A i \in DOMAIN free : slot[free[i]].state = "UNUSED"
    /\ \A i, j \in DOMAIN free : free[i] = free[j] => i = j
    /\ \A s \in Slots : slot[s].state = "UNUSED" => \E i \in DOMAIN free : free[i] = s
    /\ active = Cardinality(InUse)
    /\ Len(free) + active = MaxConnections

PeerInv ==
    /\ peer \in [Clients -> {"new", "slot", "completed", "gone", "cut"}]
    /\ phase # "stopped" =>
         \A c \in Clients : (peer[c] = "slot") <=> (\E s \in Slots : slot[s].client = c)

\* An operation is of the present state of its connection, and of its present part.
OpFits(o, conn) ==
    IF o.op = "recv" THEN conn.state = "RECEIVING_FD"
                     ELSE /\ conn.state \in {"STREAMING", "CLOSING"}
                          /\ o.part = conn.part
                          /\ (o.part = Done) <=> (conn.state = "CLOSING")

OpInv ==
    /\ queued \subseteq OpType /\ ops \subseteq OpType /\ queued \cap ops = {}
    /\ loop # "overrun" => \A o \in AllOps : Mine(o)
    /\ \A o \in AllOps : Mine(o) =>
          /\ OpFits(o, slot[o.slot])
          /\ ~Pooled(o.slot)
          /\ \A p \in AllOps : p.slot = o.slot /\ Mine(p) => p = o

\* A connection is in the queue, at a worker or on the ring once.
WorkInv ==
    /\ work \in Seq(Slots)
    /\ \A i \in DOMAIN work : slot[work[i]].state = "LLM_QUEUED"
    /\ \A i, j \in DOMAIN work : work[i] = work[j] => i = j

WorkerInv ==
    /\ worker \in [Workers -> WorkerType]
    /\ \A w \in Workers :
          /\ worker[w].at = "call" => /\ slot[worker[w].slot].state = "LLM_QUEUED"
                                      /\ ~InWork(worker[w].slot)
          /\ worker[w].at = "add" => slot[worker[w].slot].state \in Streamable
    /\ \A v, w \in Workers :
          /\ worker[v].at \in {"call", "add"} /\ worker[w].at \in {"call", "add"}
          /\ worker[v].slot = worker[w].slot
          => v = w

\* A completion on the ring has been announced, or will be.
RingInv ==
    /\ ring \in [Slots -> Slots \cup {None}] /\ ringHead \in Slots /\ ringTail \in Slots
    /\ \A j \in Slots : Live(j) => /\ ring[j] \in Slots
                                   /\ slot[ring[j]].state \in Streamable
                                   /\ ~AtWorker(ring[j])
    /\ \A i, j \in Slots : Live(i) /\ Live(j) /\ ring[i] = ring[j] => i = j
    /\ ~RingEmpty /\ loop = "wait" => signalled \/ \E w \in Workers : worker[w].at = "signal"

\* No connection is forgotten.
DrivenInv ==
    phase # "stopped" =>
        \A s \in Slots : slot[s].state # "UNUSED" => HasOp(s) \/ Pooled(s)

PoolInv == WorkInv /\ WorkerInv /\ RingInv
IInv == LoopInv /\ SlotInv /\ FreeInv /\ PeerInv /\ OpInv /\ PoolInv /\ DrivenInv

-----------------------------------------------------------------------------
(* The completion ring.                                                    *)

\* The index of pool_add_completion and pool_get_completion wraps at its size.
LEMMA RingSuccIs ==
    ASSUME NEW i \in Slots
    PROVE  /\ RingSucc(i) \in Slots
           /\ RingSucc(i) = IF i + 1 = MaxConnections THEN 0 ELSE i + 1
BY ConstantsAssumption DEF RingSucc, Slots

\* Adding at the tail of a ring with room makes that entry live and no other.
LEMMA LiveAdd ==
    ASSUME ringHead \in Slots, ringTail \in Slots, ~RingFull,
           ringTail' = RingSucc(ringTail), UNCHANGED ringHead
    PROVE  ~Live(ringTail) /\ \A j \in Slots : Live(j)' <=> Live(j) \/ j = ringTail
<1>1. ringTail' = IF ringTail + 1 = MaxConnections THEN 0 ELSE ringTail + 1
  BY RingSuccIs
<1>2. ringTail' # ringHead
  BY DEF RingFull
<1> QED
  BY <1>1, <1>2, ConstantsAssumption DEF Live, Slots

\* Reading at the head of a ring that is not empty takes that entry and no other.
LEMMA LiveRead ==
    ASSUME ringHead \in Slots, ringTail \in Slots, ~RingEmpty,
           ringHead' = RingSucc(ringHead), UNCHANGED ringTail
    PROVE  Live(ringHead) /\ \A j \in Slots : Live(j)' <=> Live(j) /\ j # ringHead
<1>1. ringHead' = IF ringHead + 1 = MaxConnections THEN 0 ELSE ringHead + 1
  BY RingSuccIs
<1>2. ringHead # ringTail
  BY DEF RingEmpty
<1> QED
  BY <1>1, <1>2, ConstantsAssumption DEF Live, Slots

-----------------------------------------------------------------------------
(* The pool as the loop's steps see it.                                    *)

\* A connection that the pool does not have may change: the pool stays as it is.
LEMMA PoolFrame ==
    ASSUME PoolInv, SlotInv, NEW s \in Slots, ~Pooled(s), NEW conn,
           slot' = [slot EXCEPT ![s] = conn], UNCHANGED poolVars,
           loop' = "wait" => loop = "wait" \/ RingEmpty
    PROVE  PoolInv' /\ \A t \in Slots : Pooled(t)' <=> Pooled(t)
<1>1. /\ UNCHANGED <<work, worker, ring, ringHead, ringTail, signalled>>
      /\ \A t \in Slots : t # s => slot'[t] = slot[t]
  BY DEF poolVars, SlotInv
<1>2. \A t \in Slots : /\ InWork(t)' <=> InWork(t)
                       /\ AtWorker(t)' <=> AtWorker(t)
                       /\ OnRing(t)' <=> OnRing(t)
                       /\ Live(t)' <=> Live(t)
  BY <1>1 DEF InWork, AtWorker, OnRing, Live
<1>3. WorkInv'
  <2>1. \A i \in DOMAIN work : work[i] \in Slots /\ work[i] # s
    BY DEF PoolInv, WorkInv, Pooled, InWork
  <2> QED
    BY <1>1, <2>1 DEF PoolInv, WorkInv
<1>4. WorkerInv'
  <2>1. \A w \in Workers : worker[w].at \in {"call", "add"} =>
            worker[w].slot \in Slots /\ worker[w].slot # s
    BY DEF PoolInv, WorkerInv, WorkerType, Idle, Pooled, AtWorker
  <2> QED
    BY <1>1, <1>2, <2>1 DEF PoolInv, WorkerInv
<1>5. RingInv'
  <2>1. \A j \in Slots : Live(j) => ring[j] \in Slots /\ ring[j] # s
    BY DEF PoolInv, RingInv, Pooled, OnRing
  <2>2. RingEmpty' <=> RingEmpty
    BY <1>1 DEF RingEmpty
  <2> QED
    BY <1>1, <1>2, <2>1, <2>2 DEF PoolInv, RingInv
<1> QED
  BY <1>2, <1>3, <1>4, <1>5 DEF PoolInv, Pooled

\* The loop takes a connection from the ring, and changes it: the pool has it no more.
LEMMA RingRead ==
    ASSUME PoolInv, SlotInv, ~RingEmpty, NEW s \in Slots, s = ring[ringHead], NEW conn,
           slot' = [slot EXCEPT ![s] = conn],
           ringHead' = RingSucc(ringHead),
           UNCHANGED <<work, worker, ring, ringTail, signalled>>, loop' # "wait"
    PROVE  /\ PoolInv'
           /\ slot[s].state \in Streamable
           /\ Pooled(s) /\ ~Pooled(s)'
           /\ \A t \in Slots : t # s => (Pooled(t)' <=> Pooled(t))
<1>0. /\ ringHead \in Slots /\ ringTail \in Slots /\ Live(ringHead)
      /\ \A j \in Slots : Live(j)' <=> Live(j) /\ j # ringHead
  BY LiveRead DEF PoolInv, RingInv
<1>1. /\ slot[s].state \in Streamable /\ ~AtWorker(s) /\ OnRing(s)
      /\ \A j \in Slots : Live(j) /\ j # ringHead => ring[j] # s
  BY <1>0 DEF PoolInv, RingInv, OnRing
<1>2. \A t \in Slots : t # s => slot'[t] = slot[t]
  BY DEF SlotInv
<1>3. \A t \in Slots : /\ InWork(t)' <=> InWork(t)
                       /\ AtWorker(t)' <=> AtWorker(t)
  BY DEF InWork, AtWorker
<1>4. ~OnRing(s)' /\ \A t \in Slots : t # s => (OnRing(t)' <=> OnRing(t))
  BY <1>0, <1>1 DEF OnRing
<1>5. ~InWork(s)
  BY <1>1 DEF PoolInv, WorkInv, InWork, Streamable
<1>6. WorkInv'
  <2>1. \A i \in DOMAIN work : work[i] \in Slots /\ work[i] # s
    BY <1>5 DEF PoolInv, WorkInv, InWork
  <2> QED
    BY <1>2, <2>1 DEF PoolInv, WorkInv
<1>7. WorkerInv'
  <2>1. \A w \in Workers : worker[w].at \in {"call", "add"} =>
            worker[w].slot \in Slots /\ worker[w].slot # s
    BY <1>1 DEF PoolInv, WorkerInv, WorkerType, Idle, AtWorker
  <2> QED
    BY <1>2, <1>3, <2>1 DEF PoolInv, WorkerInv
<1>8. RingInv'
  <2>1. ringHead' \in Slots
    BY <1>0, RingSuccIs
  <2> QED
    BY <1>0, <1>1, <1>2, <1>3, <2>1 DEF PoolInv, RingInv
<1> QED
  BY <1>1, <1>3, <1>4, <1>5, <1>6, <1>7, <1>8 DEF PoolInv, Pooled

-----------------------------------------------------------------------------
(* Slots, free list and counter.                                           *)

\* There are finitely many slots.
LEMMA SlotsFinite == IsFiniteSet(Slots) /\ Cardinality(Slots) = MaxConnections
<1>1. /\ IsFiniteSet(0..(MaxConnections - 1))
      /\ Cardinality(0..(MaxConnections - 1)) =
            IF 0 > MaxConnections - 1 THEN 0 ELSE (MaxConnections - 1) - 0 + 1
  BY ConstantsAssumption, FS_Interval
<1> QED
  BY <1>1, ConstantsAssumption DEF Slots

\* What a free connection structure is.
LEMMA UnusedIs ==
    /\ Unused \in ConnType /\ Unused.state = "UNUSED" /\ Unused.client = None
    /\ Unused.part = 0 /\ Unused.bytes_sent = 0
BY ConstantsAssumption DEF Unused, Conn, ConnType, ConnStates, Parts, Done

\* cleanup_connection and conn_free give back one slot, and let its client go.
LEMMA CleanupSlots ==
    ASSUME SlotInv, FreeInv, PeerInv, phase # "stopped", phase' = phase,
           NEW s \in Slots, slot[s].state # "UNUSED",
           NEW how \in {"gone", "completed"}, Cleanup(s, how)
    PROVE  SlotInv' /\ FreeInv' /\ PeerInv'
<1>0. /\ slot' = [slot EXCEPT ![s] = Unused] /\ free' = <<s>> \o free
      /\ active' = active - 1 /\ peer' = [peer EXCEPT ![slot[s].client] = how]
  BY DEF Cleanup
<1>1. \A t \in Slots : slot'[t] = IF t = s THEN Unused ELSE slot[t]
  BY <1>0 DEF SlotInv
<1>2. SlotInv'
  <2>1. slot' \in [Slots -> ConnType]
    BY <1>0, UnusedIs DEF SlotInv
  <2>2. ASSUME NEW t \in Slots
        PROVE  /\ slot'[t].state = "UNUSED" => slot'[t] = Unused
               /\ slot'[t].state # "UNUSED" => slot'[t].client \in Clients
               /\ slot'[t].part = slot'[t].bytes_sent
    BY <1>1, UnusedIs DEF SlotInv
  <2>3. ASSUME NEW t \in Slots, NEW u \in Slots, slot'[t].client = slot'[u].client
        PROVE  t = u \/ slot'[t] = Unused
    <3>1. CASE t = s
      BY <1>1, <3>1
    <3>2. CASE t # s /\ u = s
      <4>1. slot[t].client = None
        BY <1>1, <2>3, <3>2, UnusedIs
      <4>2. slot[t] = Unused
        BY <4>1, ConstantsAssumption DEF SlotInv
      <4> QED
        BY <1>1, <3>2, <4>2
    <3>3. CASE t # s /\ u # s
      BY <1>1, <2>3, <3>3 DEF SlotInv
    <3> QED
      BY <3>1, <3>2, <3>3
  <2> QED
    BY <2>1, <2>2, <2>3 DEF SlotInv
<1>3. FreeInv'
  <2>1. free \in Seq(Slots) /\ free' \in Seq(Slots) /\ Len(free') = Len(free) + 1
    BY <1>0 DEF FreeInv
  <2>2. \A i \in DOMAIN free' : IF i = 1 THEN free'[i] = s
                                ELSE i - 1 \in DOMAIN free /\ free'[i] = free[i - 1]
    BY <1>0, <2>1
  <2>3. \A i \in DOMAIN free : free[i] # s /\ free[i] \in Slots
    BY <2>1 DEF FreeInv
  <2>4. \A i \in DOMAIN free' : slot'[free'[i]].state = "UNUSED"
    BY <1>1, <2>1, <2>2, <2>3, UnusedIs DEF FreeInv
  <2>5. ASSUME NEW i \in DOMAIN free', NEW j \in DOMAIN free', free'[i] = free'[j]
        PROVE  i = j
    BY <2>1, <2>2, <2>3, <2>5 DEF FreeInv
  <2>6. ASSUME NEW t \in Slots, slot'[t].state = "UNUSED"
        PROVE  \E i \in DOMAIN free' : free'[i] = t
    <3>1. CASE t = s
      BY <2>1, <1>0, <3>1
    <3>2. CASE t # s
      <4>1. PICK i \in DOMAIN free : free[i] = t
        BY <1>1, <2>6, <3>2 DEF FreeInv
      <4>2. i + 1 \in DOMAIN free' /\ free'[i + 1] = free[i]
        BY <1>0, <2>1
      <4> QED
        BY <4>1, <4>2
    <3> QED
      BY <3>1, <3>2
  <2>7. active' = Cardinality(InUse')
    <3>1. s \in InUse /\ InUse' = InUse \ {s} /\ InUse \subseteq Slots
      BY <1>1, UnusedIs DEF InUse
    <3>2. IsFiniteSet(InUse)
      BY <3>1, SlotsFinite, FS_Subset
    <3>3. Cardinality(InUse \ {s}) = Cardinality(InUse) - 1
      BY <3>1, <3>2, FS_RemoveElement
    <3> QED
      BY <1>0, <3>1, <3>3 DEF FreeInv
  <2>8. active \in Nat
    <3>1. IsFiniteSet(InUse)
      BY SlotsFinite, FS_Subset DEF InUse
    <3> QED
      BY <3>1, FS_CardinalityType DEF FreeInv
  <2>9. Len(free') + active' = MaxConnections
    BY <1>0, <2>1, <2>8, ConstantsAssumption DEF FreeInv
  <2> QED
    BY <2>1, <2>4, <2>5, <2>6, <2>7, <2>9 DEF FreeInv
<1>4. PeerInv'
  <2>1. slot[s].client \in Clients /\ None \notin Clients
    BY ConstantsAssumption DEF SlotInv
  <2>2. peer' \in [Clients -> {"new", "slot", "completed", "gone", "cut"}]
    BY <1>0, <2>1 DEF PeerInv
  <2>3. ASSUME NEW c \in Clients
        PROVE  (peer'[c] = "slot") <=> (\E t \in Slots : slot'[t].client = c)
    <3>1. CASE c = slot[s].client
      <4>1. \A t \in Slots : slot'[t].client = c => FALSE
        BY <1>1, <2>1, <3>1, UnusedIs DEF SlotInv
      <4> QED
        BY <4>1, <1>0, <3>1 DEF PeerInv
    <3>2. CASE c # slot[s].client
      BY <1>0, <1>1, <2>1, <3>2, UnusedIs DEF PeerInv
    <3> QED
      BY <3>1, <3>2
  <2> QED
    BY <2>2, <2>3 DEF PeerInv
<1> QED
  BY <1>2, <1>3, <1>4

\* A step that changes a connection in its slot leaves the free list right.
LEMMA ChangeSlots ==
    ASSUME SlotInv, FreeInv, PeerInv, phase' = phase,
           NEW s \in Slots, slot[s].state # "UNUSED",
           NEW conn \in ConnType, conn.state # "UNUSED", conn.client = slot[s].client,
           conn.part = conn.bytes_sent,
           slot' = [slot EXCEPT ![s] = conn], UNCHANGED <<free, active, peer>>
    PROVE  SlotInv' /\ FreeInv' /\ PeerInv'
<1>1. \A t \in Slots : slot'[t] = IF t = s THEN conn ELSE slot[t]
  BY DEF SlotInv
<1>2. SlotInv'
  BY <1>1, UnusedIs DEF SlotInv
<1>3. FreeInv'
  <2>1. InUse' = InUse
    BY <1>1 DEF InUse
  <2>2. \A i \in DOMAIN free : free[i] \in Slots /\ free[i] # s
    BY DEF FreeInv
  <2> QED
    BY <1>1, <2>1, <2>2 DEF FreeInv
<1>4. PeerInv'
  BY <1>1 DEF PeerInv
<1> QED
  BY <1>2, <1>3, <1>4

\* conn_alloc takes the head of the free list for a connection that has just been made.
LEMMA AcceptSlots ==
    ASSUME SlotInv, FreeInv, PeerInv, phase' = phase, phase # "stopped", free # <<>>,
           NEW c \in Clients, peer[c] = "new", NEW s, s = Head(free),
           slot' = [slot EXCEPT ![s] = Conn("RECEIVING_FD", c, 0, FALSE, 0)],
           free' = Tail(free), active' = active + 1,
           peer' = [peer EXCEPT ![c] = "slot"]
    PROVE  SlotInv' /\ FreeInv' /\ PeerInv' /\ s \in Slots /\ slot[s].state = "UNUSED"
<1> DEFINE conn == Conn("RECEIVING_FD", c, 0, FALSE, 0)
<1>0. conn \in ConnType /\ conn.state = "RECEIVING_FD" /\ conn.client = c
      /\ conn.part = 0 /\ conn.bytes_sent = 0
  BY ConstantsAssumption DEF Conn, ConnType, ConnStates, Parts, Done
<1> HIDE DEF conn
<1>1. /\ free \in Seq(Slots) /\ Len(free) \in Nat \ {0} /\ 1 \in DOMAIN free
      /\ s = free[1] /\ s \in Slots /\ slot[s].state = "UNUSED"
  BY DEF FreeInv
<1>2. \A t \in Slots : slot'[t] = IF t = s THEN conn ELSE slot[t]
  BY <1>1 DEF SlotInv, conn
<1>3. \A t \in Slots : slot[t].client # c
  BY DEF PeerInv
<1>4. SlotInv'
  BY <1>0, <1>1, <1>2, <1>3 DEF SlotInv, conn
<1>5. FreeInv'
  <2>1. /\ free' \in Seq(Slots) /\ Len(free') = Len(free) - 1
        /\ \A i \in DOMAIN free' : i + 1 \in DOMAIN free /\ free'[i] = free[i + 1]
    BY <1>1
  <2>2. \A i \in DOMAIN free' : free'[i] \in Slots /\ free'[i] # s
    BY <1>1, <2>1 DEF FreeInv
  <2>3. \A i \in DOMAIN free' : slot'[free'[i]].state = "UNUSED"
    <3>1. \A i \in DOMAIN free : slot[free[i]].state = "UNUSED"
      BY DEF FreeInv
    <3>2. ASSUME NEW i \in DOMAIN free' PROVE slot'[free'[i]].state = "UNUSED"
      <4>1. slot'[free'[i]] = slot[free'[i]]
        BY <1>2, <2>2
      <4>2. slot[free[i + 1]].state = "UNUSED" /\ free'[i] = free[i + 1]
        BY <2>1, <3>1
      <4> QED
        BY <4>1, <4>2
    <3> QED
      BY <3>2
  <2>4. ASSUME NEW i \in DOMAIN free', NEW j \in DOMAIN free', free'[i] = free'[j]
        PROVE  i = j
    <3>1. i + 1 = j + 1
      BY <2>1, <2>4 DEF FreeInv
    <3> QED
      BY <3>1, <2>1
  <2>5. ASSUME NEW t \in Slots, slot'[t].state = "UNUSED"
        PROVE  \E i \in DOMAIN free' : free'[i] = t
    <3>1. t # s /\ slot[t].state = "UNUSED"
      BY <1>0, <1>2, <2>5
    <3>2. PICK i \in DOMAIN free : free[i] = t
      BY <3>1 DEF FreeInv
    <3>3. i # 1
      BY <1>1, <3>1, <3>2
    <3>4. i - 1 \in DOMAIN free' /\ free'[i - 1] = free[i]
      BY <1>1, <2>1, <3>2, <3>3
    <3> QED
      BY <3>2, <3>4
  <2>6. IsFiniteSet(InUse)
    BY SlotsFinite, FS_Subset DEF InUse
  <2>7. active \in Nat
    BY <2>6, FS_CardinalityType DEF FreeInv
  <2>8. active' = Cardinality(InUse')
    <3>1. s \notin InUse /\ InUse' = InUse \cup {s}
      BY ZenonT(40), <1>0, <1>1, <1>2 DEF InUse
    <3>2. Cardinality(InUse \cup {s}) = Cardinality(InUse) + 1
      BY <2>6, <3>1, FS_AddElement
    <3> QED
      BY <3>1, <3>2 DEF FreeInv
  <2>9. Len(free') + active' = MaxConnections
    BY <1>1, <2>1, <2>7, ConstantsAssumption DEF FreeInv
  <2> QED
    BY <2>1, <2>3, <2>4, <2>5, <2>8, <2>9 DEF FreeInv
<1>6. PeerInv'
  <2>1. None \notin Clients
    BY ConstantsAssumption
  <2>2. slot[s].client = None
    BY <1>1, UnusedIs DEF SlotInv
  <2>3. ASSUME NEW d \in Clients
        PROVE  (peer'[d] = "slot") <=> (\E t \in Slots : slot'[t].client = d)
    <3>1. CASE d = c
      <4>1. peer'[c] = "slot"
        BY DEF PeerInv
      <4>2. slot'[s].client = c
        BY <1>0, <1>1, <1>2
      <4> QED
        BY <1>1, <3>1, <4>1, <4>2
    <3>2. CASE d # c
      <4>1. (peer'[d] = "slot") <=> (\E t \in Slots : slot[t].client = d)
        BY <3>2 DEF PeerInv
      <4>2. \A t \in Slots : (slot'[t].client = d) <=> (slot[t].client = d)
        BY <1>0, <1>2, <2>1, <2>2, <3>2
      <4> QED
        BY <4>1, <4>2
    <3> QED
      BY <3>1, <3>2
  <2>4. peer' \in [Clients -> {"new", "slot", "completed", "gone", "cut"}]
    BY DEF PeerInv
  <2> QED
    BY <2>3, <2>4 DEF PeerInv
<1> QED
  BY <1>1, <1>4, <1>5, <1>6

-----------------------------------------------------------------------------
(* Operations.                                                             *)

\* A step about one slot: what is queued or in flight of its connection afterwards
\* is what the step submitted, at most one operation that fits; the other slots'
\* operations are as they were.
LEMMA StepOps ==
    ASSUME OpInv, NEW s \in Slots, NEW used,
           \A t \in Slots : t # s => slot'[t] = slot[t] /\ (Pooled(t)' <=> Pooled(t)),
           queued' \cap ops' = {},
           \A o \in AllOps' : o \in AllOps \/ o \in used,
           \A o \in AllOps' : o.slot = s /\ Mine(o)' => o \in used,
           loop' # "overrun" => /\ loop # "overrun"
                                /\ \A o \in AllOps' : o.slot = s => Mine(o)',
           \A o \in used : o \in OpType /\ (Mine(o)' => OpFits(o, slot'[s]) /\ ~Pooled(s)'),
           \A o, p \in used : o.slot = s /\ o = p
    PROVE  OpInv'
<1>1. \A o \in AllOps' : o \in OpType /\ o.slot \in Slots
  BY DEF OpInv, AllOps, OpType
<1>2. queued' \subseteq OpType /\ ops' \subseteq OpType
  BY <1>1 DEF AllOps
<1>3. ASSUME NEW o \in AllOps', o.slot # s
      PROVE  /\ o \in AllOps /\ (Mine(o)' <=> Mine(o)) /\ slot'[o.slot] = slot[o.slot]
             /\ Pooled(o.slot)' <=> Pooled(o.slot)
  BY <1>1, <1>3 DEF Mine
<1>4. ASSUME NEW o \in AllOps', Mine(o)'
      PROVE  /\ OpFits(o, slot'[o.slot])
             /\ ~Pooled(o.slot)'
             /\ \A p \in AllOps' : p.slot = o.slot /\ Mine(p)' => p = o
  <2>1. CASE o.slot = s
    BY <1>4, <2>1
  <2>2. CASE o.slot # s
    BY <1>3, <1>4, <2>2 DEF OpInv
  <2> QED
    BY <2>1, <2>2
<1>5. ASSUME loop' # "overrun", NEW o \in AllOps' PROVE Mine(o)'
  <2>1. CASE o.slot = s
    BY <1>5, <2>1
  <2>2. CASE o.slot # s
    BY <1>3, <1>5, <2>2 DEF OpInv
  <2> QED
    BY <2>1, <2>2
<1> QED
  BY <1>2, <1>4, <1>5 DEF OpInv

\* No step about one slot takes away what another slot's connection waits for.
LEMMA StepDriven ==
    ASSUME DrivenInv, OpInv, NEW s \in Slots, phase' = phase,
           \A t \in Slots : t # s => slot'[t] = slot[t] /\ (Pooled(t)' <=> Pooled(t)),
           \A o \in AllOps : o.slot # s => o \in AllOps',
           slot'[s].state = "UNUSED" \/ HasOp(s)' \/ Pooled(s)'
    PROVE  DrivenInv'
<1>1. ASSUME NEW t \in Slots, t # s, HasOp(t) PROVE HasOp(t)'
  BY <1>1 DEF HasOp, Mine
<1> QED
  BY <1>1 DEF DrivenInv

\* ring_get_sqe_flush loses no operation, and none is both queued and in flight.
LEMMA FlushIs ==
    ASSUME NEW full, NEW rest, NEW used, Flush(full, rest, used),
           queued \cap rest = {}, used \cap (queued \cup rest) = {}
    PROVE  queued' \cap ops' = {} /\ AllOps' = queued \cup rest \cup used
BY DEF Flush, AllOps

\* Whether or not there is room for the timeout, one slot changes.
LEMMA SubmitWriteChanges ==
    ASSUME NEW s \in Slots, NEW state, NEW part, NEW short, NEW bytes, NEW rest,
           SubmitWrite(s, state, part, short, bytes, rest)
    PROVE  \/ /\ loop' = loop
              /\ slot' = [slot EXCEPT ![s] = Conn(state, @.client, part, short, bytes)]
              /\ UNCHANGED <<free, active, peer>>
           \/ loop' = "overrun" /\ Cleanup(s, "gone")
BY DEF SubmitWrite

\* The same, as the slots are then.
LEMMA SubmitWriteSlot ==
    ASSUME NEW s \in Slots, NEW state, NEW part, NEW short, NEW bytes, NEW rest,
           SubmitWrite(s, state, part, short, bytes, rest)
    PROVE  (loop' = loop \/ loop' = "overrun") /\ \E conn : slot' = [slot EXCEPT ![s] = conn]
BY SubmitWriteChanges DEF Cleanup

\* ring_submit_write keeps the connection's operation its only one, of its present
\* part; if the timeout finds no room, the connection is gone from its slot.
LEMMA SubmitWriteKeeps ==
    ASSUME LoopInv, SlotInv, FreeInv, PeerInv, OpInv, DrivenInv,
           phase \in {"run", "drain"}, loop # "overrun", UNCHANGED <<usePool, phase, shutdown>>,
           signalled' \in BOOLEAN,
           NEW s \in Slots, slot[s].state # "UNUSED",
           NEW state \in {"STREAMING", "CLOSING"}, NEW part \in Parts, NEW short \in BOOLEAN,
           (part = Done) <=> (state = "CLOSING"),
           NEW rest \in SUBSET ops, \A o \in ops : o.slot # s => o \in rest,
           \A o \in queued \cup rest : o.slot # s,
           SubmitWrite(s, state, part, short, part, rest),
           ~Pooled(s)', \A t \in Slots : t # s => (Pooled(t)' <=> Pooled(t))
    PROVE  LoopInv' /\ SlotInv' /\ FreeInv' /\ PeerInv' /\ OpInv' /\ DrivenInv'
<1>0. slot[s].client \in Clients
  BY DEF SlotInv
<1>1. PICK conn \in ConnType :
         /\ conn = Conn(state, slot[s].client, part, short, part)
         /\ conn.state = state /\ conn.client = slot[s].client
         /\ conn.part = part /\ conn.bytes_sent = part
  <2> DEFINE x == Conn(state, slot[s].client, part, short, part)
  <2>1. /\ x \in ConnType /\ x.state = state /\ x.client = slot[s].client
        /\ x.part = part /\ x.bytes_sent = part
    BY <1>0 DEF Conn, ConnType, ConnStates
  <2> HIDE DEF x
  <2> QED
    BY <2>1 DEF x
<1>2. PICK new \in OpType :
         /\ new = Op("write", s, slot[s].client, part)
         /\ new.op = "write" /\ new.slot = s /\ new.part = part /\ new.client = slot[s].client
  <2> DEFINE x == Op("write", s, slot[s].client, part)
  <2>1. /\ x \in OpType /\ x.op = "write" /\ x.slot = s /\ x.part = part
        /\ x.client = slot[s].client
    BY <1>0 DEF Op, OpType
  <2> HIDE DEF x
  <2> QED
    BY <2>1 DEF x
<1>3. Flush(Used = SQSize, rest, {new})
  BY <1>2 DEF SubmitWrite
<1>4. \/ /\ loop' = loop /\ slot' = [slot EXCEPT ![s] = conn]
         /\ UNCHANGED <<free, active, peer>>
      \/ loop' = "overrun" /\ Cleanup(s, "gone")
  BY <1>1, SubmitWriteChanges
<1>5. queued' \cap ops' = {} /\ AllOps' = queued \cup rest \cup {new}
  <2>1. queued \cap rest = {}
    BY DEF OpInv
  <2>2. {new} \cap (queued \cup rest) = {}
    BY <1>2
  <2> QED
    BY <1>3, <2>1, <2>2, FlushIs
<1>6. SlotInv' /\ FreeInv' /\ PeerInv'
  <2>1. CASE slot' = [slot EXCEPT ![s] = conn] /\ UNCHANGED <<free, active, peer>>
    BY <1>1, <2>1, ChangeSlots
  <2>2. CASE Cleanup(s, "gone")
    BY <2>2, CleanupSlots
  <2> QED
    BY <1>4, <2>1, <2>2
<1>7. \A t \in Slots : t # s => slot'[t] = slot[t]
  BY <1>4 DEF SlotInv, Cleanup
<1>8. \/ loop' = loop /\ slot'[s] = conn /\ Mine(new)'
      \/ loop' = "overrun" /\ slot'[s] = Unused /\ ~Mine(new)'
  BY <1>0, <1>1, <1>2, <1>4, UnusedIs, ConstantsAssumption DEF SlotInv, Cleanup, Mine
<1>9. OpInv'
  <2>1. \A o \in AllOps' : o \in AllOps \/ o \in {new}
    BY <1>5 DEF AllOps
  <2>2. \A o \in AllOps' : o.slot = s => o \in {new}
    BY <1>5
  <2>3. Mine(new)' => OpFits(new, slot'[s]) /\ ~Pooled(s)'
    BY <1>1, <1>2, <1>8 DEF OpFits
  <2>4. loop' # "overrun" => loop # "overrun" /\ \A o \in AllOps' : o.slot = s => Mine(o)'
    BY <1>8, <2>2
  <2>5. \A t \in Slots : t # s => slot'[t] = slot[t] /\ (Pooled(t)' <=> Pooled(t))
    BY <1>7
  <2> DEFINE used == {new}
  <2>6. /\ \A o \in used : o \in OpType /\ (Mine(o)' => OpFits(o, slot'[s]) /\ ~Pooled(s)')
        /\ \A o, p \in used : o.slot = s /\ o = p
    BY <1>2, <2>3
  <2> HIDE DEF used
  <2>7. /\ \A o \in AllOps' : o \in AllOps \/ o \in used
        /\ \A o \in AllOps' : o.slot = s /\ Mine(o)' => o \in used
    BY <2>1, <2>2 DEF used
  <2> QED
    BY <1>5, <2>4, <2>5, <2>6, <2>7, StepOps
<1>10. DrivenInv'
  <2>1. \A o \in AllOps : o.slot # s => o \in AllOps'
    BY <1>5 DEF AllOps
  <2>2. slot'[s].state = "UNUSED" \/ HasOp(s)'
    BY <1>2, <1>5, <1>8, UnusedIs DEF HasOp
  <2> QED
    BY <1>7, <2>1, <2>2, StepDriven
<1>11. LoopInv'
  BY <1>4 DEF LoopInv, SubmitWrite, InKernel
<1> QED
  BY <1>6, <1>9, <1>10, <1>11

-----------------------------------------------------------------------------
(* The steps of the loop.                                                  *)

\* While the loop handles completions, one belongs to the connection in its slot, and
\* nothing else has that connection.
LEMMA Owns ==
    ASSUME IInv, Handling, NEW o \in ops
    PROVE  /\ phase \in {"run", "drain"} /\ loop = "wait"
           /\ o \in OpType /\ o.slot \in Slots /\ o.op \in {"recv", "write"}
           /\ slot[o.slot].client = o.client /\ slot[o.slot].state # "UNUSED"
           /\ OpFits(o, slot[o.slot]) /\ ~Pooled(o.slot)
           /\ \A p \in queued \cup (ops \ {o}) : p.slot # o.slot
<1>1. phase \in {"run", "drain"} /\ loop = "wait"
  BY DEF Handling
<1>2. o \in AllOps /\ o \in OpType /\ o \notin queued
  BY DEF IInv, OpInv, AllOps
<1>3. o.slot \in Slots /\ o.op \in {"recv", "write"}
  BY <1>2 DEF OpType
<1>4. \A p \in AllOps : Mine(p)
  BY <1>1 DEF IInv, OpInv
<1>5. /\ OpFits(o, slot[o.slot]) /\ ~Pooled(o.slot)
      /\ \A p \in AllOps : p.slot = o.slot => p = o
  BY <1>2, <1>4 DEF IInv, OpInv
<1>6. slot[o.slot].state # "UNUSED"
  BY <1>5 DEF OpFits
<1> QED
  BY <1>1, <1>2, <1>3, <1>4, <1>5, <1>6 DEF Mine, AllOps

\* A completion that ends its connection.
LEMMA EndKeeps ==
    ASSUME IInv, Handling, NEW o \in ops, NEW how \in {"gone", "completed"},
           ops' = ops \ {o}, Cleanup(o.slot, how),
           UNCHANGED <<loopVars, queued, acceptOp, eventOp, poolVars>>
    PROVE  IInv'
<1>1. PICK s \in Slots : s = o.slot
  BY Owns
<1>2. /\ phase \in {"run", "drain"} /\ loop = "wait" /\ slot[s].state # "UNUSED" /\ ~Pooled(s)
      /\ \A p \in queued \cup (ops \ {o}) : p.slot # s
  BY <1>1, Owns
<1>3. UNCHANGED <<usePool, phase, shutdown, loop, queued, acceptOp, eventOp, signalled>>
  BY DEF loopVars, poolVars
<1>4. slot' = [slot EXCEPT ![s] = Unused] /\ Cleanup(s, how)
  BY <1>1 DEF Cleanup
<1>5. SlotInv' /\ FreeInv' /\ PeerInv'
  BY <1>2, <1>3, <1>4, CleanupSlots DEF IInv
<1>6. PoolInv' /\ \A t \in Slots : Pooled(t)' <=> Pooled(t)
  BY <1>2, <1>3, <1>4, PoolFrame DEF IInv
<1>7. slot'[s] = Unused /\ \A t \in Slots : t # s => slot'[t] = slot[t]
  BY <1>4 DEF IInv, SlotInv
<1>8. AllOps' = AllOps \ {o} /\ queued' \cap ops' = {} /\ \A p \in AllOps' : p.slot # s
  BY <1>2, <1>3 DEF IInv, OpInv, AllOps
<1>9. OpInv'
  <2> DEFINE used == {}
  <2>1. /\ \A p \in used : p \in OpType /\ (Mine(p)' => OpFits(p, slot'[s]) /\ ~Pooled(s)')
        /\ \A p, q \in used : p.slot = s /\ p = q
    OBVIOUS
  <2> HIDE DEF used
  <2> QED
    BY <1>2, <1>3, <1>6, <1>7, <1>8, <2>1, StepOps DEF IInv
<1>10. DrivenInv'
  BY <1>1, <1>3, <1>6, <1>7, <1>8, UnusedIs, StepDriven DEF IInv
<1>11. LoopInv'
  BY <1>3 DEF IInv, LoopInv
<1> QED
  BY <1>5, <1>6, <1>9, <1>10, <1>11 DEF IInv

\* A completion that is followed by a write.
LEMMA WriteKeeps ==
    ASSUME IInv, Handling, NEW o \in ops,
           NEW state \in {"STREAMING", "CLOSING"}, NEW part \in Parts, NEW short \in BOOLEAN,
           (part = Done) <=> (state = "CLOSING"),
           SubmitWrite(o.slot, state, part, short, part, ops \ {o}),
           UNCHANGED <<usePool, phase, shutdown, poolVars>>
    PROVE  IInv'
<1>1. PICK s \in Slots : s = o.slot
  BY Owns
<1>2. /\ phase \in {"run", "drain"} /\ loop = "wait" /\ slot[s].state # "UNUSED" /\ ~Pooled(s)
      /\ \A p \in queued \cup (ops \ {o}) : p.slot # s
  BY <1>1, Owns
<1>3. PICK rest \in SUBSET ops : rest = ops \ {o}
  OBVIOUS
<1>4. SubmitWrite(s, state, part, short, part, rest)
  BY <1>1, <1>3
<1>5. PICK conn : slot' = [slot EXCEPT ![s] = conn]
  BY <1>4, SubmitWriteSlot
<1>6. loop' = loop \/ loop' = "overrun"
  BY <1>4, SubmitWriteSlot
<1>7. PoolInv' /\ \A t \in Slots : Pooled(t)' <=> Pooled(t)
  BY <1>2, <1>5, <1>6, PoolFrame DEF IInv
<1>8. signalled' \in BOOLEAN
  BY DEF poolVars, IInv, LoopInv
<1>9. \A p \in ops : p.slot # s => p \in rest
  BY <1>1, <1>3
<1>10. LoopInv' /\ SlotInv' /\ FreeInv' /\ PeerInv' /\ OpInv' /\ DrivenInv'
  BY <1>2, <1>3, <1>4, <1>7, <1>8, <1>9, SubmitWriteKeeps DEF IInv
<1> QED
  BY <1>7, <1>10 DEF IInv

\* handle_recv_fd and handle_write: the completions that are followed by a write.
LEMMA StreamKeeps ==
    ASSUME IInv, NEW o \in ops, RecvStream(o) \/ WriteShort(o) \/ WriteNext(o)
    PROVE  IInv'
<1>1. CASE RecvStream(o)
  <2>1. 0 \in Parts /\ 0 # Done
    BY ConstantsAssumption DEF Parts, Done
  <2> QED
    BY <1>1, <2>1, WriteKeeps DEF RecvStream, Receiving, StartStreaming
<1>2. CASE WriteShort(o)
  <2>0. Handling /\ o.op = "write"
    BY <1>2 DEF WriteShort, Writing
  <2>1. PICK s \in Slots : s = o.slot
    BY <2>0, Owns
  <2>2. PICK state, part : state = slot[s].state /\ part = slot[s].part
    OBVIOUS
  <2>3. slot[s] \in ConnType /\ slot[s].bytes_sent = part
    BY <2>2 DEF IInv, SlotInv
  <2>4. part \in Parts /\ state \in {"STREAMING", "CLOSING"}
        /\ ((part = Done) <=> (state = "CLOSING"))
    BY <2>0, <2>1, <2>2, <2>3, Owns DEF OpFits, ConnType
  <2>5. SubmitWrite(o.slot, state, part, TRUE, part, ops \ {o})
    BY <1>2, <2>1, <2>2, <2>3 DEF WriteShort
  <2> QED
    BY <1>2, <2>0, <2>4, <2>5, WriteKeeps DEF WriteShort
<1>3. CASE WriteNext(o)
  <2>0. Handling /\ o.op = "write" /\ slot[o.slot].state = "STREAMING"
    BY <1>3 DEF WriteNext, Writing
  <2>1. PICK s \in Slots : s = o.slot
    BY <2>0, Owns
  <2>2. PICK part : part = slot[s].part + 1
    OBVIOUS
  <2>3. slot[s] \in ConnType /\ slot[s].bytes_sent + 1 = part
    BY <2>2 DEF IInv, SlotInv
  <2>4. slot[s].part # Done
    BY <2>0, <2>1, Owns DEF OpFits
  <2>5. part \in Parts
    BY <2>2, <2>3, <2>4, ConstantsAssumption DEF ConnType, Parts, Done
  <2>6. PICK state \in {"STREAMING", "CLOSING"} :
           state = IF part = Done THEN "CLOSING" ELSE "STREAMING"
    OBVIOUS
  <2>7. SubmitWrite(o.slot, state, part, FALSE, part, ops \ {o})
    BY <1>3, <2>1, <2>2, <2>3, <2>6 DEF WriteNext
  <2> QED
    BY <1>3, <2>0, <2>5, <2>6, <2>7, WriteKeeps DEF WriteNext
<1> QED
  BY <1>1, <1>2, <1>3

\* A connection that the pool has is in use, and has no operation.
LEMMA PooledIs ==
    ASSUME IInv, NEW s \in Slots, Pooled(s)
    PROVE  /\ slot[s].state \in Streamable \cup {"LLM_QUEUED"}
           /\ \A o \in AllOps : o.slot = s => ~Mine(o)
<1>1. slot[s].state \in Streamable \cup {"LLM_QUEUED"}
  <2>1. CASE InWork(s)
    BY <2>1 DEF IInv, PoolInv, WorkInv, InWork
  <2>2. CASE AtWorker(s)
    BY <2>2 DEF IInv, PoolInv, WorkerInv, AtWorker
  <2>3. CASE OnRing(s)
    BY <2>3 DEF IInv, PoolInv, RingInv, OnRing
  <2> QED
    BY <2>1, <2>2, <2>3 DEF Pooled
<1>2. \A o \in AllOps : o.slot = s => ~Mine(o)
  BY DEF IInv, OpInv
<1> QED
  BY <1>1, <1>2

\* A step that leaves the connections, the pool and the set of operations as they are.
LEMMA QuietKeeps ==
    ASSUME IInv, LoopInv', PeerInv', UNCHANGED <<slot, free, active, poolVars>>,
           AllOps' = AllOps, queued' \cap ops' = {},
           loop' = "wait" => loop = "wait" \/ RingEmpty,
           loop' # "overrun" => loop # "overrun",
           phase' # "stopped" => phase # "stopped"
    PROVE  IInv'
<1>0. UNCHANGED <<slot, free, active, work, worker, ring, ringHead, ringTail, signalled>>
  BY DEF poolVars
<1>1. \A t \in Slots : /\ InWork(t)' <=> InWork(t)
                       /\ AtWorker(t)' <=> AtWorker(t)
                       /\ OnRing(t)' <=> OnRing(t)
                       /\ Pooled(t)' <=> Pooled(t)
  BY <1>0 DEF InWork, AtWorker, OnRing, Live, Pooled
<1>2. SlotInv' /\ FreeInv'
  BY <1>0 DEF IInv, SlotInv, FreeInv, InUse
<1>3. WorkInv'
  BY <1>0 DEF IInv, PoolInv, WorkInv
<1>4. WorkerInv'
  BY <1>0 DEF IInv, PoolInv, WorkerInv, InWork
<1>5. RingInv'
  BY <1>0 DEF IInv, PoolInv, RingInv, AtWorker, Live, RingEmpty
<1>6. \A o \in AllOps : o \in OpType /\ o.slot \in Slots /\ (Mine(o)' <=> Mine(o))
  BY <1>0 DEF IInv, OpInv, AllOps, OpType, Mine
<1>7. OpInv'
  <2>1. queued' \subseteq OpType /\ ops' \subseteq OpType
    BY <1>6 DEF AllOps
  <2>2. loop' # "overrun" => \A o \in AllOps' : Mine(o)'
    BY <1>6 DEF IInv, OpInv
  <2>3. ASSUME NEW o \in AllOps', Mine(o)'
        PROVE  /\ OpFits(o, slot'[o.slot]) /\ ~Pooled(o.slot)'
               /\ \A p \in AllOps' : p.slot = o.slot /\ Mine(p)' => p = o
    BY <1>0, <1>1, <1>6, <2>3 DEF IInv, OpInv
  <2> QED
    BY <2>1, <2>2, <2>3 DEF OpInv
<1>8. DrivenInv'
  <2>1. \A t \in Slots : HasOp(t) => HasOp(t)'
    BY <1>6 DEF HasOp
  <2> QED
    BY <1>0, <1>1, <2>1 DEF IInv, DrivenInv
<1> QED
  BY <1>2, <1>3, <1>4, <1>5, <1>7, <1>8 DEF IInv, PoolInv

\* handle_accept without a free slot: the connection is closed at once.
LEMMA AcceptRefusedKeeps ==
    ASSUME IInv, NEW c \in Clients, NEW more \in BOOLEAN, AcceptRefused(c, more)
    PROVE  IInv'
<1>1. /\ UNCHANGED <<slot, free, active, queued, ops, usePool, phase, shutdown, loop, eventOp>>
      /\ UNCHANGED poolVars
      /\ peer[c] = "new" /\ peer' = [peer EXCEPT ![c] = "gone"]
      /\ Handling /\ acceptOp' = AcceptAfter(more)
  BY DEF AcceptRefused, loopVars, Oldest
<1>2. PeerInv'
  BY <1>1 DEF IInv, PeerInv
<1>3. LoopInv'
  BY <1>1 DEF IInv, LoopInv, AcceptAfter, poolVars
<1>4. AllOps' = AllOps /\ queued' \cap ops' = {}
  BY <1>1 DEF AllOps, IInv, OpInv
<1> QED
  BY <1>1, <1>2, <1>3, <1>4, QuietKeeps

\* The steps of the loop that change only what it waits for.
LEMMA WaitKeeps ==
    ASSUME IInv, AcceptFails \/ Submit \/ EventfdEnd \/ BeginDrain \/ DrainDone
                     \/ DrainTimeout \/ Signal
    PROVE  IInv'
<1>1. UNCHANGED <<peer, slot, free, active, poolVars>> /\ phase # "stopped"
  BY DEF AcceptFails, Submit, EventfdEnd, BeginDrain, DrainDone, DrainTimeout, Signal,
         Handling, connVars, IInv, LoopInv
<1>2. AllOps' = AllOps /\ queued' \cap ops' = {}
  <2>1. queued \cap ops = {}
    BY DEF IInv, OpInv
  <2>2. CASE EventfdEnd
    <3>1. PICK full : Flush(full, ops, {})
      BY <2>2 DEF EventfdEnd
    <3> QED
      BY <2>1, <3>1, FlushIs DEF AllOps
  <2>3. CASE Submit
    BY <2>3 DEF Submit, AllOps
  <2>4. CASE AcceptFails \/ BeginDrain \/ DrainDone \/ DrainTimeout \/ Signal
    BY <2>1, <2>4 DEF AcceptFails, BeginDrain, DrainDone, DrainTimeout, Signal, AllOps, sqVars
  <2> QED
    BY <2>2, <2>3, <2>4
<1>3. PeerInv'
  BY <1>1 DEF IInv, PeerInv
<1>4. LoopInv'
  <2>1. CASE AcceptFails
    BY <2>1 DEF AcceptFails, AcceptAfter, Handling, loopVars, poolVars, IInv, LoopInv
  <2>2. CASE Submit
    BY <2>2 DEF Submit, InKernel, Handling, loopVars, poolVars, IInv, LoopInv
  <2>3. CASE EventfdEnd
    BY <2>3 DEF EventfdEnd, InKernel, poolVars, IInv, LoopInv
  <2>4. CASE BeginDrain \/ DrainDone \/ DrainTimeout \/ Signal
    BY <2>4 DEF BeginDrain, DrainDone, DrainTimeout, Signal, sqVars, poolVars, IInv, LoopInv
  <2> QED
    BY <2>1, <2>2, <2>3, <2>4
<1>5. /\ loop' = "wait" => loop = "wait" \/ RingEmpty
      /\ loop' # "overrun" => loop # "overrun"
  BY DEF AcceptFails, Submit, EventfdEnd, BeginDrain, DrainDone, DrainTimeout, Signal, loopVars
<1> QED
  BY <1>1, <1>2, <1>3, <1>4, <1>5, QuietKeeps

\* handle_accept and conn_alloc: the new connection's one operation is the receipt.
LEMMA AcceptKeeps ==
    ASSUME IInv, NEW c \in Clients, NEW more \in BOOLEAN, Accept(c, more)
    PROVE  IInv'
<1>1. /\ Handling /\ phase \in {"run", "drain"} /\ loop = "wait" /\ peer[c] = "new"
      /\ UNCHANGED <<usePool, phase, shutdown, loop, poolVars>>
  BY DEF Accept, Handling, Oldest, loopVars
<1>2. PICK s : s = Head(free)
  OBVIOUS
<1>3. /\ free # <<>> /\ free' = Tail(free) /\ active' = active + 1
      /\ peer' = [peer EXCEPT ![c] = "slot"]
      /\ slot' = [slot EXCEPT ![s] = Conn("RECEIVING_FD", c, 0, FALSE, 0)]
  BY <1>2 DEF Accept
<1>4. SlotInv' /\ FreeInv' /\ PeerInv' /\ s \in Slots /\ slot[s].state = "UNUSED"
  BY <1>1, <1>2, <1>3, AcceptSlots DEF IInv
<1>5. ~Pooled(s)
  BY <1>4, PooledIs DEF Streamable
<1>6. PoolInv' /\ \A t \in Slots : Pooled(t)' <=> Pooled(t)
  BY <1>1, <1>3, <1>4, <1>5, PoolFrame DEF IInv
<1>7. PICK new \in OpType :
         /\ new = Op("recv", s, c, 0)
         /\ new.op = "recv" /\ new.slot = s /\ new.client = c
  <2> DEFINE x == Op("recv", s, c, 0)
  <2>1. x \in OpType /\ x.op = "recv" /\ x.slot = s /\ x.client = c
    BY <1>4, ConstantsAssumption DEF Op, OpType, Parts, Done
  <2> HIDE DEF x
  <2> QED
    BY <2>1 DEF x
<1>8. PICK full : Flush(full, ops, {new})
  BY <1>2, <1>7 DEF Accept
<1>9. \A o \in AllOps : o.slot # s
  BY <1>1, <1>4 DEF IInv, OpInv, OpFits
<1>10. AllOps' = AllOps \cup {new} /\ queued' \cap ops' = {}
  <2>1. {new} \cap (queued \cup ops) = {} /\ queued \cap ops = {}
    BY <1>7, <1>9 DEF AllOps, IInv, OpInv
  <2> QED
    BY <1>8, <2>1, FlushIs DEF AllOps
<1>11. /\ slot'[s].state = "RECEIVING_FD" /\ slot'[s].client = c
       /\ \A t \in Slots : t # s => slot'[t] = slot[t]
  BY <1>3, <1>4 DEF IInv, SlotInv, Conn
<1>12. Mine(new)'
  BY <1>7, <1>11 DEF Mine
<1>13. OpInv'
  <2> DEFINE used == {new}
  <2>1. /\ \A o \in used : o \in OpType /\ (Mine(o)' => OpFits(o, slot'[s]) /\ ~Pooled(s)')
        /\ \A o, p \in used : o.slot = s /\ o = p
    BY <1>4, <1>5, <1>6, <1>7, <1>11 DEF OpFits
  <2>2. /\ \A o \in AllOps' : o \in AllOps \/ o \in used
        /\ \A o \in AllOps' : o.slot = s /\ Mine(o)' => o \in used
    BY <1>9, <1>10
  <2>3. loop' # "overrun" => loop # "overrun" /\ \A o \in AllOps' : o.slot = s => Mine(o)'
    BY <1>1, <1>9, <1>10, <1>12
  <2> HIDE DEF used
  <2> QED
    BY <1>4, <1>6, <1>10, <1>11, <2>1, <2>2, <2>3, StepOps DEF IInv
<1>14. DrivenInv'
  <2>1. HasOp(s)'
    BY <1>7, <1>10, <1>12 DEF HasOp
  <2> QED
    BY <1>1, <1>4, <1>6, <1>10, <1>11, <2>1, StepDriven DEF IInv
<1>15. LoopInv'
  BY <1>1 DEF Accept, AcceptAfter, InKernel, poolVars, IInv, LoopInv
<1> QED
  BY <1>4, <1>6, <1>13, <1>14, <1>15 DEF IInv

-----------------------------------------------------------------------------
(* The steps of the pool.                                                  *)

\* A step of the pool about a connection that it has before and after: operations and
\* the other slots stay as they are.
LEMMA PoolStep ==
    ASSUME IInv, NEW s \in Slots, Pooled(s),
           \A t \in Slots : Pooled(t)' <=> Pooled(t),
           \A t \in Slots : t # s => slot'[t] = slot[t],
           slot'[s].client = slot[s].client,
           UNCHANGED <<loopVars, sqVars>>
    PROVE  OpInv' /\ DrivenInv'
<1>1. UNCHANGED <<loop, phase, queued, ops>> /\ AllOps' = AllOps
  BY DEF loopVars, sqVars, AllOps
<1>2. \A o \in AllOps : o.slot = s => ~Mine(o) /\ ~Mine(o)'
  BY PooledIs DEF Mine
<1>3. OpInv'
  <2> DEFINE used == {}
  <2>1. /\ \A o \in used : o \in OpType /\ (Mine(o)' => OpFits(o, slot'[s]) /\ ~Pooled(s)')
        /\ \A o, p \in used : o.slot = s /\ o = p
    OBVIOUS
  <2>2. /\ \A o \in AllOps' : o \in AllOps \/ o \in used
        /\ \A o \in AllOps' : o.slot = s /\ Mine(o)' => o \in used
    BY <1>1, <1>2
  <2>3. loop' # "overrun" => loop # "overrun" /\ \A o \in AllOps' : o.slot = s => Mine(o)'
    BY <1>1, <1>2 DEF IInv, OpInv
  <2>4. queued' \cap ops' = {}
    BY <1>1 DEF IInv, OpInv
  <2> HIDE DEF used
  <2> QED
    BY <2>1, <2>2, <2>3, <2>4, StepOps DEF IInv
<1>4. DrivenInv'
  BY <1>1, StepDriven DEF IInv
<1> QED
  BY <1>3, <1>4

\* worker_thread takes a connection from the queue: no other place has it.
LEMMA WorkerTakesKeeps ==
    ASSUME IInv, NEW w \in Workers, WorkerTakes(w)
    PROVE  IInv'
<1>1. /\ UNCHANGED <<loopVars, connVars, sqVars>>
      /\ UNCHANGED <<usePool, phase, shutdown, loop, peer, slot, free, active, queued, ops,
                     acceptOp, eventOp, ring, ringHead, ringTail, signalled>>
  BY DEF WorkerTakes, loopVars, connVars, sqVars
<1>2. /\ work \in Seq(Slots) /\ Len(work) \in Nat \ {0} /\ 1 \in DOMAIN work
      /\ work' \in Seq(Slots) /\ Len(work') = Len(work) - 1
      /\ \A i \in DOMAIN work' : i + 1 \in DOMAIN work /\ work'[i] = work[i + 1]
  BY DEF WorkerTakes, IInv, PoolInv, WorkInv
<1>3. PICK s \in Slots : s = work[1]
  BY <1>2
<1>4. /\ worker[w] = Idle /\ Idle.at = "idle"
      /\ worker' = [worker EXCEPT ![w] = [slot |-> s, at |-> "call"]]
  BY <1>2, <1>3 DEF WorkerTakes, Idle
<1>5. \A v \in Workers : worker'[v] = IF v = w THEN [slot |-> s, at |-> "call"] ELSE worker[v]
  BY <1>4 DEF IInv, PoolInv, WorkerInv
<1>6. slot[s].state = "LLM_QUEUED" /\ InWork(s) /\ ~OnRing(s) /\ ~AtWorker(s)
  BY <1>2, <1>3 DEF IInv, PoolInv, WorkInv, WorkerInv, RingInv, InWork, OnRing, AtWorker,
                    Streamable
<1>7. ~InWork(s)' /\ \A t \in Slots : t # s => (InWork(t)' <=> InWork(t))
  <2>1. ASSUME NEW i \in DOMAIN work' PROVE work'[i] # s
    <3>1. i + 1 \in DOMAIN work /\ work'[i] = work[i + 1] /\ i + 1 # 1
      BY <1>2
    <3> QED
      BY <1>2, <1>3, <3>1 DEF IInv, PoolInv, WorkInv
  <2>2. ASSUME NEW i \in DOMAIN work, work[i] # s PROVE i - 1 \in DOMAIN work' /\ work'[i - 1] = work[i]
    BY <1>2, <1>3, <2>2
  <2> QED
    BY <1>2, <2>1, <2>2 DEF InWork
<1>8. AtWorker(s)' /\ \A t \in Slots : t # s => (AtWorker(t)' <=> AtWorker(t))
  BY <1>4, <1>5 DEF AtWorker
<1>9. \A t \in Slots : (OnRing(t)' <=> OnRing(t)) /\ (Live(t)' <=> Live(t))
  BY <1>1 DEF OnRing, Live
<1>10. \A t \in Slots : Pooled(t)' <=> Pooled(t)
  BY <1>6, <1>7, <1>8, <1>9 DEF Pooled
<1>11. OpInv' /\ DrivenInv'
  BY <1>1, <1>6, <1>10, PoolStep DEF Pooled
<1>12. WorkInv'
  <2>1. \A i, j \in DOMAIN work' : work'[i] = work'[j] => i = j
    <3>1. ASSUME NEW i \in DOMAIN work', NEW j \in DOMAIN work', work'[i] = work'[j]
          PROVE  i + 1 = j + 1
      BY <1>2, <3>1 DEF IInv, PoolInv, WorkInv
    <3> QED
      BY <1>2, <3>1
  <2> QED
    BY <1>1, <1>2, <2>1 DEF IInv, PoolInv, WorkInv
<1>13. WorkerInv'
  <2>1. worker' \in [Workers -> WorkerType]
    BY <1>4 DEF IInv, PoolInv, WorkerInv, WorkerType
  <2>2. ASSUME NEW v \in Workers, NEW t \in Slots, worker'[v].slot = t
        PROVE  /\ worker'[v].at = "call" => slot'[t].state = "LLM_QUEUED" /\ ~InWork(t)'
               /\ worker'[v].at = "add" => slot'[t].state \in Streamable
    <3>1. CASE v = w
      BY <1>1, <1>5, <1>6, <1>7, <2>2, <3>1
    <3>2. CASE v # w
      <4>1. worker[v].slot = t /\ worker'[v].at = worker[v].at
        BY <1>5, <2>2, <3>2
      <4>2. worker[v].at \in {"call", "add"} => t # s
        BY <1>6, <4>1 DEF AtWorker
      <4>3. /\ worker[v].at = "call" => slot[t].state = "LLM_QUEUED" /\ ~InWork(t)
            /\ worker[v].at = "add" => slot[t].state \in Streamable
        BY <4>1 DEF IInv, PoolInv, WorkerInv
      <4> QED
        BY <1>1, <1>7, <4>1, <4>2, <4>3
    <3> QED
      BY <3>1, <3>2
  <2>3. ASSUME NEW v \in Workers, NEW u \in Workers,
               worker'[v].at \in {"call", "add"}, worker'[u].at \in {"call", "add"},
               worker'[v].slot = worker'[u].slot
        PROVE  v = u
    BY <1>5, <1>6, <2>3 DEF IInv, PoolInv, WorkerInv, AtWorker
  <2>4. \A v \in Workers : worker'[v].at \in {"call", "add"} => worker'[v].slot \in Slots
    BY <2>1 DEF WorkerType, Idle
  <2> QED
    BY <2>1, <2>2, <2>3, <2>4 DEF WorkerInv, InWork
<1>14. RingInv'
  <2>1. ~RingEmpty /\ loop = "wait" => signalled \/ \E v \in Workers : worker'[v].at = "signal"
    BY <1>4, <1>5 DEF IInv, PoolInv, RingInv
  <2>2. \A j \in Slots : Live(j) => ring[j] \in Slots /\ ring[j] # s
    BY <1>6 DEF IInv, PoolInv, RingInv, OnRing
  <2> QED
    BY <1>1, <1>8, <1>9, <2>1, <2>2 DEF IInv, PoolInv, RingInv, RingEmpty
<1> QED
  BY <1>1, <1>11, <1>12, <1>13, <1>14
     DEF IInv, PoolInv, LoopInv, SlotInv, FreeInv, PeerInv, InUse

\* worker_thread sets the state of a connection that is nowhere else.
LEMMA WorkerReturnsKeeps ==
    ASSUME IInv, NEW w \in Workers, NEW state \in Streamable, WorkerReturns(w, state)
    PROVE  IInv'
<1>1. /\ UNCHANGED <<loopVars, sqVars>>
      /\ UNCHANGED <<usePool, phase, shutdown, loop, peer, free, active, queued, ops,
                     acceptOp, eventOp, work, ring, ringHead, ringTail, signalled>>
      /\ worker[w].at = "call"
  BY DEF WorkerReturns, loopVars, sqVars
<1>2. PICK s \in Slots : s = worker[w].slot
  BY <1>1 DEF IInv, PoolInv, WorkerInv, WorkerType, Idle
<1>3. /\ slot[s].state = "LLM_QUEUED" /\ ~InWork(s) /\ AtWorker(s) /\ ~OnRing(s)
      /\ \A v \in Workers : worker[v].at \in {"call", "add"} /\ worker[v].slot = s => v = w
  BY <1>1, <1>2 DEF IInv, PoolInv, WorkerInv, RingInv, AtWorker, OnRing, Streamable
<1>4. PICK conn \in ConnType : /\ conn = [slot[s] EXCEPT !.state = state]
                               /\ conn.state = state /\ conn.client = slot[s].client
                               /\ conn.part = slot[s].part
                               /\ conn.bytes_sent = slot[s].bytes_sent
  <2> DEFINE x == [slot[s] EXCEPT !.state = state]
  <2>1. slot[s] \in ConnType /\ state \in ConnStates
    BY DEF IInv, SlotInv, Streamable, ConnStates
  <2>2. /\ x \in ConnType /\ x.state = state /\ x.client = slot[s].client
        /\ x.part = slot[s].part /\ x.bytes_sent = slot[s].bytes_sent
    BY <2>1 DEF ConnType
  <2> HIDE DEF x
  <2> QED
    BY <2>2 DEF x
<1>5. slot' = [slot EXCEPT ![s] = conn]
  BY <1>2, <1>4 DEF WorkerReturns
<1>6. \A t \in Slots : slot'[t] = IF t = s THEN conn ELSE slot[t]
  BY <1>5 DEF IInv, SlotInv
<1>7. SlotInv' /\ FreeInv' /\ PeerInv'
  <2>1. conn.state # "UNUSED" /\ conn.part = conn.bytes_sent
    BY <1>4 DEF IInv, SlotInv, Streamable
  <2> QED
    BY <1>1, <1>3, <1>4, <1>5, <2>1, ChangeSlots DEF IInv
<1>8. /\ worker'[w].at = "add" /\ worker'[w].slot = s
      /\ \A v \in Workers : v # w => worker'[v] = worker[v]
      /\ worker' \in [Workers -> WorkerType]
  <2>1. worker[w] \in [slot : Slots, at : {"call", "add", "signal"}]
    BY <1>1 DEF IInv, PoolInv, WorkerInv, WorkerType, Idle
  <2>2. /\ [worker[w] EXCEPT !.at = "add"] \in WorkerType
        /\ [worker[w] EXCEPT !.at = "add"].at = "add"
        /\ [worker[w] EXCEPT !.at = "add"].slot = s
    BY <1>2, <2>1 DEF WorkerType
  <2> QED
    BY <2>2 DEF WorkerReturns, IInv, PoolInv, WorkerInv
<1>9. \A t \in Slots : /\ InWork(t)' <=> InWork(t)
                       /\ AtWorker(t)' <=> AtWorker(t)
                       /\ OnRing(t)' <=> OnRing(t)
                       /\ Live(t)' <=> Live(t)
                       /\ Pooled(t)' <=> Pooled(t)
  <2>1. \A t \in Slots : AtWorker(t)' <=> AtWorker(t)
    BY <1>1, <1>2, <1>8 DEF AtWorker
  <2>2. \A t \in Slots : /\ InWork(t)' <=> InWork(t)
                         /\ OnRing(t)' <=> OnRing(t)
                         /\ Live(t)' <=> Live(t)
    BY <1>1 DEF InWork, OnRing, Live
  <2> QED
    BY <2>1, <2>2 DEF Pooled
<1>10. OpInv' /\ DrivenInv'
  BY <1>1, <1>3, <1>4, <1>6, <1>9, PoolStep DEF Pooled
<1>11. WorkInv'
  <2>1. \A i \in DOMAIN work : work[i] \in Slots /\ work[i] # s
    BY <1>3 DEF IInv, PoolInv, WorkInv, InWork
  <2> QED
    BY <1>1, <1>6, <2>1 DEF IInv, PoolInv, WorkInv
<1>12. WorkerInv'
  <2>1. ASSUME NEW v \in Workers, NEW t \in Slots, worker'[v].slot = t
        PROVE  /\ worker'[v].at = "call" => slot'[t].state = "LLM_QUEUED" /\ ~InWork(t)'
               /\ worker'[v].at = "add" => slot'[t].state \in Streamable
    <3>1. CASE v = w
      BY ZenonT(40), <1>4, <1>6, <1>8, <2>1, <3>1
    <3>2. CASE v # w
      <4>1. worker[v] = worker'[v] /\ (worker[v].at \in {"call", "add"} => t # s)
        BY <1>3, <1>8, <2>1, <3>2
      <4>2. /\ worker[v].at = "call" => slot[t].state = "LLM_QUEUED" /\ ~InWork(t)
            /\ worker[v].at = "add" => slot[t].state \in Streamable
        BY <2>1, <4>1 DEF IInv, PoolInv, WorkerInv
      <4> QED
        BY <1>6, <1>9, <4>1, <4>2
    <3> QED
      BY <3>1, <3>2
  <2>2. ASSUME NEW v \in Workers, NEW u \in Workers,
               worker'[v].at \in {"call", "add"}, worker'[u].at \in {"call", "add"},
               worker'[v].slot = worker'[u].slot
        PROVE  v = u
    BY <1>3, <1>8, <2>2 DEF IInv, PoolInv, WorkerInv
  <2>3. \A v \in Workers : worker'[v].at \in {"call", "add"} => worker'[v].slot \in Slots
    BY <1>8 DEF WorkerType, Idle
  <2> QED
    BY <1>8, <2>1, <2>2, <2>3 DEF WorkerInv, InWork
<1>13. RingInv'
  <2>1. \A v \in Workers : worker[v].at = "signal" => worker'[v].at = "signal"
    BY <1>1, <1>8
  <2>2. \A j \in Slots : Live(j) => ring[j] \in Slots /\ ring[j] # s
    BY <1>3 DEF IInv, PoolInv, RingInv, OnRing
  <2> QED
    BY <1>1, <1>6, <1>9, <2>1, <2>2 DEF IInv, PoolInv, RingInv, RingEmpty
<1>14. LoopInv'
  BY <1>1 DEF IInv, LoopInv
<1> QED
  BY <1>7, <1>10, <1>11, <1>12, <1>13, <1>14 DEF IInv, PoolInv

\* pool_add_completion stores the entry before it advances the index: the connection
\* goes from its worker to the ring.
LEMMA WorkerAddsKeeps ==
    ASSUME IInv, NEW w \in Workers, WorkerAdds(w)
    PROVE  IInv'
<1>1. /\ UNCHANGED <<loopVars, connVars, sqVars>>
      /\ UNCHANGED <<usePool, phase, shutdown, loop, peer, slot, free, active, queued, ops,
                     acceptOp, eventOp, work, ringHead, signalled>>
      /\ worker[w].at = "add" /\ ~RingFull /\ ringTail' = RingSucc(ringTail)
  BY DEF WorkerAdds, loopVars, connVars, sqVars
<1>2. PICK s \in Slots : s = worker[w].slot
  BY <1>1 DEF IInv, PoolInv, WorkerInv, WorkerType, Idle
<1>3. /\ slot[s].state \in Streamable /\ ~InWork(s) /\ AtWorker(s) /\ ~OnRing(s)
      /\ \A v \in Workers : worker[v].at \in {"call", "add"} /\ worker[v].slot = s => v = w
  BY <1>1, <1>2 DEF IInv, PoolInv, WorkInv, WorkerInv, RingInv, InWork, AtWorker, OnRing,
                    Streamable
<1>4. ringHead \in Slots /\ ringTail \in Slots /\ ringTail' \in Slots
  BY <1>1, RingSuccIs DEF IInv, PoolInv, RingInv
<1>5. ~Live(ringTail) /\ \A j \in Slots : Live(j)' <=> Live(j) \/ j = ringTail
  BY <1>1, <1>4, LiveAdd
<1>6. \A j \in Slots : ring'[j] = IF j = ringTail THEN s ELSE ring[j]
  BY <1>2, <1>4 DEF WorkerAdds, IInv, PoolInv, RingInv
<1>7. /\ worker'[w].at = "signal"
      /\ \A v \in Workers : v # w => worker'[v] = worker[v]
      /\ worker' \in [Workers -> WorkerType]
  <2>1. worker[w] \in [slot : Slots, at : {"call", "add", "signal"}]
    BY <1>1 DEF IInv, PoolInv, WorkerInv, WorkerType, Idle
  <2>2. /\ [worker[w] EXCEPT !.at = "signal"] \in WorkerType
        /\ [worker[w] EXCEPT !.at = "signal"].at = "signal"
    BY <2>1 DEF WorkerType
  <2> QED
    BY <2>2 DEF WorkerAdds, IInv, PoolInv, WorkerInv
<1>8. \A t \in Slots : /\ InWork(t)' <=> InWork(t)
                       /\ AtWorker(t)' <=> AtWorker(t) /\ t # s
                       /\ OnRing(t)' <=> OnRing(t) \/ t = s
  <2>1. \A t \in Slots : InWork(t)' <=> InWork(t)
    BY <1>1 DEF InWork
  <2>2. \A t \in Slots : AtWorker(t)' <=> (AtWorker(t) /\ t # s)
    BY <1>2, <1>3, <1>7 DEF AtWorker
  <2>3. \A t \in Slots : OnRing(t)' <=> (OnRing(t) \/ t = s)
    BY <1>4, <1>5, <1>6 DEF OnRing
  <2> QED
    BY <2>1, <2>2, <2>3
<1>9. Pooled(s) /\ \A t \in Slots : Pooled(t)' <=> Pooled(t)
  BY <1>3, <1>8 DEF Pooled
<1>10. OpInv' /\ DrivenInv'
  BY <1>1, <1>9, PoolStep
<1>11. WorkInv'
  BY <1>1 DEF IInv, PoolInv, WorkInv
<1>12. WorkerInv'
  <2>1. ASSUME NEW v \in Workers, NEW t \in Slots, worker'[v].slot = t
        PROVE  /\ worker'[v].at = "call" => slot'[t].state = "LLM_QUEUED" /\ ~InWork(t)'
               /\ worker'[v].at = "add" => slot'[t].state \in Streamable
    <3>1. CASE v = w
      BY <1>7, <3>1
    <3>2. CASE v # w
      BY <1>1, <1>7, <1>8, <2>1, <3>2 DEF IInv, PoolInv, WorkerInv
    <3> QED
      BY <3>1, <3>2
  <2>2. ASSUME NEW v \in Workers, NEW u \in Workers,
               worker'[v].at \in {"call", "add"}, worker'[u].at \in {"call", "add"},
               worker'[v].slot = worker'[u].slot
        PROVE  v = u
    BY <1>7, <2>2 DEF IInv, PoolInv, WorkerInv
  <2>3. \A v \in Workers : worker'[v].at \in {"call", "add"} => worker'[v].slot \in Slots
    BY <1>7 DEF WorkerType, Idle
  <2> QED
    BY <1>7, <2>1, <2>2, <2>3 DEF WorkerInv, InWork
<1>13. RingInv'
  <2>1. ring' \in [Slots -> Slots \cup {None}]
    BY <1>2 DEF WorkerAdds, IInv, PoolInv, RingInv
  <2>2. ASSUME NEW j \in Slots, Live(j)', NEW t, t = ring'[j]
        PROVE  t \in Slots /\ slot'[t].state \in Streamable /\ ~AtWorker(t)'
    <3>1. CASE j = ringTail
      BY <1>1, <1>3, <1>6, <1>8, <2>2, <3>1
    <3>2. CASE j # ringTail
      <4>1. Live(j) /\ t = ring[j]
        BY <1>5, <1>6, <2>2, <3>2
      <4>2. t \in Slots /\ slot[t].state \in Streamable /\ ~AtWorker(t)
        BY <4>1 DEF IInv, PoolInv, RingInv
      <4> QED
        BY <1>1, <1>8, <4>2
    <3> QED
      BY <3>1, <3>2
  <2>3. ASSUME NEW i \in Slots, NEW j \in Slots, Live(i)', Live(j)', ring'[i] = ring'[j]
        PROVE  i = j
    <3>1. \A k \in Slots : Live(k) => ring[k] # s
      BY <1>3 DEF OnRing
    <3> QED
      BY <1>5, <1>6, <2>3, <3>1 DEF IInv, PoolInv, RingInv
  <2> QED
    BY <1>1, <1>4, <1>7, <2>1, <2>2, <2>3 DEF RingInv, AtWorker
<1> QED
  BY <1>1, <1>10, <1>11, <1>12, <1>13
     DEF IInv, PoolInv, LoopInv, SlotInv, FreeInv, PeerInv, InUse

\* pool_add_completion has written to the eventfd.
LEMMA WorkerSignalsKeeps ==
    ASSUME IInv, NEW w \in Workers, WorkerSignals(w)
    PROVE  IInv'
<1>1. /\ UNCHANGED <<loopVars, connVars, sqVars>>
      /\ UNCHANGED <<usePool, phase, shutdown, loop, peer, slot, free, active, queued, ops,
                     acceptOp, eventOp, work, ring, ringHead, ringTail>>
      /\ signalled' = TRUE /\ worker[w].at = "signal" /\ Idle.at = "idle"
  BY DEF WorkerSignals, loopVars, connVars, sqVars, Idle
<1>2. /\ worker' \in [Workers -> WorkerType]
      /\ \A v \in Workers : worker'[v] = IF v = w THEN Idle ELSE worker[v]
  BY DEF WorkerSignals, IInv, PoolInv, WorkerInv, WorkerType
<1>3. \A t \in Slots : /\ InWork(t)' <=> InWork(t)
                       /\ AtWorker(t)' <=> AtWorker(t)
                       /\ OnRing(t)' <=> OnRing(t)
                       /\ Live(t)' <=> Live(t)
                       /\ Pooled(t)' <=> Pooled(t)
  BY <1>1, <1>2 DEF InWork, AtWorker, OnRing, Live, Pooled
<1>4. OpInv'
  <2>1. AllOps' = AllOps /\ \A o \in AllOps : o.slot \in Slots /\ (Mine(o)' <=> Mine(o))
    BY <1>1 DEF AllOps, Mine, IInv, OpInv, OpType
  <2>2. ASSUME NEW o \in AllOps', Mine(o)'
        PROVE  /\ OpFits(o, slot'[o.slot]) /\ ~Pooled(o.slot)'
               /\ \A p \in AllOps' : p.slot = o.slot /\ Mine(p)' => p = o
    BY <1>1, <1>3, <2>1, <2>2 DEF IInv, OpInv
  <2>3. loop' # "overrun" => \A o \in AllOps' : Mine(o)'
    BY <1>1, <2>1 DEF IInv, OpInv
  <2> QED
    BY <1>1, <2>2, <2>3 DEF IInv, OpInv
<1>5. DrivenInv'
  BY <1>1, <1>3 DEF IInv, DrivenInv, HasOp, AllOps, Mine
<1>6. WorkInv'
  BY <1>1 DEF IInv, PoolInv, WorkInv
<1>7. WorkerInv'
  <2>1. ASSUME NEW v \in Workers, NEW t \in Slots, worker'[v].slot = t
        PROVE  /\ worker'[v].at = "call" => slot'[t].state = "LLM_QUEUED" /\ ~InWork(t)'
               /\ worker'[v].at = "add" => slot'[t].state \in Streamable
    BY <1>1, <1>2, <1>3, <2>1 DEF IInv, PoolInv, WorkerInv
  <2>2. ASSUME NEW v \in Workers, NEW u \in Workers,
               worker'[v].at \in {"call", "add"}, worker'[u].at \in {"call", "add"},
               worker'[v].slot = worker'[u].slot
        PROVE  v = u
    BY <1>1, <1>2, <2>2 DEF IInv, PoolInv, WorkerInv
  <2>3. \A v \in Workers : worker'[v].at \in {"call", "add"} => worker'[v].slot \in Slots
    BY <1>2 DEF WorkerType, Idle
  <2> QED
    BY <1>2, <2>1, <2>2, <2>3 DEF WorkerInv, InWork
<1>8. RingInv'
  BY <1>1, <1>3 DEF IInv, PoolInv, RingInv
<1> QED
  BY <1>1, <1>4, <1>5, <1>6, <1>7, <1>8
     DEF IInv, PoolInv, LoopInv, SlotInv, FreeInv, PeerInv, InUse

\* handle_recv_fd with the pool: the connection has its place in the queue, and
\* no operation any more.
LEMMA RecvSubmitKeeps ==
    ASSUME IInv, NEW o \in ops, RecvSubmit(o)
    PROVE  IInv'
<1>1. /\ Handling /\ UNCHANGED loopVars
      /\ UNCHANGED <<usePool, phase, shutdown, loop, peer, free, active, queued, acceptOp,
                     eventOp, worker, ring, ringHead, ringTail, signalled>>
      /\ ops' = ops \ {o} /\ work' = Append(work, o.slot)
  BY DEF RecvSubmit, Receiving, loopVars
<1>2. PICK s \in Slots : s = o.slot
  BY <1>1, Owns
<1>3. /\ phase \in {"run", "drain"} /\ loop = "wait" /\ slot[s].state = "RECEIVING_FD"
      /\ ~Pooled(s) /\ ~InWork(s) /\ ~AtWorker(s) /\ ~OnRing(s)
      /\ \A p \in queued \cup (ops \ {o}) : p.slot # s
  BY <1>1, <1>2, Owns DEF RecvSubmit, Receiving, Pooled
<1>4. PICK conn \in ConnType : /\ conn = [slot[s] EXCEPT !.state = "LLM_QUEUED"]
                               /\ conn.state = "LLM_QUEUED" /\ conn.client = slot[s].client
                               /\ conn.part = slot[s].part
                               /\ conn.bytes_sent = slot[s].bytes_sent
  <2> DEFINE x == [slot[s] EXCEPT !.state = "LLM_QUEUED"]
  <2>1. slot[s] \in ConnType
    BY DEF IInv, SlotInv
  <2>2. /\ x \in ConnType /\ x.state = "LLM_QUEUED" /\ x.client = slot[s].client
        /\ x.part = slot[s].part /\ x.bytes_sent = slot[s].bytes_sent
    BY <2>1 DEF ConnType, ConnStates
  <2> HIDE DEF x
  <2> QED
    BY <2>2 DEF x
<1>5. slot' = [slot EXCEPT ![s] = conn]
  BY <1>2, <1>4 DEF RecvSubmit
<1>6. \A t \in Slots : slot'[t] = IF t = s THEN conn ELSE slot[t]
  BY <1>5 DEF IInv, SlotInv
<1>7. SlotInv' /\ FreeInv' /\ PeerInv'
  <2>1. conn.part = conn.bytes_sent
    BY <1>4 DEF IInv, SlotInv
  <2> QED
    BY <1>1, <1>3, <1>4, <1>5, <2>1, ChangeSlots DEF IInv
<1>8. /\ work \in Seq(Slots) /\ work' \in Seq(Slots) /\ Len(work') = Len(work) + 1
      /\ Len(work) \in Nat /\ work'[Len(work) + 1] = s
      /\ \A i \in DOMAIN work : i \in DOMAIN work' /\ work'[i] = work[i]
      /\ \A i \in DOMAIN work' : i = Len(work) + 1 \/ i \in DOMAIN work
  BY <1>1, <1>2 DEF IInv, PoolInv, WorkInv
<1>9. \A t \in Slots : /\ InWork(t)' <=> InWork(t) \/ t = s
                       /\ AtWorker(t)' <=> AtWorker(t)
                       /\ OnRing(t)' <=> OnRing(t)
                       /\ Live(t)' <=> Live(t)
  <2>1. \A t \in Slots : InWork(t)' <=> (InWork(t) \/ t = s)
    BY <1>8 DEF InWork
  <2> QED
    BY <1>1, <2>1 DEF AtWorker, OnRing, Live
<1>10. Pooled(s)' /\ \A t \in Slots : t # s => (Pooled(t)' <=> Pooled(t))
  BY <1>9 DEF Pooled
<1>11. AllOps' = AllOps \ {o} /\ queued' \cap ops' = {} /\ \A p \in AllOps' : p.slot # s
  BY <1>1, <1>3 DEF IInv, OpInv, AllOps
<1>12. OpInv'
  <2> DEFINE used == {}
  <2>1. /\ \A p \in used : p \in OpType /\ (Mine(p)' => OpFits(p, slot'[s]) /\ ~Pooled(s)')
        /\ \A p, q \in used : p.slot = s /\ p = q
    OBVIOUS
  <2> HIDE DEF used
  <2> QED
    BY <1>1, <1>3, <1>6, <1>10, <1>11, <2>1, StepOps DEF IInv
<1>13. DrivenInv'
  BY <1>1, <1>2, <1>6, <1>10, <1>11, StepDriven DEF IInv
<1>14. WorkInv'
  <2>1. \A i \in DOMAIN work : work[i] \in Slots /\ work[i] # s
    BY <1>3, <1>8 DEF InWork
  <2>2. \A i \in DOMAIN work' : slot'[work'[i]].state = "LLM_QUEUED"
    <3>1. \A i \in DOMAIN work : slot'[work'[i]].state = "LLM_QUEUED"
      BY <1>6, <1>8, <2>1 DEF IInv, PoolInv, WorkInv
    <3> QED
      BY <1>4, <1>6, <1>8, <3>1
  <2>3. ASSUME NEW i \in DOMAIN work', NEW j \in DOMAIN work', work'[i] = work'[j]
        PROVE  i = j
    BY <1>8, <2>1, <2>3 DEF IInv, PoolInv, WorkInv
  <2> QED
    BY <1>8, <2>2, <2>3 DEF WorkInv
<1>15. WorkerInv'
  <2>1. ASSUME NEW v \in Workers, NEW t \in Slots, worker[v].slot = t
        PROVE  /\ worker[v].at = "call" => slot'[t].state = "LLM_QUEUED" /\ ~InWork(t)'
               /\ worker[v].at = "add" => slot'[t].state \in Streamable
    <3>1. worker[v].at \in {"call", "add"} => t # s
      BY <1>3, <2>1 DEF AtWorker
    <3> QED
      BY <1>6, <1>9, <2>1, <3>1 DEF IInv, PoolInv, WorkerInv
  <2>2. \A v \in Workers : worker[v].at \in {"call", "add"} => worker[v].slot \in Slots
    BY DEF IInv, PoolInv, WorkerInv, WorkerType, Idle
  <2> QED
    BY <1>1, <2>1, <2>2 DEF IInv, PoolInv, WorkerInv, InWork
<1>16. RingInv'
  <2>1. \A j \in Slots : Live(j) => ring[j] \in Slots /\ ring[j] # s
    BY <1>3 DEF IInv, PoolInv, RingInv, OnRing
  <2> QED
    BY <1>1, <1>6, <1>9, <2>1 DEF IInv, PoolInv, RingInv, RingEmpty
<1>17. LoopInv'
  BY <1>1 DEF IInv, LoopInv
<1> QED
  BY <1>7, <1>12, <1>13, <1>14, <1>15, <1>16, <1>17 DEF IInv, PoolInv

\* handle_eventfd begins: from here the loop reads the ring to its end.
LEMMA EventfdBeginKeeps ==
    ASSUME IInv, EventfdBegin
    PROVE  IInv'
<1>1. /\ UNCHANGED connVars
      /\ UNCHANGED <<usePool, phase, shutdown, peer, slot, free, active, queued, ops,
                     acceptOp, work, worker, ring, ringHead, ringTail>>
      /\ Handling /\ signalled' = FALSE /\ eventOp' = "none" /\ loop' = "eventfd"
  BY DEF EventfdBegin, connVars
<1>2. \A t \in Slots : /\ InWork(t)' <=> InWork(t)
                       /\ AtWorker(t)' <=> AtWorker(t)
                       /\ OnRing(t)' <=> OnRing(t)
                       /\ Live(t)' <=> Live(t)
                       /\ Pooled(t)' <=> Pooled(t)
  BY <1>1 DEF InWork, AtWorker, OnRing, Live, Pooled
<1>3. OpInv'
  <2>1. AllOps' = AllOps /\ \A o \in AllOps : o.slot \in Slots /\ (Mine(o)' <=> Mine(o))
    BY <1>1 DEF AllOps, Mine, IInv, OpInv, OpType
  <2>2. ASSUME NEW o \in AllOps', Mine(o)'
        PROVE  /\ OpFits(o, slot'[o.slot]) /\ ~Pooled(o.slot)'
               /\ \A p \in AllOps' : p.slot = o.slot /\ Mine(p)' => p = o
    BY <1>1, <1>2, <2>1, <2>2 DEF IInv, OpInv
  <2>3. \A o \in AllOps' : Mine(o)'
    BY <1>1, <2>1 DEF IInv, OpInv, Handling
  <2> QED
    BY <1>1, <2>2, <2>3 DEF IInv, OpInv
<1>4. DrivenInv'
  BY <1>1, <1>2 DEF IInv, DrivenInv, HasOp, AllOps, Mine
<1>5. WorkInv'
  BY <1>1 DEF IInv, PoolInv, WorkInv
<1>6. WorkerInv'
  BY <1>1 DEF IInv, PoolInv, WorkerInv, InWork
<1>7. RingInv'
  BY <1>1, <1>2 DEF IInv, PoolInv, RingInv
<1>8. LoopInv'
  BY <1>1 DEF IInv, LoopInv, Handling
<1> QED
  BY <1>1, <1>3, <1>4, <1>5, <1>6, <1>7, <1>8
     DEF IInv, PoolInv, SlotInv, FreeInv, PeerInv, InUse

\* handle_eventfd with an entry: the connection's write takes over from the pool, or
\* the connection ends.
LEMMA EventfdNextKeeps ==
    ASSUME IInv, EventfdNext
    PROVE  IInv'
<1>1. /\ loop = "eventfd" /\ ~RingEmpty /\ phase \in {"run", "drain"}
      /\ ringHead' = RingSucc(ringHead)
      /\ UNCHANGED <<usePool, phase, shutdown, work, worker, ring, ringTail, signalled>>
  BY DEF EventfdNext, IInv, LoopInv
<1>2. PICK s \in Slots : s = ring[ringHead]
  <2>1. ringHead \in Slots /\ ringTail \in Slots /\ ringHead # ringTail
    BY <1>1 DEF RingEmpty, IInv, PoolInv, RingInv
  <2>2. Live(ringHead)
    BY <2>1, ConstantsAssumption DEF Live, Slots
  <2> QED
    BY <2>1, <2>2 DEF IInv, PoolInv, RingInv
<1>3. \/ slot[s].state = "STREAMING" /\ StartStreaming(s, ops)
      \/ Cleanup(s, "gone") /\ UNCHANGED <<sqVars, loop>>
  BY <1>2 DEF EventfdNext
<1>4. /\ \E conn : slot' = [slot EXCEPT ![s] = conn]
      /\ loop' \in {"eventfd", "overrun"}
  BY <1>1, <1>3, SubmitWriteSlot DEF StartStreaming, Cleanup
<1>5. /\ PoolInv' /\ slot[s].state \in Streamable /\ Pooled(s) /\ ~Pooled(s)'
      /\ \A t \in Slots : t # s => (Pooled(t)' <=> Pooled(t))
  BY <1>1, <1>2, <1>4, RingRead DEF IInv
<1>6. \A o \in AllOps : o.slot # s
  BY <1>1, <1>5 DEF IInv, OpInv
<1>7. CASE StartStreaming(s, ops)
  <2>1. 0 \in Parts /\ 0 # Done
    BY ConstantsAssumption DEF Parts, Done
  <2>2. PICK rest \in SUBSET ops : rest = ops
    OBVIOUS
  <2>3. SubmitWrite(s, "STREAMING", 0, FALSE, 0, rest)
    BY <1>7, <2>2 DEF StartStreaming
  <2>4. /\ \A o \in ops : o.slot # s => o \in rest
        /\ \A o \in queued \cup rest : o.slot # s
    BY <1>6, <2>2 DEF AllOps
  <2>5. signalled' \in BOOLEAN /\ slot[s].state # "UNUSED" /\ loop # "overrun"
    BY <1>1, <1>5 DEF IInv, LoopInv, Streamable
  <2>6. LoopInv' /\ SlotInv' /\ FreeInv' /\ PeerInv' /\ OpInv' /\ DrivenInv'
    BY <1>1, <1>5, <2>1, <2>3, <2>4, <2>5, SubmitWriteKeeps DEF IInv
  <2> QED
    BY <1>5, <2>6 DEF IInv
<1>8. CASE Cleanup(s, "gone") /\ UNCHANGED <<sqVars, loop>>
  <2>1. UNCHANGED <<loop, queued, ops, acceptOp, eventOp>>
    BY <1>8 DEF sqVars
  <2>2. slot' = [slot EXCEPT ![s] = Unused] /\ slot[s].state # "UNUSED"
    BY <1>5, <1>8 DEF Cleanup, Streamable
  <2>3. SlotInv' /\ FreeInv' /\ PeerInv'
    BY <1>1, <1>8, <2>2, CleanupSlots DEF IInv
  <2>4. slot'[s] = Unused /\ \A t \in Slots : t # s => slot'[t] = slot[t]
    BY <2>2 DEF IInv, SlotInv
  <2>5. AllOps' = AllOps /\ queued' \cap ops' = {}
    BY <2>1 DEF IInv, OpInv, AllOps
  <2>6. OpInv'
    <3> DEFINE used == {}
    <3>1. /\ \A p \in used : p \in OpType /\ (Mine(p)' => OpFits(p, slot'[s]) /\ ~Pooled(s)')
          /\ \A p, q \in used : p.slot = s /\ p = q
      OBVIOUS
    <3> HIDE DEF used
    <3> QED
      BY <1>1, <1>5, <1>6, <2>1, <2>4, <2>5, <3>1, StepOps DEF IInv
  <2>7. DrivenInv'
    BY <1>1, <1>5, <2>4, <2>5, UnusedIs, StepDriven DEF IInv
  <2>8. LoopInv'
    BY <1>1, <2>1 DEF IInv, LoopInv
  <2> QED
    BY <1>5, <2>3, <2>6, <2>7, <2>8 DEF IInv
<1> QED
  BY <1>3, <1>7, <1>8

\* daemon_cleanup: with the threads joined nothing is left to do for any connection.
LEMMA StopKeeps ==
    ASSUME IInv, Stop
    PROVE  IInv'
<1>1. /\ phase' = "stopped" /\ queued' = {} /\ ops' = {} /\ loop = "wait"
      /\ acceptOp' = "none" /\ eventOp' = "none" /\ AllOps' = {}
      /\ peer' = [c \in Clients |-> IF peer[c] = "slot" THEN "cut" ELSE peer[c]]
      /\ UNCHANGED <<usePool, shutdown, loop, slot, free, active>>
      /\ UNCHANGED <<work, worker, ring, ringHead, ringTail, signalled>>
  BY DEF Stop, poolVars, AllOps, IInv, LoopInv
<1>2. LoopInv' /\ OpInv' /\ DrivenInv'
  BY <1>1 DEF IInv, LoopInv, OpInv, DrivenInv
<1>3. SlotInv' /\ FreeInv'
  BY <1>1 DEF IInv, SlotInv, FreeInv, InUse
<1>4. PeerInv'
  BY <1>1 DEF IInv, PeerInv
<1>5. PoolInv'
  <2>1. WorkInv'
    BY <1>1 DEF IInv, PoolInv, WorkInv
  <2>2. WorkerInv'
    BY <1>1 DEF IInv, PoolInv, WorkerInv, InWork
  <2>3. RingInv'
    BY <1>1 DEF IInv, PoolInv, RingInv, AtWorker, Live, RingEmpty
  <2> QED
    BY <2>1, <2>2, <2>3 DEF PoolInv
<1> QED
  BY <1>2, <1>3, <1>4, <1>5 DEF IInv

-----------------------------------------------------------------------------
(* The invariant.                                                          *)

\* The invariant holds when the loop starts: every slot is on the free list.
LEMMA InitInv == Init => IInv
<1> SUFFICES ASSUME Init PROVE IInv
  OBVIOUS
<1>1. /\ \A s \in Slots : slot[s] = Unused
      /\ slot \in [Slots -> ConnType]
  BY UnusedIs DEF Init
<1>2. LoopInv
  BY DEF Init, LoopInv
<1>3. SlotInv
  BY <1>1, UnusedIs DEF SlotInv
<1>4. FreeInv
  <2>1. free = [i \in 1..MaxConnections |-> i - 1] /\ active = 0
    BY DEF Init
  <2>2. \A i \in 1..MaxConnections : i - 1 \in Slots
    BY ConstantsAssumption DEF Slots
  <2>3. /\ free \in Seq(Slots) /\ Len(free) = MaxConnections
        /\ DOMAIN free = 1..MaxConnections /\ \A i \in DOMAIN free : free[i] = i - 1
    BY <2>1, <2>2, ConstantsAssumption
  <2>4. ASSUME NEW s \in Slots PROVE \E i \in DOMAIN free : free[i] = s
    <3>1. s + 1 \in 1..MaxConnections /\ (s + 1) - 1 = s
      BY ConstantsAssumption DEF Slots
    <3> QED
      BY <2>3, <3>1
  <2>5. InUse = {}
    BY <1>1, UnusedIs DEF InUse
  <2>6. active = Cardinality(InUse)
    BY <2>1, <2>5, FS_EmptySet
  <2>7. \A i, j \in DOMAIN free : free[i] = free[j] => i = j
    BY <2>3, ConstantsAssumption
  <2>8. \A i \in DOMAIN free : slot[free[i]].state = "UNUSED"
    BY <1>1, <2>2, <2>3, UnusedIs
  <2>9. Len(free) + active = MaxConnections
    BY <2>1, <2>3, ConstantsAssumption
  <2> QED
    BY <2>3, <2>4, <2>6, <2>7, <2>8, <2>9 DEF FreeInv
<1>5. PeerInv
  BY <1>1, UnusedIs, ConstantsAssumption DEF Init, PeerInv
<1>6. OpInv /\ DrivenInv
  BY <1>1, UnusedIs DEF Init, OpInv, AllOps, DrivenInv
<1>7. WorkInv
  BY DEF Init, WorkInv
<1>8. WorkerInv
  <2>1. Idle.at = "idle" /\ \A w \in Workers : worker[w] = Idle
    BY DEF Init, Idle
  <2>2. worker \in [Workers -> WorkerType]
    BY DEF Init, WorkerType
  <2> QED
    BY <2>1, <2>2 DEF WorkerInv
<1>9. RingInv
  <2>1. ringHead = 0 /\ ringTail = 0 /\ 0 \in Slots /\ RingEmpty
    BY ConstantsAssumption DEF Init, Slots, RingEmpty
  <2>2. \A j \in Slots : ~Live(j)
    BY <2>1, ConstantsAssumption DEF Live, Slots
  <2> QED
    BY <2>1, <2>2 DEF Init, RingInv
<1> QED
  BY <1>2, <1>3, <1>4, <1>5, <1>6, <1>7, <1>8, <1>9 DEF IInv, PoolInv

\* Every step of the loop, of a thread, and of the signal handler keeps the invariant.
LEMMA NextInv == IInv /\ [Next]_vars => IInv'
<1> SUFFICES ASSUME IInv, [Next]_vars PROVE IInv'
  OBVIOUS
<1>1. ASSUME NEW c \in Clients, NEW more \in BOOLEAN, AcceptRefused(c, more) \/ Accept(c, more)
      PROVE  IInv'
  BY <1>1, AcceptRefusedKeeps, AcceptKeeps
<1>2. ASSUME NEW o \in ops, RecvFails(o) \/ WriteFails(o) \/ WriteDone(o)
      PROVE  IInv'
  <2>1. PICK how \in {"gone", "completed"} :
           /\ Handling /\ ops' = ops \ {o} /\ Cleanup(o.slot, how)
           /\ UNCHANGED <<loopVars, queued, acceptOp, eventOp, poolVars>>
    BY <1>2 DEF RecvFails, WriteFails, WriteDone, Receiving, Writing
  <2> QED
    BY <2>1, EndKeeps
<1>3. ASSUME NEW o \in ops, RecvStream(o) \/ RecvSubmit(o) \/ WriteShort(o) \/ WriteNext(o)
      PROVE  IInv'
  BY <1>3, StreamKeeps, RecvSubmitKeeps
<1>4. CASE AcceptFails \/ Submit \/ EventfdEnd \/ BeginDrain \/ DrainDone \/ DrainTimeout
           \/ Signal
  BY <1>4, WaitKeeps
<1>5. CASE EventfdBegin \/ EventfdNext \/ Stop
  BY <1>5, EventfdBeginKeeps, EventfdNextKeeps, StopKeeps
<1>6. ASSUME NEW w \in Workers, WorkerStep(w) PROVE IInv'
  <2>1. CASE WorkerTakes(w) \/ WorkerAdds(w) \/ WorkerSignals(w)
    BY <2>1, WorkerTakesKeeps, WorkerAddsKeeps, WorkerSignalsKeeps
  <2>2. ASSUME NEW state \in Streamable, WorkerReturns(w, state) PROVE IInv'
    BY <2>2, WorkerReturnsKeeps
  <2> QED
    BY <1>6, <2>1, <2>2 DEF WorkerStep, Streamable
<1>7. CASE UNCHANGED vars
  <2>1. /\ UNCHANGED <<slot, free, active, peer, poolVars, queued, ops, acceptOp, eventOp>>
        /\ UNCHANGED <<usePool, phase, shutdown, loop, signalled>>
    BY <1>7 DEF vars, loopVars, connVars, sqVars, poolVars
  <2>2. LoopInv' /\ PeerInv' /\ AllOps' = AllOps /\ queued' \cap ops' = {}
    BY <2>1 DEF IInv, LoopInv, PeerInv, AllOps, OpInv
  <2> QED
    BY <2>1, <2>2, QuietKeeps
<1> QED
  BY <1>1, <1>2, <1>3, <1>4, <1>5, <1>6, <1>7 DEF Next, LoopStep

\* Every reachable state satisfies the inductive invariant.
THEOREM SpecInv == Spec => []IInv
<1> QED
  BY InitInv, NextInv, PTL DEF Spec

-----------------------------------------------------------------------------
(* The properties.                                                         *)

\* No slot is freed twice or lost, the counter agrees with the free list, and every
\* connection that was taken in has one slot (conn_alloc, conn_free), for any number
\* of slots and whatever completions arrive late.
THEOREM SpecSlotsConserved == Spec => []SlotsConserved
<1>1. ASSUME IInv PROVE SlotsConserved
  <2> USE <1>1 DEF IInv
  <2>1. TypeOK
    <3>1. active \in Nat /\ Len(free) \in Nat
      <4>1. IsFiniteSet(InUse)
        BY SlotsFinite, FS_Subset DEF InUse
      <4> QED
        BY <4>1, FS_CardinalityType DEF FreeInv
    <3>2. active \in 0..MaxConnections
      BY <3>1, ConstantsAssumption DEF FreeInv
    <3> QED
      BY <3>2 DEF TypeOK, LoopInv, SlotInv, FreeInv, PeerInv, OpInv, PoolInv, WorkInv,
                  WorkerInv, RingInv, ConnType
  <2>2. \A s \in Slots : (slot[s] = Unused) <=> (slot[s].state = "UNUSED")
    BY UnusedIs DEF SlotInv
  <2>3. {free[i] : i \in DOMAIN free} = {s \in Slots : slot[s] = Unused}
    <3>1. \A i \in DOMAIN free : free[i] \in Slots
      BY DEF FreeInv
    <3> QED
      BY <2>2, <3>1 DEF FreeInv
  <2> QED
    BY <2>1, <2>3 DEF SlotsConserved, FreeInv, PeerInv, SlotInv
<1> QED
  BY <1>1, SpecInv, PTL

\* process_cqe is right to go by the slot's state alone: no completion reaches a
\* connection that it is not of, unless the loop has overrun the submission queue.
THEOREM SpecOwnCompletion == Spec => []OwnCompletion
<1>1. ASSUME IInv PROVE OwnCompletion
  <2> SUFFICES ASSUME loop # "overrun", NEW o \in queued \cup ops
               PROVE  /\ slot[o.slot].client = o.client
                      /\ slot[o.slot].state \in (IF o.op = "recv" THEN {"RECEIVING_FD"}
                                                    ELSE {"STREAMING", "CLOSING"})
                      /\ \A p \in queued \cup ops : p.slot = o.slot => p = o
    BY DEF OwnCompletion
  <2> QED
    BY <1>1 DEF IInv, OpInv, AllOps, OpFits, Mine
<1> QED
  BY <1>1, SpecInv, PTL

\* No connection is forgotten and none is worked on from two places, whatever the
\* threads and the kernel do in between.
THEOREM SpecOneDriver == Spec => []OneDriver
<1>1. ASSUME IInv PROVE OneDriver
  <2> SUFFICES ASSUME phase \in {"run", "drain"}, NEW s \in Slots, slot[s] # Unused
               PROVE  Cardinality(Drivers(s)) = 1
    BY DEF OneDriver
  <2> DEFINE Ops == {<<"op", o>> : o \in {p \in queued \cup ops : p.slot = s /\ p.client = slot[s].client}}
             Queue == {<<"work", i>> : i \in {j \in 1..Len(work) : work[j] = s}}
             Threads == {<<"worker", w>> : w \in {v \in Workers : worker[v].slot = s
                                                                  /\ worker[v].at # "signal"}}
             Ring == {<<"ring", t>> : t \in InRing \cap {s}}
  <2>1. Drivers(s) = Ops \cup Queue \cup Threads \cup Ring
    BY DEF Drivers
  <2>2. HasOp(s) \/ InWork(s) \/ AtWorker(s) \/ OnRing(s)
    BY <1>1 DEF IInv, DrivenInv, SlotInv, Pooled
  <2>3. ~HasOp(s) => Ops = {}
    BY DEF HasOp, AllOps, Mine
  <2>4. ~InWork(s) => Queue = {}
    BY <1>1 DEF InWork, IInv, PoolInv, WorkInv
  <2>5. \A v \in Workers : worker[v].slot = s /\ worker[v].at # "signal"
                              => worker[v].at \in {"call", "add"}
    BY <1>1, ConstantsAssumption DEF IInv, PoolInv, WorkerInv, WorkerType, Idle
  <2>6. ~AtWorker(s) => Threads = {}
    BY <2>5 DEF AtWorker
  <2>7. ~OnRing(s) => Ring = {}
    BY DEF OnRing, InRing, Live
  <2>8. CASE HasOp(s)
    <3>1. PICK o \in AllOps : o.slot = s /\ Mine(o)
      BY <2>8 DEF HasOp
    <3>2. Ops = {<<"op", o>>}
      BY <1>1, <3>1 DEF IInv, OpInv, AllOps, Mine
    <3>3. Drivers(s) = {<<"op", o>>}
      BY <1>1, <2>1, <2>4, <2>6, <2>7, <3>1, <3>2 DEF IInv, OpInv, Pooled
    <3> QED
      BY <3>3, FS_Singleton
  <2>9. Pooled(s) => Ops = {}
    BY <1>1, <2>3, PooledIs DEF HasOp
  <2>10. CASE InWork(s)
    <3>1. PICK i \in DOMAIN work : work[i] = s
      BY <2>10 DEF InWork
    <3>2. Queue = {<<"work", i>>}
      BY <1>1, <3>1 DEF IInv, PoolInv, WorkInv
    <3>3. ~AtWorker(s) /\ ~OnRing(s)
      BY <1>1, <2>10, <3>1 DEF IInv, PoolInv, WorkInv, WorkerInv, RingInv, AtWorker, OnRing,
                              Streamable
    <3>4. Drivers(s) = {<<"work", i>>}
      BY <2>1, <2>6, <2>7, <2>9, <2>10, <3>2, <3>3 DEF Pooled
    <3> QED
      BY <3>4, FS_Singleton
  <2>11. CASE AtWorker(s)
    <3>1. PICK w \in Workers : worker[w].at \in {"call", "add"} /\ worker[w].slot = s
      BY <2>11 DEF AtWorker
    <3>2. Threads = {<<"worker", w>>}
      BY <1>1, <2>5, <3>1 DEF IInv, PoolInv, WorkerInv
    <3>3. ~InWork(s) /\ ~OnRing(s)
      BY <1>1, <2>11, <3>1 DEF IInv, PoolInv, WorkInv, WorkerInv, RingInv, InWork, OnRing,
                              Streamable
    <3>4. Drivers(s) = {<<"worker", w>>}
      BY <2>1, <2>4, <2>7, <2>9, <2>11, <3>2, <3>3 DEF Pooled
    <3> QED
      BY <3>4, FS_Singleton
  <2>12. CASE OnRing(s)
    <3>1. Ring = {<<"ring", s>>}
      BY <2>12 DEF OnRing, InRing, Live
    <3>2. ~InWork(s) /\ ~AtWorker(s)
      BY <1>1, <2>12 DEF IInv, PoolInv, WorkInv, RingInv, InWork, OnRing, Streamable
    <3>3. Drivers(s) = {<<"ring", s>>}
      BY <2>1, <2>4, <2>6, <2>9, <2>12, <3>1, <3>2 DEF Pooled
    <3> QED
      BY <3>3, FS_Singleton
  <2> QED
    BY <2>2, <2>8, <2>10, <2>11, <2>12
<1> QED
  BY <1>1, SpecInv, PTL

\* The write in flight is always of the part after those that are out, and [DONE] is
\* the one part after which nothing follows, for responses of any length.
THEOREM SpecResponseInOrder == Spec => []ResponseInOrder
<1>1. ASSUME IInv PROVE ResponseInOrder
  <2> SUFFICES ASSUME NEW o \in queued \cup ops, o.op = "write",
                      slot[o.slot].client = o.client
               PROVE  /\ o.part = slot[o.slot].bytes_sent
                      /\ (o.part = Done) <=> (slot[o.slot].state = "CLOSING")
    BY DEF ResponseInOrder
  <2>1. o.slot \in Slots /\ OpFits(o, slot[o.slot])
    BY <1>1 DEF IInv, OpInv, AllOps, Mine, OpType
  <2> QED
    BY <1>1, <2>1 DEF IInv, SlotInv, OpFits
<1> QED
  BY <1>1, SpecInv, PTL

\* No completion waits on the ring unannounced, and until a shutdown the loop listens.
THEOREM SpecCompletionsAnnounced == Spec => []CompletionsAnnounced
<1>1. ASSUME IInv PROVE CompletionsAnnounced
  BY <1>1 DEF IInv, PoolInv, RingInv, LoopInv, CompletionsAnnounced
<1> QED
  BY <1>1, SpecInv, PTL

-----------------------------------------------------------------------------
(* The completion ring is a bounded queue.                                 *)

\* How many completions a ring r from head h to tail t holds, and these in their order.
RingLen(h, t) == (t - h + MaxConnections) % MaxConnections
RingSeq(r, h, t) == [i \in 1..RingLen(h, t) |-> r[(h + i - 1) % MaxConnections]]
Wrapped(x) == IF x < MaxConnections THEN x ELSE x - MaxConnections

\* An index that has gone round at most once.
LEMMA Wraps ==
    ASSUME NEW x \in 0..(2 * MaxConnections - 1)
    PROVE  x % MaxConnections = Wrapped(x)
<1>1. CASE x < MaxConnections
  BY <1>1, ConstantsAssumption DEF Wrapped
<1>2. CASE x >= MaxConnections
  BY <1>2, ConstantsAssumption DEF Wrapped
<1> QED
  BY <1>1, <1>2, ConstantsAssumption

\* The length is the way from head to tail.
LEMMA RingLenIs ==
    ASSUME NEW h \in Slots, NEW t \in Slots
    PROVE  /\ RingLen(h, t) = IF h <= t THEN t - h ELSE t - h + MaxConnections
           /\ RingLen(h, t) \in Nat /\ RingLen(h, t) < MaxConnections
<1>1. PICK x \in 0..(2 * MaxConnections - 1) : x = t - h + MaxConnections
  BY ConstantsAssumption DEF Slots
<1>2. RingLen(h, t) = Wrapped(x)
  BY <1>1, Wraps DEF RingLen
<1> QED
  BY <1>1, <1>2, ConstantsAssumption DEF Slots, Wrapped

\* Each place of the sequence is one index of the ring.
LEMMA RingSeqIs ==
    ASSUME NEW r \in [Slots -> Slots \cup {None}], NEW h \in Slots, NEW t \in Slots
    PROVE  /\ RingSeq(r, h, t) \in Seq(Slots \cup {None})
           /\ Len(RingSeq(r, h, t)) = RingLen(h, t)
           /\ \A i \in 1..RingLen(h, t) : RingSeq(r, h, t)[i] = r[Wrapped(h + i - 1)]
<1>1. RingLen(h, t) \in Nat /\ RingLen(h, t) < MaxConnections
  BY RingLenIs
<1>2. ASSUME NEW i \in 1..RingLen(h, t)
      PROVE  /\ (h + i - 1) % MaxConnections = Wrapped(h + i - 1)
             /\ (h + i - 1) % MaxConnections \in Slots
  <2>1. PICK y \in 0..(2 * MaxConnections - 1) : y = h + i - 1
    BY <1>1, ConstantsAssumption DEF Slots
  <2>2. y % MaxConnections = Wrapped(y)
    BY Wraps
  <2>3. Wrapped(y) \in Slots
    BY ConstantsAssumption DEF Slots, Wrapped
  <2> QED
    BY <2>1, <2>2, <2>3
<1>3. \A i \in 1..RingLen(h, t) : r[(h + i - 1) % MaxConnections] \in Slots \cup {None}
  BY <1>2
<1>4. /\ RingSeq(r, h, t) \in Seq(Slots \cup {None})
      /\ Len(RingSeq(r, h, t)) = RingLen(h, t)
  BY <1>1, <1>3 DEF RingSeq
<1> QED
  BY <1>2, <1>4 DEF RingSeq

\* What is stored at the tail of a ring with room comes last in the sequence.
LEMMA AddAppends ==
    ASSUME NEW r \in [Slots -> Slots \cup {None}], NEW h \in Slots, NEW t \in Slots,
           NEW s \in Slots, RingSucc(t) # h
    PROVE  /\ RingLen(h, t) < MaxConnections - 1
           /\ RingSeq([r EXCEPT ![t] = s], h, RingSucc(t)) = Append(RingSeq(r, h, t), s)
<1>1. PICK u \in Slots : u = RingSucc(t) /\ u = IF t + 1 = MaxConnections THEN 0 ELSE t + 1
  BY RingSuccIs
<1>2. PICK p \in [Slots -> Slots \cup {None}] : p = [r EXCEPT ![t] = s]
  OBVIOUS
<1>3. PICK n \in Nat : n = RingLen(h, t) /\ n = IF h <= t THEN t - h ELSE t - h + MaxConnections
  BY RingLenIs
<1>4. n < MaxConnections - 1 /\ RingLen(h, u) = n + 1
  <2>1. RingLen(h, u) = IF h <= u THEN u - h ELSE u - h + MaxConnections
    BY RingLenIs
  <2> QED
    BY <1>1, <1>3, <2>1, ConstantsAssumption DEF Slots
<1>5. /\ RingSeq(r, h, t) \in Seq(Slots \cup {None}) /\ Len(RingSeq(r, h, t)) = n
      /\ \A i \in 1..n : RingSeq(r, h, t)[i] = r[Wrapped(h + i - 1)]
  <2>1. RingLen(h, t) = n
    BY <1>3
  <2>2. Len(RingSeq(r, h, t)) = RingLen(h, t) /\ RingSeq(r, h, t) \in Seq(Slots \cup {None})
    BY RingSeqIs
  <2>3. \A i \in 1..RingLen(h, t) : RingSeq(r, h, t)[i] = r[Wrapped(h + i - 1)]
    BY RingSeqIs
  <2> QED
    BY <2>1, <2>2, <2>3
<1>6. /\ RingSeq(p, h, u) \in Seq(Slots \cup {None}) /\ Len(RingSeq(p, h, u)) = n + 1
      /\ \A i \in 1..(n + 1) : RingSeq(p, h, u)[i] = p[Wrapped(h + i - 1)]
  <2>1. RingLen(h, u) = n + 1
    BY <1>4
  <2>2. Len(RingSeq(p, h, u)) = RingLen(h, u) /\ RingSeq(p, h, u) \in Seq(Slots \cup {None})
    BY RingSeqIs
  <2>3. \A i \in 1..RingLen(h, u) : RingSeq(p, h, u)[i] = p[Wrapped(h + i - 1)]
    BY RingSeqIs
  <2> QED
    BY <2>1, <2>2, <2>3
<1>7. \A i \in 1..(n + 1) : /\ Wrapped(h + i - 1) \in Slots
                            /\ (Wrapped(h + i - 1) = t) <=> (i = n + 1)
  BY <1>3, <1>4, ConstantsAssumption DEF Slots, Wrapped
<1>8. ASSUME NEW i \in 1..(n + 1)
      PROVE  RingSeq(p, h, u)[i] = IF i = n + 1 THEN s ELSE RingSeq(r, h, t)[i]
  <2>1. PICK k \in Slots : k = Wrapped(h + i - 1) /\ ((k = t) <=> (i = n + 1))
    BY <1>7
  <2>2. p[k] = IF k = t THEN s ELSE r[k]
    BY <1>2
  <2>3. i # n + 1 => i \in 1..n
    OBVIOUS
  <2> QED
    BY <1>5, <1>6, <2>1, <2>2, <2>3
<1>9. RingSeq(p, h, u) = Append(RingSeq(r, h, t), s)
  BY <1>5, <1>6, <1>8
<1> QED
  BY <1>1, <1>2, <1>3, <1>4, <1>9

\* What is read at the head of a ring that is not empty was first in the sequence.
LEMMA ReadTakes ==
    ASSUME NEW r \in [Slots -> Slots \cup {None}], NEW h \in Slots, NEW t \in Slots, h # t
    PROVE  /\ RingSeq(r, h, t) # <<>>
           /\ RingSeq(r, RingSucc(h), t) = Tail(RingSeq(r, h, t))
<1>1. PICK u \in Slots : u = RingSucc(h) /\ u = IF h + 1 = MaxConnections THEN 0 ELSE h + 1
  BY RingSuccIs
<1>2. PICK n \in Nat : n = RingLen(h, t) /\ n = IF h <= t THEN t - h ELSE t - h + MaxConnections
  BY RingLenIs
<1>3. n > 0 /\ RingLen(u, t) = n - 1 /\ n < MaxConnections
  <2>1. RingLen(u, t) = IF u <= t THEN t - u ELSE t - u + MaxConnections
    BY RingLenIs
  <2> QED
    BY <1>1, <1>2, <2>1, ConstantsAssumption DEF Slots
<1>4. /\ RingSeq(r, h, t) \in Seq(Slots \cup {None}) /\ Len(RingSeq(r, h, t)) = n
      /\ \A i \in 1..n : RingSeq(r, h, t)[i] = r[Wrapped(h + i - 1)]
  <2>1. RingLen(h, t) = n
    BY <1>2
  <2>2. Len(RingSeq(r, h, t)) = RingLen(h, t) /\ RingSeq(r, h, t) \in Seq(Slots \cup {None})
    BY RingSeqIs
  <2>3. \A i \in 1..RingLen(h, t) : RingSeq(r, h, t)[i] = r[Wrapped(h + i - 1)]
    BY RingSeqIs
  <2> QED
    BY <2>1, <2>2, <2>3
<1>5. /\ RingSeq(r, u, t) \in Seq(Slots \cup {None}) /\ Len(RingSeq(r, u, t)) = n - 1
      /\ \A i \in 1..(n - 1) : RingSeq(r, u, t)[i] = r[Wrapped(u + i - 1)]
  <2>1. RingLen(u, t) = n - 1
    BY <1>3
  <2>2. Len(RingSeq(r, u, t)) = RingLen(u, t) /\ RingSeq(r, u, t) \in Seq(Slots \cup {None})
    BY RingSeqIs
  <2>3. \A i \in 1..RingLen(u, t) : RingSeq(r, u, t)[i] = r[Wrapped(u + i - 1)]
    BY RingSeqIs
  <2> QED
    BY <2>1, <2>2, <2>3
<1>6. \A i \in 1..(n - 1) : i + 1 \in 1..n /\ Wrapped(u + i - 1) = Wrapped(h + (i + 1) - 1)
  BY <1>1, <1>3, ConstantsAssumption DEF Slots, Wrapped
<1>7. \A i \in 1..(n - 1) : RingSeq(r, u, t)[i] = RingSeq(r, h, t)[i + 1]
  BY <1>4, <1>5, <1>6
<1>8. RingSeq(r, u, t) = Tail(RingSeq(r, h, t)) /\ RingSeq(r, h, t) # <<>>
  BY <1>3, <1>4, <1>5, <1>7
<1> QED
  BY <1>1, <1>8

\* The completion ring implements a bounded first-in-first-out queue: the threads put
\* at its end, the loop takes from its front, nothing is overwritten or read twice, for
\* rings of any size.
THEOREM SpecRingIsFifo == Spec => RingIsFifo
<1> DEFINE Content == RingSeq(ring, ringHead, ringTail)
<1>1. Init => Fifo!Init
  <2> SUFFICES ASSUME Init PROVE RingSeq(ring, ringHead, ringTail) = <<>>
    BY DEF Fifo!Init, RingSeq, RingLen
  <2>1. /\ ringHead \in Slots /\ ringTail = ringHead
        /\ ring \in [Slots -> Slots \cup {None}]
    BY ConstantsAssumption DEF Init, Slots
  <2>2. RingLen(ringHead, ringTail) = 0
    BY <2>1, RingLenIs, ConstantsAssumption DEF Slots
  <2>3. /\ RingSeq(ring, ringHead, ringTail) \in Seq(Slots \cup {None})
        /\ Len(RingSeq(ring, ringHead, ringTail)) = 0
    BY <2>1, <2>2, RingSeqIs
  <2> QED
    BY <2>3
<1>2. ASSUME IInv, [Next]_vars
      PROVE  \/ \E s \in Slots : Len(Content) < MaxConnections - 1 /\ Content' = Append(Content, s)
             \/ Content # <<>> /\ Content' = Tail(Content)
             \/ Content' = Content
  <2>1. ringHead \in Slots /\ ringTail \in Slots /\ ring \in [Slots -> Slots \cup {None}]
    BY <1>2 DEF IInv, PoolInv, RingInv
  <2>2. ASSUME NEW w \in Workers, WorkerAdds(w)
        PROVE  \E s \in Slots : Len(Content) < MaxConnections - 1 /\ Content' = Append(Content, s)
    <3>1. PICK s \in Slots : s = worker[w].slot
      BY <1>2, <2>2 DEF WorkerAdds, IInv, PoolInv, WorkerInv, WorkerType, Idle
    <3>2. /\ ring' = [ring EXCEPT ![ringTail] = s] /\ ringHead' = ringHead
          /\ ringTail' = RingSucc(ringTail) /\ RingSucc(ringTail) # ringHead
      BY <2>2, <3>1 DEF WorkerAdds, RingFull
    <3>3. Len(Content) < MaxConnections - 1
      BY ZenonT(40), <2>1, <3>2, AddAppends, RingSeqIs
    <3>4. Content' = Append(Content, s)
      BY <2>1, <3>2, AddAppends
    <3> QED
      BY <3>3, <3>4
  <2>3. CASE EventfdNext
    <3>1. /\ ring' = ring /\ ringHead' = RingSucc(ringHead) /\ ringTail' = ringTail
          /\ ringHead # ringTail
      BY <2>3 DEF EventfdNext, RingEmpty
    <3> QED
      BY <2>1, <3>1, ReadTakes
  <2>4. CASE UNCHANGED <<ring, ringHead, ringTail>>
    BY <2>4
  <2>5. \/ \E w \in Workers : WorkerAdds(w)
        \/ EventfdNext
        \/ UNCHANGED <<ring, ringHead, ringTail>>
    <3>1. CASE \E w \in Workers : WorkerStep(w)
      BY <3>1 DEF WorkerStep, WorkerTakes, WorkerSignals, WorkerReturns
    <3>2. CASE LoopStep
      BY <3>2 DEF LoopStep, AcceptRefused, Accept, AcceptFails, RecvFails, RecvStream,
                  RecvSubmit, WriteFails, WriteShort, WriteNext, WriteDone, Submit,
                  EventfdBegin, EventfdEnd, BeginDrain, DrainDone, DrainTimeout, Stop, poolVars
    <3>3. CASE Signal \/ UNCHANGED vars
      BY <3>3 DEF Signal, vars, poolVars
    <3> QED
      BY <1>2, <3>1, <3>2, <3>3 DEF Next
  <2> QED
    BY <2>2, <2>3, <2>4, <2>5
<1>3. IInv /\ [Next]_vars =>
         [Fifo!Next]_([i \in 1..((ringTail - ringHead + MaxConnections) % MaxConnections) |->
                          ring[(ringHead + i - 1) % MaxConnections]])
  BY <1>2 DEF Fifo!Next, Fifo!Put, Fifo!Get, RingSeq, RingLen
<1> QED
  BY <1>1, <1>3, SpecInv, PTL DEF Spec, RingIsFifo, Fifo!Spec
=============================================================================
