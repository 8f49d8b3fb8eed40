-------------------------- MODULE UringCurlProofs --------------------------
(***************************************************************************)
(* The io_uring daemon in curl_multi mode.  UringCurl: the write buffer    *)
(* keeps its bounds and its data, the writes carry every unit once and in  *)
(* order, and the dirty list forgets no connection, for any number of      *)
(* clients and slots, any sizes and any split of the transfers into        *)
(* messages and of the writes into short writes.  CurlEvents: the kernel's *)
(* polls and timers are those that libcurl asks for, for any number of     *)
(* sockets and timers.                                                     *)
(***************************************************************************)
EXTENDS UringCurl, CurlEvents, WellFoundedInduction, TLAPS

\* write_buffer_append keeps the positions in bounds and adds what it accepts; what it
\* refuses leaves the data as they are.
LEMMA AppendedKeeps ==
    ASSUME NEW wb, WellFormed(wb), NEW len \in Nat
    PROVE  /\ Accepts(wb, len) => /\ WellFormed(Appended(wb, len))
                                  /\ Size(Appended(wb, len)) = Size(wb) + len
                                  /\ Appended(wb, len).write_pending = wb.write_pending
           /\ WellFormed(Refused(wb, len))
           /\ Size(Refused(wb, len)) = Size(wb)
           /\ Refused(wb, len).write_pending = wb.write_pending
<1> USE SizesAssumption DEF WellFormed, Buffer, Size, Wb
<1>1. ASSUME Accepts(wb, len), Fits(wb, len)
      PROVE  /\ WellFormed(Appended(wb, len))
             /\ Size(Appended(wb, len)) = Size(wb) + len
             /\ Appended(wb, len).write_pending = wb.write_pending
  BY <1>1 DEF Appended, Fits
<1>2. ASSUME Accepts(wb, len), ~Fits(wb, len), wb.write_pending
      PROVE  /\ WellFormed(Appended(wb, len))
             /\ Size(Appended(wb, len)) = Size(wb) + len
             /\ Appended(wb, len).write_pending = wb.write_pending
  <2>1. /\ GrownCapacity(wb, len) \in Nat
        /\ wb.head + len <= GrownCapacity(wb, len)
    BY DEF GrownCapacity
  <2>2. Appended(wb, len) = Wb(GrownCapacity(wb, len), wb.head + len, wb.tail, TRUE)
    BY <1>2 DEF Appended
  <2>3. GrownCapacity(wb, len) <= MaxSize
    BY <1>2 DEF Accepts
  <2> QED
    BY <1>2, <2>1, <2>2, <2>3
<1>3. ASSUME Accepts(wb, len), ~Fits(wb, len), ~wb.write_pending
      PROVE  /\ WellFormed(Appended(wb, len))
             /\ Size(Appended(wb, len)) = Size(wb) + len
             /\ Appended(wb, len).write_pending = wb.write_pending
  <2>1. Size(wb) \in Nat /\ wb.write_pending = FALSE
    BY <1>3
  <2>2. Appended(wb, len) = Wb(CompactedCapacity(wb, len), Size(wb) + len, 0, FALSE)
    BY <1>3 DEF Appended
  <2>3. /\ CompactedCapacity(wb, len) \in Nat
        /\ Size(wb) + len <= CompactedCapacity(wb, len)
        /\ CompactedCapacity(wb, len) <= MaxSize
    BY <1>3 DEF Accepts, CompactedCapacity
  <2>4. WellFormed(Appended(wb, len)) /\ Size(Appended(wb, len)) = Size(wb) + len
    BY <2>1, <2>2, <2>3
  <2>5. Appended(wb, len).write_pending = FALSE
    BY <2>2
  <2> QED
    BY <2>1, <2>4, <2>5
<1>4. CASE Size(wb) + len > MaxSize \/ wb.write_pending
  BY <1>1, <1>2, <1>3, <1>4 DEF Refused
<1>5. CASE ~(Size(wb) + len > MaxSize \/ wb.write_pending)
  <2>1. Size(wb) \in Nat /\ Size(wb) <= wb.capacity /\ wb.write_pending = FALSE
    BY <1>5
  <2>2. Refused(wb, len) = Wb(wb.capacity, Size(wb), 0, FALSE)
    BY <1>5 DEF Refused
  <2>3. WellFormed(Refused(wb, len)) /\ Size(Refused(wb, len)) = Size(wb)
    BY <2>1, <2>2
  <2>4. Refused(wb, len).write_pending = FALSE
    BY <2>2
  <2> QED
    BY <1>1, <1>2, <1>3, <2>1, <2>3, <2>4
<1> QED
  BY <1>4, <1>5

\* write_buffer_consume takes what was written and nothing else.
LEMMA ConsumedKeeps ==
    ASSUME NEW wb, WellFormed(wb), NEW n \in Nat, n <= Size(wb)
    PROVE  /\ WellFormed(Consumed(wb, n))
           /\ Size(Consumed(wb, n)) = Size(wb) - n
           /\ Consumed(wb, n).write_pending = wb.write_pending
BY SizesAssumption DEF WellFormed, Buffer, Size, Wb, Consumed

\* write_buffer_set_pending on data that the buffer holds.
LEMMA SetPendingKeeps ==
    ASSUME NEW wb, WellFormed(wb), NEW pending \in BOOLEAN
    PROVE  /\ WellFormed(SetPending(wb, pending))
           /\ Size(SetPending(wb, pending)) = Size(wb)
           /\ SetPending(wb, pending).write_pending = pending
           /\ HasData(SetPending(wb, pending)) <=> HasData(wb)
           /\ SetPending(wb, pending).tail = wb.tail
BY DEF WellFormed, Buffer, Size, SetPending, HasData

\* write_buffer_init.
LEMMA EmptyBufferWellFormed ==
    /\ WellFormed(EmptyBuffer) /\ Size(EmptyBuffer) = 0
    /\ EmptyBuffer.write_pending = FALSE /\ Accepts(EmptyBuffer, 1)
<1>1. EmptyBuffer = [capacity |-> DefaultSize, head |-> 0, tail |-> 0, write_pending |-> FALSE]
  BY DEF EmptyBuffer, Wb
<1>2. DefaultSize \in Nat /\ DefaultSize >= 1 /\ MaxSize \in Nat /\ DefaultSize <= MaxSize
  BY SizesAssumption
<1>3. WellFormed(EmptyBuffer) /\ Size(EmptyBuffer) = 0
  BY <1>1, <1>2 DEF WellFormed, Buffer, Size
<1>4. Size(EmptyBuffer) + 1 <= MaxSize /\ Fits(EmptyBuffer, 1)
  BY <1>1, <1>2, <1>3 DEF Fits
<1> QED
  BY <1>1, <1>3, <1>4 DEF Accepts

\* write_buffer_has_data: the amount left is not zero.
LEMMA HasDataSize ==
    ASSUME NEW wb, WellFormed(wb)
    PROVE  Size(wb) \in Nat /\ (HasData(wb) <=> Size(wb) # 0)
BY DEF WellFormed, Buffer, Size, HasData
-----------------------------------------------------------------------------
(* Connections.                                                            *)

\* The buffer of a connection whose write ended after n units.
LEMMA WrittenKeeps ==
    ASSUME NEW wb, WellFormed(wb), NEW n \in Nat, n <= Size(wb)
    PROVE  LET new == SetPending(Consumed(wb, n), FALSE)
           IN /\ WellFormed(new) /\ Size(new) = Size(wb) - n
              /\ new.write_pending = FALSE
              /\ HasData(new) <=> Size(wb) # n
<1> DEFINE left == Consumed(wb, n)
           new == SetPending(left, FALSE)
<1>1. WellFormed(left) /\ Size(left) = Size(wb) - n
  BY ConsumedKeeps
<1> HIDE DEF left
<1>2. WellFormed(new) /\ Size(new) = Size(left) /\ new.write_pending = FALSE
  BY <1>1, SetPendingKeeps
<1> HIDE DEF new
<1>3. /\ HasData(new) <=> Size(new) # 0
      /\ Size(new) \in Nat /\ Size(wb) \in Nat
  BY <1>2, HasDataSize
<1>4. Size(new) = Size(wb) - n
  BY <1>1, <1>2
<1>5. HasData(new) <=> Size(wb) # n
  BY <1>3, <1>4
<1> QED
  BY <1>2, <1>4, <1>5 DEF left, new

Connections ==
    [state : States, client : Clients \cup {None},
     easy : {"none", "running", "ok", "failed"}, wb : Buffer \cup {None},
     appended : Nat, done : BOOLEAN, bytes_sent : Nat]

\* What holds of every connection by itself: the buffer is in bounds and holds what
\* was appended and is not out; a transfer has a request, a buffer has had data.
ConnInv(conn) ==
    /\ conn \in Connections
    /\ conn.state # "UNUSED" => conn.client \in Clients
    /\ conn.state = "UNUSED" => conn = Unused
    /\ conn.easy # "none" => conn.state \in {"CURL_PENDING", "CURL_ACTIVE"}
    /\ conn.done => conn.state = "CLOSING" /\ conn.easy = "none"
    /\ conn.wb # None => /\ WellFormed(conn.wb)
                         /\ conn.appended = conn.bytes_sent + Size(conn.wb)
                         /\ conn.state \in {"CURL_ACTIVE", "CLOSING"}
    /\ conn.wb = None => conn.appended = 0 /\ conn.bytes_sent = 0

\* A write fits the connection it is for.
WriteFits(w, conn) ==
    /\ w.client = conn.client
    /\ w.from = conn.bytes_sent /\ w.len # 0
    /\ w.from + w.len <= conn.appended

\* A connection that nobody uses meets every condition on a single connection.
LEMMA UnusedConn == ConnInv(Unused) /\ ~Busy(Unused) /\ Unused.state = "UNUSED"
BY DEF ConnInv, Connections, Unused, Conn, Busy, States

\* To try a write changes the mark on the buffer only, ...
LEMMA TriedKeeps ==
    ASSUME NEW conn, ConnInv(conn)
    PROVE  /\ ConnInv(Tried(conn))
           /\ Tried(conn).state = conn.state
           /\ Tried(conn).client = conn.client
           /\ Tried(conn).easy = conn.easy
           /\ Tried(conn).bytes_sent = conn.bytes_sent
           /\ Tried(conn).appended = conn.appended
           /\ Busy(Tried(conn)) <=> Busy(conn) \/ CanStart(conn)
<1>1. CASE CanStart(conn)
  <2>1. conn.wb # None /\ WellFormed(conn.wb)
    BY <1>1 DEF CanStart, Unsent, ConnInv
  <2>2. /\ WellFormed(SetPending(conn.wb, TRUE))
        /\ Size(SetPending(conn.wb, TRUE)) = Size(conn.wb)
        /\ SetPending(conn.wb, TRUE).write_pending = TRUE
    BY <2>1, SetPendingKeeps
  <2>3. Tried(conn) = [conn EXCEPT !.wb = SetPending(conn.wb, TRUE)]
    BY <1>1 DEF Tried, Submitted
  <2>4. SetPending(conn.wb, TRUE) # None /\ SetPending(conn.wb, TRUE) \in Buffer
    BY <2>2, ConstantsAssumption DEF WellFormed
  <2> QED
    BY <1>1, <2>1, <2>2, <2>3, <2>4 DEF ConnInv, Connections, Busy
<1>2. CASE ~CanStart(conn)
  BY <1>2 DEF Tried
<1> QED
  BY <1>1, <1>2

\* ... and the write that is submitted fits.
LEMMA TriedWriteFits ==
    ASSUME NEW s \in Slots, NEW conn, ConnInv(conn), NEW w \in TriedWrite(s, conn)
    PROVE  /\ CanStart(conn) /\ w.slot = s
           /\ w \in [slot : Slots, client : Clients, from : Nat, len : Nat]
           /\ WriteFits(w, conn)
<1>1. CanStart(conn) /\ w = StartedWrite(s, conn)
  BY DEF TriedWrite
<1>2. conn.wb # None /\ WellFormed(conn.wb) /\ conn.client \in Clients
  BY <1>1 DEF CanStart, Unsent, ConnInv
<1>3. Size(conn.wb) \in Nat /\ Size(conn.wb) # 0
  BY <1>1, <1>2, HasDataSize DEF CanStart, Unsent
<1> QED
  BY <1>1, <1>2, <1>3 DEF StartedWrite, Write, WriteFits, ConnInv, Connections
-----------------------------------------------------------------------------
(* The inductive invariant.                                                *)

SlotInv ==
    /\ slot \in [Slots -> Connections]
    /\ \A s \in Slots : ConnInv(slot[s])

\* The structures on free_list are unused, and each is on it once.
FreeInv ==
    /\ free \in Seq(Slots)
    /\ \A i \in DOMAIN free : slot[free[i]].state = "UNUSED"
    /\ \A i, j \in DOMAIN free : free[i] = free[j] => i = j

RecvInv ==
    /\ recvs \subseteq Slots
    /\ \A s \in recvs : slot[s].state = "RECEIVING_FD"

WriteInv ==
    /\ writes \subseteq [slot : Slots, client : Clients, from : Nat, len : Nat]
    /\ \A w \in writes : Busy(slot[w.slot]) /\ WriteFits(w, slot[w.slot])
    /\ \A v, w \in writes : v.slot = w.slot => v = w
    /\ phase # "stopped" =>
         \A s \in Slots : Busy(slot[s]) => \E w \in writes : w.slot = s

LoopInv ==
    /\ peer \in [Clients -> {"new", "slot", "completed", "gone", "cut"}]
    /\ phase \in {"run", "drain", "stopped"}
    /\ phase = "stopped" => loop = "wait"

IInv == SlotInv /\ FreeInv /\ RecvInv /\ WriteInv /\ LoopInv

\* A connection in use changes, with more data appended, but not its write.
Extends(old, new) ==
    /\ ConnInv(new)
    /\ old.state \notin {"UNUSED", "RECEIVING_FD"}
    /\ new.state \notin {"UNUSED", "RECEIVING_FD"}
    /\ new.client = old.client /\ new.bytes_sent = old.bytes_sent
    /\ new.appended >= old.appended
    /\ Busy(new) <=> Busy(old)

StaysUsed == \A s \in Slots : slot'[s].state = "UNUSED" => slot[s].state = "UNUSED"

\* Connections in use change as above, and writes are tried for some.
LEMMA ChangeSlots ==
    ASSUME SlotInv, FreeInv, RecvInv, WriteInv, phase # "stopped",
           NEW conns, \A s \in Slots : conns[s] = slot[s] \/ Extends(slot[s], conns[s]),
           NEW T \in SUBSET Slots,
           slot' = [s \in Slots |-> IF s \in T THEN Tried(conns[s]) ELSE conns[s]],
           writes' = writes \cup UNION {TriedWrite(s, conns[s]) : s \in T},
           UNCHANGED <<phase, free, recvs>>
    PROVE  SlotInv' /\ FreeInv' /\ RecvInv' /\ WriteInv' /\ StaysUsed
<1>0. ASSUME NEW s \in Slots
      PROVE  /\ ConnInv(conns[s]) /\ conns[s].client = slot[s].client
             /\ conns[s].bytes_sent = slot[s].bytes_sent
             /\ conns[s].appended >= slot[s].appended
             /\ Busy(conns[s]) <=> Busy(slot[s])
             /\ slot[s].state \in {"UNUSED", "RECEIVING_FD"} => conns[s].state = slot[s].state
             /\ conns[s].appended \in Nat /\ slot[s].appended \in Nat
  BY DEF SlotInv, Extends, ConnInv, Connections
<1>1. ASSUME NEW s \in Slots
      PROVE  /\ ConnInv(slot'[s])
             /\ slot'[s].state = conns[s].state /\ slot'[s].client = conns[s].client
             /\ slot'[s].bytes_sent = conns[s].bytes_sent
             /\ slot'[s].appended = conns[s].appended
             /\ Busy(slot'[s]) <=> Busy(conns[s]) \/ (s \in T /\ CanStart(conns[s]))
  BY <1>0, TriedKeeps
<1>2. SlotInv'
  <2>1. slot' \in [Slots -> Connections]
    BY <1>0, TriedKeeps DEF ConnInv
  <2> QED
    BY <1>1, <2>1 DEF SlotInv
<1>3. FreeInv' /\ RecvInv'
  BY <1>0, <1>1 DEF FreeInv, RecvInv
<1>4. WriteInv'
  <2>1. ASSUME NEW w \in writes' \ writes
        PROVE  /\ w \in [slot : Slots, client : Clients, from : Nat, len : Nat]
               /\ CanStart(conns[w.slot]) /\ w.slot \in T /\ WriteFits(w, conns[w.slot])
               /\ w = StartedWrite(w.slot, conns[w.slot])
    <3>1. PICK s \in T : w \in TriedWrite(s, conns[s])
      OBVIOUS
    <3> QED
      BY <1>0, <3>1, TriedWriteFits DEF TriedWrite
  <2>2. \A w \in writes' : w \in [slot : Slots, client : Clients, from : Nat, len : Nat]
    BY <2>1 DEF WriteInv
  <2>3. ASSUME NEW w \in writes' PROVE Busy(slot'[w.slot]) /\ WriteFits(w, slot'[w.slot])
    <3>1. w \in [slot : Slots, client : Clients, from : Nat, len : Nat]
      BY <2>2
    <3>2. CASE w \in writes
      <4>1. Busy(slot[w.slot]) /\ WriteFits(w, slot[w.slot])
        BY <3>2 DEF WriteInv
      <4> QED
        BY <1>0, <1>1, <3>1, <4>1 DEF WriteFits
    <3>3. CASE w \notin writes
      BY <1>0, <1>1, <2>1, <3>1, <3>3 DEF WriteFits
    <3> QED
      BY <3>2, <3>3
  <2>4. ASSUME NEW v \in writes', NEW w \in writes', v.slot = w.slot PROVE v = w
    <3>0. ASSUME NEW x \in writes', NEW y \in writes', x.slot = y.slot,
                 x \in writes, y \notin writes
          PROVE  FALSE
      <4>1. Busy(slot[x.slot]) /\ x.slot \in Slots
        BY <3>0, <2>2 DEF WriteInv
      <4>2. CanStart(conns[y.slot])
        BY <3>0, <2>1
      <4> QED
        BY <1>0, <3>0, <4>1, <4>2 DEF CanStart
    <3>1. CASE v \in writes /\ w \in writes
      BY <2>4, <3>1 DEF WriteInv
    <3>2. CASE v \notin writes /\ w \notin writes
      BY <2>1, <2>4, <3>2
    <3> QED
      BY <2>4, <3>0, <3>1, <3>2
  <2>5. ASSUME NEW s \in Slots, Busy(slot'[s]) PROVE \E w \in writes' : w.slot = s
    <3>1. CASE Busy(slot[s])
      BY <3>1 DEF WriteInv
    <3>2. CASE s \in T /\ CanStart(conns[s])
      <4>1. StartedWrite(s, conns[s]) \in writes'
        BY <3>2 DEF TriedWrite
      <4> QED
        BY <4>1 DEF StartedWrite, Write
    <3> QED
      BY <1>0, <1>1, <2>5, <3>1, <3>2
  <2> QED
    BY <2>2, <2>3, <2>4, <2>5 DEF WriteInv
<1>5. StaysUsed
  BY <1>0, <1>1 DEF StaysUsed, Extends
<1> QED
  BY <1>2, <1>3, <1>4, <1>5

\* The case of one connection, without and with a write tried.
LEMMA ChangeOne ==
    ASSUME SlotInv, FreeInv, RecvInv, WriteInv, phase # "stopped",
           NEW s \in Slots, NEW conn, Extends(slot[s], conn),
           \/ slot' = [slot EXCEPT ![s] = conn] /\ writes' = writes
           \/ /\ slot' = [slot EXCEPT ![s] = Tried(conn)]
              /\ writes' = writes \cup TriedWrite(s, conn),
           UNCHANGED <<phase, free, recvs>>
    PROVE  SlotInv' /\ FreeInv' /\ RecvInv' /\ WriteInv' /\ StaysUsed
<1> DEFINE conns == [slot EXCEPT ![s] = conn]
<1>1. \A t \in Slots : conns[t] = slot[t] \/ Extends(slot[t], conns[t])
  BY DEF SlotInv
<1>2. conns[s] = conn
  BY DEF SlotInv
<1>3. CASE slot' = conns /\ writes' = writes
  <2> DEFINE T == {}
  <2>1. slot' = [t \in Slots |-> IF t \in T THEN Tried(conns[t]) ELSE conns[t]]
    BY <1>3 DEF SlotInv
  <2>2. writes' = writes \cup UNION {TriedWrite(t, conns[t]) : t \in T}
    BY <1>3
  <2>3. T \in SUBSET Slots
    OBVIOUS
  <2> HIDE DEF conns, T
  <2> QED
    BY <1>1, <2>1, <2>2, <2>3, ChangeSlots
<1>4. CASE /\ slot' = [slot EXCEPT ![s] = Tried(conn)]
           /\ writes' = writes \cup TriedWrite(s, conn)
  <2>1. slot' = [t \in Slots |-> IF t \in {s} THEN Tried(conns[t]) ELSE conns[t]]
    BY <1>2, <1>4 DEF SlotInv
  <2>2. writes' = writes \cup UNION {TriedWrite(t, conns[t]) : t \in {s}}
    BY <1>2, <1>4
  <2> HIDE DEF conns
  <2> QED
    BY <1>1, <2>1, <2>2, ChangeSlots
<1> QED
  BY <1>3, <1>4
\* A connection is cleaned up, with its write.
LEMMA CleanupKeeps ==
    ASSUME IInv, phase # "stopped",
           NEW s \in Slots, slot[s].state # "UNUSED",
           NEW how \in {"gone", "completed"}, Cleanup(s, how),
           recvs' = recvs \ {s}, writes' = {w \in writes : w.slot # s},
           UNCHANGED <<phase, loop>>
    PROVE  IInv'
<1> USE DEF IInv
<1>0. /\ slot' = [slot EXCEPT ![s] = Unused] /\ free' = <<s>> \o free
      /\ peer' = [peer EXCEPT ![slot[s].client] = how]
  BY DEF Cleanup
<1>1. SlotInv'
  BY <1>0, UnusedConn DEF SlotInv, ConnInv
<1>2. FreeInv'
  <2>1. free \in Seq(Slots) /\ free' \in Seq(Slots) /\ Len(free') = Len(free) + 1
    BY <1>0 DEF FreeInv
  <2>2. \A i \in DOMAIN free' : IF i = 1 THEN free'[i] = s
                                ELSE i - 1 \in DOMAIN free /\ free'[i] = free[i - 1]
    BY <1>0, <2>1
  <2>3. \A i \in DOMAIN free : free[i] # s /\ free[i] \in Slots
    BY <2>1 DEF FreeInv
  <2>4. \A i \in DOMAIN free' : slot'[free'[i]].state = "UNUSED"
    BY <1>0, <2>1, <2>2, <2>3, UnusedConn DEF FreeInv, SlotInv
  <2>5. ASSUME NEW i \in DOMAIN free', NEW j \in DOMAIN free', free'[i] = free'[j]
        PROVE  i = j
    BY <2>1, <2>2, <2>3, <2>5 DEF FreeInv
  <2> QED
    BY <2>1, <2>4, <2>5 DEF FreeInv
<1>3. RecvInv'
  BY <1>0 DEF RecvInv, SlotInv
<1>4. WriteInv'
  <2>1. \A t \in Slots : slot'[t] = IF t = s THEN Unused ELSE slot[t]
    BY <1>0 DEF SlotInv
  <2> QED
    BY <2>1, UnusedConn DEF WriteInv
<1>5. LoopInv'
  <2>1. slot[s].client \in Clients
    BY DEF SlotInv, ConnInv
  <2> QED
    BY <1>0, <2>1 DEF LoopInv
<1> QED
  BY <1>1, <1>2, <1>3, <1>4, <1>5

\* What is left of a write after n units fits what is left in the buffer.
LEMMA AfterWriteKeeps ==
    ASSUME IInv, NEW w \in writes, NEW n \in 1..w.len
    PROVE  LET conn == AfterWrite(w, n)
           IN /\ w.slot \in Slots /\ slot[w.slot].wb # None
              /\ slot[w.slot].state \notin {"UNUSED", "RECEIVING_FD"}
              /\ ConnInv(conn) /\ ~Busy(conn) /\ conn.wb # None
              /\ conn.state = slot[w.slot].state /\ conn.client = slot[w.slot].client
              /\ conn.appended = slot[w.slot].appended
              /\ ~Unsent(conn) => w.from + w.len = slot[w.slot].appended
<1> DEFINE old == slot[w.slot]
           conn == AfterWrite(w, n)
<1>1. /\ w.slot \in Slots /\ w.len \in Nat /\ n \in Nat /\ n <= w.len /\ w.from \in Nat
      /\ old.wb # None /\ ConnInv(old) /\ WriteFits(w, old)
  BY DEF IInv, WriteInv, SlotInv, Busy
<1>2. /\ WellFormed(old.wb) /\ n <= Size(old.wb) /\ w.len <= Size(old.wb)
      /\ old.appended = old.bytes_sent + Size(old.wb) /\ old.bytes_sent \in Nat
      /\ Size(old.wb) \in Nat
  BY <1>1, HasDataSize DEF ConnInv, Connections, WriteFits
<1> DEFINE wb == SetPending(Consumed(old.wb, n), FALSE)
<1>3. conn = [old EXCEPT !.bytes_sent = old.bytes_sent + n, !.wb = wb]
  BY DEF AfterWrite
<1>4. /\ WellFormed(wb) /\ Size(wb) = Size(old.wb) - n /\ wb.write_pending = FALSE
      /\ HasData(wb) <=> Size(old.wb) # n
  BY <1>1, <1>2, WrittenKeeps
<1> HIDE DEF wb
<1>5. wb \in Buffer /\ wb # None
  BY <1>4, ConstantsAssumption DEF WellFormed
<1>6. old \in Connections /\ old.bytes_sent + n \in Nat
  BY <1>1, <1>2 DEF ConnInv
<1>7. /\ conn.wb = wb /\ conn.bytes_sent = old.bytes_sent + n
      /\ conn.appended = old.appended /\ conn.state = old.state
      /\ conn.client = old.client /\ conn.easy = old.easy /\ conn.done = old.done
      /\ conn \in Connections
  <2> HIDE DEF old, conn
  <2> QED
    BY <1>3, <1>5, <1>6 DEF Connections
<1> HIDE DEF conn
<1>8. ConnInv(conn) /\ ~Busy(conn) /\ conn.wb # None
  BY <1>1, <1>2, <1>4, <1>5, <1>7 DEF ConnInv, Busy
<1>9. ~Unsent(conn) => w.from + w.len = old.appended
  BY <1>1, <1>2, <1>4, <1>5, <1>7 DEF Unsent, WriteFits
<1>10. old.state \notin {"UNUSED", "RECEIVING_FD"}
  BY <1>1 DEF ConnInv
<1> QED
  BY <1>1, <1>7, <1>8, <1>9, <1>10 DEF conn
\* The write of a connection ends after n units, and nothing is left to write.
LEMMA DrainsKeeps ==
    ASSUME IInv, NEW w \in writes, NEW n \in 1..w.len, phase # "stopped",
           slot' = [slot EXCEPT ![w.slot] = AfterWrite(w, n)],
           writes' = writes \ {w},
           UNCHANGED <<phase, free, recvs>>
    PROVE  SlotInv' /\ FreeInv' /\ RecvInv' /\ WriteInv' /\ StaysUsed
<1> DEFINE conn == AfterWrite(w, n)
           s == w.slot
<1>1. /\ s \in Slots /\ slot[s].state \notin {"UNUSED", "RECEIVING_FD"}
      /\ ConnInv(conn) /\ ~Busy(conn) /\ conn.state = slot[s].state
  BY AfterWriteKeeps
<1> HIDE DEF conn
<1>2. slot' = [slot EXCEPT ![s] = conn]
  BY DEF conn
<1>3. \A t \in Slots : slot'[t] = IF t = s THEN conn ELSE slot[t]
  BY <1>2 DEF IInv, SlotInv
<1>4. SlotInv'
  <2>1. slot' \in [Slots -> Connections]
    BY <1>1, <1>2 DEF IInv, SlotInv, ConnInv
  <2> QED
    BY <1>1, <1>3, <2>1 DEF IInv, SlotInv
<1>5. FreeInv' /\ RecvInv'
  BY <1>1, <1>3 DEF IInv, FreeInv, RecvInv
<1>6. WriteInv'
  BY <1>1, <1>3 DEF IInv, WriteInv
<1>7. StaysUsed
  BY <1>1, <1>3 DEF StaysUsed
<1> QED
  BY <1>4, <1>5, <1>6, <1>7

\* The write of a connection ends after n units, and the rest is written.
LEMMA MoreKeeps ==
    ASSUME IInv, NEW w \in writes, NEW n \in 1..w.len, phase # "stopped",
           CanStart(AfterWrite(w, n)),
           slot' = [slot EXCEPT ![w.slot] = Submitted(AfterWrite(w, n))],
           writes' = (writes \ {w}) \cup {StartedWrite(w.slot, AfterWrite(w, n))},
           UNCHANGED <<phase, free, recvs>>
    PROVE  SlotInv' /\ FreeInv' /\ RecvInv' /\ WriteInv' /\ StaysUsed
<1> DEFINE conn == AfterWrite(w, n)
           s == w.slot
           new == StartedWrite(s, conn)
<1>1. /\ s \in Slots /\ slot[s].state \notin {"UNUSED", "RECEIVING_FD"}
      /\ ConnInv(conn) /\ conn.state = slot[s].state
  BY AfterWriteKeeps
<1> HIDE DEF conn
<1>2. /\ slot' = [slot EXCEPT ![s] = Tried(conn)] /\ CanStart(conn)
      /\ writes' = (writes \ {w}) \cup {new}
  BY DEF Tried, conn
<1>3. /\ ConnInv(Tried(conn)) /\ Busy(Tried(conn)) /\ Tried(conn).state = conn.state
      /\ Tried(conn).client = conn.client /\ Tried(conn).bytes_sent = conn.bytes_sent
      /\ Tried(conn).appended = conn.appended
  BY <1>1, <1>2, TriedKeeps
<1>4. /\ new.slot = s /\ WriteFits(new, conn)
      /\ new \in [slot : Slots, client : Clients, from : Nat, len : Nat]
  <2>1. new \in TriedWrite(s, conn)
    BY <1>2 DEF TriedWrite
  <2> HIDE DEF new
  <2> QED
    BY <1>1, <2>1, TriedWriteFits
<1> HIDE DEF new
<1>5. \A t \in Slots : slot'[t] = IF t = s THEN Tried(conn) ELSE slot[t]
  BY <1>2 DEF IInv, SlotInv
<1>6. SlotInv'
  <2>1. slot' \in [Slots -> Connections]
    BY <1>2, <1>3 DEF IInv, SlotInv, ConnInv
  <2> QED
    BY <1>3, <1>5, <2>1 DEF IInv, SlotInv
<1>7. FreeInv' /\ RecvInv'
  BY <1>1, <1>3, <1>5 DEF IInv, FreeInv, RecvInv
<1>8. WriteInv'
  <2>1. WriteFits(new, Tried(conn))
    BY <1>3, <1>4 DEF WriteFits
  <2>2. ASSUME NEW v \in writes'
        PROVE  /\ v \in [slot : Slots, client : Clients, from : Nat, len : Nat]
               /\ Busy(slot'[v.slot]) /\ WriteFits(v, slot'[v.slot])
    BY <1>2, <1>3, <1>4, <1>5, <2>1 DEF IInv, WriteInv
  <2>3. \A u, v \in writes' : u.slot = v.slot => u = v
    BY <1>2, <1>4 DEF IInv, WriteInv
  <2>4. \A t \in Slots : Busy(slot'[t]) => \E v \in writes' : v.slot = t
    BY <1>2, <1>4, <1>5 DEF IInv, WriteInv
  <2> QED
    BY <2>2, <2>3, <2>4 DEF WriteInv
<1>9. StaysUsed
  BY <1>1, <1>3, <1>5 DEF StaysUsed
<1> QED
  BY <1>6, <1>7, <1>8, <1>9
\* Appending to a buffer, or being refused by it, changes nothing else.
LEMMA AppendKeeps ==
    ASSUME NEW conn, ConnInv(conn), conn.wb # None, NEW len \in Nat
    PROVE  /\ Accepts(conn.wb, len) =>
                /\ ConnInv(AppendUnits(conn, len))
                /\ AppendUnits(conn, len).appended >= conn.appended
                /\ Busy(AppendUnits(conn, len)) <=> Busy(conn)
           /\ ConnInv([conn EXCEPT !.wb = Refused(@, len)])
           /\ Busy([conn EXCEPT !.wb = Refused(@, len)]) <=> Busy(conn)
<1>1. /\ WellFormed(conn.wb) /\ conn.appended = conn.bytes_sent + Size(conn.wb)
      /\ conn \in Connections /\ Size(conn.wb) \in Nat
  BY HasDataSize DEF ConnInv
<1>2. ASSUME Accepts(conn.wb, len)
      PROVE  /\ ConnInv(AppendUnits(conn, len))
             /\ AppendUnits(conn, len).appended >= conn.appended
             /\ Busy(AppendUnits(conn, len)) <=> Busy(conn)
  <2> DEFINE wb == Appended(conn.wb, len)
             new == [conn EXCEPT !.wb = wb, !.appended = conn.appended + len]
  <2>1. /\ WellFormed(wb) /\ wb.write_pending = conn.wb.write_pending
        /\ Size(wb) = Size(conn.wb) + len
    BY <1>1, <1>2, AppendedKeeps
  <2>2. AppendUnits(conn, len) = new
    BY DEF AppendUnits
  <2> HIDE DEF wb
  <2>3. wb \in Buffer /\ wb # None
    BY <2>1, ConstantsAssumption DEF WellFormed
  <2>4. /\ new \in Connections /\ new.wb = wb /\ new.appended = conn.appended + len
        /\ new.state = conn.state /\ new.client = conn.client /\ new.easy = conn.easy
        /\ new.done = conn.done /\ new.bytes_sent = conn.bytes_sent
        /\ conn.bytes_sent \in Nat
    <3>1. conn.bytes_sent \in Nat /\ conn.appended \in Nat
      BY <1>1 DEF Connections
    <3>2. conn.appended + len \in Nat
      BY <3>1
    <3> QED
      BY <1>1, <2>3, <3>1, <3>2 DEF Connections
  <2> HIDE DEF new
  <2>5. new.appended = new.bytes_sent + Size(wb) /\ new.appended >= conn.appended
    BY <1>1, <2>1, <2>4
  <2>6. ConnInv(new)
    BY <1>1, <2>1, <2>3, <2>4, <2>5 DEF ConnInv
  <2>7. Busy(new) <=> Busy(conn)
    BY <2>1, <2>3, <2>4 DEF Busy
  <2> QED
    BY <2>2, <2>5, <2>6, <2>7
<1>3. /\ ConnInv([conn EXCEPT !.wb = Refused(@, len)])
      /\ Busy([conn EXCEPT !.wb = Refused(@, len)]) <=> Busy(conn)
  <2> DEFINE wb == Refused(conn.wb, len)
             new == [conn EXCEPT !.wb = wb]
  <2>1. /\ WellFormed(wb) /\ wb.write_pending = conn.wb.write_pending
        /\ Size(wb) = Size(conn.wb)
    BY <1>1, AppendedKeeps
  <2>2. [conn EXCEPT !.wb = Refused(@, len)] = new
    OBVIOUS
  <2> HIDE DEF wb
  <2>3. wb \in Buffer /\ wb # None
    BY <2>1, ConstantsAssumption DEF WellFormed
  <2>4. /\ new \in Connections /\ new.wb = wb /\ new.appended = conn.appended
        /\ new.state = conn.state /\ new.client = conn.client /\ new.easy = conn.easy
        /\ new.done = conn.done /\ new.bytes_sent = conn.bytes_sent
        /\ conn.appended \in Nat /\ conn.bytes_sent \in Nat
    BY <1>1, <2>3 DEF Connections
  <2> HIDE DEF new
  <2>5. ConnInv(new) /\ (Busy(new) <=> Busy(conn))
    BY <1>1, <2>1, <2>3, <2>4 DEF ConnInv, Busy
  <2> QED
    BY <2>2, <2>5
<1> QED
  BY <1>2, <1>3
\* The daemon starts with unused connections and an empty list.
LEMMA InitIInv == Init => IInv
<1> SUFFICES ASSUME Init PROVE IInv
  OBVIOUS
<1>1. SlotInv
  BY UnusedConn DEF Init, SlotInv, ConnInv
<1>2. FreeInv
  BY ConstantsAssumption, UnusedConn DEF Init, FreeInv, Slots
<1>3. RecvInv /\ WriteInv /\ LoopInv
  BY UnusedConn DEF Init, RecvInv, WriteInv, LoopInv
<1> QED
  BY <1>1, <1>2, <1>3 DEF IInv

\* The connection after the first data of a response.
LEMMA FirstDataConn ==
    ASSUME IInv, NEW s \in Slots, FirstData(s)
    PROVE  LET base == [slot[s] EXCEPT !.state = "CURL_ACTIVE", !.wb = EmptyBuffer]
               conn == AppendUnits(base, 1)
           IN /\ Extends(slot[s], conn)
              /\ conn.state = "CURL_ACTIVE" /\ conn.appended = 1 /\ conn.done = slot[s].done
<1> DEFINE old == slot[s]
           base == [old EXCEPT !.state = "CURL_ACTIVE", !.wb = EmptyBuffer]
           conn == AppendUnits(base, 1)
<1>1. /\ phase # "stopped" /\ ConnInv(old) /\ old.wb = None
      /\ old.state \in {"CURL_PENDING", "CURL_ACTIVE"}
  BY DEF FirstData, InCurl, HasBuffer, IInv, SlotInv, LoopInv, ConnInv
<1>2. EmptyBuffer # None /\ EmptyBuffer \in Buffer
  BY EmptyBufferWellFormed, ConstantsAssumption DEF WellFormed
<1>3. /\ ConnInv(base) /\ ~Busy(base) /\ base.wb = EmptyBuffer
      /\ base.client = old.client /\ base.bytes_sent = old.bytes_sent
      /\ base.appended = old.appended /\ base.state = "CURL_ACTIVE"
  <2>1. /\ base \in Connections /\ base.wb = EmptyBuffer /\ base.state = "CURL_ACTIVE"
        /\ base.client = old.client /\ base.bytes_sent = old.bytes_sent
        /\ base.appended = old.appended /\ base.easy = old.easy /\ base.done = old.done
    <3>1. old \in Connections
      BY <1>1 DEF ConnInv
    <3> HIDE DEF old
    <3> QED
      BY <1>2, <3>1 DEF Connections, States
  <2> HIDE DEF old, base
  <2>2. old.bytes_sent = 0 /\ old.appended = 0
    BY <1>1 DEF ConnInv
  <2> QED
    BY <1>1, <1>2, <2>1, <2>2, EmptyBufferWellFormed DEF ConnInv, Busy
<1> HIDE DEF base
<1>4. ConnInv(conn) /\ conn.appended >= base.appended /\ ~Busy(conn)
  BY <1>2, <1>3, EmptyBufferWellFormed, AppendKeeps
<1>5. /\ conn.client = old.client /\ conn.bytes_sent = old.bytes_sent
      /\ conn.state = "CURL_ACTIVE"
  BY <1>3 DEF AppendUnits
<1>6. Extends(old, conn)
  BY <1>1, <1>3, <1>4, <1>5 DEF Extends, Busy
<1>7. conn.appended = 1 /\ conn.done = old.done
  <2>1. old.appended = 0
    BY <1>1 DEF ConnInv
  <2>2. base.done = old.done /\ base \in Connections
    BY <1>1, <1>3 DEF base, ConnInv, Connections
  <2> QED
    BY <1>3, <2>1, <2>2 DEF AppendUnits, Connections
<1> QED
  BY <1>5, <1>6, <1>7 DEF base

\* The first data of a response.
LEMMA FirstDataKeeps ==
    ASSUME IInv, NEW s \in Slots, FirstData(s)
    PROVE  IInv' /\ StaysUsed
<1> DEFINE conn == AppendUnits([slot[s] EXCEPT !.state = "CURL_ACTIVE", !.wb = EmptyBuffer], 1)
<1>1. phase # "stopped" /\ Extends(slot[s], conn)
  BY FirstDataConn DEF FirstData, InCurl, IInv, LoopInv
<1>2. slot' = [slot EXCEPT ![s] = Tried(conn)] /\ writes' = writes \cup TriedWrite(s, conn)
  BY DEF FirstData
<1> HIDE DEF conn
<1>3. SlotInv' /\ FreeInv' /\ RecvInv' /\ WriteInv' /\ StaysUsed
  BY <1>1, <1>2, ChangeOne DEF IInv, FirstData, outer
<1> QED
  BY <1>3 DEF IInv, LoopInv, FirstData, outer

\* A message, taken or refused.
LEMMA MessageKeeps ==
    ASSUME IInv, NEW s \in Slots, NEW len \in 1..MessageUnits,
           Message(s, len) \/ MessageRefused(s, len)
    PROVE  IInv' /\ StaysUsed
<1> DEFINE old == slot[s]
<1>0. len \in Nat
  BY ConstantsAssumption
<1>1. /\ phase # "stopped" /\ ConnInv(old) /\ old.wb # None
      /\ old.state \in {"CURL_PENDING", "CURL_ACTIVE"} /\ old.easy = "running"
  BY DEF Message, MessageRefused, MessageComes, InCurl, HasBuffer, IInv, SlotInv, LoopInv,
         ConnInv
<1>2. CASE Message(s, len)
  <2> DEFINE conn == AppendUnits(old, len)
  <2>1. ConnInv(conn) /\ conn.appended >= old.appended /\ (Busy(conn) <=> Busy(old))
    BY <1>0, <1>1, <1>2, AppendKeeps DEF Message
  <2>2. conn.client = old.client /\ conn.bytes_sent = old.bytes_sent /\ conn.state = old.state
    BY <1>1 DEF AppendUnits
  <2>3. Extends(old, conn)
    BY <1>1, <2>1, <2>2 DEF Extends
  <2>4. slot' = [slot EXCEPT ![s] = Tried(conn)] /\ writes' = writes \cup TriedWrite(s, conn)
    BY <1>2 DEF Message
  <2> HIDE DEF conn
  <2>5. SlotInv' /\ FreeInv' /\ RecvInv' /\ WriteInv' /\ StaysUsed
    BY <1>1, <1>2, <2>3, <2>4, ChangeOne DEF IInv, Message, outer
  <2> QED
    BY <1>2, <2>5 DEF IInv, LoopInv, Message, outer
<1>3. CASE MessageRefused(s, len)
  <2> DEFINE base == [old EXCEPT !.wb = Refused(@, len)]
             conn == [base EXCEPT !.easy = "failed"]
  <2>1. ConnInv(base) /\ (Busy(base) <=> Busy(old))
    BY <1>0, <1>1, <1>3, AppendKeeps DEF MessageRefused
  <2>2. /\ base.client = old.client /\ base.bytes_sent = old.bytes_sent
        /\ base.state = old.state /\ base.appended = old.appended /\ base.easy = "running"
        /\ old.done = base.done
    BY <1>1
  <2> HIDE DEF base
  <2>3. /\ ConnInv(conn) /\ conn.client = base.client /\ conn.bytes_sent = base.bytes_sent
        /\ conn.state = base.state /\ conn.appended = base.appended /\ conn.wb = base.wb
    BY <1>1, <2>1, <2>2 DEF ConnInv, Connections
  <2>4. Extends(old, conn)
    BY <1>1, <2>1, <2>2, <2>3 DEF Extends, Busy, ConnInv, Connections
  <2>5. slot' = [slot EXCEPT ![s] = conn] /\ writes' = writes
    BY <1>3 DEF MessageRefused, base, outer
  <2> HIDE DEF conn
  <2>6. SlotInv' /\ FreeInv' /\ RecvInv' /\ WriteInv' /\ StaysUsed
    BY <1>1, <1>3, <2>4, <2>5, ChangeOne DEF IInv, MessageRefused, outer
  <2> QED
    BY <1>3, <2>6 DEF IInv, LoopInv, MessageRefused, outer
<1> QED
  BY <1>2, <1>3
\* A transfer is read off, and [DONE] is appended if there is a response and room.
LEMMA ReapKeeps ==
    ASSUME IInv, NEW s \in Slots, Reap(s)
    PROVE  IInv' /\ StaysUsed
<1> DEFINE old == slot[s]
           base == [old EXCEPT !.state = "CLOSING", !.easy = "none"]
           more == AppendUnits(base, 1)
           full == [base EXCEPT !.wb = Refused(@, 1)]
           adds == /\ HasBuffer(s) /\ Accepts(base.wb, 1)
                   /\ slot' = [slot EXCEPT ![s] = [more EXCEPT !.done = TRUE]]
           refuses == HasBuffer(s) /\ slot' = [slot EXCEPT ![s] = full]
           ends == slot' = [slot EXCEPT ![s] = base]
<1>1. /\ phase # "stopped" /\ ConnInv(old) /\ old.easy \in {"ok", "failed"}
      /\ old.state \in {"CURL_PENDING", "CURL_ACTIVE"} /\ ~old.done
  BY DEF Reap, IInv, SlotInv, LoopInv, ConnInv, Connections
<1>2. (adds \/ refuses \/ ends) /\ writes' = writes /\ UNCHANGED <<phase, free, recvs>>
  BY DEF Reap, outer
<1>3. /\ ConnInv(base) /\ base.wb = old.wb /\ base.client = old.client
      /\ base.bytes_sent = old.bytes_sent /\ base.appended = old.appended
      /\ base.state = "CLOSING" /\ base.easy = "none"
  <2>1. /\ base \in Connections /\ base.wb = old.wb /\ base.client = old.client
        /\ base.bytes_sent = old.bytes_sent /\ base.appended = old.appended
        /\ base.state = "CLOSING" /\ base.easy = "none" /\ base.done = old.done
    <3>1. old \in Connections
      BY <1>1 DEF ConnInv
    <3> HIDE DEF old
    <3> QED
      BY <3>1 DEF Connections, States
  <2> HIDE DEF old, base
  <2> QED
    BY <1>1, <2>1 DEF ConnInv
<1>4. HasBuffer(s) <=> old.wb # None
  BY DEF HasBuffer
<1> HIDE DEF base, old
<1>5. CASE adds
  <2>1. ConnInv(more) /\ more.appended >= base.appended /\ (Busy(more) <=> Busy(base))
    BY <1>3, <1>4, <1>5, AppendKeeps
  <2>2. /\ more.client = base.client /\ more.bytes_sent = base.bytes_sent
        /\ more.state = base.state /\ more.easy = base.easy
    BY <1>3 DEF AppendUnits
  <2> HIDE DEF more
  <2>3. more \in Connections
    BY <2>1 DEF ConnInv
  <2>4. LET new == [more EXCEPT !.done = TRUE]
        IN /\ new \in Connections /\ new.client = more.client
           /\ new.bytes_sent = more.bytes_sent /\ new.state = more.state
           /\ new.easy = more.easy /\ new.appended = more.appended /\ new.wb = more.wb
    BY <2>3 DEF Connections
  <2>5. Extends(old, [more EXCEPT !.done = TRUE])
    BY <1>1, <1>3, <2>1, <2>2, <2>4 DEF Extends, ConnInv, Busy
  <2>6. SlotInv' /\ FreeInv' /\ RecvInv' /\ WriteInv' /\ StaysUsed
    BY <1>1, <1>2, <1>5, <2>5, ChangeOne DEF IInv, old
  <2> QED
    BY <2>6 DEF IInv, LoopInv, Reap, outer
<1>6. CASE refuses \/ ends
  <2> DEFINE new == IF refuses THEN full ELSE base
  <2>1. refuses => ConnInv(full) /\ (Busy(full) <=> Busy(base))
    BY <1>3, <1>4, AppendKeeps
  <2>2. /\ full.client = base.client /\ full.bytes_sent = base.bytes_sent
        /\ full.state = base.state /\ full.appended = base.appended
    BY <1>3 DEF ConnInv, Connections
  <2>3. slot' = [slot EXCEPT ![s] = new]
    BY <1>6
  <2> HIDE DEF full, refuses
  <2>4. ConnInv(old) /\ old.appended \in Nat
    BY <1>1 DEF ConnInv, Connections
  <2>5. Extends(old, new)
    BY <1>1, <1>3, <2>1, <2>2, <2>4 DEF Extends, Busy
  <2> HIDE DEF new
  <2>6. SlotInv' /\ FreeInv' /\ RecvInv' /\ WriteInv' /\ StaysUsed
    BY <1>1, <1>2, <2>3, <2>5, ChangeOne DEF IInv, old
  <2> QED
    BY <2>6 DEF IInv, LoopInv, Reap, outer
<1> QED
  BY <1>2, <1>5, <1>6

\* flush_streaming_connections, over the whole list.
LEMMA FlushKeeps ==
    ASSUME IInv, phase # "stopped", Flush, UNCHANGED <<phase, free, recvs>>
    PROVE  SlotInv' /\ FreeInv' /\ RecvInv' /\ WriteInv' /\ StaysUsed
<1> DEFINE T == {t \in Slots : Listed(dirty, t)}
           conns == slot
<1>1. slot' = [s \in Slots |-> IF s \in T THEN Tried(conns[s]) ELSE conns[s]]
  BY DEF Flush
<1>2. writes' = writes \cup UNION {TriedWrite(s, conns[s]) : s \in T}
  BY DEF Flush
<1>3. T \in SUBSET Slots /\ \A s \in Slots : conns[s] = slot[s] \/ Extends(slot[s], conns[s])
  OBVIOUS
<1> HIDE DEF T, conns
<1> QED
  BY <1>1, <1>2, <1>3, ChangeSlots DEF IInv
\* Every step keeps the invariant: one case for each kind of completion.
LEMMA NextIInv == IInv /\ [Next]_vars => IInv'
<1> SUFFICES ASSUME IInv, [Next]_vars PROVE IInv'
  OBVIOUS
<1>1. ASSUME NEW c \in Clients, Accept(c) PROVE IInv'
  <2>1. UNCHANGED <<phase, loop, writes>>
    BY <1>1 DEF Accept, outer
  <2>2. CASE free = <<>>
    <3>1. UNCHANGED <<slot, free, recvs>> /\ peer' = [peer EXCEPT ![c] = "gone"]
      BY <1>1, <2>2 DEF Accept
    <3> QED
      BY <2>1, <3>1 DEF IInv, SlotInv, FreeInv, RecvInv, WriteInv, LoopInv
  <2>3. CASE free # <<>>
    <3> DEFINE s == Head(free)
               conn == Conn("RECEIVING_FD", c, "none", None, 0, FALSE, 0)
    <3>1. /\ slot' = [slot EXCEPT ![s] = conn] /\ free' = Tail(free)
          /\ recvs' = recvs \cup {s} /\ peer' = [peer EXCEPT ![c] = "slot"]
      BY <1>1, <2>3 DEF Accept
    <3>2. free \in Seq(Slots) /\ s \in Slots /\ s = free[1] /\ 1 \in DOMAIN free
      BY <2>3 DEF IInv, FreeInv
    <3>3. slot[s].state = "UNUSED"
      BY <3>2 DEF IInv, FreeInv
    <3>4. ConnInv(conn) /\ ~Busy(conn) /\ conn.state = "RECEIVING_FD"
      BY DEF ConnInv, Connections, Conn, States, Busy
    <3>5. ~Busy(slot[s])
      BY <3>2, <3>3 DEF IInv, SlotInv, ConnInv, Busy
    <3> HIDE DEF conn, s
    <3>6. \A t \in Slots : slot'[t] = IF t = s THEN conn ELSE slot[t]
      BY <3>1 DEF IInv, SlotInv
    <3>7. SlotInv'
      BY <3>1, <3>4, <3>6 DEF IInv, SlotInv, ConnInv
    <3>8. FreeInv'
      <4>1. free' \in Seq(Slots) /\ Len(free') = Len(free) - 1
        BY <2>3, <3>1, <3>2
      <4>2. \A i \in DOMAIN free' : i + 1 \in DOMAIN free /\ free'[i] = free[i + 1]
        BY <2>3, <3>1, <3>2, <4>1
      <4>3. \A i \in DOMAIN free' : free'[i] # s /\ free'[i] \in Slots
        BY <3>2, <4>1, <4>2 DEF IInv, FreeInv
      <4>4. \A i \in DOMAIN free' : slot'[free'[i]].state = "UNUSED"
        BY <3>6, <4>2, <4>3 DEF IInv, FreeInv
      <4>5. ASSUME NEW i \in DOMAIN free', NEW j \in DOMAIN free', free'[i] = free'[j]
            PROVE  i = j
        <5>1. i + 1 = j + 1
          BY <4>2, <4>5 DEF IInv, FreeInv
        <5> QED
          BY <4>1, <5>1
      <4> QED
        BY <4>1, <4>4, <4>5 DEF FreeInv
    <3>9. RecvInv'
      BY <3>1, <3>2, <3>4, <3>6 DEF IInv, RecvInv
    <3>10. WriteInv'
      BY <2>1, <3>4, <3>5, <3>6 DEF IInv, WriteInv
    <3>11. LoopInv'
      BY <2>1, <3>1 DEF IInv, LoopInv
    <3> QED
      BY <3>7, <3>8, <3>9, <3>10, <3>11 DEF IInv
  <2> QED
    BY <2>2, <2>3
<1>2. ASSUME NEW s \in Slots, RecvFails(s) PROVE IInv'
  <2>1. slot[s].state = "RECEIVING_FD" /\ ~Busy(slot[s]) /\ phase # "stopped"
    BY <1>2 DEF IInv, RecvInv, SlotInv, ConnInv, Busy, RecvFails, Handling
  <2>2. writes' = {w \in writes : w.slot # s}
    BY <1>2, <2>1 DEF IInv, WriteInv, RecvFails
  <2> QED
    BY <1>2, <2>1, <2>2, CleanupKeeps DEF RecvFails, outer
<1>3. ASSUME NEW s \in Slots, RecvStart(s) PROVE IInv'
  <2> DEFINE old == slot[s]
             conn == [old EXCEPT !.state = "CURL_PENDING", !.easy = "running"]
  <2>1. /\ slot' = [slot EXCEPT ![s] = conn] /\ recvs' = recvs \ {s}
        /\ phase # "stopped" /\ UNCHANGED <<phase, peer, free, writes>>
    BY <1>3 DEF RecvStart, Handling, outer, IInv, SlotInv
  <2>2. old \in Connections /\ ConnInv(old) /\ old.state = "RECEIVING_FD" /\ old.wb = None
    BY <1>3 DEF RecvStart, IInv, RecvInv, SlotInv, ConnInv
  <2> HIDE DEF old
  <2>3. /\ conn \in Connections /\ conn.state = "CURL_PENDING" /\ conn.easy = "running"
        /\ conn.wb = None /\ conn.client = old.client /\ conn.appended = old.appended
        /\ conn.bytes_sent = old.bytes_sent /\ conn.done = old.done
    BY <2>2 DEF Connections, States
  <2> HIDE DEF conn
  <2>4. ConnInv(conn) /\ ~Busy(conn) /\ ~Busy(old)
    BY <2>2, <2>3 DEF ConnInv, Busy
  <2>5. \A t \in Slots : slot'[t] = IF t = s THEN conn ELSE slot[t]
    BY <2>1 DEF IInv, SlotInv
  <2>6. SlotInv'
    BY <2>1, <2>3, <2>4, <2>5 DEF IInv, SlotInv
  <2>7. FreeInv'
    BY <2>1, <2>2, <2>5 DEF IInv, FreeInv, old
  <2>8. RecvInv' /\ LoopInv'
    BY <1>3, <2>1, <2>5 DEF IInv, RecvInv, LoopInv, RecvStart
  <2>9. WriteInv'
    BY <2>1, <2>4, <2>5 DEF IInv, WriteInv, old
  <2> QED
    BY <2>6, <2>7, <2>8, <2>9 DEF IInv
<1>4. ASSUME NEW s \in Slots, FirstData(s) PROVE IInv'
  BY <1>4, FirstDataKeeps
<1>5. ASSUME NEW s \in Slots, NEW len \in 1..MessageUnits,
             Message(s, len) \/ MessageRefused(s, len)
      PROVE  IInv'
  BY <1>5, MessageKeeps
<1>6. ASSUME NEW s \in Slots, NEW result \in {"ok", "failed"}, TransferEnds(s, result)
      PROVE  IInv'
  <2> DEFINE old == slot[s]
             conn == [old EXCEPT !.easy = result]
  <2>1. /\ slot' = [slot EXCEPT ![s] = conn] /\ phase # "stopped" /\ writes' = writes
        /\ UNCHANGED <<phase, loop, peer, free, recvs, writes>>
    BY <1>6 DEF TransferEnds, InCurl, outer, IInv, LoopInv
  <2>2. /\ old \in Connections /\ ConnInv(old) /\ old.easy = "running"
        /\ old.state \in {"CURL_PENDING", "CURL_ACTIVE"} /\ old.appended \in Nat
    BY <1>6 DEF TransferEnds, IInv, SlotInv, ConnInv, Connections
  <2> HIDE DEF old
  <2>3. /\ conn \in Connections /\ conn.state = old.state /\ conn.easy = result
        /\ conn.wb = old.wb /\ conn.client = old.client /\ conn.appended = old.appended
        /\ conn.bytes_sent = old.bytes_sent /\ conn.done = old.done
    BY <2>2 DEF Connections
  <2> HIDE DEF conn
  <2>4. Extends(old, conn)
    BY <2>2, <2>3 DEF Extends, ConnInv, Busy
  <2>5. SlotInv' /\ FreeInv' /\ RecvInv' /\ WriteInv'
    BY <2>1, <2>4, ChangeOne DEF IInv, old
  <2> QED
    BY <2>1, <2>5 DEF IInv, LoopInv
<1>7. ASSUME NEW s \in Slots, Reap(s) PROVE IInv'
  BY <1>7, ReapKeeps
<1>8. CASE StartReturns \/ CurlEvent \/ CurlReturns \/ Signal \/ BeginDrain
  BY <1>8 DEF StartReturns, CurlEvent, CurlReturns, Signal, BeginDrain, Handling, outer,
              IInv, SlotInv, FreeInv, RecvInv, WriteInv, LoopInv
<1>9. CASE CheckDone
  <2>1. SlotInv' /\ FreeInv' /\ RecvInv' /\ WriteInv'
    BY <1>9, FlushKeeps DEF CheckDone, outer, IInv, LoopInv
  <2> QED
    BY <1>9, <2>1 DEF CheckDone, outer, IInv, LoopInv
<1>10. CASE RoundEnds
  <2>1. SlotInv' /\ FreeInv' /\ RecvInv' /\ WriteInv'
    BY <1>10, FlushKeeps DEF RoundEnds, outer
  <2> QED
    BY <1>10, <2>1 DEF RoundEnds, outer, IInv, LoopInv
<1>11. ASSUME NEW w \in writes, NEW how \in {"gone", "completed"},
              phase # "stopped", UNCHANGED <<outer, loop, recvs>>,
              writes' = writes \ {w}, Cleanup(w.slot, how)
       PROVE  IInv'
  <2>1. w.slot \in Slots /\ slot[w.slot].state \in {"CURL_ACTIVE", "CLOSING"}
    BY DEF IInv, WriteInv, SlotInv, ConnInv, Busy
  <2>2. recvs' = recvs \ {w.slot}
    BY <1>11, <2>1 DEF IInv, RecvInv
  <2>3. writes' = {v \in writes : v.slot # w.slot}
    BY <1>11 DEF IInv, WriteInv
  <2> QED
    BY <1>11, <2>1, <2>2, <2>3, CleanupKeeps DEF outer
<1>12. ASSUME NEW w \in writes, WriteFails(w) PROVE IInv'
  BY <1>11, <1>12 DEF WriteFails, Handling
<1>13. ASSUME NEW w \in writes, NEW n \in 1..w.len, WriteMore(w, n) PROVE IInv'
  <2>1. SlotInv' /\ FreeInv' /\ RecvInv' /\ WriteInv'
    BY <1>13, MoreKeeps DEF WriteMore, Handling, outer
  <2> QED
    BY <1>13, <2>1 DEF WriteMore, outer, IInv, LoopInv
<1>14. ASSUME NEW w \in writes, NEW n \in 1..w.len, WriteDrains(w, n) PROVE IInv'
  <2>1. SlotInv' /\ FreeInv' /\ RecvInv' /\ WriteInv'
    BY <1>14, DrainsKeeps DEF WriteDrains, Handling, outer
  <2> QED
    BY <1>14, <2>1 DEF WriteDrains, outer, IInv, LoopInv
<1>15. ASSUME NEW w \in writes, NEW n \in 1..w.len, WriteLast(w, n) PROVE IInv'
  BY <1>11, <1>15 DEF WriteLast, Handling
<1>16. CASE Stop
  <2>1. SlotInv' /\ FreeInv' /\ RecvInv' /\ WriteInv'
    BY <1>16 DEF Stop, IInv, SlotInv, FreeInv, RecvInv, WriteInv
  <2> QED
    BY <1>16, <2>1 DEF Stop, IInv, LoopInv
<1>17. CASE UNCHANGED vars
  BY <1>17 DEF vars, IInv, SlotInv, FreeInv, RecvInv, WriteInv, LoopInv
<1> QED
  BY <1>1, <1>2, <1>3, <1>4, <1>5, <1>6, <1>7, <1>8, <1>9, <1>10, <1>12, <1>13, <1>14,
     <1>15, <1>16, <1>17 DEF Next, CurlStep, WriteStep
-----------------------------------------------------------------------------
(* The dirty list.                                                         *)

\* No connection is on a list twice.
OnceEach(list) ==
    /\ list \in Seq(Slots)
    /\ \A i, j \in DOMAIN list : list[i] = list[j] => i = j

\* Only connections that have had data are on the list; one with data in its buffer is
\* on it, and has a write in flight but where a round of completions is read; and the
\* stream keeps to the number of units.
MovesInv(s) ==
    /\ Listed(dirty, s) => slot[s].state \in {"CURL_ACTIVE", "CLOSING"}
    /\ Unsent(slot[s]) => Listed(dirty, s)
    /\ Unsent(slot[s]) /\ loop # "check" /\ phase # "stopped" => Busy(slot[s])
    /\ slot[s].appended <= MaxUnits
    /\ slot[s].done \/ slot[s].appended <= MessageUnits + 1

DirtyInv ==
    /\ OnceEach(dirty)
    /\ shutdown \in BOOLEAN /\ loop \in {"wait", "start", "curl", "check"}
    /\ \A s \in Slots : MovesInv(s)

\* daemon_mark_connection_dirty adds one connection, unless it is there.
LEMMA MarkedList ==
    ASSUME NEW list, OnceEach(list), NEW s \in Slots
    PROVE  /\ OnceEach(Marked(list, s))
           /\ \A t \in Slots : Listed(Marked(list, s), t) <=> Listed(list, t) \/ t = s
<1>1. CASE Listed(list, s)
  BY <1>1 DEF Marked
<1>2. CASE ~Listed(list, s)
  <2> DEFINE new == Append(list, s)
  <2>1. list \in Seq(Slots) /\ Marked(list, s) = new
    BY <1>2 DEF OnceEach, Marked
  <2>2. /\ new \in Seq(Slots) /\ Len(new) = Len(list) + 1 /\ Len(list) \in Nat
        /\ DOMAIN new = 1..Len(new) /\ DOMAIN list = 1..Len(list)
        /\ new[Len(list) + 1] = s /\ \A i \in 1..Len(list) : new[i] = list[i]
    BY <2>1
  <2> HIDE DEF new
  <2>3. \A i \in DOMAIN list : list[i] # s
    BY <1>2 DEF Listed
  <2>4. \A i, j \in DOMAIN new : new[i] = new[j] => i = j
    BY <2>2, <2>3 DEF OnceEach
  <2>5. \A t \in Slots : Listed(new, t) <=> Listed(list, t) \/ t = s
    <3>1. ASSUME NEW t \in Slots, Listed(new, t), t # s PROVE Listed(list, t)
      BY <2>2, <3>1 DEF Listed
    <3>2. ASSUME NEW t \in Slots, Listed(list, t) PROVE Listed(new, t)
      BY <2>2, <3>2 DEF Listed
    <3>3. Listed(new, s)
      BY <2>2 DEF Listed
    <3> QED
      BY <3>1, <3>2, <3>3
  <2> QED
    BY <2>1, <2>2, <2>4, <2>5 DEF OnceEach
<1> QED
  BY <1>1, <1>2

\* Taking connections off the list leaves the others, each once.
LEMMA RemainingList ==
    ASSUME NEW list, OnceEach(list), NEW stay, NEW new \in Remaining(list, stay)
    PROVE  /\ OnceEach(new)
           /\ \A t \in Slots : Listed(new, t) <=> Listed(list, t) /\ t \in stay
<1>1. new \in Seq(Slots)
  BY ConstantsAssumption DEF Remaining, Lists
<1>2. ASSUME NEW i \in DOMAIN new, NEW j \in DOMAIN new, i < j, new[i] = new[j] PROVE FALSE
  <2>1. PICK k \in DOMAIN list, l \in DOMAIN list :
              k < l /\ list[k] = new[i] /\ list[l] = new[j]
    BY <1>2 DEF Remaining
  <2>2. k = l
    BY <1>2, <2>1 DEF OnceEach
  <2>3. k \in Nat /\ l \in Nat
    BY <2>1 DEF OnceEach
  <2> QED
    BY <2>1, <2>2, <2>3
<1>3. \A i, j \in DOMAIN new : i \in Nat /\ j \in Nat
  BY <1>1
<1>4. \A i, j \in DOMAIN new : new[i] = new[j] => i = j
  BY <1>2, <1>3
<1> QED
  BY <1>1, <1>4 DEF OnceEach, Remaining

\* A connection has data in its buffer if not all that was appended is out.
LEMMA UnsentUnits ==
    ASSUME NEW conn, ConnInv(conn)
    PROVE  Unsent(conn) <=> conn.appended # conn.bytes_sent
<1>1. CASE conn.wb = None
  BY <1>1 DEF ConnInv, Unsent
<1>2. CASE conn.wb # None
  <2>1. /\ conn.appended = conn.bytes_sent + Size(conn.wb) /\ conn.bytes_sent \in Nat
        /\ WellFormed(conn.wb)
    BY <1>2 DEF ConnInv, Connections
  <2>2. Size(conn.wb) \in Nat /\ (HasData(conn.wb) <=> Size(conn.wb) # 0)
    BY <2>1, HasDataSize
  <2> QED
    BY <1>2, <2>1, <2>2 DEF Unsent
<1> QED
  BY <1>1, <1>2

\* A connection with data for which a write was tried has one in flight.
LEMMA TriedMoves ==
    ASSUME NEW conn, ConnInv(conn)
    PROVE  /\ Unsent(Tried(conn)) <=> Unsent(conn)
           /\ Unsent(conn) => Busy(Tried(conn))
           /\ Tried(conn).done = conn.done
<1>1. /\ ConnInv(Tried(conn)) /\ Tried(conn).appended = conn.appended
      /\ Tried(conn).bytes_sent = conn.bytes_sent
      /\ Busy(Tried(conn)) <=> Busy(conn) \/ CanStart(conn)
  BY TriedKeeps
<1>2. Unsent(Tried(conn)) <=> Unsent(conn)
  BY <1>1, UnsentUnits
<1>3. Tried(conn).done = conn.done
  BY DEF Tried, Submitted, ConnInv, Connections
<1> QED
  BY <1>1, <1>2, <1>3 DEF CanStart

\* A step that changes one connection and at most its place on the list.
LEMMA OneMoves ==
    ASSUME IInv, DirtyInv, NEW s \in Slots, NEW conn,
           slot' = [slot EXCEPT ![s] = conn],
           OnceEach(dirty'),
           \A t \in Slots \ {s} : Listed(dirty', t) <=> Listed(dirty, t),
           UNCHANGED <<phase, shutdown>>,
           loop' = loop \/ (loop = "wait" /\ loop' = "start"),
           MovesInv(s)'
    PROVE  DirtyInv'
<1>1. \A t \in Slots \ {s} : slot'[t] = slot[t]
  BY DEF IInv, SlotInv
<1>2. ASSUME NEW t \in Slots \ {s} PROVE MovesInv(t)'
  BY <1>1 DEF DirtyInv, MovesInv
<1> QED
  BY <1>2 DEF DirtyInv

\* The list is empty at the start.
LEMMA InitDirtyInv == Init => DirtyInv
<1> SUFFICES ASSUME Init PROVE DirtyInv
  OBVIOUS
<1>1. OnceEach(dirty)
  BY DEF Init, OnceEach
<1>2. ASSUME NEW s \in Slots PROVE MovesInv(s)
  <2>1. ~Listed(dirty, s) /\ slot[s] = Unused
    BY DEF Init, Listed
  <2>2. ~Unsent(Unused) /\ Unused.appended = 0
    BY DEF Unused, Conn, Unsent
  <2> QED
    BY <2>1, <2>2, ConstantsAssumption DEF MovesInv, MaxUnits
<1> QED
  BY <1>1, <1>2 DEF Init, DirtyInv

\* A connection is cleaned up, and leaves the list.
LEMMA CleanupMoves ==
    ASSUME IInv, DirtyInv, NEW s \in Slots, NEW how, Cleanup(s, how), UNCHANGED <<outer, loop>>
    PROVE  DirtyInv'
<1>1. slot' = [slot EXCEPT ![s] = Unused] /\ dirty' \in Remaining(dirty, Slots \ {s})
  BY DEF Cleanup, Unmarked
<1>2. /\ OnceEach(dirty')
      /\ \A t \in Slots : Listed(dirty', t) <=> Listed(dirty, t) /\ t \in Slots \ {s}
  BY <1>1, RemainingList DEF DirtyInv
<1>3. slot'[s] = Unused
  BY <1>1 DEF IInv, SlotInv
<1>4. ~Unsent(Unused) /\ Unused.appended = 0
  BY DEF Unused, Conn, Unsent
<1>5. MovesInv(s)'
  BY <1>2, <1>3, <1>4, ConstantsAssumption DEF MovesInv, MaxUnits
<1> QED
  BY <1>1, <1>2, <1>5, OneMoves DEF outer

\* A connection whose data were appended and tried is listed.
LEMMA TriedListed ==
    ASSUME IInv, DirtyInv, NEW s \in Slots, NEW conn, ConnInv(conn),
           conn.state \in {"CURL_ACTIVE", "CLOSING"},
           conn.appended <= MessageUnits + 1,
           slot' = [slot EXCEPT ![s] = Tried(conn)],
           dirty' = Marked(dirty, s), UNCHANGED <<outer, loop>>
    PROVE  DirtyInv'
<1>1. /\ OnceEach(dirty')
      /\ \A t \in Slots : Listed(dirty', t) <=> Listed(dirty, t) \/ t = s
  BY MarkedList DEF DirtyInv
<1>2. slot'[s] = Tried(conn)
  BY DEF IInv, SlotInv
<1>3. /\ Tried(conn).state = conn.state /\ Tried(conn).appended = conn.appended
      /\ Unsent(Tried(conn)) => Busy(Tried(conn))
  BY TriedKeeps, TriedMoves
<1>4. conn.appended \in Nat
  BY DEF ConnInv, Connections
<1>5. MovesInv(s)'
  BY <1>1, <1>2, <1>3, <1>4, ConstantsAssumption DEF MovesInv, MaxUnits
<1> QED
  BY <1>1, <1>5, OneMoves DEF outer

\* A step in which no data are appended or sent does not disturb the list.
LEMMA SameUnits ==
    ASSUME IInv, DirtyInv, NEW s \in Slots, NEW conn, ConnInv(conn),
           Listed(dirty, s) => conn.state \in {"CURL_ACTIVE", "CLOSING"},
           conn.appended = slot[s].appended, conn.bytes_sent = slot[s].bytes_sent,
           conn.done = slot[s].done, Busy(conn) <=> Busy(slot[s]),
           slot' = [slot EXCEPT ![s] = conn], UNCHANGED <<outer, loop, dirty>>
    PROVE  DirtyInv'
<1>1. slot'[s] = conn
  BY DEF IInv, SlotInv
<1>2. Unsent(conn) <=> Unsent(slot[s])
  BY UnsentUnits DEF IInv, SlotInv
<1>3. MovesInv(s)'
  BY <1>1, <1>2 DEF DirtyInv, MovesInv, outer
<1> QED
  BY <1>3, OneMoves DEF DirtyInv, outer

\* The flush tries what is listed, and keeps on the list what has data or a write.
LEMMA FlushMoves ==
    ASSUME IInv, DirtyInv, Flush, UNCHANGED outer,
           loop' = loop \/ (loop = "check" /\ loop' = "wait")
    PROVE  DirtyInv'
<1> DEFINE stay == {s \in Slots : Unsent(slot[s]) \/ Busy(slot[s])}
<1>1. /\ OnceEach(dirty')
      /\ \A t \in Slots : Listed(dirty', t) <=> Listed(dirty, t) /\ t \in stay
  <2>1. dirty' \in Remaining(dirty, stay)
    BY DEF Flush
  <2> HIDE DEF stay
  <2> QED
    BY <2>1, RemainingList DEF DirtyInv
<1>2. ASSUME NEW s \in Slots PROVE MovesInv(s)'
  <2>1. ConnInv(slot[s]) /\ MovesInv(s)
    BY DEF IInv, SlotInv, DirtyInv
  <2>2. CASE Listed(dirty, s)
    <3>1. slot'[s] = Tried(slot[s])
      BY <2>2 DEF Flush
    <3>2. /\ Tried(slot[s]).state = slot[s].state
          /\ Tried(slot[s]).appended = slot[s].appended
          /\ Tried(slot[s]).done = slot[s].done
          /\ Unsent(Tried(slot[s])) <=> Unsent(slot[s])
          /\ Unsent(slot[s]) => Busy(Tried(slot[s]))
      BY <2>1, TriedKeeps, TriedMoves
    <3> QED
      BY <1>1, <2>1, <2>2, <3>1, <3>2 DEF MovesInv
  <2>3. CASE ~Listed(dirty, s)
    <3>1. slot'[s] = slot[s]
      BY <2>3 DEF Flush
    <3> QED
      BY <1>1, <2>1, <2>3, <3>1 DEF MovesInv
  <2> QED
    BY <2>2, <2>3
<1> QED
  BY <1>1, <1>2 DEF DirtyInv, outer

\* A new connection is on a structure that is not listed.
LEMMA AcceptMoves ==
    ASSUME IInv, DirtyInv, NEW c \in Clients, Accept(c)
    PROVE  DirtyInv'
<1>1. UNCHANGED <<outer, loop, dirty>>
  BY DEF Accept
<1>2. CASE free = <<>>
  BY <1>1, <1>2 DEF Accept, DirtyInv, MovesInv, outer
<1>3. CASE free # <<>>
  <2>0. PICK s \in Slots : s = Head(free) /\ slot[s].state = "UNUSED"
    BY <1>3 DEF IInv, FreeInv
  <2> DEFINE conn == Conn("RECEIVING_FD", c, "none", None, 0, FALSE, 0)
  <2>1. slot' = [slot EXCEPT ![s] = conn]
    BY <1>3, <2>0 DEF Accept
  <2>3. slot'[s] = conn
    BY <2>1 DEF IInv, SlotInv
  <2>4. ~Listed(dirty, s)
    BY <2>0 DEF DirtyInv, MovesInv
  <2>5. ~Unsent(conn) /\ conn.appended = 0
    BY DEF Conn, Unsent
  <2> HIDE DEF conn
  <2>6. MovesInv(s)'
    BY <1>1, <2>3, <2>4, <2>5, ConstantsAssumption DEF MovesInv, MaxUnits
  <2> QED
    BY <1>1, <2>1, <2>6, OneMoves DEF DirtyInv, outer
<1> QED
  BY <1>2, <1>3

\* A request is started, without data so far.
LEMMA RecvStartMoves ==
    ASSUME IInv, DirtyInv, NEW s \in Slots, RecvStart(s)
    PROVE  DirtyInv'
<1> DEFINE conn == [slot[s] EXCEPT !.state = "CURL_PENDING", !.easy = "running"]
<1>1. /\ slot[s].state = "RECEIVING_FD" /\ slot[s] \in Connections /\ slot[s].wb = None
      /\ ConnInv(slot[s])
  BY DEF RecvStart, IInv, RecvInv, SlotInv, ConnInv
<1>2. slot' = [slot EXCEPT ![s] = conn] /\ UNCHANGED <<outer, dirty>>
  BY DEF RecvStart, IInv, SlotInv
<1>3. conn.wb = None /\ conn.appended = 0
  BY <1>1 DEF ConnInv, Connections
<1>4. slot'[s] = conn
  BY <1>2 DEF IInv, SlotInv
<1>5. ~Listed(dirty, s)
  BY <1>1 DEF DirtyInv, MovesInv
<1> HIDE DEF conn
<1>6. MovesInv(s)'
  BY <1>2, <1>3, <1>4, <1>5, ConstantsAssumption DEF MovesInv, MaxUnits, Unsent
<1>7. loop = "wait" /\ loop' = "start"
  BY DEF RecvStart, Handling
<1> QED
  BY <1>2, <1>6, <1>7, OneMoves DEF DirtyInv, outer

\* libcurl's callbacks.
LEMMA CurlStepMoves ==
    ASSUME IInv, DirtyInv, NEW s \in Slots, CurlStep(s)
    PROVE  DirtyInv'
<1> DEFINE old == slot[s]
<1>1. ConnInv(old) /\ MovesInv(s) /\ old \in Connections
  BY DEF IInv, SlotInv, DirtyInv, ConnInv
<1>2. CASE FirstData(s)
  <2> DEFINE conn == AppendUnits([old EXCEPT !.state = "CURL_ACTIVE", !.wb = EmptyBuffer], 1)
  <2>1. ConnInv(conn) /\ conn.state = "CURL_ACTIVE" /\ conn.appended = 1
    BY <1>2, FirstDataConn DEF Extends
  <2>2. /\ slot' = [slot EXCEPT ![s] = Tried(conn)] /\ dirty' = Marked(dirty, s)
        /\ UNCHANGED <<outer, loop>>
    BY <1>2 DEF FirstData
  <2> HIDE DEF conn
  <2>3. conn.state \in {"CURL_ACTIVE", "CLOSING"} /\ conn.appended <= MessageUnits + 1
    BY <2>1, ConstantsAssumption
  <2> QED
    BY <2>1, <2>2, <2>3, TriedListed
<1>3. ASSUME NEW len \in 1..MessageUnits, Message(s, len) PROVE DirtyInv'
  <2> DEFINE conn == AppendUnits(old, len)
  <2>1. /\ old.wb # None /\ old.state \in {"CURL_ACTIVE", "CLOSING"} /\ len \in Nat
        /\ old.appended + len <= MessageUnits + 1 /\ Accepts(old.wb, len)
    BY <1>1, <1>3 DEF Message, MessageComes, HasBuffer, ConnInv
  <2>2. /\ ConnInv(conn) /\ conn.state = old.state /\ conn.appended = old.appended + len
    BY <1>1, <2>1, AppendKeeps DEF AppendUnits, Connections
  <2>3. /\ slot' = [slot EXCEPT ![s] = Tried(conn)] /\ dirty' = Marked(dirty, s)
        /\ UNCHANGED <<outer, loop>>
    BY <1>3 DEF Message
  <2> HIDE DEF conn
  <2> QED
    BY <2>1, <2>2, <2>3, TriedListed
<1>4. ASSUME NEW len \in 1..MessageUnits, MessageRefused(s, len) PROVE DirtyInv'
  <2> DEFINE base == [old EXCEPT !.wb = Refused(@, len)]
             conn == [base EXCEPT !.easy = "failed"]
  <2>1. /\ old.wb # None /\ len \in Nat /\ old.easy = "running"
    BY <1>4 DEF MessageRefused, MessageComes, HasBuffer
  <2>2. ConnInv(base) /\ (Busy(base) <=> Busy(old))
    BY <1>1, <2>1, AppendKeeps
  <2>3. /\ base.state = old.state /\ base.appended = old.appended /\ base.easy = "running"
        /\ base.bytes_sent = old.bytes_sent /\ base.done = old.done
    BY <1>1, <2>1 DEF Connections
  <2>4. slot' = [slot EXCEPT ![s] = conn] /\ UNCHANGED <<outer, loop, dirty>>
    BY <1>4 DEF MessageRefused
  <2> HIDE DEF base
  <2>5. /\ ConnInv(conn) /\ conn.state = base.state /\ conn.appended = base.appended
        /\ conn.bytes_sent = base.bytes_sent /\ conn.done = base.done /\ conn.wb = base.wb
    BY <2>2, <2>3 DEF ConnInv, Connections
  <2> HIDE DEF conn
  <2>6. Busy(conn) <=> Busy(old)
    BY <2>2, <2>5 DEF Busy
  <2>7. Listed(dirty, s) => conn.state \in {"CURL_ACTIVE", "CLOSING"}
    BY <1>1, <2>3, <2>5 DEF MovesInv
  <2> QED
    BY <2>3, <2>4, <2>5, <2>6, <2>7, SameUnits
<1>5. ASSUME NEW result \in {"ok", "failed"}, TransferEnds(s, result) PROVE DirtyInv'
  <2> DEFINE conn == [old EXCEPT !.easy = result]
  <2>1. /\ old.easy = "running" /\ slot' = [slot EXCEPT ![s] = conn]
        /\ UNCHANGED <<outer, loop, dirty>>
    BY <1>5 DEF TransferEnds
  <2>2. /\ ConnInv(conn) /\ conn.state = old.state /\ conn.appended = old.appended
        /\ conn.bytes_sent = old.bytes_sent /\ conn.done = old.done /\ conn.wb = old.wb
    BY <1>1, <2>1 DEF ConnInv, Connections
  <2> HIDE DEF conn
  <2>3. Busy(conn) <=> Busy(old)
    BY <2>2 DEF Busy
  <2>4. Listed(dirty, s) => conn.state \in {"CURL_ACTIVE", "CLOSING"}
    BY <1>1, <2>2 DEF MovesInv
  <2> QED
    BY <2>1, <2>2, <2>3, <2>4, SameUnits
<1> QED
  BY <1>2, <1>3, <1>4, <1>5 DEF CurlStep

\* The one step that leaves data without a write in flight: [DONE] waits for the flush
\* that ends the round.
LEMMA ReapMoves ==
    ASSUME IInv, DirtyInv, NEW s \in Slots, Reap(s)
    PROVE  DirtyInv'
<1> DEFINE old == slot[s]
           base == [old EXCEPT !.state = "CLOSING", !.easy = "none"]
           more == AppendUnits(base, 1)
           done == [more EXCEPT !.done = TRUE]
           full == [base EXCEPT !.wb = Refused(@, 1)]
           adds == /\ HasBuffer(s) /\ Accepts(base.wb, 1)
                   /\ slot' = [slot EXCEPT ![s] = done] /\ dirty' = Marked(dirty, s)
           refuses == HasBuffer(s) /\ slot' = [slot EXCEPT ![s] = full] /\ dirty' = dirty
           ends == slot' = [slot EXCEPT ![s] = base] /\ dirty' = dirty
<1>1. /\ ConnInv(old) /\ old \in Connections /\ MovesInv(s) /\ ~old.done
      /\ old.easy # "none"
  BY DEF Reap, IInv, SlotInv, DirtyInv, ConnInv, Connections
<1>2. (adds \/ refuses \/ ends) /\ UNCHANGED <<outer, loop>> /\ loop = "check"
  BY DEF Reap
<1>4. /\ base \in Connections /\ base.wb = old.wb /\ base.appended = old.appended
      /\ base.bytes_sent = old.bytes_sent /\ base.state = "CLOSING" /\ base.done = old.done
      /\ base.client = old.client /\ base.easy = "none"
  <2> HIDE DEF old
  <2> QED
    BY <1>1 DEF Connections, States
<1>5. HasBuffer(s) <=> old.wb # None
  BY DEF HasBuffer
<1> HIDE DEF old, base
<1>6. ConnInv(base) /\ (Busy(base) <=> Busy(old))
  BY <1>1, <1>4 DEF ConnInv, Busy
<1>7. CASE adds
  <2>1. more.appended = old.appended + 1 /\ more.state = "CLOSING" /\ more \in Connections
    <3>1. ConnInv(more)
      BY <1>4, <1>5, <1>6, <1>7, AppendKeeps
    <3> QED
      BY <1>4, <3>1 DEF AppendUnits, ConnInv, Connections
  <2> HIDE DEF more
  <2>2. done.appended = old.appended + 1 /\ done.state = "CLOSING" /\ done.done
    BY <2>1 DEF Connections
  <2> HIDE DEF done
  <2>3. old.appended <= MessageUnits + 1 /\ old.appended \in Nat
    BY <1>1 DEF MovesInv, old, Connections
  <2>4. /\ OnceEach(dirty')
        /\ \A t \in Slots : Listed(dirty', t) <=> Listed(dirty, t) \/ t = s
    BY <1>7, MarkedList DEF DirtyInv
  <2>5. slot'[s] = done /\ slot' = [slot EXCEPT ![s] = done]
    BY <1>7 DEF IInv, SlotInv
  <2>6. MovesInv(s)'
    BY <1>2, <2>2, <2>3, <2>4, <2>5, ConstantsAssumption DEF MovesInv, MaxUnits
  <2> QED
    BY <1>2, <2>4, <2>5, <2>6, OneMoves DEF outer
<1>8. CASE refuses \/ ends
  <2> DEFINE new == IF refuses THEN full ELSE base
  <2>1. refuses => ConnInv(full) /\ (Busy(full) <=> Busy(base))
    BY <1>4, <1>5, <1>6, AppendKeeps
  <2>2. /\ full.state = base.state /\ full.appended = base.appended
        /\ full.bytes_sent = base.bytes_sent /\ full.done = base.done
    BY <1>4 DEF Connections
  <2>3. slot' = [slot EXCEPT ![s] = new] /\ dirty' = dirty
    BY <1>8
  <2> HIDE DEF full, refuses
  <2>4. /\ ConnInv(new) /\ (Busy(new) <=> Busy(old)) /\ new.state = "CLOSING"
        /\ new.appended = old.appended /\ new.bytes_sent = old.bytes_sent
        /\ new.done = old.done
    BY <1>4, <1>6, <2>1, <2>2
  <2> HIDE DEF new
  <2> QED
    BY <1>2, <2>3, <2>4, SameUnits DEF old
<1> QED
  BY <1>2, <1>7, <1>8

\* A write ends, and what is left in the buffer is written next.
LEMMA WriteMoves ==
    ASSUME IInv, DirtyInv, NEW w \in writes, NEW n \in 1..w.len,
           WriteMore(w, n) \/ WriteDrains(w, n)
    PROVE  DirtyInv'
<1> DEFINE conn == AfterWrite(w, n)
<1>1. PICK s \in Slots : s = w.slot
  BY DEF IInv, WriteInv
<1>2. /\ ConnInv(conn) /\ conn.state = slot[s].state /\ conn.appended = slot[s].appended
      /\ slot[s].wb # None /\ ConnInv(slot[s]) /\ slot[s] \in Connections /\ MovesInv(s)
  BY <1>1, AfterWriteKeeps DEF IInv, SlotInv, ConnInv, DirtyInv
<1>3. conn.done = slot[s].done
  BY <1>1, <1>2 DEF AfterWrite, Connections
<1>4. Listed(dirty, s)
  <2>1. WriteFits(w, slot[s]) /\ w.len \in Nat /\ w.from \in Nat
    BY <1>1 DEF IInv, WriteInv
  <2>2. slot[s].appended # slot[s].bytes_sent
    BY <1>2, <2>1 DEF WriteFits, Connections
  <2>3. Unsent(slot[s])
    BY <1>2, <2>2, UnsentUnits
  <2> QED
    BY <1>2, <2>3 DEF MovesInv
<1>5. UNCHANGED <<outer, loop, dirty>>
  BY DEF WriteMore, WriteDrains
<1>6. CASE WriteMore(w, n)
  <2>1. CanStart(conn) /\ slot' = [slot EXCEPT ![s] = Tried(conn)]
    BY <1>1, <1>6 DEF WriteMore, Tried
  <2> HIDE DEF conn
  <2>2. slot'[s] = Tried(conn)
    BY <2>1 DEF IInv, SlotInv
  <2>3. /\ Tried(conn).state = conn.state /\ Tried(conn).appended = conn.appended
        /\ Tried(conn).done = conn.done
        /\ Unsent(Tried(conn)) => Busy(Tried(conn))
    BY <1>2, TriedKeeps, TriedMoves
  <2>4. MovesInv(s)'
    BY <1>2, <1>3, <1>4, <1>5, <2>2, <2>3 DEF MovesInv
  <2> QED
    BY <1>5, <2>1, <2>4, OneMoves DEF DirtyInv, outer
<1>7. CASE WriteDrains(w, n)
  <2>1. ~Unsent(conn) /\ slot' = [slot EXCEPT ![s] = conn]
    BY <1>1, <1>7 DEF WriteDrains
  <2> HIDE DEF conn
  <2>2. slot'[s] = conn
    BY <2>1 DEF IInv, SlotInv
  <2>3. MovesInv(s)'
    BY <1>2, <1>3, <1>5, <2>1, <2>2 DEF MovesInv
  <2> QED
    BY <1>5, <2>1, <2>3, OneMoves DEF DirtyInv, outer
<1> QED
  BY <1>6, <1>7

\* Every step keeps what holds of the dirty list.
LEMMA NextDirtyInv == IInv /\ DirtyInv /\ [Next]_vars => DirtyInv'
<1> SUFFICES ASSUME IInv, DirtyInv, [Next]_vars PROVE DirtyInv'
  OBVIOUS
<1>1. ASSUME NEW c \in Clients, Accept(c) PROVE DirtyInv'
  BY <1>1, AcceptMoves
<1>2. ASSUME NEW s \in Slots, RecvFails(s) PROVE DirtyInv'
  BY <1>2, CleanupMoves DEF RecvFails
<1>3. ASSUME NEW s \in Slots, RecvStart(s) \/ CurlStep(s) \/ Reap(s) PROVE DirtyInv'
  BY <1>3, RecvStartMoves, CurlStepMoves, ReapMoves
<1>4. CASE CheckDone \/ RoundEnds
  BY <1>4, FlushMoves DEF CheckDone, RoundEnds
<1>5. ASSUME NEW w \in writes, WriteFails(w) PROVE DirtyInv'
  <2>1. w.slot \in Slots
    BY DEF IInv, WriteInv
  <2> QED
    BY <1>5, <2>1, CleanupMoves DEF WriteFails
<1>6. ASSUME NEW w \in writes, NEW n \in 1..w.len, WriteLast(w, n) PROVE DirtyInv'
  <2>1. w.slot \in Slots
    BY DEF IInv, WriteInv
  <2> QED
    BY <1>6, <2>1, CleanupMoves DEF WriteLast
<1>7. ASSUME NEW w \in writes, NEW n \in 1..w.len, WriteMore(w, n) \/ WriteDrains(w, n)
      PROVE  DirtyInv'
  BY <1>7, WriteMoves
<1>8. CASE StartReturns \/ CurlEvent \/ CurlReturns \/ Signal \/ BeginDrain
  BY <1>8 DEF StartReturns, CurlEvent, CurlReturns, Signal, BeginDrain, Handling, outer,
              DirtyInv, MovesInv
<1>9. CASE Stop
  BY <1>9 DEF Stop, DirtyInv, MovesInv
<1>10. CASE UNCHANGED vars
  BY <1>10 DEF vars, DirtyInv, MovesInv
<1> QED
  BY <1>1, <1>2, <1>3, <1>4, <1>5, <1>6, <1>7, <1>8, <1>9, <1>10 DEF Next, WriteStep

\* Memory is noted as moved for slots only.
LEMMA NextMoved == moved \subseteq Slots /\ [Next]_vars => moved' \subseteq Slots
<1> SUFFICES ASSUME moved \subseteq Slots, [Next]_vars PROVE moved' \subseteq Slots
  OBVIOUS
<1>1. ASSUME NEW s \in Slots, NEW len, MayMove(s, len) PROVE moved' \subseteq Slots
  BY <1>1 DEF MayMove
<1>2. ASSUME NEW s \in Slots, CurlStep(s) \/ Reap(s) PROVE moved' \subseteq Slots
  BY <1>1, <1>2 DEF CurlStep, FirstData, Message, MessageRefused, TransferEnds, Reap
<1>3. ASSUME NEW w \in writes, WriteStep(w) PROVE moved' \subseteq Slots
  BY <1>3 DEF WriteStep, WriteFails, WriteMore, WriteDrains, WriteLast
<1>4. CASE Stop
  BY <1>4 DEF Stop
<1>5. CASE UNCHANGED moved
  BY <1>5
<1> QED
  BY <1>2, <1>3, <1>4, <1>5
     DEF Next, Accept, RecvFails, RecvStart, StartReturns, CurlEvent, CurlReturns, CheckDone,
         RoundEnds, Signal, BeginDrain, vars

-----------------------------------------------------------------------------
(* Theorems.                                                               *)

\* The invariant the theorems below are read from.
THEOREM SpecIInv == Spec => []IInv
<1>1. Init => IInv
  BY InitIInv
<1>2. IInv /\ [Next]_vars => IInv'
  BY NextIInv
<1> QED
  BY <1>1, <1>2, PTL DEF Spec

\* No append, compaction or growth puts a buffer's positions out of its memory, or
\* the memory over the limit.
THEOREM SpecBuffersInBounds == Spec => []BuffersInBounds
<1>1. IInv => BuffersInBounds
  BY DEF IInv, SlotInv, ConnInv, BuffersInBounds
<1> QED
  BY <1>1, SpecIInv, PTL

\* Every connection's write is its only one, and carries the units that are next.
THEOREM SpecWritesInOrder == Spec => []WritesInOrder
<1>1. IInv => WritesInOrder
  BY DEF IInv, WriteInv, WriteFits, WritesInOrder
<1> QED
  BY <1>1, SpecIInv, PTL

\* Nothing that was appended is lost or repeated.
THEOREM SpecStreamConserved == Spec => []StreamConserved
<1>1. IInv => StreamConserved
  BY DEF IInv, SlotInv, ConnInv, StreamConserved
<1> QED
  BY <1>1, SpecIInv, PTL

\* A completed response went out to its last unit.
THEOREM SpecCompletedIsFlushed == Spec => CompletedIsFlushed
<1> DEFINE Flushed(s) ==
       slot[s] # Unused /\ slot'[s] = Unused /\ peer'[slot[s].client] = "completed" =>
         \E w \in writes : w.slot = s /\ w \notin writes' /\ w.from + w.len = slot[s].appended
<1>1. ASSUME IInv, [Next]_vars, NEW t \in Slots PROVE Flushed(t)
  <2> SUFFICES ASSUME slot[t] # Unused, slot'[t] = Unused, peer'[slot[t].client] = "completed"
               PROVE  \E w \in writes : /\ w.slot = t /\ w \notin writes'
                                        /\ w.from + w.len = slot[t].appended
    OBVIOUS
  <2>0. /\ ConnInv(slot[t]) /\ slot[t].client \in Clients /\ slot[t].state # "UNUSED"
        /\ slot'[t].state = "UNUSED" /\ slot'[t] # slot[t]
    BY <1>1, UnusedConn DEF IInv, SlotInv, ConnInv
  <2>1. ASSUME NEW s \in Slots, Cleanup(s, "gone") PROVE FALSE
    BY <1>1, <2>0, <2>1 DEF Cleanup, IInv, SlotInv, LoopInv
  <2>2. CASE StaysUsed
    BY <2>0, <2>2 DEF StaysUsed
  <2>3. ASSUME NEW c \in Clients, Accept(c) PROVE FALSE
    <3>1. \A u \in Slots : slot'[u] = slot[u] \/ slot'[u].state = "RECEIVING_FD"
      <4>1. CASE free = <<>>
        BY <2>3, <4>1 DEF Accept
      <4>2. CASE free # <<>>
        BY <1>1, <2>3, <4>2 DEF Accept, Conn, IInv, SlotInv
      <4> QED
        BY <4>1, <4>2
    <3> QED
      BY <2>0, <3>1
  <2>4. ASSUME NEW s \in Slots, RecvFails(s) PROVE FALSE
    BY <2>1, <2>4 DEF RecvFails
  <2>5. ASSUME NEW s \in Slots, RecvStart(s) PROVE FALSE
    BY <1>1, <2>0, <2>5 DEF RecvStart, IInv, SlotInv, Connections
  <2>6. ASSUME NEW s \in Slots,
               \/ FirstData(s) \/ Reap(s)
               \/ \E len \in 1..MessageUnits : Message(s, len) \/ MessageRefused(s, len)
        PROVE  StaysUsed
    BY <1>1, <2>6, FirstDataKeeps, MessageKeeps, ReapKeeps
  <2>7. ASSUME NEW s \in Slots, NEW result, TransferEnds(s, result) PROVE FALSE
    BY <1>1, <2>0, <2>7 DEF TransferEnds, IInv, SlotInv, Connections
  <2>8. ASSUME CheckDone \/ RoundEnds PROVE StaysUsed
    BY <1>1, <2>8, FlushKeeps DEF CheckDone, RoundEnds, outer, IInv, LoopInv
  <2>9. ASSUME NEW w \in writes, WriteFails(w) PROVE FALSE
    BY <1>1, <2>1, <2>9 DEF WriteFails, IInv, WriteInv
  <2>10. ASSUME NEW w \in writes, NEW n \in 1..w.len, WriteMore(w, n) \/ WriteDrains(w, n)
         PROVE  StaysUsed
    BY <1>1, <2>10, MoreKeeps, DrainsKeeps DEF WriteMore, WriteDrains, Handling, outer
  <2>11. ASSUME NEW w \in writes, NEW n \in 1..w.len, WriteLast(w, n)
         PROVE  w.slot = t /\ w \notin writes' /\ w.from + w.len = slot[t].appended
    <3>1. w.slot = t
      BY <1>1, <2>0, <2>11 DEF WriteLast, Cleanup, IInv, SlotInv
    <3> QED
      BY <1>1, <2>11, <3>1, AfterWriteKeeps DEF WriteLast
  <2>12. CASE UNCHANGED slot
    BY <2>0, <2>12
  <2> QED
    BY <1>1, <2>2, <2>3, <2>4, <2>5, <2>6, <2>7, <2>8, <2>9, <2>10, <2>11, <2>12
       DEF Next, CurlStep, WriteStep, StartReturns, CurlEvent, CurlReturns, Signal,
           BeginDrain, Stop, vars
<1>2. IInv /\ [Next]_vars =>
         [\A s \in Slots : slot[s] # Unused /\ slot'[s] = Unused
            /\ peer'[slot[s].client] = "completed" =>
               \E w \in writes : /\ w.slot = s /\ w \notin writes'
                                 /\ w.from + w.len = slot[s].appended]_vars
  BY <1>1
<1> QED
  BY <1>2, SpecIInv, PTL DEF Spec, CompletedIsFlushed

\* The dirty list has every connection with data, once, and a write is in flight for it
\* whenever the loop waits; and every variable keeps its type.
THEOREM SpecDataMoves == Spec => []DataMoves
<1>1. Init => DirtyInv /\ moved \subseteq Slots
  BY InitDirtyInv DEF Init
<1>2. /\ IInv /\ DirtyInv /\ [Next]_vars => DirtyInv'
      /\ moved \subseteq Slots /\ [Next]_vars => (moved \subseteq Slots)'
  BY NextDirtyInv, NextMoved
<1>3. IInv /\ DirtyInv /\ moved \subseteq Slots => DataMoves
  <2> SUFFICES ASSUME IInv, DirtyInv, moved \subseteq Slots PROVE DataMoves
    OBVIOUS
  <2>0. \A s \in Slots : MovesInv(s)
    BY DEF DirtyInv
  <2>1. ASSUME NEW s \in Slots PROVE ConnOK(slot[s])
    <3> DEFINE conn == slot[s]
    <3>1. /\ ConnInv(conn) /\ conn \in Connections /\ conn.appended <= MaxUnits
          /\ MaxUnits \in Nat
      BY <2>0, ConstantsAssumption DEF IInv, SlotInv, ConnInv, MovesInv, MaxUnits
    <3> HIDE DEF conn
    <3>2. conn.bytes_sent <= conn.appended /\ (conn.wb = None \/ conn.wb.capacity \in Nat)
      <4>1. CASE conn.wb = None
        BY <3>1, <4>1 DEF ConnInv
      <4>2. CASE conn.wb # None
        <5>1. WellFormed(conn.wb) /\ conn.appended = conn.bytes_sent + Size(conn.wb)
          BY <3>1, <4>2 DEF ConnInv
        <5>2. Size(conn.wb) \in Nat
          BY <5>1, HasDataSize
        <5> QED
          BY <3>1, <5>1, <5>2 DEF Connections, WellFormed, Buffer
      <4> QED
        BY <4>1, <4>2
    <3>3. conn.appended \in Units /\ conn.bytes_sent \in Units
      BY <3>1, <3>2 DEF Connections, Units
    <3> QED
      BY <3>1, <3>2, <3>3 DEF ConnOK, Conn, Connections, conn
  <2>2. writes \subseteq [slot : Slots, client : Clients, from : Units, len : Units \ {0}]
    <3>1. ASSUME NEW w \in writes
          PROVE  w.slot \in Slots /\ w.client \in Clients /\ w.from \in Units /\ w.len \in Units \ {0}
      <4>1. /\ w.slot \in Slots /\ w.client \in Clients /\ w.from \in Nat /\ w.len \in Nat
            /\ WriteFits(w, slot[w.slot])
        BY DEF IInv, WriteInv
      <4>2. slot[w.slot].appended \in Units
        BY <2>1, <4>1 DEF ConnOK
      <4> QED
        BY <4>1, <4>2, ConstantsAssumption DEF WriteFits, Units, MaxUnits
    <3> QED
      BY <3>1 DEF IInv, WriteInv
  <2>3. TypeOK
    <3>1. DOMAIN slot = Slots
      BY DEF IInv, SlotInv
    <3> QED
      BY <2>1, <2>2, <3>1 DEF TypeOK, IInv, FreeInv, RecvInv, LoopInv, DirtyInv, OnceEach
  <2>4. ASSUME NEW s \in Slots, Unsent(slot[s])
        PROVE  Listed(dirty, s) /\ (loop = "wait" /\ phase # "stopped" => Busy(slot[s]))
    BY <2>0, <2>4 DEF MovesInv
  <2>5. ASSUME NEW i \in DOMAIN dirty PROVE slot[dirty[i]].state \in {"CURL_ACTIVE", "CLOSING"}
    <3>1. dirty[i] \in Slots /\ Listed(dirty, dirty[i])
      BY DEF DirtyInv, OnceEach, Listed
    <3> QED
      BY <2>0, <3>1 DEF MovesInv
  <2>6. \A i, j \in DOMAIN dirty : dirty[i] = dirty[j] => i = j
    BY DEF DirtyInv, OnceEach
  <2> QED
    BY <2>3, <2>4, <2>5, <2>6 DEF DataMoves
<1> QED
  BY <1>1, <1>2, <1>3, SpecIInv, PTL DEF Spec

-----------------------------------------------------------------------------
(* CurlEvents: what the kernel does with a sequence of entries.            *)

\* Induction over the natural numbers, for a set.
LEMMA Induction ==
    ASSUME NEW T, 0 \in T, \A n \in Nat : n \in T => n + 1 \in T
    PROVE  \A n \in Nat : n \in T
<1> SUFFICES ASSUME NEW n \in Nat, n \notin T PROVE FALSE
  OBVIOUS
<1> DEFINE Out == Nat \ T
<1>1. \E x \in Out : \A y \in Out : ~ (<<y, x>> \in OpToRel(<, Nat))
  <2>1. Out \subseteq Nat /\ Out # {}
    OBVIOUS
  <2> HIDE DEF Out
  <2> QED
    BY <2>1, NatLessThanWellFounded, WFMin
<1>2. PICK x \in Out : \A y \in Out : ~ (<<y, x>> \in OpToRel(<, Nat))
  BY <1>1
<1>3. x \in Nat /\ x \notin T /\ \A y \in Nat : y \notin T => ~(y < x)
  BY <1>2 DEF OpToRel
<1>4. x - 1 \in Nat /\ x - 1 < x /\ (x - 1) + 1 = x
  BY <1>3
<1> QED
  BY <1>3, <1>4

\* The states that the kernel goes through when it is given a sequence of entries.
Run(entries, run) ==
    run = [i \in 0..Len(entries) |->
              IF i = 0 THEN [polls |-> polls, ended |-> ended, timers |-> timers, cqes |-> timer_cqes]
              ELSE Kernel(run[i - 1], entries[i])]

\* There is such a function for any sequence, built one entry at a time.
LEMMA RunExists ==
    ASSUME NEW S, NEW entries \in Seq(S)
    PROVE  \E run : Run(entries, run)
<1> DEFINE start == [polls |-> polls, ended |-> ended, timers |-> timers, cqes |-> timer_cqes]
           Upto(run, n) == run = [i \in 0..n |-> IF i = 0 THEN start ELSE Kernel(run[i - 1], entries[i])]
           T == {n \in Nat : \E run : Upto(run, n)}
<1>1. 0 \in T
  <2>1. Upto([i \in 0..0 |-> start], 0)
    OBVIOUS
  <2> HIDE DEF Upto
  <2> QED
    BY <2>1
<1>2. ASSUME NEW n \in Nat, n \in T PROVE n + 1 \in T
  <2>1. PICK run : Upto(run, n)
    BY <1>2
  <2> DEFINE more == [i \in 0..(n + 1) |-> IF i = n + 1 THEN Kernel(run[n], entries[n + 1]) ELSE run[i]]
  <2>2. \A i \in 0..(n + 1) : more[i] = IF i = 0 THEN start ELSE Kernel(more[i - 1], entries[i])
    <3> SUFFICES ASSUME NEW i \in 0..(n + 1)
                 PROVE  more[i] = IF i = 0 THEN start ELSE Kernel(more[i - 1], entries[i])
      OBVIOUS
    <3>1. CASE i = n + 1
      <4>1. more[i] = Kernel(run[n], entries[n + 1]) /\ i - 1 = n /\ n \in 0..(n + 1) /\ n # n + 1
        BY <3>1
      <4>2. more[n] = run[n]
        BY <4>1
      <4> QED
        BY <3>1, <4>1, <4>2
    <3>2. CASE i # n + 1
      <4>1. i \in 0..n /\ more[i] = run[i] /\ (i # 0 => i - 1 \in 0..n)
        BY <3>2
      <4>2. i # 0 => more[i - 1] = run[i - 1]
        BY <4>1
      <4>3. run[i] = IF i = 0 THEN start ELSE Kernel(run[i - 1], entries[i])
        BY <2>1, <4>1
      <4> QED
        BY <4>1, <4>2, <4>3
    <3> QED
      BY <3>1, <3>2
  <2>3. Upto(more, n + 1)
    BY <2>2
  <2> HIDE DEF Upto
  <2> QED
    BY <2>3
<1>3. \A n \in Nat : n \in T
  <2> HIDE DEF T
  <2> QED
    BY <1>1, <1>2, Induction
<1>4. Len(entries) \in T
  BY <1>3
<1> QED
  BY <1>4 DEF Run

\* io_uring_submit leaves the last of those states.
LEMMA ProcessedRun ==
    ASSUME NEW S, NEW entries \in Seq(S)
    PROVE  \E run : Run(entries, run) /\ Processed(entries) = run[Len(entries)]
<1>1. \E run : Run(entries, run)
  BY RunExists
<1>2. Run(entries, CHOOSE run : Run(entries, run))
  BY <1>1
<1>3. Processed(entries) = (CHOOSE run : Run(entries, run))[Len(entries)]
  BY DEF Processed, Run
<1> QED
  BY <1>2, <1>3

\* The entries that wait for a later submission: socket_callback and timer_callback
\* leave cancellations only.
Quiet == {PollCancel(fd) : fd \in Fds} \cup {TimeoutRemove(id) : id \in 1..MaxTimers}

\* One of the first n entries cancels the poll of the socket f, ...
CancelsUpto(entries, n, f) ==
    \E j \in 1..n : entries[j].op = "cancel" /\ file[entries[j].fd] = f

\* ... or removes the timer.
RemovesUpto(entries, n, id) == \E j \in 1..n : entries[j] = TimeoutRemove(id)

\* The completions of the timers that may be removed.
Unfired == {[id |-> id, fired |-> FALSE] : id \in timers}

\* What has become of the kernel's polls and timers after n cancellations.
Quieted(k, entries, n) ==
    /\ k = [polls |-> k.polls, ended |-> ended, timers |-> k.timers, cqes |-> k.cqes]
    /\ k.polls = {p \in polls : ~CancelsUpto(entries, n, p.file)}
    /\ k.timers \subseteq timers
    /\ \A id \in timers : ~RemovesUpto(entries, n, id) => id \in k.timers
    /\ timer_cqes \subseteq k.cqes /\ k.cqes \subseteq timer_cqes \cup Unfired

\* The kernel's state after a number of cancellations.
LEMMA RunQuiet ==
    ASSUME EventsTypeOK, NEW S, NEW entries \in Seq(S), NEW run, Run(entries, run),
           NEW n \in 0..Len(entries), \A j \in 1..n : entries[j] \in Quiet
    PROVE  Quieted(run[n], entries, n)
<1> DEFINE T == {i \in Nat : i <= n => Quieted(run[i], entries, i)}
<1>0. /\ run[0] = [polls |-> polls, ended |-> ended, timers |-> timers, cqes |-> timer_cqes]
      /\ \A i \in 1..n : run[i] = Kernel(run[i - 1], entries[i])
      /\ n \in Nat
  <2>1. \A i \in 0..Len(entries) :
           run[i] = IF i = 0 THEN [polls |-> polls, ended |-> ended, timers |-> timers, cqes |-> timer_cqes]
                    ELSE Kernel(run[i - 1], entries[i])
    BY DEF Run
  <2>2. Len(entries) \in Nat
    OBVIOUS
  <2> QED
    BY <2>1, <2>2
<1>1. 0 \in T
  BY <1>0 DEF Quieted, CancelsUpto, RemovesUpto
<1>2. ASSUME NEW i \in Nat, i \in T PROVE i + 1 \in T
  <2> SUFFICES ASSUME i + 1 <= n PROVE Quieted(run[i + 1], entries, i + 1)
    OBVIOUS
  <2> DEFINE k == run[i]
             e == entries[i + 1]
             new == run[i + 1]
  <2>1. Quieted(k, entries, i) /\ e \in Quiet /\ new = Kernel(k, e)
    BY <1>0, <1>2
  <2>2. \A f : CancelsUpto(entries, i + 1, f) <=>
                 CancelsUpto(entries, i, f) \/ (e.op = "cancel" /\ file[e.fd] = f)
    BY DEF CancelsUpto
  <2>3. \A id : RemovesUpto(entries, i + 1, id) <=>
                  RemovesUpto(entries, i, id) \/ e = TimeoutRemove(id)
    BY DEF RemovesUpto
  <2>4. \A p \in polls : p.file # 0
    BY DEF EventsTypeOK
  <2> HIDE DEF k, e, new
  <2>0. \E P, M, C : k = [polls |-> P, ended |-> ended, timers |-> M, cqes |-> C]
    BY <2>1 DEF Quieted
  <2>5. ASSUME NEW fd \in Fds, e = PollCancel(fd) PROVE Quieted(new, entries, i + 1)
    <3>1. e.op = "cancel" /\ e.fd = fd /\ \A id : e # TimeoutRemove(id)
      BY <2>5 DEF PollCancel, TimeoutRemove
    <3>2. CASE file[fd] = 0
      <4>1. new = k
        BY <2>1, <3>1, <3>2 DEF Kernel
      <4>2. {p \in polls : ~CancelsUpto(entries, i + 1, p.file)}
              = {p \in polls : ~CancelsUpto(entries, i, p.file)}
        BY <2>2, <2>4, <3>1, <3>2
      <4> QED
        BY <2>1, <2>3, <3>1, <4>1, <4>2 DEF Quieted
    <3>3. CASE file[fd] # 0
      <4> DEFINE Q == {p \in k.polls : p.file # file[fd]}
      <4>1. new = [k EXCEPT !.polls = Q]
        BY <2>1, <3>1, <3>3 DEF Kernel
      <4> HIDE DEF Q
      <4>2. new = [polls |-> Q, ended |-> ended,
                   timers |-> k.timers, cqes |-> k.cqes]
        BY <2>0, <4>1
      <4>3. {p \in polls : ~CancelsUpto(entries, i + 1, p.file)} = Q
        BY <2>1, <2>2, <3>1 DEF Quieted, Q
      <4> QED
        BY <2>1, <2>3, <3>1, <4>2, <4>3 DEF Quieted
    <3> QED
      BY <3>2, <3>3
  <2>6. ASSUME NEW id \in 1..MaxTimers, e = TimeoutRemove(id) PROVE Quieted(new, entries, i + 1)
    <3>1. e.op = "remove" /\ e.id = id
      BY <2>6 DEF TimeoutRemove
    <3>2. {p \in polls : ~CancelsUpto(entries, i + 1, p.file)} = k.polls
      BY <2>1, <2>2, <3>1 DEF Quieted
    <3>3. CASE id \notin k.timers
      <4>1. new = k
        BY <2>1, <3>1, <3>3 DEF Kernel
      <4> QED
        BY <2>1, <2>3, <2>6, <3>2, <4>1 DEF Quieted
    <3>4. CASE id \in k.timers
      <4> DEFINE M == k.timers \ {id}
                 C == k.cqes \cup {[id |-> id, fired |-> FALSE]}
      <4>1. new = [k EXCEPT !.timers = M, !.cqes = C]
        BY <2>1, <3>1, <3>4 DEF Kernel
      <4> HIDE DEF M, C
      <4>2. new = [polls |-> k.polls, ended |-> ended, timers |-> M, cqes |-> C]
        <5>1. PICK P, N, D : k = [polls |-> P, ended |-> ended, timers |-> N, cqes |-> D]
          BY <2>0
        <5>2. [k EXCEPT !.timers = M, !.cqes = C]
                = [polls |-> P, ended |-> ended, timers |-> M, cqes |-> C]
          <6>1. [k EXCEPT !.timers = M]
                  = [polls |-> P, ended |-> ended, timers |-> M, cqes |-> D]
            BY <5>1
          <6>2. [[k EXCEPT !.timers = M] EXCEPT !.cqes = C]
                  = [polls |-> P, ended |-> ended, timers |-> M, cqes |-> C]
            <7> DEFINE one == [k EXCEPT !.timers = M]
            <7> HIDE DEF one
            <7>1. one = [polls |-> P, ended |-> ended, timers |-> M, cqes |-> D]
              BY <6>1 DEF one
            <7>2. [one EXCEPT !.cqes = C]
                    = [polls |-> P, ended |-> ended, timers |-> M, cqes |-> C]
              BY ONLY <7>1
            <7> QED
              BY <7>2 DEF one
          <6> QED
            BY <6>2
        <5> QED
          BY <4>1, <5>1, <5>2
      <4>3. [id |-> id, fired |-> FALSE] \in Unfired
        BY <2>1, <3>4 DEF Quieted, Unfired
      <4>4. \A j \in timers : ~RemovesUpto(entries, i + 1, j) => j \in M
        BY <2>1, <2>3, <2>6 DEF Quieted, M
      <4>5. M \subseteq timers /\ timer_cqes \subseteq C /\ C \subseteq timer_cqes \cup Unfired
        BY <2>1, <4>3 DEF Quieted, M, C
      <4> QED
        BY <3>2, <4>2, <4>4, <4>5 DEF Quieted
    <3> QED
      BY <3>3, <3>4
  <2> QED
    BY <2>1, <2>5, <2>6 DEF Quiet, new
<1>3. \A i \in Nat : i \in T
  <2> HIDE DEF T
  <2> QED
    BY <1>1, <1>2, Induction
<1> QED
  BY <1>0, <1>3

-----------------------------------------------------------------------------
(* The inductive invariant of CurlEvents.                                  *)

\* A number is a socket of its own, sockets are numbered in the order in which they are
\* opened, and a poll is on the number that its socket has.
FileInv ==
    /\ \A a, b \in Fds : file[a] = file[b] /\ file[a] # 0 => a = b
    /\ \A fd \in Fds : file[fd] <= opened
    /\ \A p \in polls : p.file <= opened
    /\ \A f \in ended : f <= opened
    /\ \A p \in polls, fd \in Fds : p.file = file[fd] => p.fd = fd

\* What the manager records of a socket is what libcurl waits for.
SocketInv ==
    \A fd \in Fds :
        IF wants[fd] = NoMask THEN sockets[fd] = NoInfo
        ELSE sockets[fd] = Info(wants[fd], TRUE) /\ file[fd] # 0

\* Entries that wait are of sockets and timers that libcurl no longer asks for.
QueueInv ==
    /\ sq \in Seq(Quiet)
    /\ \A i \in DOMAIN sq : sq[i].op = "cancel" => wants[sq[i].fd] = NoMask
    /\ \A i \in DOMAIN sq : sq[i].op = "remove" => wanted = 0

\* The queue holds a cancellation of the poll on the number fd.
Cancels(q, fd) == \E i \in DOMAIN q : q[i].op = "cancel" /\ q[i].fd = fd

Pending(fd) == Cancels(sq, fd)

\* A socket whose poll is not about to be cancelled has the poll that libcurl asked for,
\* or had it until the kernel ended it.
Follows(fd) ==
    /\ \A p \in polls : p.file = file[fd] => p.mask = wants[fd]
    /\ wants[fd] # NoMask => file[fd] \in ended \/ \E p \in polls : p.file = file[fd]

\* Every socket that is open follows, or is about to lose its poll.
PollInv == \A fd \in Fds : file[fd] # 0 /\ ~Pending(fd) => Follows(fd)

\* The inductive invariant.
EventsInv ==
    /\ EventsTypeOK
    /\ FileInv
    /\ SocketInv
    /\ QueueInv
    /\ PollInv
    /\ TimerFollowsWants

-----------------------------------------------------------------------------
(* Submission.                                                             *)

\* A record of a cancellation or a removal, and what it is not.
LEMMA QuietIs ==
    ASSUME NEW e \in Quiet
    PROVE  \/ /\ e.op = "cancel" /\ e.fd \in Fds /\ e = PollCancel(e.fd)
              /\ \A id : e # TimeoutRemove(id)
           \/ e.op = "remove" /\ e.id \in 1..MaxTimers /\ e = TimeoutRemove(e.id)
BY DEF Quiet, PollCancel, TimeoutRemove

\* What is done to the polls of a socket depends on the entries with its number only.
LEMMA CancelsOf ==
    ASSUME FileInv, NEW entries \in Seq(Quiet), NEW fd \in Fds, file[fd] # 0
    PROVE  CancelsUpto(entries, Len(entries), file[fd]) <=>
             Cancels(entries, fd)
<1>1. DOMAIN entries = 1..Len(entries) /\ \A i \in DOMAIN entries : entries[i] \in Quiet
  OBVIOUS
<1>2. ASSUME NEW i \in DOMAIN entries, entries[i].op = "cancel"
      PROVE  file[entries[i].fd] = file[fd] <=> entries[i].fd = fd
  <2>1. entries[i].fd \in Fds
    BY <1>1, <1>2, QuietIs
  <2> QED
    BY <2>1 DEF FileInv
<1> QED
  BY <1>1, <1>2 DEF CancelsUpto, Cancels

\* Cancellations alone.
LEMMA ProcessedQuiet ==
    ASSUME EventsTypeOK, NEW entries \in Seq(Quiet)
    PROVE  Quieted(Processed(entries), entries, Len(entries))
<1>1. PICK run : Run(entries, run) /\ Processed(entries) = run[Len(entries)]
  BY ProcessedRun
<1>2. \A j \in 1..Len(entries) : entries[j] \in Quiet
  OBVIOUS
<1>3. Quieted(run[Len(entries)], entries, Len(entries))
  BY <1>1, <1>2, RunQuiet
<1> QED
  BY <1>1, <1>3

\* Cancellations and one more entry.
LEMMA ProcessedLast ==
    ASSUME EventsTypeOK, NEW entries \in Seq(Quiet), NEW e
    PROVE  \E k : /\ Quieted(k, entries, Len(entries))
                  /\ Processed(entries \o <<e>>) = Kernel(k, e)
<1> DEFINE all == entries \o <<e>>
           n == Len(entries)
<1>1. /\ all \in Seq(Quiet \cup {e}) /\ Len(all) = n + 1 /\ n \in Nat
      /\ all[n + 1] = e /\ \A j \in 1..n : all[j] = entries[j] /\ entries[j] \in Quiet
  OBVIOUS
<1> HIDE DEF all
<1>2. PICK run : Run(all, run) /\ Processed(all) = run[Len(all)]
  BY <1>1, ProcessedRun
<1>3. Quieted(run[n], all, n)
  BY <1>1, <1>2, RunQuiet
<1>4. run[n + 1] = Kernel(run[n], e)
  <2>1. \A i \in 0..Len(all) :
           run[i] = IF i = 0 THEN [polls |-> polls, ended |-> ended, timers |-> timers, cqes |-> timer_cqes]
                    ELSE Kernel(run[i - 1], all[i])
    BY <1>2 DEF Run
  <2>2. n + 1 \in 0..Len(all) /\ n + 1 # 0 /\ (n + 1) - 1 = n
    BY <1>1
  <2> QED
    BY <1>1, <2>1, <2>2
<1>5. Quieted(run[n], entries, n)
  <2>1. \A f : CancelsUpto(all, n, f) <=> CancelsUpto(entries, n, f)
    BY <1>1 DEF CancelsUpto
  <2>2. \A id : RemovesUpto(all, n, id) <=> RemovesUpto(entries, n, id)
    BY <1>1 DEF RemovesUpto
  <2> QED
    BY <1>3, <2>1, <2>2 DEF Quieted
<1> QED
  BY <1>1, <1>2, <1>4, <1>5 DEF all

\* What cancellations do to the polls, seen from a socket, and to the timers.
LEMMA QuietedKeeps ==
    ASSUME EventsInv, NEW q \in Seq(Quiet), NEW k, Quieted(k, q, Len(q))
    PROVE  /\ k.polls \subseteq polls /\ k.ended = ended /\ k.timers \subseteq timers
           /\ timer_cqes \subseteq k.cqes
           /\ k.cqes \subseteq [id : 1..MaxTimers, fired : BOOLEAN]
           /\ \A p \in polls, fd \in Fds : p.file = file[fd] =>
                (p \in k.polls <=> ~Cancels(q, fd))
<1>1. /\ k.polls = {p \in polls : ~CancelsUpto(q, Len(q), p.file)} /\ k.timers \subseteq timers
      /\ timer_cqes \subseteq k.cqes /\ k.cqes \subseteq timer_cqes \cup Unfired
  BY DEF Quieted
<1>2. k.ended = ended
  <2>1. k = [polls |-> k.polls, ended |-> ended, timers |-> k.timers, cqes |-> k.cqes]
    BY DEF Quieted
  <2> DEFINE P == k.polls
             M == k.timers
             C == k.cqes
  <2>2. k = [polls |-> P, ended |-> ended, timers |-> M, cqes |-> C]
    BY <2>1
  <2> HIDE DEF P, M, C
  <2> QED
    BY <2>2
<1>3. ASSUME NEW u \in Unfired PROVE u \in [id : 1..MaxTimers, fired : BOOLEAN]
  <2>1. PICK id \in timers : u = [id |-> id, fired |-> FALSE]
    BY DEF Unfired
  <2>2. id \in 1..MaxTimers
    BY DEF EventsInv, EventsTypeOK
  <2> QED
    BY <2>1, <2>2
<1>4. k.cqes \subseteq [id : 1..MaxTimers, fired : BOOLEAN]
  BY <1>1, <1>3 DEF EventsInv, EventsTypeOK
<1>5. ASSUME NEW p \in polls, NEW fd \in Fds, p.file = file[fd]
      PROVE  p \in k.polls <=> ~Cancels(q, fd)
  <2>1. file[fd] # 0
    BY <1>5 DEF EventsInv, EventsTypeOK
  <2>2. CancelsUpto(q, Len(q), file[fd]) <=> Cancels(q, fd)
    BY <2>1, CancelsOf DEF EventsInv
  <2> QED
    BY <1>1, <1>5, <2>2
<1> QED
  BY <1>1, <1>2, <1>4, <1>5

\* A socket follows after its pending cancellation as it did without one.
LEMMA QuietedFollows ==
    ASSUME EventsInv, NEW q \in Seq(Quiet), NEW k, Quieted(k, q, Len(q)),
           NEW fd \in Fds, file[fd] # 0,
           Pending(fd) <=> Cancels(q, fd)
    PROVE  /\ \A p \in k.polls : p.file = file[fd] => p.mask = wants[fd]
           /\ wants[fd] # NoMask => file[fd] \in ended \/ \E p \in k.polls : p.file = file[fd]
<1>1. /\ k.polls \subseteq polls
      /\ \A p \in polls : p.file = file[fd] => (p \in k.polls <=> ~Pending(fd))
  BY QuietedKeeps
<1>2. CASE Pending(fd)
  <2>1. wants[fd] = NoMask
    BY <1>2 DEF EventsInv, QueueInv, Pending, Cancels
  <2> QED
    BY <1>1, <1>2, <2>1
<1>3. CASE ~Pending(fd)
  <2>1. Follows(fd)
    BY <1>3 DEF EventsInv, PollInv
  <2> QED
    BY <1>1, <1>3, <2>1 DEF Follows
<1> QED
  BY <1>2, <1>3

\* While libcurl has a timer set, nothing that waits in the queue removes one.
LEMMA QuietedTimers ==
    ASSUME EventsInv, NEW q \in Seq(Quiet), NEW k, Quieted(k, q, Len(q)), wanted # 0,
           \A i \in DOMAIN q : q[i].op = "remove" => \E j \in DOMAIN sq : sq[j] = q[i]
    PROVE  k.timers = timers
<1>1. ASSUME NEW id, RemovesUpto(q, Len(q), id) PROVE FALSE
  <2>1. PICK i \in DOMAIN q : q[i].op = "remove"
    BY <1>1 DEF RemovesUpto, TimeoutRemove
  <2>2. PICK j \in DOMAIN sq : sq[j].op = "remove"
    BY <2>1
  <2> QED
    BY <2>2 DEF EventsInv, QueueInv
<1> QED
  BY <1>1 DEF Quieted

\* ring_submit at the end of a round.
LEMMA SubmitKeeps == ASSUME EventsInv, Submit PROVE EventsInv'
<1> DEFINE k == Processed(sq)
<1>1. sq \in Seq(Quiet)
  BY DEF EventsInv, QueueInv
<1>2. Quieted(k, sq, Len(sq))
  BY <1>1, ProcessedQuiet DEF EventsInv
<1>3. /\ sq' = <<>> /\ polls' = k.polls /\ ended' = k.ended /\ timers' = k.timers
      /\ timer_cqes' = k.cqes
      /\ UNCHANGED <<round, file, opened, wants, sockets, wanted, timer_id, timer_active>>
  BY DEF Submit, SubmitNow
<1> HIDE DEF k
<1>4. /\ k.polls \subseteq polls /\ k.ended = ended /\ k.timers \subseteq timers
      /\ timer_cqes \subseteq k.cqes /\ k.cqes \subseteq [id : 1..MaxTimers, fired : BOOLEAN]
  BY <1>1, <1>2, QuietedKeeps
<1>5. EventsTypeOK'
  BY <1>3, <1>4 DEF EventsInv, EventsTypeOK
<1>6. FileInv' /\ SocketInv'
  BY <1>3, <1>4 DEF EventsInv, FileInv, SocketInv
<1>7. QueueInv'
  BY <1>3 DEF QueueInv
<1>8. PollInv'
  <2>1. ASSUME NEW fd \in Fds, file[fd] # 0
        PROVE  /\ \A p \in k.polls : p.file = file[fd] => p.mask = wants[fd]
               /\ wants[fd] # NoMask =>
                    file[fd] \in ended \/ \E p \in k.polls : p.file = file[fd]
    BY <1>1, <1>2, <2>1, QuietedFollows DEF Pending
  <2> QED
    BY <1>3, <1>4, <2>1 DEF PollInv, Follows
<1>9. TimerFollowsWants'
  <2>1. wanted # 0 => k.timers = timers
    BY <1>1, <1>2, QuietedTimers
  <2>2. timer_active => wanted # 0
    BY DEF EventsInv, EventsTypeOK, TimerFollowsWants, ActiveTimerIsWanted
  <2> QED
    BY <1>3, <1>4, <2>1, <2>2
       DEF EventsInv, TimerFollowsWants, TimeoutIsArmed, ActiveTimerIsWanted
<1> QED
  BY <1>5, <1>6, <1>7, <1>8, <1>9 DEF EventsInv

\* A poll that is added.
LEMMA KernelPoll ==
    ASSUME NEW k, NEW q, NEW n, Quieted(k, q, n), NEW fd, NEW mask, file[fd] # 0
    PROVE  Kernel(k, PollAdd(fd, mask))
             = [polls |-> k.polls \cup {Poll(fd, file[fd], mask)}, ended |-> ended \ {file[fd]},
                timers |-> k.timers, cqes |-> k.cqes]
<1> DEFINE P == k.polls
           M == k.timers
           C == k.cqes
           e == PollAdd(fd, mask)
           Q == P \cup {Poll(fd, file[fd], mask)}
           D == ended \ {file[fd]}
<1>1. k = [polls |-> P, ended |-> ended, timers |-> M, cqes |-> C]
  BY DEF Quieted
<1>2. e.op = "poll" /\ e.fd = fd /\ e.mask = mask
  BY DEF PollAdd
<1>3. Kernel(k, e) = [k EXCEPT !.polls = @ \cup {Poll(e.fd, file[e.fd], e.mask)},
                               !.ended = @ \ {file[e.fd]}]
  BY <1>2 DEF Kernel
<1>4. k.ended = ended
  <2> HIDE DEF P, M, C
  <2> QED
    BY <1>1
<1>5. Kernel(k, e) = [k EXCEPT !.polls = Q, !.ended = D]
  BY <1>2, <1>3, <1>4
<1> HIDE DEF P, M, C, e, Q, D
<1> DEFINE one == [k EXCEPT !.polls = Q]
<1>6. one = [polls |-> Q, ended |-> ended, timers |-> M, cqes |-> C]
  BY <1>1
<1>7. Kernel(k, e) = [one EXCEPT !.ended = D]
  BY <1>5
<1> HIDE DEF one
<1>8. [one EXCEPT !.ended = D] = [polls |-> Q, ended |-> D, timers |-> M, cqes |-> C]
  BY ONLY <1>6
<1>9. Kernel(k, e) = [polls |-> Q, ended |-> D, timers |-> M, cqes |-> C]
  BY <1>7, <1>8
<1> QED
  BY <1>9 DEF P, M, C, e, Q, D

\* A timeout that is set.
LEMMA KernelTimeout ==
    ASSUME NEW k, NEW q, NEW n, Quieted(k, q, n), NEW id
    PROVE  Kernel(k, Timeout(id))
             = [polls |-> k.polls, ended |-> ended, timers |-> k.timers \cup {id}, cqes |-> k.cqes]
<1> DEFINE P == k.polls
           M == k.timers
           C == k.cqes
           e == Timeout(id)
           N == M \cup {id}
<1>1. k = [polls |-> P, ended |-> ended, timers |-> M, cqes |-> C]
  BY DEF Quieted
<1>2. e.op = "timeout" /\ e.id = id
  BY DEF Timeout
<1>3. Kernel(k, e) = [k EXCEPT !.timers = @ \cup {e.id}]
  BY <1>2 DEF Kernel
<1>4. Kernel(k, e) = [k EXCEPT !.timers = N]
  BY <1>2, <1>3
<1> HIDE DEF P, M, C, e, N
<1>5. Kernel(k, e) = [polls |-> P, ended |-> ended, timers |-> N, cqes |-> C]
  BY <1>1, <1>4
<1> QED
  BY <1>5 DEF P, M, C, e, N

\* The entries of socket_callback: the cancellation, if there is one, is the only one that
\* the queue does not have already.
LEMMA WaitsSubmits ==
    ASSUME EventsInv, NEW fd \in Fds, NEW mask \in Masks, Waits(fd, mask)
    PROVE  \E q, k :
              /\ q \in Seq(Quiet) /\ Quieted(k, q, Len(q))
              /\ sq' = <<>> /\ polls' = k.polls \cup {Poll(fd, file[fd], mask)}
              /\ ended' = ended \ {file[fd]} /\ timers' = k.timers /\ timer_cqes' = k.cqes
              /\ \A g \in Fds : (g # fd \/ ~sockets[fd].poll_active \/ sockets[fd].poll_mask = mask) =>
                    (Pending(g) <=> Cancels(q, g))
              /\ sockets[fd].poll_active /\ sockets[fd].poll_mask # mask => Cancels(q, fd)
              /\ \A i \in DOMAIN q : q[i].op = "remove" => \E j \in DOMAIN sq : sq[j] = q[i]
<1> DEFINE old == sockets[fd].poll_active /\ sockets[fd].poll_mask # mask
           q == sq \o (IF old THEN <<PollCancel(fd)>> ELSE <<>>)
<1>1. sq \in Seq(Quiet) /\ PollCancel(fd) \in Quiet /\ EventsTypeOK /\ file[fd] # 0
  BY DEF EventsInv, QueueInv, Quiet, Waits
<1>2. /\ q \in Seq(Quiet)
      /\ \A i \in DOMAIN sq : i \in DOMAIN q /\ q[i] = sq[i]
      /\ \A i \in DOMAIN q : i \in DOMAIN sq \/ (old /\ q[i] = PollCancel(fd))
      /\ old => \E i \in DOMAIN q : q[i] = PollCancel(fd)
  <2>1. CASE old
    <3>1. q = sq \o <<PollCancel(fd)>>
      BY <2>1
    <3>2. Len(q) \in DOMAIN q /\ q[Len(q)] = PollCancel(fd)
      BY <1>1, <3>1
    <3> QED
      BY <1>1, <2>1, <3>1, <3>2
  <2>2. CASE ~old
    <3>1. q = sq
      BY <1>1, <2>2
    <3> QED
      BY <1>1, <2>2, <3>1
  <2> QED
    BY <2>1, <2>2
<1>3. SubmitNow(q \o <<PollAdd(fd, mask)>>)
  BY DEF Waits
<1> HIDE DEF q
<1>4. PICK k : Quieted(k, q, Len(q)) /\ Processed(q \o <<PollAdd(fd, mask)>>) = Kernel(k, PollAdd(fd, mask))
  BY <1>1, <1>2, ProcessedLast
<1>5. Processed(q \o <<PollAdd(fd, mask)>>)
        = [polls |-> k.polls \cup {Poll(fd, file[fd], mask)}, ended |-> ended \ {file[fd]},
           timers |-> k.timers, cqes |-> k.cqes]
  BY <1>1, <1>4, KernelPoll
<1>6. /\ sq' = <<>> /\ polls' = k.polls \cup {Poll(fd, file[fd], mask)}
      /\ ended' = ended \ {file[fd]} /\ timers' = k.timers /\ timer_cqes' = k.cqes
  BY <1>3, <1>5 DEF SubmitNow
<1>7. PollCancel(fd).op = "cancel" /\ PollCancel(fd).fd = fd
  BY DEF PollCancel
<1>8. \A g \in Fds : (g # fd \/ ~old) =>
         (Pending(g) <=> Cancels(q, g))
  BY <1>2, <1>7 DEF Pending, Cancels
<1>9. old => Cancels(q, fd)
  BY <1>2, <1>7 DEF Cancels
<1>10. \A i \in DOMAIN q : q[i].op = "remove" => \E j \in DOMAIN sq : sq[j] = q[i]
  BY <1>2, <1>7
<1> QED
  BY <1>2, <1>4, <1>6, <1>8, <1>9, <1>10

\* socket_callback with a new mask: no earlier poll of the socket is left beside the one
\* that is added.
LEMMA WaitsKeeps ==
    ASSUME EventsInv, NEW fd \in Fds, NEW mask \in Masks, Waits(fd, mask)
    PROVE  EventsInv'
<1> DEFINE new == Poll(fd, file[fd], mask)
<1>1. PICK q, k :
         /\ q \in Seq(Quiet) /\ Quieted(k, q, Len(q))
         /\ sq' = <<>> /\ polls' = k.polls \cup {Poll(fd, file[fd], mask)}
         /\ ended' = ended \ {file[fd]} /\ timers' = k.timers /\ timer_cqes' = k.cqes
         /\ \A g \in Fds : (g # fd \/ ~sockets[fd].poll_active \/ sockets[fd].poll_mask = mask) =>
               (Pending(g) <=> Cancels(q, g))
         /\ sockets[fd].poll_active /\ sockets[fd].poll_mask # mask => Cancels(q, fd)
         /\ \A i \in DOMAIN q : q[i].op = "remove" => \E j \in DOMAIN sq : sq[j] = q[i]
  BY WaitsSubmits
<1>2. /\ wants' = [wants EXCEPT ![fd] = mask] /\ sockets' = [sockets EXCEPT ![fd] = Info(mask, TRUE)]
      /\ UNCHANGED <<round, file, opened, wanted, timer_id, timer_active>>
      /\ file[fd] # 0 /\ wants[fd] # mask
  BY DEF Waits
<1>3. /\ k.polls \subseteq polls /\ k.timers \subseteq timers
      /\ timer_cqes \subseteq k.cqes /\ k.cqes \subseteq [id : 1..MaxTimers, fired : BOOLEAN]
      /\ \A p \in polls, g \in Fds : p.file = file[g] => (p \in k.polls <=> ~Cancels(q, g))
  BY <1>1, QuietedKeeps
<1>4. /\ polls' = k.polls \cup {new}
      /\ new \in [fd : Fds, file : 1..MaxFiles, mask : Masks]
      /\ new.fd = fd /\ new.file = file[fd] /\ new.mask = mask
  BY <1>1, <1>2 DEF EventsInv, EventsTypeOK, Poll
<1>5. /\ wants \in [Fds -> Masks \cup {NoMask}] /\ mask # NoMask
      /\ sockets \in [Fds -> [poll_mask : Masks \cup {NoMask}, poll_active : BOOLEAN]]
      /\ Info(mask, TRUE) \in [poll_mask : Masks \cup {NoMask}, poll_active : BOOLEAN]
      /\ Info(mask, TRUE).poll_active /\ Info(mask, TRUE).poll_mask = mask
  BY EventsAssumption DEF EventsInv, EventsTypeOK, Info
<1> HIDE DEF new
<1>6. EventsTypeOK'
  <2>1. polls' \subseteq [fd : Fds, file : 1..MaxFiles, mask : Masks]
    BY <1>1, <1>3, <1>4 DEF EventsInv, EventsTypeOK
  <2> QED
    BY <1>1, <1>2, <1>3, <1>5, <2>1 DEF EventsInv, EventsTypeOK
<1>7. FileInv'
  BY <1>1, <1>2, <1>3, <1>4 DEF EventsInv, FileInv
<1>8. SocketInv'
  BY <1>2, <1>5 DEF EventsInv, SocketInv
<1>9. QueueInv'
  BY <1>1 DEF QueueInv
<1>10. ASSUME NEW p \in k.polls, p.file = file[fd] PROVE FALSE
  <2>1. p \in polls /\ ~Cancels(q, fd)
    BY <1>3, <1>10
  <2>2. ~sockets[fd].poll_active \/ sockets[fd].poll_mask = mask
    BY <1>1, <2>1
  <2>3. wants[fd] = NoMask
    <3>1. wants[fd] # NoMask => sockets[fd] = Info(wants[fd], TRUE)
      BY DEF EventsInv, SocketInv
    <3>2. Info(wants[fd], TRUE).poll_active /\ Info(wants[fd], TRUE).poll_mask = wants[fd]
      BY DEF Info
    <3> QED
      BY <1>2, <2>2, <3>1, <3>2
  <2>4. ~Pending(fd)
    BY <1>1, <2>1, <2>2
  <2>5. p.mask = NoMask
    BY <1>2, <1>10, <2>1, <2>3, <2>4 DEF EventsInv, PollInv, Follows
  <2>6. p.mask \in Masks
    BY <2>1 DEF EventsInv, EventsTypeOK
  <2> QED
    BY <2>5, <2>6, EventsAssumption
<1>11. PollInv'
  <2> SUFFICES ASSUME NEW g \in Fds, file[g] # 0 PROVE Follows(g)'
    BY <1>2 DEF PollInv
  <2>1. CASE g = fd
    <3>1. wants'[g] = mask
      BY <1>2, <1>5, <2>1
    <3> QED
      BY <1>1, <1>2, <1>4, <1>10, <2>1, <3>1 DEF Follows
  <2>2. CASE g # fd
    <3>1. wants'[g] = wants[g] /\ file[g] # file[fd]
      BY <1>2, <1>5, <2>2 DEF EventsInv, FileInv
    <3>2. /\ \A p \in k.polls : p.file = file[g] => p.mask = wants[g]
          /\ wants[g] # NoMask => file[g] \in ended \/ \E p \in k.polls : p.file = file[g]
      <4>1. Pending(g) <=> Cancels(q, g)
        BY <1>1, <2>2
      <4> QED
        BY <1>1, <4>1, QuietedFollows
    <3> QED
      BY <1>1, <1>2, <1>4, <3>1, <3>2 DEF Follows
  <2> QED
    BY <2>1, <2>2
<1>12. TimerFollowsWants'
  <2>1. wanted # 0 => k.timers = timers
    BY <1>1, QuietedTimers
  <2>2. timer_active => wanted # 0
    BY DEF EventsInv, EventsTypeOK, TimerFollowsWants, ActiveTimerIsWanted
  <2> QED
    BY <1>1, <1>2, <1>3, <2>1, <2>2
       DEF EventsInv, TimerFollowsWants, TimeoutIsArmed, ActiveTimerIsWanted
<1> QED
  BY <1>6, <1>7, <1>8, <1>9, <1>11, <1>12 DEF EventsInv

\* timer_callback with a time: the timer that it sets is in the kernel, whichever one was
\* removed before.
LEMMA TimerSetKeeps == ASSUME EventsInv, TimerSet PROVE EventsInv'
<1> DEFINE id == timer_id + 1
           q == sq \o (IF timer_active THEN <<TimeoutRemove(timer_id)>> ELSE <<>>)
<1>1. /\ sq \in Seq(Quiet) /\ EventsTypeOK
      /\ timer_id \in Nat /\ id \in 1..MaxTimers
  BY EventsAssumption DEF EventsInv, EventsTypeOK, QueueInv, TimerSet
<1>2. timer_active => TimeoutRemove(timer_id) \in Quiet
  <2>1. timer_active => timer_id \in 1..MaxTimers
    <3>1. timer_active => timer_id \in timers \/ [id |-> timer_id, fired |-> TRUE] \in timer_cqes
      BY DEF EventsInv, TimerFollowsWants, ActiveTimerIsWanted
    <3> QED
      BY <1>1, <3>1 DEF EventsTypeOK
  <2> QED
    BY <2>1 DEF Quiet
<1>3. /\ q \in Seq(Quiet)
      /\ \A i \in DOMAIN sq : i \in DOMAIN q /\ q[i] = sq[i]
      /\ \A i \in DOMAIN q : i \in DOMAIN sq \/ q[i] = TimeoutRemove(timer_id)
  <2>1. CASE timer_active
    <3>1. q = sq \o <<TimeoutRemove(timer_id)>>
      BY <2>1
    <3> QED
      BY <1>1, <1>2, <2>1, <3>1
  <2>2. CASE ~timer_active
    <3>1. q = sq
      BY <1>1, <2>2
    <3> QED
      BY <1>1, <3>1
  <2> QED
    BY <1>1, <2>1, <2>2 DEF EventsTypeOK
<1>4. /\ SubmitNow(q \o <<Timeout(id)>>) /\ wanted' = id /\ timer_id' = id /\ timer_active' = TRUE
      /\ UNCHANGED <<round, file, opened, wants, sockets>>
  BY DEF TimerSet
<1> HIDE DEF q, id
<1>5. PICK k : Quieted(k, q, Len(q)) /\ Processed(q \o <<Timeout(id)>>) = Kernel(k, Timeout(id))
  BY <1>1, <1>3, ProcessedLast
<1>6. Processed(q \o <<Timeout(id)>>)
        = [polls |-> k.polls, ended |-> ended, timers |-> k.timers \cup {id}, cqes |-> k.cqes]
  BY <1>5, KernelTimeout
<1>7. /\ sq' = <<>> /\ polls' = k.polls /\ ended' = ended
      /\ timers' = k.timers \cup {id} /\ timer_cqes' = k.cqes
  BY <1>4, <1>6 DEF SubmitNow
<1>8. /\ k.polls \subseteq polls /\ k.timers \subseteq timers
      /\ timer_cqes \subseteq k.cqes /\ k.cqes \subseteq [id : 1..MaxTimers, fired : BOOLEAN]
  BY <1>3, <1>5, QuietedKeeps
<1>9. TimeoutRemove(timer_id).op # "cancel"
  BY DEF TimeoutRemove
<1>10. \A fd \in Fds : Pending(fd) <=> Cancels(q, fd)
  BY <1>3, <1>9 DEF Pending, Cancels
<1>11. EventsTypeOK'
  <2>1. id \in 0..MaxTimers
    BY <1>1
  <2> QED
    BY <1>1, <1>4, <1>7, <1>8, <2>1 DEF EventsTypeOK
<1>12. FileInv' /\ SocketInv'
  BY <1>4, <1>7, <1>8 DEF EventsInv, FileInv, SocketInv
<1>13. QueueInv'
  BY <1>7 DEF QueueInv
<1>14. PollInv'
  <2>1. ASSUME NEW fd \in Fds, file[fd] # 0
        PROVE  /\ \A p \in k.polls : p.file = file[fd] => p.mask = wants[fd]
               /\ wants[fd] # NoMask =>
                    file[fd] \in ended \/ \E p \in k.polls : p.file = file[fd]
    BY <1>3, <1>5, <1>10, <2>1, QuietedFollows
  <2> QED
    BY <1>4, <1>7, <2>1 DEF PollInv, Follows
<1>15. TimerFollowsWants'
  BY <1>4, <1>7 DEF TimerFollowsWants, TimeoutIsArmed, ActiveTimerIsWanted
<1> QED
  BY <1>11, <1>12, <1>13, <1>14, <1>15 DEF EventsInv

-----------------------------------------------------------------------------
(* The other steps of CurlEvents.                                          *)

\* timer_callback with -1: the removal that waits is of a timer that libcurl no longer has.
LEMMA TimerOffKeeps == ASSUME EventsInv, TimerOff PROVE EventsInv'
<1> DEFINE e == TimeoutRemove(timer_id)
<1>1. /\ wanted' = 0 /\ timer_active' = FALSE
      /\ sq' = IF timer_active THEN Append(sq, e) ELSE sq
      /\ UNCHANGED <<round, pollVars, timer_id, timers, timer_cqes>>
  BY DEF TimerOff
<1>2. sq \in Seq(Quiet) /\ EventsTypeOK
  BY DEF EventsInv, QueueInv
<1>3. timer_active => e \in Quiet
  <2>1. timer_active => timer_id \in timers \/ [id |-> timer_id, fired |-> TRUE] \in timer_cqes
    BY DEF EventsInv, TimerFollowsWants, ActiveTimerIsWanted
  <2>2. timer_active => timer_id \in 1..MaxTimers
    BY <1>2, <2>1 DEF EventsTypeOK
  <2> QED
    BY <2>2 DEF Quiet
<1>4. e.op = "remove"
  BY DEF TimeoutRemove
<1> HIDE DEF e
<1>5. /\ sq' \in Seq(Quiet)
      /\ \A i \in DOMAIN sq : i \in DOMAIN sq' /\ sq'[i] = sq[i]
      /\ \A i \in DOMAIN sq' : i \in DOMAIN sq \/ sq'[i] = e
  <2>1. CASE timer_active
    BY <1>1, <1>2, <1>3, <2>1
  <2>2. CASE ~timer_active
    BY <1>1, <1>2, <2>2
  <2> QED
    BY <1>2, <2>1, <2>2 DEF EventsTypeOK
<1>6. EventsTypeOK' /\ FileInv' /\ SocketInv'
  <2>1. EventsTypeOK'
    <3>1. 0 \in 0..MaxTimers
      BY EventsAssumption
    <3> QED
      BY <1>1, <1>2, <3>1 DEF EventsTypeOK, pollVars
  <2>2. FileInv' /\ SocketInv'
    BY <1>1 DEF EventsInv, FileInv, SocketInv, pollVars
  <2> QED
    BY <2>1, <2>2
<1>7. QueueInv'
  <2>1. \A i \in DOMAIN sq' : sq'[i].op = "cancel" => wants[sq'[i].fd] = NoMask
    BY <1>4, <1>5 DEF EventsInv, QueueInv
  <2> QED
    BY <1>1, <1>5, <2>1 DEF QueueInv, pollVars
<1>8. PollInv'
  <2>1. \A fd \in Fds : Pending(fd) => Pending(fd)'
    BY <1>5 DEF Pending, Cancels
  <2> QED
    BY <1>1, <2>1 DEF EventsInv, PollInv, Follows, pollVars
<1>9. TimerFollowsWants'
  BY <1>1 DEF TimerFollowsWants, TimeoutIsArmed, ActiveTimerIsWanted
<1> QED
  BY <1>6, <1>7, <1>8, <1>9 DEF EventsInv

\* libcurl is called, returns, and opens or closes sockets that it waits for nothing from.
LEMMA RoundKeeps == ASSUME EventsInv, Start \/ Returns PROVE EventsInv'
<1>1. round' \in {"wait", "curl"} /\ UNCHANGED <<sq, pollVars, timerVars>>
  BY DEF Start, Returns
<1> QED
  BY <1>1 DEF EventsInv, EventsTypeOK, FileInv, SocketInv, QueueInv, PollInv, Pending, Cancels, Follows,
              TimerFollowsWants, TimeoutIsArmed, ActiveTimerIsWanted, pollVars, timerVars

\* A socket that is opened is not one that a poll or the kernel knows.
LEMMA OpensKeeps == ASSUME EventsInv, NEW fd \in Fds, Opens(fd) PROVE EventsInv'
<1>1. /\ file[fd] = 0 /\ opened < MaxFiles /\ opened' = opened + 1
      /\ file' = [file EXCEPT ![fd] = opened + 1]
      /\ UNCHANGED <<round, sq, wants, sockets, polls, ended, timerVars>>
  BY DEF Opens
<1>2. EventsTypeOK
  BY DEF EventsInv
<1>3. /\ opened \in Nat /\ opened + 1 \in 1..MaxFiles
      /\ file' \in [Fds -> 0..MaxFiles] /\ file'[fd] = opened + 1
      /\ \A g \in Fds : g # fd => file'[g] = file[g]
  BY <1>1, <1>2, EventsAssumption DEF EventsTypeOK
<1>4. \A g \in Fds : file[g] \in Nat /\ file[g] <= opened
  BY <1>2 DEF EventsInv, EventsTypeOK, FileInv
<1>5. \A p \in polls : p.file \in Nat /\ p.file <= opened
  BY <1>2 DEF EventsInv, EventsTypeOK, FileInv
<1>6. EventsTypeOK'
  BY <1>1, <1>2, <1>3, EventsAssumption DEF EventsTypeOK, timerVars
<1>7. FileInv'
  <2>1. \A a, b \in Fds : file'[a] = file'[b] /\ file'[a] # 0 => a = b
    BY <1>3, <1>4 DEF EventsInv, FileInv
  <2>2. \A g \in Fds : file'[g] <= opened'
    BY <1>1, <1>3, <1>4
  <2>3. \A p \in polls' : p.file <= opened'
    BY <1>1, <1>3, <1>5
  <2>4. \A f \in ended' : f <= opened'
    BY <1>1, <1>2, <1>3 DEF EventsInv, EventsTypeOK, FileInv
  <2>5. \A p \in polls', g \in Fds : p.file = file'[g] => p.fd = g
    BY <1>1, <1>3, <1>5 DEF EventsInv, FileInv
  <2> QED
    BY <2>1, <2>2, <2>3, <2>4, <2>5 DEF FileInv
<1>8. wants[fd] = NoMask
  BY <1>1 DEF EventsInv, SocketInv
<1>9. SocketInv'
  BY <1>1, <1>3, <1>8 DEF EventsInv, SocketInv
<1>10. QueueInv'
  BY <1>1 DEF EventsInv, QueueInv, timerVars
<1>11. PollInv'
  <2> SUFFICES ASSUME NEW g \in Fds, file'[g] # 0, ~Pending(g) PROVE Follows(g)'
    BY <1>1 DEF PollInv, Pending, Cancels
  <2>1. CASE g = fd
    BY <1>1, <1>3, <1>5, <1>8, <2>1 DEF Follows
  <2>2. CASE g # fd
    BY <1>1, <1>3, <2>2 DEF EventsInv, PollInv, Follows
  <2> QED
    BY <2>1, <2>2
<1>12. TimerFollowsWants'
  BY <1>1 DEF EventsInv, TimerFollowsWants, TimeoutIsArmed, ActiveTimerIsWanted, timerVars
<1> QED
  BY <1>6, <1>7, <1>9, <1>10, <1>11, <1>12 DEF EventsInv

\* A socket that is closed leaves its number free; polls go by the socket.
LEMMA ClosesKeeps == ASSUME EventsInv, NEW fd \in Fds, Closes(fd) PROVE EventsInv'
<1>1. /\ wants[fd] = NoMask /\ file' = [file EXCEPT ![fd] = 0]
      /\ UNCHANGED <<round, sq, opened, wants, sockets, polls, ended, timerVars>>
  BY DEF Closes
<1>2. EventsTypeOK
  BY DEF EventsInv
<1>3. /\ file' \in [Fds -> 0..MaxFiles] /\ file'[fd] = 0
      /\ \A g \in Fds : g # fd => file'[g] = file[g]
  BY <1>1, <1>2, EventsAssumption DEF EventsTypeOK
<1>4. EventsTypeOK'
  BY <1>1, <1>2, <1>3 DEF EventsTypeOK, timerVars
<1>5. FileInv'
  <2>1. \A p \in polls : p.file # 0
    BY <1>2 DEF EventsTypeOK
  <2>2. opened \in Nat
    BY <1>2 DEF EventsTypeOK
  <2> QED
    BY <1>1, <1>3, <2>1, <2>2 DEF EventsInv, FileInv
<1>6. SocketInv'
  BY <1>1, <1>3 DEF EventsInv, SocketInv
<1>7. QueueInv'
  BY <1>1 DEF EventsInv, QueueInv, timerVars
<1>8. PollInv'
  BY <1>1, <1>3 DEF EventsInv, PollInv, Pending, Cancels, Follows
<1>9. TimerFollowsWants'
  BY <1>1 DEF EventsInv, TimerFollowsWants, TimeoutIsArmed, ActiveTimerIsWanted, timerVars
<1> QED
  BY <1>4, <1>5, <1>6, <1>7, <1>8, <1>9 DEF EventsInv

\* socket_callback with CURL_POLL_REMOVE: until its cancellation is submitted, the socket
\* or the next one with its number waits for nothing.
LEMMA RemovesKeeps ==
    ASSUME EventsInv, NEW fd \in Fds, NEW closes \in BOOLEAN, Removes(fd, closes)
    PROVE  EventsInv'
<1> DEFINE e == PollCancel(fd)
<1>1. /\ wants[fd] # NoMask /\ wants' = [wants EXCEPT ![fd] = NoMask]
      /\ sq' = IF sockets[fd].poll_active THEN Append(sq, e) ELSE sq
      /\ sockets' = [sockets EXCEPT ![fd] = NoInfo]
      /\ file' = IF closes THEN [file EXCEPT ![fd] = 0] ELSE file
      /\ UNCHANGED <<round, opened, polls, ended, timerVars>>
  BY DEF Removes
<1>2. EventsTypeOK /\ sq \in Seq(Quiet) /\ e \in Quiet
  BY DEF EventsInv, QueueInv, Quiet
<1>3. e.op = "cancel" /\ e.fd = fd
  BY DEF PollCancel
<1>4. sockets[fd].poll_active
  <2>1. sockets[fd] = Info(wants[fd], TRUE)
    BY <1>1 DEF EventsInv, SocketInv
  <2> QED
    BY <2>1 DEF Info
<1> HIDE DEF e
<1>5. /\ sq' = Append(sq, e) /\ sq' \in Seq(Quiet)
      /\ \A i \in DOMAIN sq : i \in DOMAIN sq' /\ sq'[i] = sq[i]
      /\ \A i \in DOMAIN sq' : i \in DOMAIN sq \/ sq'[i] = e
      /\ \E i \in DOMAIN sq' : sq'[i] = e
  <2>1. sq' = Append(sq, e)
    BY <1>1, <1>4
  <2>2. Len(sq) + 1 \in DOMAIN sq' /\ sq'[Len(sq) + 1] = e
    BY <1>2, <2>1
  <2> QED
    BY <1>2, <2>1, <2>2
<1>6. /\ file' \in [Fds -> 0..MaxFiles] /\ (file'[fd] = 0 \/ file'[fd] = file[fd])
      /\ \A g \in Fds : g # fd => file'[g] = file[g]
  BY <1>1, <1>2, EventsAssumption DEF EventsTypeOK
<1>7. /\ wants' \in [Fds -> Masks \cup {NoMask}] /\ wants'[fd] = NoMask
      /\ \A g \in Fds : g # fd => wants'[g] = wants[g]
  BY <1>1, <1>2 DEF EventsTypeOK
<1>8. /\ sockets' \in [Fds -> [poll_mask : Masks \cup {NoMask}, poll_active : BOOLEAN]]
      /\ sockets'[fd] = NoInfo
      /\ \A g \in Fds : g # fd => sockets'[g] = sockets[g]
  <2>1. NoInfo \in [poll_mask : Masks \cup {NoMask}, poll_active : BOOLEAN]
    BY DEF NoInfo, Info
  <2> QED
    BY <1>1, <1>2, <2>1 DEF EventsTypeOK
<1>9. EventsTypeOK'
  BY <1>1, <1>2, <1>6, <1>7, <1>8 DEF EventsTypeOK, timerVars
<1>10. FileInv'
  <2>1. \A p \in polls : p.file # 0
    BY <1>2 DEF EventsTypeOK
  <2>2. opened \in Nat
    BY <1>2 DEF EventsTypeOK
  <2> QED
    BY <1>1, <1>6, <2>1, <2>2 DEF EventsInv, FileInv
<1>11. SocketInv'
  BY <1>6, <1>7, <1>8 DEF EventsInv, SocketInv
<1>12. QueueInv'
  <2>1. \A i \in DOMAIN sq' : sq'[i].op = "cancel" => wants'[sq'[i].fd] = NoMask
    <3> SUFFICES ASSUME NEW i \in DOMAIN sq', sq'[i].op = "cancel"
                 PROVE  wants'[sq'[i].fd] = NoMask
      OBVIOUS
    <3>1. CASE i \in DOMAIN sq
      <4>1. sq[i] \in Quiet /\ sq[i].op = "cancel" /\ sq'[i] = sq[i]
        BY <1>2, <1>5, <3>1
      <4>2. sq[i].fd \in Fds /\ wants[sq[i].fd] = NoMask
        BY <3>1, <4>1, QuietIs DEF EventsInv, QueueInv
      <4> QED
        BY <1>7, <4>1, <4>2
    <3>2. CASE i \notin DOMAIN sq
      BY <1>3, <1>5, <1>7, <3>2
    <3> QED
      BY <3>1, <3>2
  <2>2. \A i \in DOMAIN sq' : sq'[i].op = "remove" => wanted' = 0
    BY <1>1, <1>3, <1>5 DEF EventsInv, QueueInv, timerVars
  <2> QED
    BY <1>5, <2>1, <2>2 DEF QueueInv
<1>13. PollInv'
  <2> SUFFICES ASSUME NEW g \in Fds, file'[g] # 0, ~Pending(g)' PROVE Follows(g)'
    BY DEF PollInv
  <2>1. g # fd
    BY <1>3, <1>5 DEF Pending, Cancels
  <2>2. ~Pending(g)
    BY <1>5 DEF Pending, Cancels
  <2> QED
    BY <1>1, <1>6, <1>7, <2>1, <2>2 DEF EventsInv, PollInv, Follows
<1>14. TimerFollowsWants'
  BY <1>1 DEF EventsInv, TimerFollowsWants, TimeoutIsArmed, ActiveTimerIsWanted, timerVars
<1> QED
  BY <1>9, <1>10, <1>11, <1>12, <1>13, <1>14 DEF EventsInv

\* handle_curl_poll: a poll goes only when the kernel has ended it.
LEMMA PollFiresKeeps ==
    ASSUME EventsInv, NEW p \in polls, NEW more \in BOOLEAN, PollFires(p, more)
    PROVE  EventsInv'
<1>1. /\ round' = "curl"
      /\ polls' = (IF more THEN polls ELSE polls \ {p})
      /\ ended' = (IF more THEN ended ELSE ended \cup {p.file})
      /\ UNCHANGED <<sq, file, opened, wants, sockets, timerVars>>
  BY DEF PollFires
<1>2. EventsTypeOK /\ p.file \in 1..MaxFiles /\ p.file <= opened
  BY DEF EventsInv, EventsTypeOK, FileInv
<1>3. polls' \subseteq polls /\ ended \subseteq ended' /\ ended' \subseteq ended \cup {p.file}
  BY <1>1
<1>4. EventsTypeOK'
  BY <1>1, <1>2, <1>3 DEF EventsTypeOK, timerVars
<1>5. FileInv' /\ SocketInv'
  BY <1>1, <1>2, <1>3 DEF EventsInv, FileInv, SocketInv
<1>6. QueueInv'
  BY <1>1 DEF EventsInv, QueueInv, timerVars
<1>7. PollInv'
  <2>1. \A r \in polls : r \in polls' \/ r.file \in ended'
    BY <1>1
  <2> QED
    BY <1>1, <1>3, <2>1 DEF EventsInv, PollInv, Pending, Cancels, Follows
<1>8. TimerFollowsWants'
  BY <1>1 DEF EventsInv, TimerFollowsWants, TimeoutIsArmed, ActiveTimerIsWanted, timerVars
<1> QED
  BY <1>4, <1>5, <1>6, <1>7, <1>8 DEF EventsInv

\* A timeout goes from the kernel to its completion.
LEMMA TimerFiresKeeps ==
    ASSUME EventsInv, NEW id \in timers, TimerFires(id) PROVE EventsInv'
<1>1. /\ timers' = timers \ {id} /\ timer_cqes' = timer_cqes \cup {[id |-> id, fired |-> TRUE]}
      /\ UNCHANGED <<round, sq, pollVars, wanted, timer_id, timer_active>>
  BY DEF TimerFires
<1>2. EventsTypeOK /\ id \in 1..MaxTimers
  BY DEF EventsInv, EventsTypeOK
<1>3. EventsTypeOK'
  <2>1. [id |-> id, fired |-> TRUE] \in [id : 1..MaxTimers, fired : BOOLEAN]
    BY <1>2
  <2>2. /\ timer_cqes' \subseteq [id : 1..MaxTimers, fired : BOOLEAN]
        /\ timers' \subseteq 1..MaxTimers
    BY <1>1, <1>2, <2>1 DEF EventsTypeOK
  <2> QED
    BY <1>1, <1>2, <2>2 DEF EventsTypeOK, pollVars
<1>4. FileInv' /\ SocketInv' /\ QueueInv'
  BY <1>1 DEF EventsInv, FileInv, SocketInv, QueueInv, pollVars
<1>5. PollInv'
  BY <1>1 DEF EventsInv, PollInv, Pending, Cancels, Follows, pollVars
<1>6. TimerFollowsWants'
  BY <1>1 DEF EventsInv, TimerFollowsWants, TimeoutIsArmed, ActiveTimerIsWanted
<1> QED
  BY <1>3, <1>4, <1>5, <1>6 DEF EventsInv

\* handle_curl_timeout: after any completion no timer is taken for active, and libcurl's is
\* given up only for its own.
LEMMA TimerHandledKeeps ==
    ASSUME EventsInv, NEW e \in timer_cqes, TimerHandled(e) PROVE EventsInv'
<1>1. /\ round' = "curl" /\ timer_cqes' = timer_cqes \ {e} /\ timer_active' = FALSE
      /\ wanted' = (IF e.fired /\ e.id = wanted THEN 0 ELSE wanted)
      /\ UNCHANGED <<sq, pollVars, timer_id, timers>>
  BY DEF TimerHandled
<1>2. EventsTypeOK /\ (wanted' = 0 \/ wanted' = wanted)
  BY <1>1 DEF EventsInv
<1>3. EventsTypeOK'
  <2>1. wanted' \in 0..MaxTimers
    BY <1>2, EventsAssumption DEF EventsTypeOK
  <2> QED
    BY <1>1, <1>2, <2>1 DEF EventsTypeOK, pollVars
<1>4. FileInv' /\ SocketInv'
  BY <1>1 DEF EventsInv, FileInv, SocketInv, pollVars
<1>5. QueueInv'
  BY <1>1, <1>2 DEF EventsInv, QueueInv, pollVars
<1>6. PollInv'
  BY <1>1 DEF EventsInv, PollInv, Pending, Cancels, Follows, pollVars
<1>7. TimeoutIsArmed'
  <2>1. ASSUME wanted' # 0, [id |-> wanted, fired |-> TRUE] = e PROVE FALSE
    <3>1. e.id = wanted /\ e.fired
      BY <2>1
    <3> QED
      BY <1>1, <2>1, <3>1
  <2> QED
    BY <1>1, <1>2, <2>1 DEF EventsInv, TimerFollowsWants, TimeoutIsArmed
<1>8. TimerFollowsWants'
  BY <1>1, <1>7 DEF TimerFollowsWants, ActiveTimerIsWanted
<1> QED
  BY <1>3, <1>4, <1>5, <1>6, <1>8 DEF EventsInv

-----------------------------------------------------------------------------
(* The theorems about CurlEvents.                                          *)

\* Nothing is open, polled or set at first.
LEMMA InitEventsInv == EventsInit => EventsInv
<1> SUFFICES ASSUME EventsInit PROVE EventsInv
  OBVIOUS
<1>1. NoInfo \in [poll_mask : Masks \cup {NoMask}, poll_active : BOOLEAN]
  BY DEF NoInfo, Info
<1>2. EventsTypeOK
  <2>1. 0 \in 0..MaxFiles /\ 0 \in 0..MaxTimers
    BY EventsAssumption
  <2>2. /\ file \in [Fds -> 0..MaxFiles] /\ wants \in [Fds -> Masks \cup {NoMask}]
        /\ sockets \in [Fds -> [poll_mask : Masks \cup {NoMask}, poll_active : BOOLEAN]]
    BY <1>1, <2>1 DEF EventsInit
  <2> QED
    BY <2>1, <2>2 DEF EventsInit, EventsTypeOK
<1>3. FileInv /\ SocketInv
  BY DEF EventsInit, FileInv, SocketInv
<1>4. QueueInv
  BY DEF EventsInit, QueueInv
<1>5. PollInv
  BY DEF EventsInit, PollInv
<1>6. TimerFollowsWants
  BY DEF EventsInit, TimerFollowsWants, TimeoutIsArmed, ActiveTimerIsWanted
<1> QED
  BY <1>2, <1>3, <1>4, <1>5, <1>6 DEF EventsInv

\* Every step keeps the invariant.
LEMMA NextEventsInv == EventsInv /\ [EventsNext]_eventVars => EventsInv'
<1> SUFFICES ASSUME EventsInv, [EventsNext]_eventVars PROVE EventsInv'
  OBVIOUS
<1>1. CASE Start \/ Returns
  BY <1>1, RoundKeeps
<1>2. CASE Submit
  BY <1>2, SubmitKeeps
<1>3. CASE TimerOff
  BY <1>3, TimerOffKeeps
<1>4. CASE TimerSet
  BY <1>4, TimerSetKeeps
<1>5. ASSUME NEW fd \in Fds, Opens(fd) PROVE EventsInv'
  BY <1>5, OpensKeeps
<1>6. ASSUME NEW fd \in Fds, Closes(fd) PROVE EventsInv'
  BY <1>6, ClosesKeeps
<1>7. ASSUME NEW fd \in Fds, NEW mask \in Masks, Waits(fd, mask) PROVE EventsInv'
  BY <1>7, WaitsKeeps
<1>8. ASSUME NEW fd \in Fds, NEW closes \in BOOLEAN, Removes(fd, closes) PROVE EventsInv'
  BY <1>8, RemovesKeeps
<1>9. ASSUME NEW p \in polls, NEW more \in BOOLEAN, PollFires(p, more) PROVE EventsInv'
  BY <1>9, PollFiresKeeps
<1>10. ASSUME NEW id \in timers, TimerFires(id) PROVE EventsInv'
  BY <1>10, TimerFiresKeeps
<1>11. ASSUME NEW e \in timer_cqes, TimerHandled(e) PROVE EventsInv'
  BY <1>11, TimerHandledKeeps
<1>12. CASE UNCHANGED eventVars
  BY <1>12 DEF EventsInv, EventsTypeOK, FileInv, SocketInv, QueueInv, PollInv, Pending, Cancels, Follows,
               TimerFollowsWants, TimeoutIsArmed, ActiveTimerIsWanted, eventVars, pollVars, timerVars
<1> QED
  BY <1>1, <1>2, <1>3, <1>4, <1>5, <1>6, <1>7, <1>8, <1>9, <1>10, <1>11, <1>12 DEF EventsNext

\* The inductive invariant holds in every state.
LEMMA SpecEventsInv == EventsSpec => []EventsInv
<1> QED
  BY InitEventsInv, NextEventsInv, PTL DEF EventsSpec

\* What the kernel polls is what libcurl waits for, however numbers are used again, polls
\* end and cancellations wait (socket_callback, handle_curl_poll).
THEOREM SpecPollsFollowWants == EventsSpec => []PollsFollowWants
<1>1. EventsInv => PollsFollowWants
  <2> SUFFICES ASSUME EventsInv, round = "wait", sq = <<>>, NEW fd \in Fds, file[fd] # 0
               PROVE  LET have == {p.mask : p \in {q \in polls : q.file = file[fd]}}
                          want == {wants[fd]} \ {NoMask}
                      IN have = want \/ (file[fd] \in ended /\ have = {})
    BY DEF EventsInv, PollsFollowWants
  <2>1. Follows(fd)
    BY DEF EventsInv, PollInv, Pending, Cancels
  <2>2. \A p \in polls : p.mask # NoMask
    BY EventsAssumption DEF EventsInv, EventsTypeOK
  <2>3. CASE wants[fd] = NoMask
    BY <2>1, <2>2, <2>3 DEF Follows
  <2>4. CASE wants[fd] # NoMask /\ \E p \in polls : p.file = file[fd]
    BY <2>1, <2>4 DEF Follows
  <2>5. CASE wants[fd] # NoMask /\ ~ \E p \in polls : p.file = file[fd]
    BY <2>1, <2>5 DEF Follows
  <2> QED
    BY <2>3, <2>4, <2>5
<1> QED
  BY <1>1, SpecEventsInv, PTL

\* libcurl's next timeout is never lost, and the timer that timer_callback would remove is
\* never another one (timer_callback, handle_curl_timeout).
THEOREM SpecTimerFollowsWants == EventsSpec => []TimerFollowsWants
<1>1. EventsInv => TimerFollowsWants
  BY DEF EventsInv
<1> QED
  BY <1>1, SpecEventsInv, PTL
=============================================================================
