---------------------------- MODULE WriteBuffer ----------------------------
(***************************************************************************)
(* The write buffer of a connection in curl_multi mode (write_buffer.c): a *)
(* linear buffer that is reset when it drains, compacted when nothing is   *)
(* being written from it, and grown otherwise.  Sizes are in units of      *)
(* data; the content is not modelled, the positions head and tail are.     *)
(* The memory itself is realloc's: it may refuse to grow it, and moves it  *)
(* where it likes, under a write in flight too (MovesUnderWrite).          *)
(***************************************************************************)
EXTENDS Integers

CONSTANTS DefaultSize,    \* WRITE_BUFFER_DEFAULT_SIZE
          MaxSize         \* WRITE_BUFFER_MAX_SIZE

ASSUME SizesAssumption ==
    /\ DefaultSize \in Nat \ {0} /\ MaxSize \in Nat /\ DefaultSize <= MaxSize

Buffer == [capacity : Nat, head : Nat, tail : Nat, write_pending : BOOLEAN]

Wb(capacity, head, tail, write_pending) ==
    [capacity |-> capacity, head |-> head, tail |-> tail, write_pending |-> write_pending]

\* write_buffer_init
EmptyBuffer == Wb(DefaultSize, 0, 0, FALSE)

\* write_buffer_size
Size(wb) == wb.head - wb.tail
HasData(wb) == wb.head > wb.tail

\* write_buffer_append while a write is in flight: the new capacity.
GrownCapacity(wb, len) ==
    LET doubled == IF wb.capacity * 2 > MaxSize THEN MaxSize ELSE wb.capacity * 2
    IN IF doubled < wb.head + len THEN wb.head + len + DefaultSize ELSE doubled

\* write_buffer_append after the data was moved to the start: the new capacity.
CompactedCapacity(wb, len) ==
    IF Size(wb) + len <= wb.capacity THEN wb.capacity
    ELSE IF wb.capacity * 2 < Size(wb) + len THEN Size(wb) + len ELSE wb.capacity * 2

Fits(wb, len) == len <= wb.capacity - wb.head

\* Faulty variant: the new capacity is not limited.
AcceptsLarge(wb, len) == Size(wb) + len <= MaxSize

\* write_buffer_append: whether there is room (not -2).
Accepts(wb, len) ==
    /\ Size(wb) + len <= MaxSize
    /\ \/ Fits(wb, len)
       \/ wb.write_pending /\ GrownCapacity(wb, len) <= MaxSize
       \/ ~wb.write_pending /\ CompactedCapacity(wb, len) <= MaxSize

\* write_buffer_append: realloc is called, to grow the buffer as it is while a write is
\* in flight, or after compacting it.
NeedsMemory(wb, len) ==
    /\ Accepts(wb, len) /\ ~Fits(wb, len)
    /\ wb.write_pending \/ Size(wb) + len > wb.capacity

\* write_buffer_append: whether it may fail, for want of room (-2) or of memory (-1).
MayRefuse(wb, len) == ~Accepts(wb, len) \/ NeedsMemory(wb, len)

\* realloc releases the memory that the kernel is writing from, if it moves it.
MovesUnderWrite(wb, len) == wb.write_pending /\ NeedsMemory(wb, len)

\* write_buffer_append: the buffer after the data were taken.
Appended(wb, len) ==
    IF Fits(wb, len) THEN [wb EXCEPT !.head = @ + len]
    ELSE IF wb.write_pending THEN Wb(GrownCapacity(wb, len), wb.head + len, wb.tail, TRUE)
    ELSE Wb(CompactedCapacity(wb, len), Size(wb) + len, 0, FALSE)

\* write_buffer_append: the buffer after the data were refused; one that is refused by
\* the capacity or by realloc has been compacted all the same.
Refused(wb, len) ==
    IF Size(wb) + len > MaxSize \/ wb.write_pending THEN wb
    ELSE Wb(wb.capacity, Size(wb), 0, FALSE)

\* write_buffer_consume
Consumed(wb, bytes) ==
    LET n == IF bytes > Size(wb) THEN Size(wb) ELSE bytes
    IN IF wb.tail + n = wb.head
       THEN Wb(wb.capacity, 0, 0, wb.write_pending)
       ELSE [wb EXCEPT !.tail = @ + n]

\* write_buffer_set_pending
SetPending(wb, pending) == [wb EXCEPT !.write_pending = pending]

\* The positions are in order and inside the memory, which is never too large.
WellFormed(wb) ==
    /\ wb \in Buffer
    /\ wb.tail <= wb.head /\ wb.head <= wb.capacity /\ wb.capacity <= MaxSize
=============================================================================
