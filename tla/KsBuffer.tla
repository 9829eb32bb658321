------------------------------ MODULE KsBuffer ------------------------------
(***************************************************************************)
(* The growable byte buffer of libks (libs/libks/src/ks_buffer.c).         *)
(*                                                                         *)
(* The struct ks_buffer is the record variable buf: data is the allocated  *)
(* block as a sequence of bytes (offset o is data[o+1], Len(data) is the   *)
(* field datalen, and data = NULL is Len(data) = 0), head is the offset of *)
(* the pointer head in data, used, actually_used and loops are the fields  *)
(* of the same names.  max_len and blocksize are fixed at creation and are *)
(* the constants MaxLen and BlockSize; the diagnostic id is left out.      *)
(*                                                                         *)
(* Every C function is a result operator from a buffer to the set of its   *)
(* possible outcomes (several when realloc may fail or hands back          *)
(* uninitialized bytes), so that ks_buffer_zwrite and ks_buffer_read_packet*)
(* compose the functions they call exactly as the code does.  out is what  *)
(* the last call copied into the caller's memory and ret what it returned. *)
(***************************************************************************)
EXTENDS Integers, Sequences

LOCAL INSTANCE SequencesExt

CONSTANTS
  Bytes,        \* byte values the callers write
  NUL, CR, LF,  \* the byte values the packet scanner tests for
  StartLen,     \* start_len given to ks_buffer_create
  MaxLen,       \* max_len given to ks_buffer_create (0: no ceiling)
  BlockSize,    \* blocksize given to ks_buffer_create
  LoopCounts,   \* values passed to ks_buffer_set_loops
  AllocMayFail, \* whether malloc/realloc may return NULL
  MaxWrite,     \* bound: longest write
  MaxRead,      \* bound: longest read, seek or toss request
  MaxCap,       \* bound: largest allocation realloc is asked for
  LoopFloor     \* bound: lowest value loops is decremented to

ASSUME NUL \in Bytes /\ {CR, LF} \subseteq Bytes
ASSUME StartLen \in Nat /\ MaxLen \in Nat /\ BlockSize \in Nat
ASSUME AllocMayFail \in BOOLEAN

VARIABLES buf, alive, out, ret

vars == <<buf, alive, out, ret>>

(***************************************************************************)
(* Helpers over the allocated block.                                       *)
(***************************************************************************)

\* ks_buffer_len: the allocated size, datalen
DataLen(b) == Len(b.data)

\* the k bytes at offset o of the block
Slice(b, o, k) == SubSeq(b.data, o + 1, o + k)

\* memcpy/memmove of s to offset o; bytes past the allocation are lost
\* (they land outside the block, which the invariants rule out)
Store(d, o, s) ==
  [i \in 1 .. Len(d) |-> IF o < i /\ i <= o + Len(s) THEN s[i - o] ELSE d[i]]

\* the bytes a reader of the buffer would get next
Live(b) == Slice(b, b.head, b.used)

Outcome(b, r, o) == [buf |-> b, ret |-> r, out |-> o]

(***************************************************************************)
(* ks_buffer_create and ks_buffer_destroy.                                 *)
(***************************************************************************)

\* a fresh buffer: memset to 0, start_len zeroed bytes allocated
Fresh ==
  [data |-> [i \in 1 .. StartLen |-> NUL], head |-> 0, used |-> 0,
   actually_used |-> 0, loops |-> 0]

Create ==
  /\ ~alive
  /\ alive' = TRUE
  /\ buf' = Fresh
  /\ out' = <<>>
  /\ ret' = 0

Destroy ==
  /\ alive
  /\ alive' = FALSE
  /\ out' = <<>>
  /\ UNCHANGED <<buf, ret>>

(***************************************************************************)
(* ks_buffer_read, ks_buffer_seek and ks_buffer_toss.  All three clamp the *)
(* request to used and return 0 on an empty buffer.                        *)
(***************************************************************************)

Reading(b, n) == IF b.used >= n THEN n ELSE b.used

ReadResult(b, n) ==
  IF b.used < 1 THEN Outcome([b EXCEPT !.used = 0], 0, <<>>)
  ELSE LET k == Reading(b, n)
       IN Outcome([b EXCEPT !.used = @ - k, !.head = @ + k], k, Slice(b, b.head, k))

\* Seeded defect for mutation analysis: seek moves head relative to head.
SeekRelative(b, n) ==
  IF b.used < 1 THEN Outcome([b EXCEPT !.used = 0], 0, <<>>)
  ELSE LET k == Reading(b, n)
       IN Outcome([b EXCEPT !.used = b.actually_used - k, !.head = @ + k], k, <<>>)

\* seek recomputes used from actually_used and puts head at data + reading
SeekResult(b, n) ==
  IF b.used < 1 THEN Outcome([b EXCEPT !.used = 0], 0, <<>>)
  ELSE LET k == Reading(b, n)
       IN Outcome([b EXCEPT !.used = b.actually_used - k, !.head = k], k, <<>>)

\* Seeded defect for mutation analysis: returns used - datalen, not used - reading.
TossUnclamped(b, n) ==
  IF b.used < 1 THEN Outcome([b EXCEPT !.used = 0], 0, <<>>)
  ELSE LET k == Reading(b, n)
       IN Outcome([b EXCEPT !.used = @ - k, !.head = @ + k], b.used - n, <<>>)

TossResult(b, n) ==
  IF b.used < 1 THEN Outcome([b EXCEPT !.used = 0], 0, <<>>)
  ELSE LET k == Reading(b, n)
       IN Outcome([b EXCEPT !.used = @ - k, !.head = @ + k], b.used - k, <<>>)

(***************************************************************************)
(* ks_buffer_read_loop: one read, and on a short read with loops /= 0 a    *)
(* rewind to data, a second read of the remainder and loops--.  The return *)
(* value is whatever the second read returned.                             *)
(***************************************************************************)
ReadLoopResult(b, n) ==
  LET r1 == ReadResult(b, n)
      rw == [r1.buf EXCEPT !.head = 0, !.used = b.actually_used]
      r2 == ReadResult(rw, n - r1.ret)
  IN IF r1.ret >= n \/ b.loops = 0 THEN r1
     ELSE Outcome([r2.buf EXCEPT !.loops = @ - 1], r2.ret, r1.out \o r2.out)

(***************************************************************************)
(* The two packet scanners.  They walk from head while *p is not NUL and   *)
(* p < e = head + used; at a LF they skip one CR and test *pe for a second *)
(* LF with pe <= e, so the byte at e, one past the live bytes, is read and *)
(* may complete a packet.  When e is the end of the allocation that byte   *)
(* is outside the block: bey is the value such a read yields.              *)
(***************************************************************************)
At(b, bey, o) == IF o < DataLen(b) THEN b.data[o + 1] ELSE bey

ScanEnd(b) == b.head + b.used

ScanStops(b, bey, p) == DataLen(b) = 0 \/ At(b, bey, p) = NUL \/ p >= ScanEnd(b)

\* pe after the LF at p and an optional CR
AfterCR(b, bey, p) == IF At(b, bey, p + 1) = CR THEN p + 2 ELSE p + 1

Framed(b, bey, p) ==
  /\ At(b, bey, p) = LF
  /\ AfterCR(b, bey, p) <= ScanEnd(b)
  /\ At(b, bey, AfterCR(b, bey, p)) = LF

\* ks_buffer_packet_count
RECURSIVE CountFrom(_, _, _)
CountFrom(b, bey, p) ==
  IF ScanStops(b, bey, p) THEN 0
  ELSE IF Framed(b, bey, p) THEN 1 + CountFrom(b, bey, AfterCR(b, bey, p) + 1)
  ELSE CountFrom(b, bey, p + 1)

PacketCount(b, bey) == CountFrom(b, bey, b.head)

\* the loop of ks_buffer_read_packet: datalen of the first packet, or 0
RECURSIVE PacketLenFrom(_, _, _)
PacketLenFrom(b, bey, p) ==
  IF ScanStops(b, bey, p) THEN 0
  ELSE IF Framed(b, bey, p) THEN AfterCR(b, bey, p) + 1 - b.head
  ELSE PacketLenFrom(b, bey, p + 1)

\* Seeded defect for mutation analysis: datalen = pe - head, without pe++.
ReadPacketShort(b, bey, maxlen) ==
  LET len == PacketLenFrom(b, bey, b.head)
      short == IF len > 0 THEN len - 1 ELSE 0
  IN ReadResult(b, IF short > maxlen THEN maxlen ELSE short)

ReadPacketResult(b, bey, maxlen) ==
  LET len == PacketLenFrom(b, bey, b.head)
  IN ReadResult(b, IF len > maxlen THEN maxlen ELSE len)

(***************************************************************************)
(* ks_buffer_write.  Compact when the tail cannot take the bytes and the   *)
(* ceiling allows it; grow when used + n still exceeds the allocation,     *)
(* resetting head to data before realloc; copy to head + used.             *)
(***************************************************************************)
ShouldCompact(b, n) ==
  /\ DataLen(b) - b.actually_used < n
  /\ MaxLen = 0 \/ b.used + n <= MaxLen

\* Seeded defect for mutation analysis: head reset without the memmove.
CompactNoMove(b) == [b EXCEPT !.head = 0, !.actually_used = b.used]

Compact(b) ==
  [b EXCEPT !.data = Store(@, 0, Live(b)), !.head = 0, !.actually_used = b.used]

NewSize(b, n) ==
  IF DataLen(b) + BlockSize > DataLen(b) + n THEN DataLen(b) + BlockSize
  ELSE DataLen(b) + n

\* the final free space check and the memcpy
CopyIn(b, s) ==
  IF DataLen(b) - b.used < Len(s) THEN Outcome(b, 0, <<>>)
  ELSE LET b2 == [b EXCEPT !.data = Store(@, b.head + b.used, s),
                           !.used = @ + Len(s),
                           !.actually_used = @ + Len(s)]
       IN Outcome(b2, b2.used, <<>>)

\* realloc keeps the old bytes and appends uninitialized ones
Grown(b, n) ==
  { [b EXCEPT !.data = @ \o g, !.head = 0] :
      g \in [1 .. NewSize(b, n) - DataLen(b) -> Bytes] }

WriteResults(b, s) ==
  IF s = <<>> THEN {Outcome(b, b.used, <<>>)}
  ELSE LET c == IF ShouldCompact(b, Len(s)) THEN Compact(b) ELSE b
       IN IF DataLen(c) - c.used >= Len(s) THEN {CopyIn(c, s)}
          ELSE (IF AllocMayFail THEN {Outcome([c EXCEPT !.head = 0], 0, <<>>)} ELSE {})
               \cup {CopyIn(g, s) : g \in Grown(c, Len(s))}

\* ks_buffer_zero
Zeroed(b) == [b EXCEPT !.used = 0, !.actually_used = 0, !.head = 0]

\* Seeded defect for mutation analysis: the retry without ks_buffer_zero.
ZWriteNoZero(b, s) ==
  UNION { IF r.ret /= 0 THEN {r} ELSE WriteResults(r.buf, s) :
            r \in WriteResults(b, s) }

\* ks_buffer_zwrite: on a 0 return, zero the buffer and write once more
ZWriteResults(b, s) ==
  UNION { IF r.ret /= 0 THEN {r} ELSE WriteResults(Zeroed(r.buf), s) :
            r \in WriteResults(b, s) }

(***************************************************************************)
(* Actions: one per API call, with its arguments drawn from small sets.    *)
(***************************************************************************)
Writes == UNION {[1 .. k -> Bytes] : k \in 0 .. MaxWrite}

Apply(r) ==
  /\ buf' = r.buf
  /\ ret' = r.ret
  /\ out' = r.out
  /\ UNCHANGED alive

\* results whose allocation stays within the bound MaxCap
Bounded(R) == {r \in R : DataLen(r.buf) <= MaxCap}

Write(s) == alive /\ \E r \in Bounded(WriteResults(buf, s)) : Apply(r)

ZWrite(s) == alive /\ \E r \in Bounded(ZWriteResults(buf, s)) : Apply(r)

Read(n) == alive /\ Apply(ReadResult(buf, n))

Seek(n) == alive /\ Apply(SeekResult(buf, n))

Toss(n) == alive /\ Apply(TossResult(buf, n))

ReadLoop(n) ==
  /\ alive
  /\ buf.loops > LoopFloor
  /\ Apply(ReadLoopResult(buf, n))

ReadPacket(maxlen) ==
  /\ alive
  /\ \E bey \in Bytes : Apply(ReadPacketResult(buf, bey, maxlen))

SetLoops(l) ==
  /\ alive
  /\ buf' = [buf EXCEPT !.loops = l]
  /\ out' = <<>>
  /\ UNCHANGED <<alive, ret>>

Zero == alive /\ Apply(Outcome(Zeroed(buf), ret, <<>>))

Init ==
  /\ buf = Fresh
  /\ alive = FALSE
  /\ out = <<>>
  /\ ret = 0

Next ==
  \/ Create
  \/ Destroy
  \/ \E s \in Writes : Write(s) \/ ZWrite(s)
  \/ \E n \in 0 .. MaxRead : Read(n) \/ Seek(n) \/ Toss(n) \/ ReadLoop(n) \/ ReadPacket(n)
  \/ \E l \in LoopCounts : SetLoops(l)
  \/ Zero

Spec == Init /\ [][Next]_vars

\* the calls that promise first-in first-out delivery (no seek, loop or zwrite)
NextFifo ==
  \/ Create
  \/ Destroy
  \/ \E s \in Writes : Write(s)
  \/ \E n \in 0 .. MaxRead : Read(n) \/ Toss(n) \/ ReadPacket(n)
  \/ \E l \in LoopCounts : SetLoops(l)
  \/ Zero

SpecFifo == Init /\ [][NextFifo]_vars

(***************************************************************************)
(* Properties.                                                             *)
(***************************************************************************)

TypeOK ==
  /\ alive \in BOOLEAN
  /\ buf.data \in Seq(Bytes)
  /\ DataLen(buf) <= MaxCap
  /\ {buf.head, buf.used, buf.actually_used} \subseteq Nat
  /\ buf.loops \in Int
  /\ out \in Seq(Bytes)
  /\ ret \in Nat

\* The live bytes end where the occupied bytes end and the occupied bytes
\* lie inside the allocation: what ks_buffer_write's copy to head + used,
\* ks_buffer_seek's used = actually_used - reading and ks_buffer_read_loop's
\* rewind to data all rely on.
OccupiedLayout ==
  alive => /\ buf.head + buf.used = buf.actually_used
           /\ buf.actually_used <= DataLen(buf)

\* ks_buffer_write never copies past the end of the allocated block.
WriteWithinAllocation == alive => buf.head + buf.used <= DataLen(buf)

\* The buffer, seen through write/read/toss/read_packet/zero, is a byte
\* queue: compaction, growth and failed reallocs never lose, reorder or
\* invent a byte.
Fifo == INSTANCE ByteQueue WITH q <- IF alive THEN Live(buf) ELSE <<>>, delivered <- out

FifoRefinement == Fifo!Spec

\* ks_buffer_zwrite appends its bytes, or drops the buffered bytes and
\* holds only its own (or nothing, when the retried write fails too).
ZWriteContract ==
  [][\A s \in Writes :
       ZWrite(s) => Live(buf') \in {Live(buf) \o s, s, <<>>}]_vars

\* A ks_buffer_read_packet that takes a whole packet lowers what
\* ks_buffer_packet_count reports by exactly one.
PacketCountDrops ==
  [][\A m \in 0 .. MaxRead, bey \in Bytes :
       /\ alive
       /\ Apply(ReadPacketResult(buf, bey, m))
       /\ 0 < PacketLenFrom(buf, bey, buf.head)
       /\ PacketLenFrom(buf, bey, buf.head) <= m
       => PacketCount(buf', bey) = PacketCount(buf, bey) - 1]_vars

\* Spec 8: a ks_buffer_write that returns 0 leaves the unread bytes as
\* they were.
WriteFailureKeepsContents ==
  [][\A s \in Writes : Write(s) /\ ret' = 0 => Live(buf') = Live(buf)]_vars

\* Spec 4.1: after ks_buffer_seek(n) with n <= used, used has dropped by
\* exactly n, as it does for ks_buffer_toss.
SeekConsumesExactly ==
  [][\A n \in 0 .. MaxRead :
       Seek(n) /\ n <= buf.used => buf'.used = buf.used - n]_vars

\* Spec 4.1: ks_buffer_read_loop returns the number of bytes it copied
\* into the caller's memory.
ReadLoopReturnsCopied ==
  [][\A n \in 0 .. MaxRead : ReadLoop(n) => ret' = Len(out')]_vars

\* Spec 4.1: ks_buffer_read_packet hands over nothing or one whole packet,
\* ending in a blank line, unless maxlen cut it short.
ReadPacketDeliversPacket ==
  [][\A m \in 0 .. MaxRead :
       ReadPacket(m) /\ 0 < ret' /\ ret' < m =>
         IsSuffix(<<LF, LF>>, out') \/ IsSuffix(<<LF, CR, LF>>, out')]_vars

\* ks_buffer_freespace returns (ks_size_t)(max_len - used): the
\* subtraction must not wrap around to a huge free space.
FreeSpaceDoesNotWrap == alive /\ MaxLen > 0 => buf.used <= MaxLen

\* Spec 4.1: a buffer created with start_len 0 takes its first write;
\* ks_buffer_write and ks_buffer_zero assert buffer->data != NULL.
DataAssertionHolds == alive => DataLen(buf) > 0

=============================================================================
