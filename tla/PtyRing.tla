------------------------------- MODULE PtyRing -------------------------------
(***************************************************************************)
(* The ring buffer of shl_pty.c that holds what a terminal sends to its    *)
(* child until the kernel takes it: growth on demand, the two-piece copy   *)
(* in, the two iovecs out.  "end = start" means empty, so one byte of the  *)
(* buffer always stays free.                                               *)
(*                                                                         *)
(* The two pieces of bit arithmetic, ring_pow2 and RING_MASK, are          *)
(* parameters; RingBits has the code's own definitions.                    *)
(***************************************************************************)
EXTENDS Integers, Sequences

CONSTANTS
  Byte,        \* what a byte can be
  Garbage,     \* the content of memory malloc returned and nobody wrote
  MaxSize,     \* the largest size_t
  Sizes,       \* the sizes a buffer can have
  RoundUp(_),  \* ring_pow2; 0 when it overflows
  Mask(_, _),  \* RING_MASK
  MaxWrite,    \* bound: bytes in one write
  MaxPending   \* bound: bytes pending when the terminal writes again

ASSUME GarbageAssumption == Garbage \notin Byte
ASSUME SizesAssumption == Sizes \subseteq 1 .. MaxSize /\ MaxSize \in Nat
ASSUME RoundUpAssumption ==
  \A v \in 1 .. MaxSize : RoundUp(v) = 0 \/ (RoundUp(v) \in Sizes /\ RoundUp(v) >= v)
ASSUME MaskAssumption ==
  \A n \in Sizes : \A v \in 0 .. n : Mask(n, v) = IF v = n THEN 0 ELSE v
ASSUME RingBoundsAssumption ==
  MaxWrite \in Nat /\ MaxPending \in Nat /\ MaxPending + MaxWrite < MaxSize

VARIABLES
  ring,  \* struct ring
  wire   \* the bytes the last writev handed over

ringVars == <<ring, wire>>

Least(m, n) == IF m < n THEN m ELSE n

\* The free bytes as ring_grow counts them, the reserved one included.
Free(r) == IF r.end < r.start THEN r.start - r.end ELSE r.start + r.size - r.end

Pending(r) == r.size - Free(r)

\* Wrong: the second piece of a wrapped buffer is put behind the space of the
\* whole old buffer, not behind the first piece.
ResizeGap(r, n) ==
  IF r.end >= r.start
  THEN [size |-> n, start |-> 0, end |-> r.end - r.start,
        buf |-> [k \in 0 .. n - 1 |->
                   IF k < r.end - r.start THEN r.buf[r.start + k] ELSE Garbage]]
  ELSE [size |-> n, start |-> 0, end |-> r.end + r.size - r.start,
        buf |-> [k \in 0 .. n - 1 |->
                   IF k < r.size - r.start THEN r.buf[r.start + k]
                   ELSE IF k \in r.size .. r.size + r.end - 1 THEN r.buf[k - r.size]
                   ELSE Garbage]]

\* ring_resize: the content moves to the front of a new buffer.
Resize(r, n) ==
  IF r.end = r.start
  THEN [size |-> n, start |-> 0, end |-> 0, buf |-> [k \in 0 .. n - 1 |-> Garbage]]
  ELSE IF r.end > r.start
  THEN [size |-> n, start |-> 0, end |-> r.end - r.start,
        buf |-> [k \in 0 .. n - 1 |->
                   IF k < r.end - r.start THEN r.buf[r.start + k] ELSE Garbage]]
  ELSE [size |-> n, start |-> 0, end |-> r.end + r.size - r.start,
        buf |-> [k \in 0 .. n - 1 |->
                   IF k < r.size - r.start THEN r.buf[r.start + k]
                   ELSE IF k < r.size - r.start + r.end THEN r.buf[k - (r.size - r.start)]
                   ELSE Garbage]]

\* Wrong: no byte kept free to tell a full buffer from an empty one.
FitsExactly(r, add) == Free(r) >= add

\* ring_grow leaves the buffer alone when the new bytes and one more fit.
Fits(r, add) == Free(r) > add
NewSize(r, add) == RoundUp(r.size + add - Free(r) + 1)
CanGrow(r, add) == NewSize(r, add) > r.size

\* ring_push once there is room: a piece up to the end of the buffer and the
\* rest, the second memcpy coming last.
Copy(r, data) ==
  LET len   == Len(data)
      first == IF r.start <= r.end THEN Least(r.size - r.end, len) ELSE 0
      mid   == IF r.start <= r.end THEN Mask(r.size, r.end + first) ELSE r.end
      rest  == len - first
  IN  [r EXCEPT
         !.end = IF rest = 0 THEN mid ELSE Mask(r.size, mid + rest),
         !.buf = [k \in 0 .. r.size - 1 |->
                    IF k >= mid /\ k < mid + rest THEN data[first + 1 + k - mid]
                    ELSE IF k >= r.end /\ k < r.end + first THEN data[1 + k - r.end]
                    ELSE r.buf[k]]]

\* ring_peek, the iovecs one after the other.
Peek(r) ==
  IF r.end > r.start
  THEN [i \in 1 .. r.end - r.start |-> r.buf[r.start + i - 1]]
  ELSE IF r.end < r.start
  THEN [i \in 1 .. r.size - r.start |-> r.buf[r.start + i - 1]]
       \o [i \in 1 .. r.end |-> r.buf[i - 1]]
  ELSE <<>>

\* Wrong: the start runs past the end of the buffer instead of back to its front.
PopUnmasked(r, len) ==
  [r EXCEPT !.start = IF r.start > r.end THEN r.start + Least(r.size - r.start, len)
                      ELSE r.start + Least(r.end - r.start, len)]

\* ring_pop.
Pop(r, len) ==
  LET first == IF r.start > r.end THEN Least(r.size - r.start, len) ELSE 0
      mid   == IF r.start > r.end THEN Mask(r.size, r.start + first) ELSE r.start
      rest  == len - first
  IN  [r EXCEPT !.start = IF rest = 0 THEN mid
                          ELSE Mask(r.size, mid + Least(r.end - mid, rest))]
-----------------------------------------------------------------------------
RingInit ==
  /\ ring = [size |-> 0, start |-> 0, end |-> 0, buf |-> [k \in {} |-> Garbage]]
  /\ wire = <<>>

\* shl_pty_write of "data" into a buffer that has room or that malloc enlarges.
PtyWrite(data) ==
  /\ Pending(ring) <= MaxPending
  /\ \/ /\ Fits(ring, Len(data))
        /\ ring' = Copy(ring, data)
     \/ /\ ~Fits(ring, Len(data)) /\ CanGrow(ring, Len(data))
        /\ ring' = Copy(Resize(ring, NewSize(ring, Len(data))), data)
  /\ UNCHANGED wire

\* shl_pty_write returns -ENOMEM.
PtyWriteFails(data) ==
  /\ Pending(ring) <= MaxPending
  /\ ~Fits(ring, Len(data))
  /\ UNCHANGED ringVars

\* pty_write: writev takes n bytes of the two pieces.
PtyFlush(n) ==
  /\ ring.end # ring.start
  /\ n \in 0 .. Len(Peek(ring))
  /\ wire' = SubSeq(Peek(ring), 1, n)
  /\ ring' = Pop(ring, n)

Writes == UNION {[1 .. n -> Byte] : n \in 0 .. MaxWrite}

RingNext ==
  \/ \E data \in Writes : PtyWrite(data) \/ PtyWriteFails(data)
  \/ \E n \in 0 .. MaxPending + MaxWrite : PtyFlush(n)

RingSpec == RingInit /\ [][RingNext]_ringVars
-----------------------------------------------------------------------------
\* The buffer has one of the sizes the masks work for, and both indices are in it.
RingTypeOK ==
  /\ ring.size \in {0} \cup Sizes
  /\ ring.start \in Nat /\ ring.end \in Nat
  /\ ring.start < ring.size \/ ring.start = 0
  /\ ring.end < ring.size \/ ring.end = 0
  /\ ring = [size |-> ring.size, start |-> ring.start, end |-> ring.end, buf |-> ring.buf]
  /\ ring.buf \in [0 .. ring.size - 1 -> Byte \cup {Garbage}]
  /\ wire \in Seq(Byte \cup {Garbage})

\* Nothing that was never written is pending or reaches the child: a buffer
\* enlarged while its content wraps exposes no byte of the new memory.
NoGarbage == Peek(ring) \in Seq(Byte) /\ wire \in Seq(Byte)

\* The ring is the queue of the bytes its two pieces hold (ring_push,
\* ring_resize and ring_pop against ring_peek).
Queue == INSTANCE ByteQueue WITH queue <- Peek(ring)
ImplementsQueue == Queue!Spec
=============================================================================
