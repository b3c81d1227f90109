---------------------------- MODULE PtyRingProofs ----------------------------
(***************************************************************************)
(* The output ring of a pty is a queue of bytes, for every size of size_t, *)
(* every alphabet and every bound.  The argument is about the operations:  *)
(* each is shown to keep the indices in the buffer and to do to the        *)
(* pending bytes what the queue operation does.  What it assumes of        *)
(* ring_pow2 and RING_MASK is then proved of the code's bit arithmetic:    *)
(* a number is the set of the positions of its ones, and each round of the *)
(* loop of ring_pow2 doubles the reach of every one.                       *)
(***************************************************************************)
EXTENDS PtyRing, RingBits, SequenceTheorems, WellFoundedInduction, TLAPS

\* The part of RingTypeOK that is about a ring.
RingOK(r) ==
  /\ r.size \in {0} \cup Sizes
  /\ r.start \in Nat /\ r.end \in Nat
  /\ r.start < r.size \/ r.start = 0
  /\ r.end < r.size \/ r.end = 0
  /\ r = [size |-> r.size, start |-> r.start, end |-> r.end, buf |-> r.buf]
  /\ r.buf \in [0 .. r.size - 1 -> Byte \cup {Garbage}]

\* How many bytes are pending, and where the k-th of them is.
Count(r) == IF r.end >= r.start THEN r.end - r.start ELSE r.size - r.start + r.end
Index(r, k) == IF r.start + k - 1 < r.size THEN r.start + k - 1
               ELSE r.start + k - 1 - r.size

\* The sizes are sizes (ring_resize asks for a power of two).
LEMMA SizesAreNat == Sizes \subseteq Nat \ {0} /\ MaxSize \in Nat
BY SizesAssumption

\* A function on 1 .. n is a sequence of length n.
LEMMA FunctionIsSeq ==
  ASSUME NEW S, NEW n \in Nat, NEW f \in [1 .. n -> S]
  PROVE  f \in Seq(S) /\ Len(f) = n
OBVIOUS

\* ring_peek hands out the pending bytes in order.
LEMMA PeekIsPending ==
  ASSUME NEW r, RingOK(r)
  PROVE  /\ Count(r) \in Nat
         /\ Count(r) = 0 \/ Count(r) < r.size
         /\ Peek(r) \in Seq(Byte \cup {Garbage})
         /\ Len(Peek(r)) = Count(r)
         /\ \A k \in 1 .. Count(r) :
              /\ Index(r, k) \in 0 .. r.size - 1
              /\ Peek(r)[k] = r.buf[Index(r, k)]
<1>0. /\ r.size \in Nat /\ r.start \in Nat /\ r.end \in Nat
      /\ r.start < r.size \/ r.start = 0
      /\ r.end < r.size \/ r.end = 0
  BY SizesAreNat DEF RingOK
<1>b. \A j \in 0 .. r.size - 1 : r.buf[j] \in Byte \cup {Garbage}
  BY DEF RingOK
<1>1. Count(r) \in Nat /\ (Count(r) = 0 \/ Count(r) < r.size)
  BY <1>0 DEF Count
<1>2. \A k \in 1 .. Count(r) : Index(r, k) \in 0 .. r.size - 1
  BY <1>0 DEF Count, Index
<1>3. CASE r.end > r.start
  <2>. DEFINE S1 == [i \in 1 .. r.end - r.start |-> r.buf[r.start + i - 1]]
  <2>1. Peek(r) = S1
    BY <1>3 DEF Peek
  <2>2. \A i \in 1 .. r.end - r.start : r.start + i - 1 \in 0 .. r.size - 1
    BY <1>0, <1>3
  <2>3. S1 \in [1 .. r.end - r.start -> Byte \cup {Garbage}]
    BY <2>2, <1>b
  <2>4. S1 \in Seq(Byte \cup {Garbage}) /\ Len(S1) = r.end - r.start
    <3>1. r.end - r.start \in Nat
      BY <1>0, <1>3
    <3>. HIDE DEF S1
    <3>. QED BY <2>3, <3>1, FunctionIsSeq
  <2>5. Count(r) = r.end - r.start
    BY <1>0, <1>3 DEF Count
  <2>6. \A k \in 1 .. Count(r) : Index(r, k) = r.start + k - 1
    BY <1>0, <1>3, <2>5 DEF Index
  <2>7. \A k \in 1 .. Count(r) : Peek(r)[k] = r.buf[Index(r, k)]
    BY <2>1, <2>5, <2>6
  <2>. QED BY <2>1, <2>4, <2>5, <2>7, <1>1, <1>2
<1>4. CASE r.end < r.start
  <2>. DEFINE n == r.size - r.start
              S1 == [i \in 1 .. n |-> r.buf[r.start + i - 1]]
              S2 == [i \in 1 .. r.end |-> r.buf[i - 1]]
  <2>1. Peek(r) = S1 \o S2
    <3>1. ~(r.end > r.start)
      BY <1>4, <1>0
    <3>. QED BY <3>1, <1>4 DEF Peek
  <2>2. /\ \A i \in 1 .. n : r.start + i - 1 \in 0 .. r.size - 1
        /\ \A i \in 1 .. r.end : i - 1 \in 0 .. r.size - 1
    BY <1>0, <1>4
  <2>3. /\ S1 \in [1 .. n -> Byte \cup {Garbage}]
        /\ S2 \in [1 .. r.end -> Byte \cup {Garbage}]
    BY <2>2, <1>b
  <2>4. /\ \A i \in 1 .. n : S1[i] = r.buf[r.start + i - 1]
        /\ \A i \in 1 .. r.end : S2[i] = r.buf[i - 1]
    OBVIOUS
  <2>5. n \in Nat /\ Count(r) = n + r.end
    BY <1>0, <1>4 DEF Count
  <2>. HIDE DEF S1, S2, n
  <2>6. /\ S1 \in Seq(Byte \cup {Garbage}) /\ Len(S1) = n
        /\ S2 \in Seq(Byte \cup {Garbage}) /\ Len(S2) = r.end
    BY <2>3, <2>5, <1>0, FunctionIsSeq
  <2>7. /\ Peek(r) \in Seq(Byte \cup {Garbage})
        /\ Len(Peek(r)) = Count(r)
        /\ \A k \in 1 .. Count(r) : Peek(r)[k] = IF k <= n THEN S1[k] ELSE S2[k - n]
    <3>1. /\ S1 \o S2 \in Seq(Byte \cup {Garbage})
          /\ Len(S1 \o S2) = Len(S1) + Len(S2)
          /\ \A k \in 1 .. Len(S1) + Len(S2) :
               (S1 \o S2)[k] = IF k <= Len(S1) THEN S1[k] ELSE S2[k - Len(S1)]
      BY <2>6, ConcatProperties
    <3>. QED BY <3>1, <2>1, <2>5, <2>6
  <2>8. \A k \in 1 .. Count(r) : Peek(r)[k] = r.buf[Index(r, k)]
    <3>. SUFFICES ASSUME NEW k \in 1 .. Count(r) PROVE Peek(r)[k] = r.buf[Index(r, k)]
      OBVIOUS
    <3>1. CASE k <= n
      <4>1. k \in 1 .. n /\ Index(r, k) = r.start + k - 1
        BY <3>1, <2>5, <1>0, <1>4 DEF Index, n
      <4>. QED BY <4>1, <2>4, <2>7, <3>1
    <3>2. CASE ~(k <= n)
      <4>1. k - n \in 1 .. r.end /\ Index(r, k) = (k - n) - 1
        BY <3>2, <2>5, <1>0, <1>4 DEF Index, n
      <4>. QED BY <4>1, <2>4, <2>7, <3>2
    <3>. QED BY <3>1, <3>2
  <2>. QED BY <2>7, <2>8, <1>1, <1>2
<1>5. CASE r.end = r.start
  BY <1>5, <1>0 DEF Peek, Count
<1>. QED BY <1>0, <1>3, <1>4, <1>5

\* What the two memcpys of ring_push do when the free space does not wrap ...
LEMMA CopyInOnePiece ==
  ASSUME NEW r, RingOK(r), r.size \in Sizes, NEW data \in Seq(Byte),
         Fits(r, Len(data)), r.end < r.start \/ Len(data) < r.size - r.end
  PROVE  Copy(r, data) =
           [size |-> r.size, start |-> r.start, end |-> r.end + Len(data),
            buf |-> [k \in 0 .. r.size - 1 |->
                       IF k >= r.end /\ k < r.end + Len(data) THEN data[1 + k - r.end]
                       ELSE r.buf[k]]]
<1>. DEFINE len   == Len(data)
            first == IF r.start <= r.end THEN Least(r.size - r.end, len) ELSE 0
            mid   == IF r.start <= r.end THEN Mask(r.size, r.end + first) ELSE r.end
            rest  == len - first
<1>0. /\ r.size \in Nat /\ r.start \in Nat /\ r.end \in Nat /\ len \in Nat
      /\ r.start < r.size /\ r.end < r.size /\ Free(r) > len
      /\ r = [size |-> r.size, start |-> r.start, end |-> r.end, buf |-> r.buf]
  BY SizesAreNat, LenProperties DEF RingOK, Fits
<1>m. \A v \in 0 .. r.size : Mask(r.size, v) = IF v = r.size THEN 0 ELSE v
  BY MaskAssumption
<1>1. Copy(r, data) =
        [r EXCEPT
           !.end = IF rest = 0 THEN mid ELSE Mask(r.size, mid + rest),
           !.buf = [k \in 0 .. r.size - 1 |->
                      IF k >= mid /\ k < mid + rest THEN data[first + 1 + k - mid]
                      ELSE IF k >= r.end /\ k < r.end + first THEN data[1 + k - r.end]
                      ELSE r.buf[k]]]
  BY DEF Copy
<1>. DEFINE newEnd == IF rest = 0 THEN mid ELSE Mask(r.size, mid + rest)
            newBuf == [k \in 0 .. r.size - 1 |->
                      IF k >= mid /\ k < mid + rest THEN data[first + 1 + k - mid]
                      ELSE IF k >= r.end /\ k < r.end + first THEN data[1 + k - r.end]
                      ELSE r.buf[k]]
<1>2. Copy(r, data) = [size |-> r.size, start |-> r.start, end |-> newEnd, buf |-> newBuf]
  <2>. HIDE DEF newEnd, newBuf
  <2>1. Copy(r, data) = [r EXCEPT !.end = newEnd, !.buf = newBuf]
    BY <1>1 DEF newEnd, newBuf
  <2>. QED BY <2>1, <1>0
<1>3. \/ first = len /\ mid = r.end + len /\ rest = 0
      \/ first = 0 /\ mid = r.end /\ rest = len
  <2>1. CASE r.start <= r.end
    <3>1. first = len
      BY <2>1, <1>0 DEF Least
    <3>2. r.end + len \in 0 .. r.size /\ r.end + len # r.size
      BY <2>1, <1>0
    <3>. QED BY <3>1, <3>2, <2>1, <1>0, <1>m
  <2>2. CASE r.end < r.start
    BY <2>2, <1>0
  <2>. QED BY <2>1, <2>2, <1>0
<1>4. r.end + len \in 0 .. r.size /\ r.end + len # r.size
  BY <1>0 DEF Free
<1>. HIDE DEF first, mid, rest, len
<1>5. newEnd = r.end + len
  BY <1>3, <1>4, <1>m, <1>0
<1>6. newBuf = [k \in 0 .. r.size - 1 |->
                  IF k >= r.end /\ k < r.end + len THEN data[1 + k - r.end] ELSE r.buf[k]]
  BY <1>3, <1>0
<1>. QED BY <1>2, <1>5, <1>6 DEF len

\* ... and when it does.
LEMMA CopyInTwoPieces ==
  ASSUME NEW r, RingOK(r), r.size \in Sizes, NEW data \in Seq(Byte),
         Fits(r, Len(data)), r.start <= r.end, Len(data) >= r.size - r.end
  PROVE  Copy(r, data) =
           [size |-> r.size, start |-> r.start, end |-> Len(data) - (r.size - r.end),
            buf |-> [k \in 0 .. r.size - 1 |->
                       IF k < Len(data) - (r.size - r.end) THEN data[r.size - r.end + 1 + k]
                       ELSE IF k >= r.end THEN data[1 + k - r.end]
                       ELSE r.buf[k]]]
<1>. DEFINE len   == Len(data)
            first == r.size - r.end
            rest  == len - first
            newEnd == IF rest = 0 THEN 0 ELSE Mask(r.size, 0 + rest)
            newBuf == [k \in 0 .. r.size - 1 |->
                      IF k >= 0 /\ k < 0 + rest THEN data[first + 1 + k - 0]
                      ELSE IF k >= r.end /\ k < r.end + first THEN data[1 + k - r.end]
                      ELSE r.buf[k]]
<1>0. /\ r.size \in Nat /\ r.start \in Nat /\ r.end \in Nat /\ len \in Nat
      /\ r.start < r.size /\ r.end < r.size /\ Free(r) > len
      /\ r = [size |-> r.size, start |-> r.start, end |-> r.end, buf |-> r.buf]
  BY SizesAreNat, LenProperties DEF RingOK, Fits
<1>m. \A v \in 0 .. r.size : Mask(r.size, v) = IF v = r.size THEN 0 ELSE v
  BY MaskAssumption
<1>1. Least(r.size - r.end, len) = first
  BY <1>0 DEF Least
<1>2. Mask(r.size, r.end + first) = 0
  <2>1. r.end + first = r.size /\ r.size \in 0 .. r.size
    BY <1>0
  <2>. HIDE DEF first
  <2>. QED BY <2>1, <1>m
<1>3. Copy(r, data) = [r EXCEPT !.end = newEnd, !.buf = newBuf]
  BY <1>1, <1>2 DEF Copy
<1>4. Copy(r, data) = [size |-> r.size, start |-> r.start, end |-> newEnd, buf |-> newBuf]
  <2>. HIDE DEF newEnd, newBuf
  <2>. QED BY <1>3, <1>0
<1>5. rest \in 0 .. r.size /\ rest # r.size /\ first \in Nat
  BY <1>0 DEF Free
<1>. HIDE DEF rest, len
<1>6. newEnd = rest
  BY <1>5, <1>m
<1>7. newBuf = [k \in 0 .. r.size - 1 |->
                  IF k < rest THEN data[first + 1 + k]
                  ELSE IF k >= r.end THEN data[1 + k - r.end] ELSE r.buf[k]]
  BY <1>5, <1>0
<1>. QED BY <1>4, <1>6, <1>7 DEF len, rest

\* Two sequences with the same elements.
LEMMA SameSeq ==
  ASSUME NEW S, NEW s \in Seq(S), NEW t \in Seq(S), NEW n \in Nat,
         Len(s) = n, Len(t) = n, \A k \in 1 .. n : s[k] = t[k]
  PROVE  s = t
BY SeqEqual

\* ring_push appends: the pending bytes stay, the new ones follow them.
LEMMA CopyAppends ==
  ASSUME NEW r, RingOK(r), r.size \in Sizes, NEW data \in Seq(Byte),
         Fits(r, Len(data))
  PROVE  /\ RingOK(Copy(r, data))
         /\ Peek(Copy(r, data)) = Peek(r) \o data
<1>. DEFINE R == Copy(r, data)
            len == Len(data)
            c == Count(r)
<1>0. /\ r.size \in Nat \ {0} /\ r.start \in Nat /\ r.end \in Nat /\ len \in Nat
      /\ r.start < r.size /\ r.end < r.size /\ Free(r) > len
  BY SizesAreNat, LenProperties DEF RingOK, Fits
<1>b. \A j \in 0 .. r.size - 1 : r.buf[j] \in Byte \cup {Garbage}
  BY DEF RingOK
<1>d. \A j \in 1 .. len : data[j] \in Byte
  BY ElementOfSeq
<1>c. c \in Nat /\ (c = 0 \/ c < r.size)
  BY <1>0 DEF Count
<1>1. /\ R.size = r.size /\ R.start = r.start /\ R.end \in Nat /\ R.end < R.size
      /\ R = [size |-> R.size, start |-> R.start, end |-> R.end, buf |-> R.buf]
      /\ R.buf \in [0 .. R.size - 1 -> Byte \cup {Garbage}]
      /\ Count(R) = c + len
      /\ \A k \in 1 .. c : R.buf[Index(R, k)] = r.buf[Index(r, k)]
      /\ \A k \in 1 .. len : R.buf[Index(R, c + k)] = data[k]
  <2>1. CASE r.end < r.start \/ len < r.size - r.end
    <3>. DEFINE B(k) == IF k >= r.end /\ k < r.end + len THEN data[1 + k - r.end]
                        ELSE r.buf[k]
    <3>1. R = [size |-> r.size, start |-> r.start, end |-> r.end + len,
               buf |-> [k \in 0 .. r.size - 1 |-> B(k)]]
      BY <2>1, CopyInOnePiece
    <3>2. \A k \in 0 .. r.size - 1 : B(k) \in Byte \cup {Garbage}
      <4>1. \A k \in 0 .. r.size - 1 : k >= r.end /\ k < r.end + len => 1 + k - r.end \in 1 .. len
        BY <1>0
      <4>. QED BY <4>1, <1>b, <1>d
    <3>3. r.end + len < r.size
      BY <1>0, <2>1 DEF Free
    <3>4. (IF r.end + len >= r.start THEN r.end + len - r.start
           ELSE r.size - r.start + (r.end + len)) = c + len
      BY <1>0, <2>1, <3>3 DEF Free, Count
    <3>5. \A k \in 1 .. c : /\ Index(r, k) \in 0 .. r.size - 1
                            /\ ~(Index(r, k) >= r.end /\ Index(r, k) < r.end + len)
      <4>. SUFFICES ASSUME NEW k \in 1 .. c
                    PROVE  /\ Index(r, k) \in 0 .. r.size - 1
                           /\ ~(Index(r, k) >= r.end /\ Index(r, k) < r.end + len)
        OBVIOUS
      <4>1. CASE r.end < r.start
        <5>1. r.end + len < r.start
          BY <4>1, <1>0 DEF Free
        <5>2. k \in Nat /\ k >= 1 /\ k <= r.size - r.start + r.end
          BY <4>1, <1>0 DEF Count
        <5>. HIDE DEF c, len
        <5>3. CASE r.start + k - 1 < r.size
          <6>1. Index(r, k) = r.start + k - 1
            BY <5>3 DEF Index
          <6>. QED BY <5>1, <5>2, <5>3, <6>1, <1>0
        <5>4. CASE ~(r.start + k - 1 < r.size)
          <6>1. Index(r, k) = r.start + k - 1 - r.size
            BY <5>4 DEF Index
          <6>2. r.start + k - 1 - r.size >= 0 /\ r.start + k - 1 - r.size < r.end
            BY <5>2, <5>4, <1>0
          <6>. QED BY <5>2, <6>1, <6>2, <1>0
        <5>. QED BY <5>3, <5>4
      <4>2. CASE r.start <= r.end
        <5>1. k \in Nat /\ k >= 1 /\ k <= r.end - r.start
          BY <4>2, <1>0 DEF Count
        <5>. HIDE DEF c, len
        <5>2. r.start + k - 1 < r.end /\ r.start + k - 1 < r.size
          BY <5>1, <1>0
        <5>3. Index(r, k) = r.start + k - 1
          BY <5>2 DEF Index
        <5>. QED BY <5>1, <5>2, <5>3, <1>0
      <4>. QED BY <4>1, <4>2, <1>0
    <3>6. \A k \in 1 .. len : /\ Index(r, c + k) = r.end + k - 1
                              /\ r.end + k - 1 \in 0 .. r.size - 1
                              /\ r.end + k - 1 >= r.end /\ r.end + k - 1 < r.end + len
                              /\ 1 + (r.end + k - 1) - r.end = k
      <4>. HIDE DEF c, len
      <4>. SUFFICES ASSUME NEW k \in 1 .. len
                    PROVE  /\ Index(r, c + k) = r.end + k - 1
                           /\ r.end + k - 1 \in 0 .. r.size - 1
                           /\ r.end + k - 1 >= r.end /\ r.end + k - 1 < r.end + len
                           /\ 1 + (r.end + k - 1) - r.end = k
        OBVIOUS
      <4>0. k \in Nat /\ k >= 1 /\ k <= len
        BY <1>0
      <4>1. Index(r, c + k) = r.end + k - 1
        <5>1. CASE r.end < r.start
          <6>1. c = r.size - r.start + r.end
            BY <5>1, <1>0 DEF Count, c
          <6>2. /\ ~(r.start + (c + k) - 1 < r.size)
                /\ r.start + (c + k) - 1 - r.size = r.end + k - 1
            BY <6>1, <4>0, <1>0
          <6>. QED BY <6>2 DEF Index
        <5>2. CASE r.start <= r.end
          <6>1. c = r.end - r.start
            BY <5>2, <1>0 DEF Count, c
          <6>2. r.start + (c + k) - 1 = r.end + k - 1
            BY <6>1, <4>0, <1>0
          <6>3. r.end + k - 1 < r.size
            BY <3>3, <4>0, <1>0
          <6>. QED BY <6>2, <6>3 DEF Index
        <5>. QED BY <5>1, <5>2, <1>0
      <4>2. /\ r.end + k - 1 \in 0 .. r.size - 1
            /\ r.end + k - 1 >= r.end /\ r.end + k - 1 < r.end + len
            /\ 1 + (r.end + k - 1) - r.end = k
        BY <3>3, <4>0, <1>0
      <4>. QED BY <4>1, <4>2
    <3>7. \A k : Index(R, k) = Index(r, k)
      BY <3>1 DEF Index
    <3>8. Count(R) = c + len
      <4>1. R.end = r.end + len /\ R.start = r.start /\ R.size = r.size
        BY <3>1
      <4>2. r.end + len \in Nat
        BY <1>0 DEF len
      <4>. HIDE DEF R, c, len
      <4>. QED BY <4>1, <4>2, <3>4, <1>0 DEF Count
    <3>9. \A k \in 0 .. r.size - 1 : R.buf[k] = B(k)
      BY <3>1
    <3>10. \A k \in 1 .. c : R.buf[Index(R, k)] = r.buf[Index(r, k)]
      BY <3>5, <3>7, <3>9
    <3>11. \A k \in 1 .. len : R.buf[Index(R, c + k)] = data[k]
      BY <3>6, <3>7, <3>9
    <3>12. R.buf \in [0 .. R.size - 1 -> Byte \cup {Garbage}]
      BY <3>1, <3>2
    <3>13. r.end + len \in Nat
      BY <1>0
    <3>14. /\ R.size = r.size /\ R.start = r.start /\ R.end = r.end + len
           /\ R = [size |-> R.size, start |-> R.start, end |-> R.end, buf |-> R.buf]
      <4>. HIDE DEF B
      <4>. QED BY <3>1
    <3>. HIDE DEF R, B, c, len
    <3>. QED BY <3>3, <3>8, <3>10, <3>11, <3>12, <3>13, <3>14
  <2>2. CASE r.start <= r.end /\ len >= r.size - r.end
    <3>. DEFINE f == r.size - r.end
                B(k) == IF k < len - f THEN data[f + 1 + k]
                        ELSE IF k >= r.end THEN data[1 + k - r.end]
                        ELSE r.buf[k]
    <3>1. R = [size |-> r.size, start |-> r.start, end |-> len - f,
               buf |-> [k \in 0 .. r.size - 1 |-> B(k)]]
      BY <2>2, CopyInTwoPieces
    <3>2. \A k \in 0 .. r.size - 1 : B(k) \in Byte \cup {Garbage}
      <4>1. \A k \in 0 .. r.size - 1 : /\ k < len - f => f + 1 + k \in 1 .. len
                                       /\ k >= r.end => 1 + k - r.end \in 1 .. len
        BY <1>0, <2>2
      <4>. QED BY <4>1, <1>b, <1>d
    <3>3. len - f \in Nat /\ len - f < r.start /\ len - f < r.size
      BY <1>0, <2>2 DEF Free
    <3>4. r.size - r.start + (len - f) = c + len
      BY <1>0, <2>2, <3>3 DEF Count
    <3>5. \A k \in 1 .. c : /\ Index(r, k) \in 0 .. r.size - 1
                            /\ ~(Index(r, k) < len - f) /\ ~(Index(r, k) >= r.end)
      BY <1>0, <2>2, <3>3 DEF Count, Index
    <3>6. \A k \in 1 .. len :
            /\ Index(r, c + k) \in 0 .. r.size - 1
            /\ k <= f => /\ Index(r, c + k) >= r.end
                         /\ ~(Index(r, c + k) < len - f)
                         /\ 1 + Index(r, c + k) - r.end = k
            /\ k > f => /\ Index(r, c + k) < len - f
                        /\ f + 1 + Index(r, c + k) = k
      <4>. SUFFICES ASSUME NEW k \in 1 .. len
                    PROVE  /\ Index(r, c + k) \in 0 .. r.size - 1
                           /\ k <= f => /\ Index(r, c + k) >= r.end
                                        /\ ~(Index(r, c + k) < len - f)
                                        /\ 1 + Index(r, c + k) - r.end = k
                           /\ k > f => /\ Index(r, c + k) < len - f
                                       /\ f + 1 + Index(r, c + k) = k
        OBVIOUS
      <4>1. c = r.end - r.start
        BY <2>2, <1>0 DEF Count
      <4>2. CASE k <= f
        <5>1. Index(r, c + k) = r.end + k - 1
          BY <4>1, <4>2, <2>2, <1>0 DEF Index
        <5>. QED BY <5>1, <4>2, <2>2, <3>3, <1>0
      <4>3. CASE k > f
        <5>1. Index(r, c + k) = k - f - 1
          BY <4>1, <4>3, <2>2, <1>0 DEF Index
        <5>. QED BY <5>1, <4>3, <2>2, <3>3, <1>0
      <4>. QED BY <4>2, <4>3, <1>0
    <3>7. \A k : Index(R, k) = Index(r, k)
      BY <3>1 DEF Index
    <3>8. Count(R) = c + len
      <4>1. R.end = len - f /\ R.start = r.start /\ R.size = r.size
        BY <3>1
      <4>2. ~(len - f >= r.start)
        BY <3>3, <1>0
      <4>. HIDE DEF R, c, len, f
      <4>. QED BY <4>1, <4>2, <3>4 DEF Count
    <3>9. \A k \in 0 .. r.size - 1 : R.buf[k] = B(k)
      BY <3>1
    <3>10. \A k \in 1 .. c : R.buf[Index(R, k)] = r.buf[Index(r, k)]
      BY <3>5, <3>7, <3>9
    <3>11. \A k \in 1 .. len : R.buf[Index(R, c + k)] = data[k]
      <4>. SUFFICES ASSUME NEW k \in 1 .. len PROVE R.buf[Index(r, c + k)] = data[k]
        BY <3>7
      <4>1. R.buf[Index(r, c + k)] = B(Index(r, c + k))
        BY <3>6, <3>9
      <4>2. CASE k <= f
        BY <4>1, <4>2, <3>6
      <4>3. CASE k > f
        BY <4>1, <4>3, <3>6
      <4>4. k <= f \/ k > f
        BY <1>0
      <4>. QED BY <4>2, <4>3, <4>4
    <3>12. R.buf \in [0 .. R.size - 1 -> Byte \cup {Garbage}]
      BY <3>1, <3>2
    <3>14. /\ R.size = r.size /\ R.start = r.start /\ R.end = len - f
           /\ R = [size |-> R.size, start |-> R.start, end |-> R.end, buf |-> R.buf]
      <4>. HIDE DEF B
      <4>. QED BY <3>1
    <3>. HIDE DEF R, B, c, len, f
    <3>. QED BY <3>3, <3>8, <3>10, <3>11, <3>12, <3>14
  <2>. QED BY <2>1, <2>2, <1>0
<1>. HIDE DEF R, len, c
<1>2. RingOK(R)
  <2>1. R.size \in Sizes /\ R.start \in Nat /\ R.start < R.size
    BY <1>0, <1>1
  <2>. QED BY <1>1, <2>1 DEF RingOK
<1>3. Peek(R) = Peek(r) \o data
  <2>. DEFINE S == Byte \cup {Garbage}
  <2>1. /\ Peek(R) \in Seq(S) /\ Len(Peek(R)) = c + len
        /\ \A k \in 1 .. c + len : Peek(R)[k] = R.buf[Index(R, k)]
    BY <1>1, <1>2, PeekIsPending
  <2>2. /\ Peek(r) \in Seq(S) /\ Len(Peek(r)) = c
        /\ \A k \in 1 .. c : Peek(r)[k] = r.buf[Index(r, k)]
    BY PeekIsPending DEF c
  <2>3. data \in Seq(S) /\ Len(data) = len
    <3>1. data \in [1 .. Len(data) -> Byte] /\ Len(data) \in Nat
      BY LenProperties
    <3>2. data \in [1 .. Len(data) -> S]
      BY <3>1
    <3>. QED BY <3>1, <3>2, FunctionIsSeq DEF len
  <2>. HIDE DEF S
  <2>4. /\ Peek(r) \o data \in Seq(S)
        /\ Len(Peek(r) \o data) = c + len
        /\ \A k \in 1 .. c + len :
             (Peek(r) \o data)[k] = IF k <= c THEN Peek(r)[k] ELSE data[k - c]
    BY <2>2, <2>3, ConcatProperties
  <2>5. ASSUME NEW k \in 1 .. c + len PROVE Peek(R)[k] = (Peek(r) \o data)[k]
    <3>1. CASE k <= c
      <4>1. k \in 1 .. c
        BY <3>1, <1>0, <1>c
      <4>. QED BY <4>1, <3>1, <2>1, <2>2, <2>4, <1>1
    <3>2. CASE ~(k <= c)
      <4>1. k - c \in 1 .. len /\ c + (k - c) = k
        BY <3>2, <1>0, <1>c
      <4>2. R.buf[Index(R, c + (k - c))] = data[k - c]
        BY <4>1, <1>1
      <4>. QED BY <4>1, <4>2, <3>2, <2>1, <2>4
    <3>. QED BY <3>1, <3>2
  <2>6. c + len \in Nat
    BY <1>0, <1>c
  <2>. QED BY <2>1, <2>4, <2>5, <2>6, SameSeq
<1>. QED BY <1>2, <1>3 DEF R

\* ring_resize keeps the pending bytes, wrapped or not, and makes the room asked for.
LEMMA ResizeKeeps ==
  ASSUME NEW r, RingOK(r), NEW n \in Sizes, n > r.size
  PROVE  /\ RingOK(Resize(r, n))
         /\ Resize(r, n).size = n
         /\ Free(Resize(r, n)) = n - Count(r)
         /\ Peek(Resize(r, n)) = Peek(r)
<1>. DEFINE R == Resize(r, n)
            c == Count(r)
<1>0. /\ r.size \in Nat /\ r.start \in Nat /\ r.end \in Nat /\ n \in Nat \ {0}
      /\ r.start < r.size \/ r.start = 0
      /\ r.end < r.size \/ r.end = 0
  BY SizesAreNat DEF RingOK
<1>b. \A j \in 0 .. r.size - 1 : r.buf[j] \in Byte \cup {Garbage}
  BY DEF RingOK
<1>c. /\ c \in Nat /\ (c = 0 \/ c < r.size) /\ c < n
      /\ \A k \in 1 .. c : Index(r, k) \in 0 .. r.size - 1
  BY PeekIsPending, <1>0
<1>1. R = [size |-> n, start |-> 0, end |-> c,
           buf |-> [k \in 0 .. n - 1 |-> IF k < c THEN r.buf[Index(r, k + 1)] ELSE Garbage]]
  <2>1. CASE r.end = r.start
    <3>1. c = 0
      BY <2>1, <1>0 DEF Count
    <3>2. [k \in 0 .. n - 1 |-> IF k < 0 THEN r.buf[Index(r, k + 1)] ELSE Garbage]
            = [k \in 0 .. n - 1 |-> Garbage]
      <4>1. \A k \in 0 .. n - 1 : ~(k < 0)
        BY <1>0
      <4>. QED BY <4>1
    <3>. HIDE DEF c
    <3>. QED BY <2>1, <3>1, <3>2 DEF Resize
  <2>2. CASE r.end > r.start
    <3>1. c = r.end - r.start /\ r.end # r.start
      BY <2>2, <1>0 DEF Count
    <3>2. \A k \in 0 .. n - 1 : k < c => Index(r, k + 1) = r.start + k
      BY <2>2, <3>1, <1>0 DEF Index
    <3>. HIDE DEF c
    <3>3. [k \in 0 .. n - 1 |-> IF k < c THEN r.buf[r.start + k] ELSE Garbage]
            = [k \in 0 .. n - 1 |-> IF k < c THEN r.buf[Index(r, k + 1)] ELSE Garbage]
      BY <3>2
    <3>4. R = [size |-> n, start |-> 0, end |-> c,
               buf |-> [k \in 0 .. n - 1 |-> IF k < c THEN r.buf[r.start + k] ELSE Garbage]]
      BY <2>2, <3>1 DEF Resize
    <3>. QED BY <3>3, <3>4
  <2>3. CASE r.end < r.start
    <3>. DEFINE h == r.size - r.start
                B(k) == IF k < h THEN r.buf[r.start + k]
                        ELSE IF k < h + r.end THEN r.buf[k - h] ELSE Garbage
    <3>1. /\ c = h + r.end /\ c = r.end + r.size - r.start
          /\ ~(r.end > r.start) /\ r.end # r.start
      BY <2>3, <1>0 DEF Count
    <3>2. \A k \in 0 .. n - 1 :
            /\ k < h => k < c /\ Index(r, k + 1) = r.start + k
            /\ ~(k < h) /\ k < h + r.end => k < c /\ Index(r, k + 1) = k - h
            /\ ~(k < h) /\ ~(k < h + r.end) => ~(k < c)
      BY <2>3, <3>1, <1>0 DEF Index
    <3>3. R = [size |-> n, start |-> 0, end |-> c, buf |-> [k \in 0 .. n - 1 |-> B(k)]]
      BY <3>1, <2>3 DEF Resize
    <3>. HIDE DEF c, h
    <3>4. [k \in 0 .. n - 1 |-> B(k)]
            = [k \in 0 .. n - 1 |-> IF k < c THEN r.buf[Index(r, k + 1)] ELSE Garbage]
      BY <3>2
    <3>. QED BY <3>3, <3>4
  <2>. QED BY <2>1, <2>2, <2>3, <1>0
<1>. HIDE DEF R, c
<1>2. /\ R.size = n /\ R.start = 0 /\ R.end = c
      /\ R = [size |-> R.size, start |-> R.start, end |-> R.end, buf |-> R.buf]
  BY <1>1
<1>3. \A k \in 1 .. c : /\ Index(R, k) = k - 1 /\ k - 1 \in 0 .. n - 1
                        /\ k - 1 < c /\ (k - 1) + 1 = k
  BY <1>2, <1>0, <1>c DEF Index
<1>4. \A k \in 1 .. c : R.buf[Index(R, k)] = r.buf[Index(r, k)]
  BY <1>1, <1>3
<1>5. R.buf \in [0 .. n - 1 -> Byte \cup {Garbage}]
  <2>1. \A k \in 0 .. n - 1 : k < c => Index(r, k + 1) \in 0 .. r.size - 1
    <3>1. \A k \in 0 .. n - 1 : k < c => k + 1 \in 1 .. c
      BY <1>0, <1>c
    <3>. QED BY <3>1, <1>c
  <2>2. \A k \in 0 .. n - 1 :
          (IF k < c THEN r.buf[Index(r, k + 1)] ELSE Garbage) \in Byte \cup {Garbage}
    BY <2>1, <1>b
  <2>. QED BY <1>1, <2>2
<1>6. RingOK(R)
  BY <1>2, <1>5, <1>c, <1>0 DEF RingOK
<1>7. Count(R) = c /\ Free(R) = n - c
  BY <1>2, <1>c, <1>0 DEF Count, Free
<1>8. Peek(R) = Peek(r)
  <2>. DEFINE S == Byte \cup {Garbage}
  <2>1. /\ Peek(R) \in Seq(S) /\ Len(Peek(R)) = c
        /\ \A k \in 1 .. c : Peek(R)[k] = R.buf[Index(R, k)]
    BY <1>6, <1>7, PeekIsPending
  <2>2. /\ Peek(r) \in Seq(S) /\ Len(Peek(r)) = c
        /\ \A k \in 1 .. c : Peek(r)[k] = r.buf[Index(r, k)]
    BY PeekIsPending DEF c
  <2>. HIDE DEF S
  <2>. QED BY <2>1, <2>2, <1>4, <1>c, SameSeq
<1>. QED BY <1>2, <1>6, <1>7, <1>8 DEF R, c

\* ring_pop drops bytes from the front only.
LEMMA PopDrops ==
  ASSUME NEW r, RingOK(r), r.size \in Sizes, NEW m \in 0 .. Len(Peek(r))
  PROVE  /\ RingOK(Pop(r, m))
         /\ Peek(Pop(r, m)) = SubSeq(Peek(r), m + 1, Len(Peek(r)))
<1>. DEFINE R == Pop(r, m)
            c == Count(r)
            S == Byte \cup {Garbage}
            s == IF r.start + m < r.size THEN r.start + m ELSE r.start + m - r.size
<1>0. /\ r.size \in Nat \ {0} /\ r.start \in Nat /\ r.end \in Nat
      /\ r.start < r.size /\ r.end < r.size
      /\ r = [size |-> r.size, start |-> r.start, end |-> r.end, buf |-> r.buf]
  BY SizesAreNat DEF RingOK
<1>m. \A v \in 0 .. r.size : Mask(r.size, v) = IF v = r.size THEN 0 ELSE v
  BY MaskAssumption
<1>p. /\ Peek(r) \in Seq(S) /\ Len(Peek(r)) = c /\ c \in Nat /\ c < r.size
      /\ \A k \in 1 .. c : Peek(r)[k] = r.buf[Index(r, k)]
  BY PeekIsPending, <1>0
<1>n. m \in Nat /\ m <= c
  BY <1>p
<1>1. R = [r EXCEPT !.start = s]
  <2>. DEFINE first == IF r.start > r.end THEN Least(r.size - r.start, m) ELSE 0
              mid   == IF r.start > r.end THEN Mask(r.size, r.start + first) ELSE r.start
              rest  == m - first
  <2>0. R = [r EXCEPT !.start = IF rest = 0 THEN mid
                                ELSE Mask(r.size, mid + Least(r.end - mid, rest))]
    BY DEF Pop
  <2>1. CASE r.start > r.end /\ m < r.size - r.start
    <3>1. first = m /\ rest = 0
      BY <2>1, <1>0, <1>n DEF Least
    <3>2. r.start + m \in 0 .. r.size /\ r.start + m # r.size /\ r.start + m < r.size
      BY <2>1, <1>0, <1>n
    <3>3. mid = r.start + m
      <4>. HIDE DEF first
      <4>. QED BY <2>1, <3>1, <3>2, <1>m
    <3>. HIDE DEF first, mid, rest
    <3>. QED BY <2>0, <3>1, <3>2, <3>3
  <2>2. CASE r.start > r.end /\ ~(m < r.size - r.start)
    <3>1. first = r.size - r.start
      BY <2>2, <1>0, <1>n DEF Least
    <3>2. r.start + first = r.size /\ r.size \in 0 .. r.size
      <4>. HIDE DEF first
      <4>. QED BY <3>1, <1>0
    <3>3. mid = 0
      <4>. HIDE DEF first
      <4>. QED BY <2>2, <3>2, <1>m
    <3>. HIDE DEF first, mid
    <3>4. c = r.size - r.start + r.end
      BY <2>2, <1>0 DEF Count
    <3>. HIDE DEF c
    <3>5. /\ rest = r.start + m - r.size /\ rest \in Nat /\ rest <= r.end
          /\ rest \in 0 .. r.size /\ rest # r.size
          /\ ~(r.start + m < r.size)
      BY <3>1, <3>4, <2>2, <1>0, <1>n
    <3>. HIDE DEF rest
    <3>6. mid + Least(r.end - mid, rest) = rest
      BY <3>3, <3>5, <1>0 DEF Least
    <3>7. (IF rest = 0 THEN mid ELSE Mask(r.size, mid + Least(r.end - mid, rest))) = rest
      BY <3>3, <3>5, <3>6, <1>m
    <3>8. s = rest
      BY <3>5
    <3>. HIDE DEF s
    <3>. QED BY <2>0, <3>7, <3>8
  <2>3. CASE ~(r.start > r.end)
    <3>1. first = 0 /\ mid = r.start
      BY <2>3
    <3>. HIDE DEF first, mid
    <3>2. c = r.end - r.start
      BY <2>3, <1>0 DEF Count
    <3>. HIDE DEF c
    <3>3. /\ rest = m /\ r.start + m < r.size
          /\ r.start + m \in 0 .. r.size /\ r.start + m # r.size
      BY <3>1, <3>2, <2>3, <1>0, <1>n
    <3>. HIDE DEF rest
    <3>4. mid + Least(r.end - mid, rest) = r.start + m
      BY <3>1, <3>2, <3>3, <1>0, <1>n DEF Least
    <3>5. (IF rest = 0 THEN mid ELSE Mask(r.size, mid + Least(r.end - mid, rest))) = r.start + m
      BY <3>1, <3>3, <3>4, <1>m, <1>0, <1>n
    <3>6. s = r.start + m
      BY <3>3
    <3>. HIDE DEF s
    <3>. QED BY <2>0, <3>5, <3>6
  <2>. QED BY <2>1, <2>2, <2>3
<1>2. s \in Nat /\ s < r.size
  BY <1>0, <1>n, <1>p
<1>. HIDE DEF R, c, s
<1>3. /\ R.size = r.size /\ R.start = s /\ R.end = r.end /\ R.buf = r.buf
      /\ R = [size |-> R.size, start |-> R.start, end |-> R.end, buf |-> R.buf]
  BY <1>0, <1>1
<1>4. RingOK(R)
  BY <1>0, <1>2, <1>3 DEF RingOK
<1>5. Count(R) = c - m
  <2>1. CASE r.end >= r.start
    <3>1. c = r.end - r.start
      BY <2>1, <1>0 DEF c, Count
    <3>2. s = r.start + m /\ r.end >= s
      BY <2>1, <3>1, <1>0, <1>n DEF s
    <3>. QED BY <3>1, <3>2, <1>0, <1>3, <1>n DEF Count
  <2>2. CASE r.end < r.start
    <3>1. c = r.size - r.start + r.end
      BY <2>2, <1>0 DEF c, Count
    <3>2. CASE r.start + m < r.size
      <4>1. s = r.start + m /\ ~(r.end >= s)
        BY <2>2, <3>2, <1>0, <1>n DEF s
      <4>. QED BY <3>1, <4>1, <1>0, <1>3, <1>n DEF Count
    <3>3. CASE ~(r.start + m < r.size)
      <4>1. s = r.start + m - r.size /\ r.end >= s
        BY <2>2, <3>1, <3>3, <1>0, <1>n DEF s
      <4>. QED BY <3>1, <4>1, <1>0, <1>3, <1>n DEF Count
    <3>. QED BY <3>2, <3>3
  <2>. QED BY <2>1, <2>2, <1>0
<1>6. \A k \in 1 .. c - m : Index(R, k) = Index(r, m + k) /\ m + k \in 1 .. c
  <2>1. \A k \in 1 .. c - m : m + k \in 1 .. c
    BY <1>n, <1>p
  <2>2. \A k \in 1 .. c - m :
          (IF s + k - 1 < r.size THEN s + k - 1 ELSE s + k - 1 - r.size)
          = (IF r.start + (m + k) - 1 < r.size THEN r.start + (m + k) - 1
             ELSE r.start + (m + k) - 1 - r.size)
    BY <1>0, <1>n, <1>p DEF s
  <2>3. \A k : Index(R, k) = IF s + k - 1 < r.size THEN s + k - 1 ELSE s + k - 1 - r.size
    BY <1>3 DEF Index
  <2>4. \A k \in 1 .. c - m :
          Index(r, m + k) = IF r.start + (m + k) - 1 < r.size THEN r.start + (m + k) - 1
                            ELSE r.start + (m + k) - 1 - r.size
    BY DEF Index
  <2>. QED BY <2>1, <2>2, <2>3, <2>4
<1>7. /\ Peek(R) \in Seq(S) /\ Len(Peek(R)) = c - m
      /\ \A k \in 1 .. c - m : Peek(R)[k] = R.buf[Index(R, k)]
  BY <1>4, <1>5, PeekIsPending
<1>. HIDE DEF S
<1>8. \A k \in 1 .. c - m : Peek(R)[k] = Peek(r)[m + k]
  BY <1>3, <1>6, <1>7, <1>p
<1>9. /\ SubSeq(Peek(r), m + 1, c) \in Seq(S)
      /\ Len(SubSeq(Peek(r), m + 1, c)) = c - m
      /\ \A k \in 1 .. c - m : SubSeq(Peek(r), m + 1, c)[k] = Peek(r)[m + k]
  <2>1. \A i \in m + 1 .. c : Peek(r)[i] \in S
    <3>1. \A i \in m + 1 .. c : i \in 1 .. Len(Peek(r))
      BY <1>n, <1>p
    <3>. QED BY <3>1, <1>p, ElementOfSeq
  <2>2. m + 1 \in Int /\ c \in Int
    BY <1>n, <1>p
  <2>3. /\ SubSeq(Peek(r), m + 1, c) \in Seq(S)
        /\ Len(SubSeq(Peek(r), m + 1, c)) = IF m + 1 <= c THEN c - (m + 1) + 1 ELSE 0
        /\ \A i \in 1 .. c - (m + 1) + 1 :
             SubSeq(Peek(r), m + 1, c)[i] = Peek(r)[(m + 1) + i - 1]
    BY <2>1, <2>2, SubSeqProperties
  <2>4. /\ c - (m + 1) + 1 = c - m
        /\ (IF m + 1 <= c THEN c - (m + 1) + 1 ELSE 0) = c - m
        /\ \A i \in 1 .. c - m : (m + 1) + i - 1 = m + i
    BY <1>n, <1>p
  <2>. QED BY <2>3, <2>4
<1>10. c - m \in Nat
  BY <1>n, <1>p
<1>11. Peek(R) = SubSeq(Peek(r), m + 1, c)
  BY <1>7, <1>8, <1>9, <1>10, SameSeq
<1>. QED BY <1>4, <1>11, <1>p DEF R

\* What ring_grow counts as free is what the pending bytes leave.
LEMMA FreeIsRest ==
  ASSUME NEW r, RingOK(r)
  PROVE  Free(r) = r.size - Count(r) /\ Pending(r) = Count(r)
<1>0. /\ r.size \in Nat /\ r.start \in Nat /\ r.end \in Nat
      /\ r.start < r.size \/ r.start = 0
      /\ r.end < r.size \/ r.end = 0
  BY SizesAreNat DEF RingOK
<1>1. Free(r) = r.size - Count(r)
  BY <1>0 DEF Free, Count
<1>2. Count(r) \in Int
  BY <1>0 DEF Count
<1>. QED BY <1>0, <1>1, <1>2 DEF Pending

\* A write that ring_grow accepts appends its bytes, whether or not the buffer
\* had to be enlarged.
LEMMA WriteAppends ==
  ASSUME RingOK(ring), NEW data \in Writes, PtyWrite(data)
  PROVE  /\ RingOK(ring') /\ data \in Seq(Byte)
         /\ Peek(ring)' = Peek(ring) \o data
<1>. DEFINE add == Len(data)
            c == Count(ring)
<1>1. data \in Seq(Byte) /\ add \in Nat /\ add <= MaxWrite
  <2>1. PICK n \in 0 .. MaxWrite : data \in [1 .. n -> Byte]
    BY DEF Writes
  <2>2. n \in Nat /\ n <= MaxWrite
    BY RingBoundsAssumption
  <2>. QED BY <2>1, <2>2, FunctionIsSeq
<1>2. ring.size \in Nat /\ c \in Nat /\ Free(ring) = ring.size - c /\ c <= MaxPending
  BY FreeIsRest, PeekIsPending, SizesAreNat DEF RingOK, PtyWrite
<1>3. CASE Fits(ring, add) /\ ring' = Copy(ring, data)
  <2>1. ring.size > 0
    <3>. HIDE DEF c, add
    <3>. QED BY <1>1, <1>2, <1>3 DEF Fits
  <2>2. ring.size \in Sizes
    BY <2>1 DEF RingOK
  <2>. QED BY <1>1, <1>3, <2>2, CopyAppends
<1>4. CASE /\ ~Fits(ring, add) /\ CanGrow(ring, add)
           /\ ring' = Copy(Resize(ring, NewSize(ring, add)), data)
  <2>. DEFINE n == NewSize(ring, add)
              R == Resize(ring, n)
              v == ring.size + add - Free(ring) + 1
  <2>1. v = c + add + 1 /\ v \in 1 .. MaxSize
    <3>. HIDE DEF c, add
    <3>. QED BY <1>1, <1>2, RingBoundsAssumption, SizesAreNat
  <2>2. n > ring.size /\ n = RoundUp(v)
    BY <1>4 DEF CanGrow, NewSize
  <2>3. n \in Sizes /\ n >= v
    <3>1. n # 0
      <4>. HIDE DEF n
      <4>. QED BY <2>2, <1>2
    <3>. HIDE DEF v
    <3>. QED BY <2>1, <2>2, <3>1, RoundUpAssumption
  <2>. HIDE DEF n, v
  <2>4. /\ RingOK(R) /\ R.size = n /\ Free(R) = n - c /\ Peek(R) = Peek(ring)
    BY <2>2, <2>3, ResizeKeeps
  <2>5. Fits(R, add)
    <3>1. n \in Nat
      BY <2>3, SizesAreNat
    <3>2. n - c > add
      <4>. HIDE DEF add, c
      <4>. QED BY <2>1, <2>3, <3>1, <1>1, <1>2
    <3>. QED BY <2>4, <3>2 DEF Fits
  <2>. HIDE DEF R
  <2>6. /\ RingOK(Copy(R, data)) /\ Peek(Copy(R, data)) = Peek(R) \o data
    BY <1>1, <2>3, <2>4, <2>5, CopyAppends
  <2>7. ring' = Copy(R, data)
    BY <1>4 DEF R, n
  <2>. QED BY <1>1, <2>4, <2>6, <2>7
<1>. QED BY <1>3, <1>4 DEF PtyWrite

\* A flush moves the bytes the kernel took from the front of the pending ones
\* to the wire.
LEMMA FlushTakes ==
  ASSUME RingOK(ring), NEW n, PtyFlush(n)
  PROVE  /\ RingOK(ring') /\ n \in 0 .. Len(Peek(ring))
         /\ Peek(ring)' = SubSeq(Peek(ring), n + 1, Len(Peek(ring)))
         /\ wire' = SubSeq(Peek(ring), 1, n)
<1>1. ring.size \in Sizes
  <2>1. ring.end # ring.start
    BY DEF PtyFlush
  <2>2. ring.size \in Nat /\ ring.size # 0
    BY <2>1, SizesAreNat DEF RingOK
  <2>. QED BY <2>2 DEF RingOK
<1>2. n \in 0 .. Len(Peek(ring)) /\ ring' = Pop(ring, n) /\ wire' = SubSeq(Peek(ring), 1, n)
  BY DEF PtyFlush
<1>. QED BY <1>1, <1>2, PopDrops

\* Any piece of a sequence is a sequence over the same set.
LEMMA Piece ==
  ASSUME NEW S, NEW s \in Seq(S), NEW m \in Nat \ {0}, NEW n \in 0 .. Len(s)
  PROVE  SubSeq(s, m, n) \in Seq(S)
<1>1. Len(s) \in Nat
  BY LenProperties
<1>2. \A i \in m .. n : i \in 1 .. Len(s)
  BY <1>1
<1>3. \A i \in m .. n : s[i] \in S
  BY <1>2, ElementOfSeq
<1>4. m \in Int /\ n \in Int
  BY <1>1
<1>. QED BY <1>3, <1>4, SubSeqProperties

\* The inductive invariant: the indices are in the buffer, and what they
\* delimit was written.
IInv == RingTypeOK /\ NoGarbage

LEMMA TypeIsRing == RingTypeOK <=> RingOK(ring) /\ wire \in Seq(Byte \cup {Garbage})
BY DEF RingTypeOK, RingOK

LEMMA BytesInSeq == Seq(Byte) \subseteq Seq(Byte \cup {Garbage})
<1>. SUFFICES ASSUME NEW s \in Seq(Byte) PROVE s \in Seq(Byte \cup {Garbage})
  OBVIOUS
<1>1. s \in [1 .. Len(s) -> Byte] /\ Len(s) \in Nat
  BY LenProperties
<1>2. s \in [1 .. Len(s) -> Byte \cup {Garbage}]
  BY <1>1
<1>. QED BY <1>1, <1>2, FunctionIsSeq

LEMMA InitIInv == RingInit => IInv /\ Peek(ring) = <<>>
<1>. SUFFICES ASSUME RingInit PROVE IInv /\ Peek(ring) = <<>>
  OBVIOUS
<1>1. /\ ring = [size |-> 0, start |-> 0, end |-> 0, buf |-> [k \in {} |-> Garbage]]
      /\ wire = <<>>
  BY DEF RingInit
<1>2. ring.size = 0 /\ ring.start = 0 /\ ring.end = 0 /\ ring.buf = [k \in {} |-> Garbage]
  BY <1>1
<1>3. ring.buf \in [0 .. 0 - 1 -> Byte \cup {Garbage}]
  <2>1. 0 .. 0 - 1 = {}
    OBVIOUS
  <2>. QED BY <1>2, <2>1
<1>4. RingOK(ring)
  BY <1>1, <1>2, <1>3 DEF RingOK
<1>5. Peek(ring) = <<>>
  BY <1>2 DEF Peek
<1>6. <<>> \in Seq(Byte) /\ <<>> \in Seq(Byte \cup {Garbage})
  BY EmptySeq
<1>. QED BY <1>1, <1>4, <1>5, <1>6, TypeIsRing DEF IInv, NoGarbage

LEMMA NextIInv == IInv /\ [RingNext]_ringVars => IInv'
<1>. SUFFICES ASSUME IInv, [RingNext]_ringVars PROVE IInv'
  OBVIOUS
<1>0. /\ RingOK(ring) /\ wire \in Seq(Byte)
      /\ Peek(ring) \in Seq(Byte)
  BY TypeIsRing DEF IInv, NoGarbage
<1>r. ASSUME RingOK(ring'), wire' \in Seq(Byte), Peek(ring)' \in Seq(Byte) PROVE IInv'
  BY <1>r, BytesInSeq DEF IInv, NoGarbage, RingTypeOK, RingOK
<1>1. ASSUME NEW data \in Writes, PtyWrite(data) PROVE IInv'
  <2>1. /\ RingOK(ring') /\ data \in Seq(Byte) /\ Peek(ring)' = Peek(ring) \o data
    BY <1>0, <1>1, WriteAppends
  <2>2. wire' \in Seq(Byte)
    BY <1>0, <1>1 DEF PtyWrite
  <2>. QED BY <1>0, <1>r, <2>1, <2>2, ConcatProperties
<1>2. ASSUME NEW data \in Writes, PtyWriteFails(data) PROVE IInv'
  BY <1>2 DEF PtyWriteFails, ringVars, IInv, NoGarbage, RingTypeOK, Peek
<1>3. ASSUME NEW n \in 0 .. MaxPending + MaxWrite, PtyFlush(n) PROVE IInv'
  <2>1. /\ RingOK(ring') /\ n \in 0 .. Len(Peek(ring))
        /\ Peek(ring)' = SubSeq(Peek(ring), n + 1, Len(Peek(ring)))
        /\ wire' = SubSeq(Peek(ring), 1, n)
    BY <1>0, <1>3, FlushTakes
  <2>2. Len(Peek(ring)) \in Nat
    BY <1>0, LenProperties
  <2>3. n + 1 \in Nat \ {0} /\ Len(Peek(ring)) \in 0 .. Len(Peek(ring))
    BY <2>1, <2>2
  <2>4. Peek(ring)' \in Seq(Byte)
    BY <1>0, <2>1, <2>3, Piece
  <2>5. wire' \in Seq(Byte)
    BY <1>0, <2>1, Piece
  <2>. QED BY <1>r, <2>1, <2>4, <2>5
<1>4. CASE UNCHANGED ringVars
  BY <1>4 DEF ringVars, IInv, NoGarbage, RingTypeOK, Peek
<1>. QED BY <1>1, <1>2, <1>3, <1>4 DEF RingNext

\* Both indices always lie in the buffer, and the buffer always has a size its
\* masks work for (ring_grow, ring_resize, ring_push, ring_pop).
THEOREM RingTypeCorrect == RingSpec => []RingTypeOK
<1>1. IInv => RingTypeOK
  BY DEF IInv
<1>. QED BY <1>1, InitIInv, NextIInv, PTL DEF RingSpec

\* No byte of freshly allocated memory is ever sent to the child
\* (ring_resize with wrapped content).
THEOREM RingNoGarbage == RingSpec => []NoGarbage
<1>1. IInv => NoGarbage
  BY DEF IInv
<1>. QED BY <1>1, InitIInv, NextIInv, PTL DEF RingSpec

\* The ring is a queue: what ring_push takes is what writev gets, in order,
\* each byte once, across every growth and every wrap.
THEOREM RingImplementsQueue == RingSpec => ImplementsQueue
<1>1. RingInit => Queue!Init
  BY InitIInv DEF RingInit, Queue!Init
<1>2. IInv /\ [RingNext]_ringVars => [Queue!Next]_(Queue!vars)
  <2>. SUFFICES ASSUME IInv, [RingNext]_ringVars PROVE [Queue!Next]_(Queue!vars)
    OBVIOUS
  <2>0. RingOK(ring) /\ Peek(ring) \in Seq(Byte)
    BY TypeIsRing DEF IInv, NoGarbage
  <2>1. ASSUME NEW data \in Writes, PtyWrite(data) PROVE Queue!Write
    <3>1. Peek(ring)' = Peek(ring) \o data
      BY <2>0, <2>1, WriteAppends
    <3>2. wire' = wire
      BY <2>1 DEF PtyWrite
    <3>. QED BY <3>1, <3>2 DEF Queue!Write, Writes
  <2>2. ASSUME NEW data \in Writes, PtyWriteFails(data) PROVE UNCHANGED Queue!vars
    BY <2>2 DEF PtyWriteFails, ringVars, Queue!vars, Peek
  <2>3. ASSUME NEW n \in 0 .. MaxPending + MaxWrite, PtyFlush(n) PROVE Queue!Flush
    BY <2>0, <2>3, FlushTakes DEF Queue!Flush
  <2>4. CASE UNCHANGED ringVars
    BY <2>4 DEF ringVars, Queue!vars, Peek
  <2>. QED BY <2>1, <2>2, <2>3, <2>4 DEF RingNext, Queue!Next
<1>. QED BY <1>1, <1>2, InitIInv, NextIInv, PTL DEF RingSpec, ImplementsQueue, Queue!Spec

-----------------------------------------------------------------------------
(* Recursion up to a bound.                                                *)

\* Induction over the numbers up to a bound, for a set.
LEMMA UpTo ==
  ASSUME NEW N \in Nat, NEW T, 0 \in T, \A n \in 1 .. N : n - 1 \in T => n \in T
  PROVE  0 .. N \subseteq T
<1> DEFINE Rest == {n \in 0 .. N : n \notin T}
<1> SUFFICES ASSUME Rest # {} PROVE FALSE
  OBVIOUS
<1>1. PICK n \in Rest : \A m \in Rest : <<m, n>> \notin OpToRel(<, Nat)
  <2>1. Rest \subseteq Nat
    OBVIOUS
  <2> HIDE DEF Rest
  <2> QED
    BY <2>1, WFMin, NatLessThanWellFounded, Zenon
<1>2. n \in 1 .. N /\ n - 1 \in 0 .. N /\ n - 1 < n
  OBVIOUS
<1>3. n - 1 \notin Rest
  <2>1. <<n - 1, n>> \in Nat \X Nat /\ <<n - 1, n>>[1] = n - 1 /\ <<n - 1, n>>[2] = n
    BY <1>2
  <2> QED
    BY <1>1, <1>2, <2>1 DEF OpToRel
<1> QED
  BY <1>2, <1>3

\* A function on 0 .. N that is made from its first value and a step from each
\* value to the next.
Made(f, N, D, a, g) ==
  f \in [0 .. N -> D] /\ f[0] = a /\ \A n \in 1 .. N : f[n] = g[n][f[n - 1]]

LEMMA Recursion ==
  ASSUME NEW N \in Nat, NEW D, NEW a \in D, NEW g \in [1 .. N -> [D -> D]]
  PROVE  \E f : Made(f, N, D, a, g)
<1> DEFINE T == {m \in 0 .. N : \E f : Made(f, m, D, a, g)}
<1>1. 0 \in T
  <2>1. Made([n \in 0 .. 0 |-> a], 0, D, a, g)
    BY DEF Made
  <2> QED
    BY <2>1
<1>2. ASSUME NEW m \in 1 .. N, m - 1 \in T PROVE m \in T
  <2>1. PICK f : Made(f, m - 1, D, a, g)
    BY <1>2
  <2> DEFINE h == [n \in 0 .. m |-> IF n = m THEN g[m][f[m - 1]] ELSE f[n]]
  <2>2. g[m][f[m - 1]] \in D /\ f \in [0 .. m - 1 -> D]
    <3>1. f \in [0 .. m - 1 -> D] /\ m - 1 \in 0 .. m - 1
      BY <2>1 DEF Made
    <3>2. f[m - 1] \in D /\ g[m] \in [D -> D]
      BY <3>1
    <3> QED
      BY <3>1, <3>2
  <2>3. h \in [0 .. m -> D]
    <3>1. ASSUME NEW n \in 0 .. m, n # m PROVE f[n] \in D
      <4>1. n \in 0 .. m - 1
        BY <3>1
      <4> QED
        BY <2>2, <4>1
    <3> QED
      BY <2>2, <3>1
  <2>4. h[0] = a
    BY <2>1 DEF Made
  <2>5. ASSUME NEW n \in 1 .. m PROVE h[n] = g[n][h[n - 1]]
    <3>1. n - 1 \in 0 .. m /\ n - 1 # m /\ h[n - 1] = f[n - 1]
      OBVIOUS
    <3>2. CASE n = m
      BY <3>1, <3>2
    <3>3. CASE n # m
      <4>1. n \in 1 .. m - 1 /\ h[n] = f[n]
        BY <3>3
      <4>2. f[n] = g[n][f[n - 1]]
        BY <2>1, <4>1 DEF Made
      <4> QED
        BY <3>1, <4>1, <4>2
    <3> QED
      BY <3>2, <3>3
  <2>6. Made(h, m, D, a, g)
    <3> HIDE DEF h
    <3> QED
      BY <2>3, <2>4, <2>5 DEF Made
  <2> QED
    BY <2>6
<1>3. N \in T
  <2> HIDE DEF T
  <2>1. 0 .. N \subseteq T
    BY <1>1, <1>2, UpTo
  <2> QED
    BY <2>1
<1> QED
  BY <1>3

LEMMA Pow2Facts ==
  /\ Pow2[0] = 1 /\ \A n \in 1 .. Width : Pow2[n] = 2 * Pow2[n - 1]
  /\ \A n \in 0 .. Width : Pow2[n] \in Nat /\ Pow2[n] > n
<1>0. Width \in Nat /\ Width > 0
  BY WidthAssumption
<1>1. Pow2 = [n \in 0 .. Width |-> IF n = 0 THEN 1 ELSE 2 * Pow2[n - 1]]
  <2> DEFINE g == [n \in 1 .. Width |-> [x \in Nat |-> 2 * x]]
  <2>1. g \in [1 .. Width -> [Nat -> Nat]] /\ 1 \in Nat
    OBVIOUS
  <2>2. PICK f : Made(f, Width, Nat, 1, g)
    <3> HIDE DEF g
    <3> QED
      BY <1>0, <2>1, Recursion
  <2>3. ASSUME NEW n \in 1 .. Width PROVE f[n] = 2 * f[n - 1]
    <3>1. n - 1 \in 0 .. Width
      BY <1>0
    <3>2. f[n - 1] \in Nat
      BY <2>2, <3>1 DEF Made
    <3> QED
      BY <2>2, <3>2 DEF Made
  <2>4. f = [n \in 0 .. Width |-> IF n = 0 THEN 1 ELSE 2 * f[n - 1]]
    BY <1>0, <2>2, <2>3 DEF Made
  <2> QED
    BY <2>4 DEF Pow2
<1>2. Pow2[0] = 1 /\ \A n \in 1 .. Width : Pow2[n] = 2 * Pow2[n - 1]
  <2>1. \A n \in 0 .. Width : Pow2[n] = IF n = 0 THEN 1 ELSE 2 * Pow2[n - 1]
    BY <1>1
  <2> QED
    BY <1>0, <2>1
<1> DEFINE T == {n \in Nat : Pow2[n] \in Nat /\ Pow2[n] > n}
<1>3. 0 \in T
  BY <1>2
<1>4. ASSUME NEW n \in 1 .. Width, n - 1 \in T PROVE n \in T
  BY <1>2, <1>4
<1>5. 0 .. Width \subseteq T
  <2> HIDE DEF T
  <2> QED
    BY <1>0, <1>3, <1>4, UpTo
<1> QED
  BY <1>2, <1>5

LEMMA HalvedFacts ==
  ASSUME NEW v \in Nat
  PROVE  /\ Halved(v)[0] = v
         /\ \A n \in 1 .. Width : Halved(v)[n] = Halved(v)[n - 1] \div 2
         /\ \A n \in 0 .. Width : Halved(v)[n] \in Nat
<1>0. Width \in Nat /\ Width > 0
  BY WidthAssumption
<1> DEFINE g == [n \in 1 .. Width |-> [x \in Nat |-> x \div 2]]
           h == Halved(v)
<1>1. PICK f : Made(f, Width, Nat, v, g)
  <2>1. g \in [1 .. Width -> [Nat -> Nat]]
    OBVIOUS
  <2> HIDE DEF g
  <2> QED
    BY <1>0, <2>1, Recursion
<1>2. \A n \in 1 .. Width : n - 1 \in 0 .. Width /\ f[n - 1] \in Nat /\ f[n] = f[n - 1] \div 2
  <2> SUFFICES ASSUME NEW n \in 1 .. Width
               PROVE  n - 1 \in 0 .. Width /\ f[n - 1] \in Nat /\ f[n] = f[n - 1] \div 2
    OBVIOUS
  <2>1. n - 1 \in 0 .. Width
    BY <1>0
  <2>2. f[n - 1] \in Nat
    BY <1>1, <2>1 DEF Made
  <2> QED
    BY <1>1, <2>1, <2>2 DEF Made
<1>3. f = [n \in 0 .. Width |-> IF n = 0 THEN v ELSE f[n - 1] \div 2]
  BY <1>0, <1>1, <1>2 DEF Made
<1>4. h = [n \in 0 .. Width |-> IF n = 0 THEN v ELSE h[n - 1] \div 2]
  BY <1>3 DEF Halved
<1> HIDE DEF h
<1>5. \A n \in 0 .. Width : h[n] = IF n = 0 THEN v ELSE h[n - 1] \div 2
  BY <1>4
<1> DEFINE T == {n \in Nat : h[n] \in Nat}
<1>6. 0 .. Width \subseteq T
  <2>1. 0 \in T /\ \A n \in 1 .. Width : n - 1 \in T => n \in T
    BY <1>0, <1>5
  <2> HIDE DEF T
  <2> QED
    BY <1>0, <2>1, UpTo
<1>7. h[0] = v /\ \A n \in 1 .. Width : h[n] = h[n - 1] \div 2
  BY <1>0, <1>5
<1> QED
  BY <1>6, <1>7 DEF h

LEMMA UpperFacts ==
  ASSUME NEW S
  PROVE  /\ Upper(S)[0] = 0
         /\ \A n \in 1 .. Width :
              Upper(S)[n] = 2 * Upper(S)[n - 1] + (IF Width - n \in S THEN 1 ELSE 0)
         /\ \A n \in 0 .. Width : Upper(S)[n] \in Nat
<1>0. Width \in Nat /\ Width > 0
  BY WidthAssumption
<1> DEFINE bit(n) == IF Width - n \in S THEN 1 ELSE 0
           g == [n \in 1 .. Width |-> [x \in Nat |-> 2 * x + bit(n)]]
           h == Upper(S)
<1>1. PICK f : Made(f, Width, Nat, 0, g)
  <2>1. g \in [1 .. Width -> [Nat -> Nat]] /\ 0 \in Nat
    OBVIOUS
  <2> HIDE DEF g
  <2> QED
    BY <1>0, <2>1, Recursion
<1>2. \A n \in 1 .. Width : n - 1 \in 0 .. Width /\ f[n - 1] \in Nat /\ f[n] = 2 * f[n - 1] + bit(n)
  <2> SUFFICES ASSUME NEW n \in 1 .. Width
               PROVE  n - 1 \in 0 .. Width /\ f[n - 1] \in Nat /\ f[n] = 2 * f[n - 1] + bit(n)
    OBVIOUS
  <2>1. n - 1 \in 0 .. Width
    BY <1>0
  <2>2. f[n - 1] \in Nat
    BY <1>1, <2>1 DEF Made
  <2> QED
    BY <1>1, <2>1, <2>2 DEF Made
<1>3. f = [n \in 0 .. Width |-> IF n = 0 THEN 0 ELSE 2 * f[n - 1] + bit(n)]
  <2>1. f \in [0 .. Width -> Nat] /\ f[0] = 0
    BY <1>1 DEF Made
  <2> HIDE DEF bit
  <2>2. \A n \in 0 .. Width : f[n] = IF n = 0 THEN 0 ELSE 2 * f[n - 1] + bit(n)
    BY <1>0, <1>2, <2>1
  <2> QED
    BY <2>1, <2>2
<1>4. h = [n \in 0 .. Width |-> IF n = 0 THEN 0 ELSE 2 * h[n - 1] + bit(n)]
  BY <1>3 DEF Upper
<1> HIDE DEF h
<1>5. \A n \in 0 .. Width : h[n] = IF n = 0 THEN 0 ELSE 2 * h[n - 1] + bit(n)
  BY <1>4
<1> DEFINE T == {n \in Nat : h[n] \in Nat}
<1>6. 0 .. Width \subseteq T
  <2>1. 0 \in T /\ \A n \in 1 .. Width : n - 1 \in T => n \in T
    BY <1>0, <1>5
  <2> HIDE DEF T
  <2> QED
    BY <1>0, <2>1, UpTo
<1>7. h[0] = 0 /\ \A n \in 1 .. Width : h[n] = 2 * h[n - 1] + bit(n)
  BY <1>0, <1>5
<1> QED
  BY <1>6, <1>7 DEF h
-----------------------------------------------------------------------------
(* Numbers and their bits.                                                 *)

\* The ones of a number that was made from its ones.
LEMMA BitsOfNumber ==
  ASSUME NEW S, S \subseteq Positions
  PROVE  Number(S) \in Nat /\ Bits(Number(S)) = S
<1>0. Width \in Nat /\ Width > 0
  BY WidthAssumption
<1> DEFINE u == Upper(S)
           h == Halved(Number(S))
<1>1. /\ u[0] = 0 /\ \A n \in 0 .. Width : u[n] \in Nat
      /\ \A n \in 1 .. Width : u[n] = 2 * u[n - 1] + (IF Width - n \in S THEN 1 ELSE 0)
  BY UpperFacts
<1>2. Number(S) = u[Width] /\ Number(S) \in Nat
  BY <1>0, <1>1 DEF Number
<1>3. h[0] = u[Width] /\ \A n \in 1 .. Width : h[n] = h[n - 1] \div 2
  BY <1>2, HalvedFacts
<1> HIDE DEF u, h
<1> DEFINE T == {n \in Nat : h[n] = u[Width - n]}
<1>4. 0 \in T
  BY <1>0, <1>3
<1>5. ASSUME NEW n \in 1 .. Width, n - 1 \in T PROVE n \in T
  <2>1. Width - (n - 1) \in 1 .. Width /\ Width - (n - 1) - 1 = Width - n /\ Width - n \in 0 .. Width
    BY <1>0
  <2>2. h[n] = u[Width - (n - 1)] \div 2
    BY <1>3, <1>5
  <2>3. /\ u[Width - n] \in Nat
        /\ u[Width - (n - 1)] \in {2 * u[Width - n], 2 * u[Width - n] + 1}
    BY <1>1, <2>1
  <2> QED
    BY <2>2, <2>3
<1>6. 0 .. Width \subseteq T
  <2> HIDE DEF T
  <2> QED
    BY <1>0, <1>4, <1>5, UpTo
<1>7. ASSUME NEW k \in Positions PROVE h[k] % 2 = 1 <=> k \in S
  <2>1. k \in 0 .. Width /\ Width - k \in 1 .. Width /\ Width - k - 1 \in 0 .. Width
        /\ Width - (Width - k) = k
    BY <1>0 DEF Positions
  <2>2. h[k] = 2 * u[Width - k - 1] + (IF k \in S THEN 1 ELSE 0) /\ u[Width - k - 1] \in Nat
    BY <1>1, <1>6, <2>1
  <2> HIDE DEF T
  <2> QED
    BY <2>2
<1> QED
  BY <1>2, <1>7 DEF Bits, h

\* A number below 2 ^ Width is the one made from its ones.
LEMMA NumberOfBits ==
  ASSUME NEW v \in Nat, v < Pow2[Width]
  PROVE  /\ Number(Bits(v)) = v /\ Bits(v) \subseteq Positions
         /\ \A m \in Positions : v < Pow2[m] => \A k \in Bits(v) : k < m
<1>0. Width \in Nat /\ Width > 0
  BY WidthAssumption
<1> DEFINE h == Halved(v)
           u == Upper(Bits(v))
<1>1. /\ u[0] = 0 /\ \A n \in 0 .. Width : u[n] \in Nat
      /\ \A n \in 1 .. Width : u[n] = 2 * u[n - 1] + (IF Width - n \in Bits(v) THEN 1 ELSE 0)
  BY UpperFacts
<1>2. /\ h[0] = v /\ \A n \in 1 .. Width : h[n] = h[n - 1] \div 2
      /\ \A n \in 0 .. Width : h[n] \in Nat
  BY HalvedFacts
<1>3. \A k \in Positions : k \in Bits(v) <=> h[k] % 2 = 1
  BY DEF Bits
<1> HIDE DEF u, h
<1>4. ASSUME NEW m \in 0 .. Width, v < Pow2[m]
      PROVE  \A k \in m .. Width : h[k] = 0
  <2> DEFINE T == {n \in Nat : h[n] \in Nat /\ (n <= m => h[n] < Pow2[m - n]) /\ (n >= m => h[n] = 0)}
  <2>1. 0 \in T
    BY <1>2, <1>4, Pow2Facts
  <2>2. ASSUME NEW n \in 1 .. Width, n - 1 \in T PROVE n \in T
    <3>1. h[n] = h[n - 1] \div 2 /\ h[n] \in Nat /\ h[n - 1] \in Nat
      BY <1>2, <2>2
    <3>2. CASE n <= m
      <4>1. m - (n - 1) \in 1 .. Width /\ m - (n - 1) - 1 = m - n /\ m - n \in 0 .. Width
        BY <1>0, <3>2
      <4>2. Pow2[m - (n - 1)] = 2 * Pow2[m - n] /\ Pow2[m - n] \in Nat
        BY <4>1, Pow2Facts
      <4>3. h[n - 1] < Pow2[m - (n - 1)]
        BY <2>2, <3>2
      <4>4. h[n] < Pow2[m - n]
        BY <3>1, <4>2, <4>3
      <4>5. n >= m => m - n = 0
        BY <3>2
      <4> QED
        BY <3>1, <4>4, <4>5, Pow2Facts
    <3>3. CASE n > m
      <4>1. h[n - 1] = 0
        BY <2>2, <3>3
      <4> QED
        BY <3>1, <3>3, <4>1
    <3> QED
      BY <3>2, <3>3
  <2>3. 0 .. Width \subseteq T
    <3> HIDE DEF T
    <3> QED
      BY <1>0, <2>1, <2>2, UpTo
  <2> QED
    BY <2>3
<1>5. h[Width] = 0
  BY <1>0, <1>4
<1> DEFINE T == {n \in Nat : u[n] = h[Width - n]}
<1>6. 0 \in T
  BY <1>0, <1>1, <1>5
<1>7. ASSUME NEW n \in 1 .. Width, n - 1 \in T PROVE n \in T
  <2>1. Width - n \in Positions /\ Width - n \in 0 .. Width /\ Width - n + 1 \in 1 .. Width
        /\ Width - n + 1 - 1 = Width - n /\ Width - (n - 1) = Width - n + 1
    BY <1>0 DEF Positions
  <2> DEFINE x == h[Width - n]
  <2>2. x \in Nat /\ u[n - 1] = x \div 2 /\ (Width - n \in Bits(v) <=> x % 2 = 1)
    BY <1>2, <1>3, <1>7, <2>1
  <2>3. u[n] = 2 * (x \div 2) + (IF x % 2 = 1 THEN 1 ELSE 0)
    BY <1>1, <2>2
  <2> HIDE DEF x
  <2>4. u[n] = x
    BY <2>2, <2>3
  <2> QED
    BY <2>4 DEF x
<1>8. 0 .. Width \subseteq T
  <2> HIDE DEF T
  <2> QED
    BY <1>0, <1>6, <1>7, UpTo
<1>9. u[Width] = v
  BY <1>0, <1>2, <1>8
<1>10. \A m \in Positions : v < Pow2[m] => \A k \in Bits(v) : k < m
  <2> SUFFICES ASSUME NEW m \in Positions, v < Pow2[m], NEW k \in Bits(v), ~(k < m) PROVE FALSE
    OBVIOUS
  <2>1. k \in Positions /\ h[k] % 2 = 1
    BY <1>3 DEF Bits
  <2>2. h[k] = 0
    BY <1>0, <1>4, <2>1 DEF Positions
  <2> QED
    BY <2>1, <2>2
<1> QED
  BY <1>9, <1>10 DEF Number, u, Bits

\* More ones make a larger number.
LEMMA NumberGrows ==
  ASSUME NEW S, NEW R, S \subseteq R
  PROVE  Number(S) <= Number(R)
<1>0. Width \in Nat /\ Width > 0
  BY WidthAssumption
<1> DEFINE u == Upper(S)
           w == Upper(R)
<1>1. /\ u[0] = 0 /\ \A n \in 0 .. Width : u[n] \in Nat
      /\ \A n \in 1 .. Width : u[n] = 2 * u[n - 1] + (IF Width - n \in S THEN 1 ELSE 0)
      /\ w[0] = 0 /\ \A n \in 0 .. Width : w[n] \in Nat
      /\ \A n \in 1 .. Width : w[n] = 2 * w[n - 1] + (IF Width - n \in R THEN 1 ELSE 0)
  BY UpperFacts
<1> HIDE DEF u, w
<1> DEFINE T == {n \in Nat : u[n] <= w[n]}
<1>2. 0 \in T
  BY <1>1
<1>3. ASSUME NEW n \in 1 .. Width, n - 1 \in T PROVE n \in T
  <2>1. n - 1 \in 0 .. Width /\ u[n - 1] <= w[n - 1]
    BY <1>0, <1>3
  <2>2. u[n - 1] \in Nat /\ w[n - 1] \in Nat
    BY <1>1, <2>1
  <2>3. /\ u[n] = 2 * u[n - 1] + (IF Width - n \in S THEN 1 ELSE 0)
        /\ w[n] = 2 * w[n - 1] + (IF Width - n \in R THEN 1 ELSE 0)
    BY <1>1
  <2> QED
    BY <2>1, <2>2, <2>3
<1>4. 0 .. Width \subseteq T
  <2> HIDE DEF T
  <2> QED
    BY <1>0, <1>2, <1>3, UpTo
<1>5. u[Width] <= w[Width]
  BY <1>0, <1>4
<1> QED
  BY <1>5 DEF Number, u, w

\* Ones at the bottom, and a single one.
LEMMA NumberOfLow ==
  ASSUME NEW m \in 0 .. Width
  PROVE  Number(0 .. m - 1) = Pow2[m] - 1
<1>0. Width \in Nat /\ Width > 0 /\ m \in Nat /\ m <= Width
  BY WidthAssumption
<1> DEFINE u == Upper(0 .. m - 1)
<1>1. /\ u[0] = 0 /\ \A n \in 0 .. Width : u[n] \in Nat
      /\ \A n \in 1 .. Width : u[n] = 2 * u[n - 1] + (IF Width - n \in 0 .. m - 1 THEN 1 ELSE 0)
  BY UpperFacts
<1> HIDE DEF u
<1> DEFINE T == {n \in Nat : /\ n <= Width - m => u[n] = 0
                             /\ n >= Width - m => u[n] = Pow2[n - (Width - m)] - 1}
<1>2. 0 \in T
  BY <1>0, <1>1, Pow2Facts
<1>3. ASSUME NEW n \in 1 .. Width, n - 1 \in T PROVE n \in T
  <2>1. CASE n <= Width - m
    <3>1. u[n - 1] = 0 /\ Width - n \notin 0 .. m - 1
      BY <1>0, <1>3, <2>1
    <3>2. u[n] = 0
      BY <1>1, <3>1
    <3>3. n >= Width - m => n - (Width - m) = 0
      BY <1>0, <2>1
    <3> QED
      BY <3>2, <3>3, Pow2Facts
  <2>2. CASE n > Width - m
    <3> DEFINE j == n - (Width - m)
    <3>1. j \in 1 .. Width /\ n - 1 - (Width - m) = j - 1 /\ Width - n \in 0 .. m - 1
          /\ n - 1 >= Width - m /\ j - 1 \in 0 .. Width
      BY <1>0, <2>2
    <3>2. u[n - 1] = Pow2[j - 1] - 1
      BY <1>3, <3>1
    <3>3. u[n] = 2 * u[n - 1] + 1
      BY <1>1, <3>1
    <3>4. Pow2[j] = 2 * Pow2[j - 1] /\ Pow2[j - 1] \in Nat
      BY <3>1, Pow2Facts
    <3>5. u[n] = Pow2[j] - 1
      BY <3>2, <3>3, <3>4
    <3> QED
      BY <1>0, <2>2, <3>5
  <2> QED
    BY <1>0, <2>1, <2>2
<1>4. 0 .. Width \subseteq T
  <2> HIDE DEF T
  <2> QED
    BY <1>0, <1>2, <1>3, UpTo
<1>5. Width \in T /\ Width - (Width - m) = m /\ Width >= Width - m
  BY <1>0, <1>4
<1>6. u[Width] = Pow2[m] - 1
  BY <1>5
<1> QED
  BY <1>6 DEF Number, u

LEMMA NumberOfOne ==
  ASSUME NEW t \in Positions
  PROVE  Number({t}) = Pow2[t]
<1>0. Width \in Nat /\ Width > 0 /\ t \in Nat /\ t < Width
  BY WidthAssumption DEF Positions
<1> DEFINE u == Upper({t})
<1>1. /\ u[0] = 0 /\ \A n \in 0 .. Width : u[n] \in Nat
      /\ \A n \in 1 .. Width : u[n] = 2 * u[n - 1] + (IF Width - n \in {t} THEN 1 ELSE 0)
  BY UpperFacts
<1> HIDE DEF u
<1> DEFINE T == {n \in Nat : /\ n < Width - t => u[n] = 0
                             /\ n >= Width - t => u[n] = Pow2[n - (Width - t)]}
<1>2. 0 \in T
  BY <1>0, <1>1
<1>3. ASSUME NEW n \in 1 .. Width, n - 1 \in T PROVE n \in T
  <2>1. CASE n < Width - t
    <3>1. u[n - 1] = 0 /\ Width - n \notin {t}
      BY <1>0, <1>3, <2>1
    <3> QED
      BY <1>0, <1>1, <2>1, <3>1
  <2>2. CASE n = Width - t
    <3>1. u[n - 1] = 0 /\ Width - n \in {t} /\ n - (Width - t) = 0
      BY <1>0, <1>3, <2>2
    <3>2. u[n] = 1
      BY <1>1, <3>1
    <3> QED
      BY <1>0, <2>2, <3>1, <3>2, Pow2Facts
  <2>3. CASE n > Width - t
    <3> DEFINE j == n - (Width - t)
    <3>1. j \in 1 .. Width /\ n - 1 - (Width - t) = j - 1 /\ Width - n \notin {t}
          /\ n - 1 >= Width - t /\ j - 1 \in 0 .. Width
      BY <1>0, <2>3
    <3>2. u[n - 1] = Pow2[j - 1]
      BY <1>3, <3>1
    <3>3. u[n] = 2 * u[n - 1]
      BY <1>1, <3>1, <3>2, Pow2Facts
    <3>4. u[n] = Pow2[j]
      BY <3>1, <3>2, <3>3, Pow2Facts
    <3> QED
      BY <1>0, <2>3, <3>4
  <2> QED
    BY <1>0, <2>1, <2>2, <2>3
<1>4. 0 .. Width \subseteq T
  <2> HIDE DEF T
  <2> QED
    BY <1>0, <1>2, <1>3, UpTo
<1>5. Width \in T /\ Width - (Width - t) = t /\ Width >= Width - t
  BY <1>0, <1>4
<1>6. u[Width] = Pow2[t]
  BY <1>5
<1> QED
  BY <1>6 DEF Number, u

LEMMA NumberType ==
  ASSUME NEW S
  PROVE  Number(S) \in Nat /\ (S \subseteq Positions => Number(S) < Pow2[Width])
<1>0. Width \in Nat /\ Width \in 0 .. Width
  BY WidthAssumption
<1>1. Number(S) \in Nat
  BY <1>0, UpperFacts DEF Number
<1>2. Number(Positions) = Pow2[Width] - 1 /\ Pow2[Width] \in Nat
  BY <1>0, NumberOfLow, Pow2Facts DEF Positions
<1>3. ASSUME S \subseteq Positions PROVE Number(S) <= Pow2[Width] - 1
  BY <1>2, <1>3, NumberGrows
<1> QED
  BY <1>1, <1>2, <1>3
-----------------------------------------------------------------------------
(* ring_pow2 and RING_MASK.                                                *)

\* Less than 2 ^ n below a one of B.
Below(B, n) == {k \in Positions : \E t \in B : k <= t /\ t - k < Pow2[n]}

\* Each round of the loop doubles the reach of every one.
LEMMA SmearedFacts ==
  ASSUME NEW v \in Nat, v < Pow2[Width]
  PROVE  \A n \in 0 .. Width : Smeared(v)[n] = Number(Below(Bits(v), n))
<1>0. Width \in Nat /\ Width > 0
  BY WidthAssumption
<1> DEFINE B == Bits(v)
           step(n, x) == IF Pow2[n - 1] < Width THEN Or(x, ShiftRight(x, Pow2[n - 1])) ELSE x
           g == [n \in 1 .. Width |-> [x \in Nat |-> step(n, x)]]
           h == Smeared(v)
<1>1. Number(B) = v /\ B \subseteq Positions
  BY NumberOfBits
<1>2. PICK f : Made(f, Width, Nat, v, g)
  <2>1. \A n \in 1 .. Width, x \in Nat : step(n, x) \in Nat
    BY NumberType DEF Or
  <2> HIDE DEF step
  <2>2. g \in [1 .. Width -> [Nat -> Nat]]
    BY <2>1
  <2> HIDE DEF g
  <2> QED
    BY <1>0, <2>2, Recursion
<1> HIDE DEF step
<1>3. \A n \in 1 .. Width : n - 1 \in 0 .. Width /\ f[n - 1] \in Nat /\ f[n] = step(n, f[n - 1])
  <2> SUFFICES ASSUME NEW n \in 1 .. Width
               PROVE  n - 1 \in 0 .. Width /\ f[n - 1] \in Nat /\ f[n] = step(n, f[n - 1])
    OBVIOUS
  <2>1. n - 1 \in 0 .. Width
    BY <1>0
  <2>2. f[n - 1] \in Nat
    BY <1>2, <2>1 DEF Made
  <2> QED
    BY <1>2, <2>1, <2>2 DEF Made
<1>4. f = [n \in 0 .. Width |-> IF n = 0 THEN v ELSE step(n, f[n - 1])]
  <2>1. f \in [0 .. Width -> Nat] /\ f[0] = v
    BY <1>2 DEF Made
  <2>2. \A n \in 0 .. Width : f[n] = IF n = 0 THEN v ELSE step(n, f[n - 1])
    BY <1>0, <1>3, <2>1
  <2> QED
    BY <2>1, <2>2
<1>5. h = [n \in 0 .. Width |-> IF n = 0 THEN v ELSE step(n, h[n - 1])]
  BY <1>4 DEF Smeared, step
<1> HIDE DEF h
<1>6. h[0] = v /\ \A n \in 1 .. Width : h[n] = step(n, h[n - 1])
  <2>1. \A n \in 0 .. Width : h[n] = IF n = 0 THEN v ELSE step(n, h[n - 1])
    BY <1>5
  <2> QED
    BY <1>0, <2>1
<1> HIDE DEF B
<1> DEFINE T == {n \in Nat : h[n] = Number(Below(B, n))}
<1>7. 0 \in T
  <2>1. Below(B, 0) = B
    <3>1. ASSUME NEW k \in Positions, NEW t \in B PROVE k <= t /\ t - k < Pow2[0] <=> k = t
      BY <1>0, <1>1, Pow2Facts DEF Positions
    <3>2. \A k \in Positions : k \in Below(B, 0) <=> k \in B
      BY <3>1 DEF Below
    <3>3. Below(B, 0) \subseteq Positions
      BY DEF Below
    <3> QED
      BY <1>1, <3>2, <3>3
  <2> QED
    BY <1>1, <1>6, <2>1
<1>8. ASSUME NEW n \in 1 .. Width, n - 1 \in T PROVE n \in T
  <2> DEFINE C == Below(B, n - 1)
             i == Pow2[n - 1]
  <2>1. h[n] = step(n, Number(C))
    BY <1>6, <1>8
  <2>2. C \subseteq Positions /\ Bits(Number(C)) = C
    BY BitsOfNumber DEF Below
  <2>3. n - 1 \in 0 .. Width /\ i \in Nat /\ i > n - 1 /\ Pow2[n] = 2 * i
    BY <1>0, Pow2Facts
  <2>4. \A k \in Positions : k \in C <=> \E t \in B : k <= t /\ t - k < i
    BY DEF Below
  <2>5. \A k \in Positions : k \in Below(B, n) <=> \E t \in B : k <= t /\ t - k < 2 * i
    BY <2>3 DEF Below
  <2> HIDE DEF C, i
  <2>6. \A k \in Positions : k \in Nat /\ k < Width
    BY <1>0 DEF Positions
  <2>7. CASE i < Width
    <3> DEFINE Shifted == {k \in Positions : k + i \in C}
    <3>1. Bits(ShiftRight(Number(C), i)) = Shifted
      <4>1. ShiftRight(Number(C), i) = Number(Shifted)
        BY <2>2 DEF ShiftRight
      <4>2. Shifted \subseteq Positions
        OBVIOUS
      <4> HIDE DEF Shifted
      <4> QED
        BY <4>1, <4>2, BitsOfNumber
    <3>2. h[n] = Number(C \cup Shifted)
      BY <2>1, <2>2, <2>7, <3>1 DEF step, Or, i
    <3>3. ASSUME NEW k \in Positions
          PROVE  k \in C \cup Shifted <=> k \in Below(B, n)
      <4>1. ASSUME k \in C PROVE k \in Below(B, n)
        BY <1>1, <2>3, <2>4, <2>5, <2>6, <4>1
      <4>2. ASSUME k + i \in C PROVE k \in Below(B, n)
        <5>1. k + i \in Positions
          BY <2>2, <4>2
        <5>2. PICK t \in B : k + i <= t /\ t - (k + i) < i
          BY <2>4, <4>2, <5>1
        <5>3. k <= t /\ t - k < 2 * i
          BY <1>1, <2>3, <2>6, <5>2
        <5> QED
          BY <2>5, <5>3
      <4>3. ASSUME k \in Below(B, n), k \notin C PROVE k + i \in C
        <5>1. PICK t \in B : k <= t /\ t - k < 2 * i
          BY <2>5, <4>3
        <5>2. ~(t - k < i)
          BY <2>4, <4>3, <5>1
        <5>3. k + i \in Positions /\ k + i <= t /\ t - (k + i) < i
          BY <1>0, <1>1, <2>3, <2>6, <5>1, <5>2 DEF Positions
        <5> QED
          BY <2>4, <5>3
      <4> QED
        BY <4>1, <4>2, <4>3
    <3>4. C \cup Shifted = Below(B, n)
      <4>1. Shifted \subseteq Positions /\ Below(B, n) \subseteq Positions
        BY DEF Below
      <4> HIDE DEF Shifted
      <4> QED
        BY <2>2, <3>3, <4>1
    <3>5. h[n] = Number(Below(B, n))
      BY <3>2, <3>4
    <3> HIDE DEF Shifted
    <3> QED
      BY <3>5
  <2>8. CASE ~(i < Width)
    <3>1. h[n] = Number(C)
      BY <2>1, <2>8 DEF step, i
    <3>2. ASSUME NEW k \in Positions, NEW t \in B, k <= t PROVE t - k < i /\ t - k < 2 * i
      BY <1>0, <1>1, <2>3, <2>6, <2>8
    <3>3. C = Below(B, n)
      <4>1. \A k \in Positions : k \in C <=> k \in Below(B, n)
        BY <2>4, <2>5, <3>2
      <4>2. Below(B, n) \subseteq Positions
        BY DEF Below
      <4> QED
        BY <2>2, <4>1, <4>2
    <3> QED
      BY <3>1, <3>3
  <2> QED
    BY <2>7, <2>8
<1>9. 0 .. Width \subseteq T
  <2> HIDE DEF T
  <2> QED
    BY <1>0, <1>7, <1>8, UpTo
<1> QED
  BY <1>9 DEF B, h

\* The bits of a number below 2 ^ m are below m.
LEMMA BitsBelow ==
  ASSUME NEW v \in Nat, v < Pow2[Width], NEW m \in 0 .. Width, v < Pow2[m]
  PROVE  Bits(v) \subseteq 0 .. m - 1
<1>0. Width \in Nat /\ m \in Nat
  BY WidthAssumption
<1>1. CASE m = Width
  BY <1>1, NumberOfBits DEF Positions
<1>2. CASE m # Width
  <2>1. m \in Positions
    BY <1>0, <1>2 DEF Positions
  <2>2. \A k \in Bits(v) : k < m /\ k \in Positions
    BY <2>1, NumberOfBits
  <2> QED
    BY <1>0, <2>2 DEF Positions
<1> QED
  BY <1>1, <1>2

LEMMA Pow2Monotone ==
  ASSUME NEW j \in 0 .. Width, NEW m \in 0 .. Width
  PROVE  /\ m <= j => Pow2[m] <= Pow2[j]
         /\ m < Width => Pow2[m] < Pow2[Width]
<1>0. Width \in Nat /\ m \in Nat /\ j \in Nat /\ Pow2[m] \in Nat /\ Pow2[j] \in Nat
  BY WidthAssumption, Pow2Facts
<1>1. ASSUME m <= j PROVE Pow2[m] <= Pow2[j]
  <2>1. 0 .. m - 1 \subseteq 0 .. j - 1
    BY <1>0, <1>1
  <2>2. Number(0 .. m - 1) <= Number(0 .. j - 1)
    BY <2>1, NumberGrows
  <2> QED
    BY <1>0, <2>2, NumberOfLow
<1>2. ASSUME m < Width PROVE Pow2[m] < Pow2[Width]
  <2>1. m \in Positions /\ {m} \subseteq Positions
    BY <1>0, <1>2 DEF Positions
  <2> QED
    BY <2>1, NumberOfOne, NumberType
<1> QED
  BY <1>1, <1>2

\* ring_pow2 (shl_pty.c) returns the least power of two that is not below its
\* argument, and 0 exactly when a size_t has none.
THEOREM RingPow2Next ==
  \A v \in 1 .. CodeMaxSize :
     /\ CodePow2(v) \in {0} \cup CodeSizes
     /\ CodePow2(v) = 0 => \A s \in CodeSizes : s < v
     /\ CodePow2(v) # 0 => /\ CodePow2(v) >= v
                          /\ \A s \in CodeSizes : s >= v => s >= CodePow2(v)
<1>0. /\ Width \in Nat /\ Width > 0 /\ Width \in 0 .. Width
      /\ \A n \in 0 .. Width : n \in Nat /\ Pow2[n] \in Nat
  BY WidthAssumption, Pow2Facts
<1> SUFFICES ASSUME NEW v \in 1 .. CodeMaxSize
             PROVE  /\ CodePow2(v) \in {0} \cup CodeSizes
                    /\ CodePow2(v) = 0 => \A s \in CodeSizes : s < v
                    /\ CodePow2(v) # 0 => /\ CodePow2(v) >= v
                                         /\ \A s \in CodeSizes : s >= v => s >= CodePow2(v)
  OBVIOUS
<1>1. v \in Nat /\ v # 0 /\ v - 1 \in Nat /\ v - 1 < Pow2[Width]
  BY <1>0 DEF CodeMaxSize
\* 2 ^ m is the least power that is not below v.
<1> DEFINE Enough == {n \in 0 .. Width : v - 1 < Pow2[n]}
<1>2. PICK m \in Enough : \A n \in Enough : n >= m
  <2>1. Width \in Enough /\ Enough \subseteq Nat
    BY <1>0, <1>1
  <2> HIDE DEF Enough
  <2>2. PICK m \in Enough : \A n \in Enough : <<n, m>> \notin OpToRel(<, Nat)
    BY <2>1, WFMin, NatLessThanWellFounded, Zenon
  <2>3. ASSUME NEW n \in Enough PROVE n >= m
    <3>1. n \in Nat /\ m \in Nat
      BY <2>1
    <3>2. <<n, m>> \in Nat \X Nat /\ <<n, m>>[1] = n /\ <<n, m>>[2] = m
      BY <3>1
    <3> QED
      BY <2>2, <3>1, <3>2 DEF OpToRel
  <2> QED
    BY <2>3
<1>3. m \in 0 .. Width /\ v - 1 < Pow2[m] /\ \A n \in 0 .. Width : v - 1 < Pow2[n] => n >= m
  BY <1>2
<1> DEFINE B == Bits(v - 1)
<1>4. B \subseteq 0 .. m - 1 /\ Number(B) = v - 1
  BY <1>1, <1>3, BitsBelow, NumberOfBits
<1>5. m > 0 => m - 1 \in B
  <2> SUFFICES ASSUME m > 0, m - 1 \notin B PROVE FALSE
    OBVIOUS
  <2>1. m - 1 \in 0 .. Width /\ Pow2[m - 1] \in Nat
    BY <1>0, <1>3
  <2>2. B \subseteq 0 .. m - 1 - 1
    BY <1>0, <1>3, <1>4
  <2>3. v - 1 <= Pow2[m - 1] - 1
    BY <1>4, <2>1, <2>2, NumberGrows, NumberOfLow
  <2>4. v - 1 < Pow2[m - 1]
    BY <1>1, <2>1, <2>3
  <2> QED
    BY <1>0, <1>3, <2>1, <2>4
<1> HIDE DEF B
<1>6. Below(B, Width) = 0 .. m - 1
  <2>1. Pow2[Width] > Width
    BY <1>0, Pow2Facts
  <2>2. ASSUME NEW k \in Below(B, Width) PROVE k \in 0 .. m - 1
    <3>1. PICK t \in B : k <= t
      BY DEF Below
    <3>2. k \in Positions
      BY DEF Below
    <3> QED
      BY <1>0, <1>3, <1>4, <3>1, <3>2 DEF B, Positions
  <2>3. ASSUME NEW k \in 0 .. m - 1 PROVE k \in Below(B, Width)
    <3>1. k \in Positions /\ m - 1 \in B /\ k <= m - 1 /\ m - 1 - k < Pow2[Width]
      BY <1>0, <1>3, <1>5, <2>1 DEF Positions
    <3> QED
      BY <3>1 DEF Below
  <2> QED
    BY <2>2, <2>3
<1>7. CodePow2(v) = Pow2[m] % Pow2[Width]
  <2>1. Smeared(v - 1)[Width] = Pow2[m] - 1
    BY <1>0, <1>1, <1>3, <1>6, SmearedFacts, NumberOfLow DEF B
  <2> QED
    BY <1>0, <1>1, <1>3, <2>1 DEF CodePow2
<1>8. CASE m = Width
  <2>1. CodePow2(v) = 0
    BY <1>0, <1>7, <1>8, Pow2Facts
  <2>2. ASSUME NEW s \in CodeSizes PROVE s < v
    <3>1. PICK k \in Positions : s = Pow2[k]
      BY DEF CodeSizes
    <3>2. k \in 0 .. Width /\ k < m /\ s \in Nat
      BY <1>0, <1>8, <3>1 DEF Positions
    <3>3. ~(v - 1 < s)
      BY <1>0, <1>3, <3>1, <3>2
    <3> QED
      BY <1>1, <3>2, <3>3
  <2> QED
    BY <2>1, <2>2
<1>9. CASE m # Width
  <2>1. m \in Positions /\ m < Width
    BY <1>0, <1>3, <1>9 DEF Positions
  <2>2. CodePow2(v) = Pow2[m] /\ Pow2[m] \in CodeSizes
    <3>1. Pow2[m] < Pow2[Width]
      BY <1>0, <1>3, <2>1, Pow2Monotone
    <3> QED
      BY <1>0, <1>3, <1>7, <2>1, <3>1 DEF CodeSizes
  <2>3. Pow2[m] >= v
    BY <1>0, <1>1, <1>3
  <2>4. ASSUME NEW s \in CodeSizes, s >= v PROVE s >= Pow2[m]
    <3>1. PICK k \in Positions : s = Pow2[k]
      BY DEF CodeSizes
    <3>2. k \in 0 .. Width /\ s \in Nat
      BY <1>0, <3>1 DEF Positions
    <3>3. v - 1 < Pow2[k]
      BY <1>1, <2>4, <3>1, <3>2
    <3>4. m <= k
      BY <1>0, <1>3, <3>2, <3>3
    <3> QED
      BY <1>0, <1>3, <3>1, <3>2, <3>4, Pow2Monotone
  <2>5. Pow2[m] # 0
    BY <1>1, <1>0, <1>3, <2>3
  <2> QED
    BY <2>2, <2>3, <2>4, <2>5
<1> QED
  BY <1>8, <1>9

\* RING_MASK (shl_pty.c) takes an index one past the last byte of a buffer to
\* its front, for every size ring_pow2 returns.
THEOREM RingMaskWraps ==
  \A n \in CodeSizes : \A v \in 0 .. n : CodeMask(n, v) = IF v = n THEN 0 ELSE v
<1> SUFFICES ASSUME NEW n \in CodeSizes, NEW v \in 0 .. n
             PROVE  CodeMask(n, v) = IF v = n THEN 0 ELSE v
  OBVIOUS
<1>0. Width \in Nat /\ Width > 0
  BY WidthAssumption
<1>1. PICK t \in Positions : n = Pow2[t]
  BY DEF CodeSizes
<1>2. t \in 0 .. Width /\ t \in Nat /\ t < Width /\ n \in Nat /\ n < Pow2[Width] /\ Pow2[Width] \in Nat
  BY <1>0, <1>1, Pow2Facts, Pow2Monotone DEF Positions
<1> DEFINE low == 0 .. t - 1
<1>3. low \subseteq Positions /\ t \notin low
  BY <1>0, <1>2 DEF Positions
<1>4. Bits(n - 1) = low
  <2>1. Number(low) = n - 1
    BY <1>1, <1>2, NumberOfLow
  <2> QED
    BY <1>3, <2>1, BitsOfNumber
<1>5. CASE v = n
  <2>1. Bits(v) = {t}
    <3>1. Number({t}) = v /\ {t} \subseteq Positions
      BY <1>1, <1>5, NumberOfOne
    <3> QED
      BY <3>1, BitsOfNumber
  <2>2. Bits(v) \cap Bits(n - 1) = {}
    <3> HIDE DEF low
    <3> QED
      BY <1>3, <1>4, <2>1
  <2>3. Number({}) = 0
    <3>1. 0 \in 0 .. Width
      BY <1>0
    <3>2. Number(0 .. 0 - 1) = Pow2[0] - 1
      BY <3>1, NumberOfLow
    <3>3. 0 .. 0 - 1 = {}
      OBVIOUS
    <3> QED
      BY <3>2, <3>3, Pow2Facts
  <2> QED
    BY <1>5, <2>2, <2>3 DEF CodeMask, And
<1>6. CASE v # n
  <2>1. v \in Nat /\ v < Pow2[t] /\ v < Pow2[Width]
    BY <1>1, <1>2, <1>6
  <2>2. Bits(v) \subseteq low /\ Number(Bits(v)) = v
    BY <1>2, <2>1, BitsBelow, NumberOfBits
  <2>3. Bits(v) \cap Bits(n - 1) = Bits(v)
    BY <1>4, <2>2
  <2> QED
    BY <1>6, <2>2, <2>3 DEF CodeMask, And
<1> QED
  BY <1>5, <1>6

\* What PtyRing asks of its parameters holds of the code's arithmetic, whatever
\* the width of a size_t: PtyRing's theorems are about the ring of shl_pty.c.
THEOREM CodeMeetsAssumptions ==
  /\ CodeSizes \subseteq 1 .. CodeMaxSize /\ CodeMaxSize \in Nat
  /\ \A v \in 1 .. CodeMaxSize :
        CodePow2(v) = 0 \/ (CodePow2(v) \in CodeSizes /\ CodePow2(v) >= v)
  /\ \A n \in CodeSizes : \A v \in 0 .. n : CodeMask(n, v) = IF v = n THEN 0 ELSE v
<1>1. CodeMaxSize \in Nat
  BY WidthAssumption, Pow2Facts DEF CodeMaxSize
<1>2. ASSUME NEW k \in Positions PROVE Pow2[k] \in 1 .. CodeMaxSize
  <2>1. k \in 0 .. Width /\ Width \in 0 .. Width /\ k < Width
    BY WidthAssumption DEF Positions
  <2> QED
    BY <2>1, Pow2Facts, Pow2Monotone DEF CodeMaxSize
<1>3. CodeSizes \subseteq 1 .. CodeMaxSize
  BY <1>2 DEF CodeSizes
<1>4. ASSUME NEW v \in 1 .. CodeMaxSize
      PROVE  CodePow2(v) = 0 \/ (CodePow2(v) \in CodeSizes /\ CodePow2(v) >= v)
  BY RingPow2Next
<1> QED
  BY <1>1, <1>3, <1>4, RingMaskWraps
=============================================================================
