------------------------------- MODULE PaRing -------------------------------
(***************************************************************************)
(* The lock-free ring of src/ARM/src/oss-services/pa-ringbuffer, as        *)
(* operators on its two indices.  They run over twice the ring, so that a  *)
(* full ring and an empty one differ.                                      *)
(***************************************************************************)
EXTENDS Integers, Sequences

CONSTANT RingSize  \* bufferSize, a power of two

bigMask(i)   == i % (2 * RingSize)
smallMask(i) == i % RingSize

ReadAvailable(r, w) == bigMask(w - r)

WriteAvailable(r, w) == RingSize - ReadAvailable(r, w)

\* What a transfer of n moves: no more than is there, or than there is room for.
AtMost(n, available) == IF n > available THEN available ELSE n

\* The n elements from index i on: one region, or two when they wrap.
Region(i, n) == [k \in 1 .. n |-> smallMask(i + k - 1)]

ReadRegion(buf, i, n) == [k \in 1 .. n |-> buf[Region(i, n)[k]]]

WriteRegion(buf, i, data) ==
  [s \in DOMAIN buf |->
     IF \E k \in 1 .. Len(data) : Region(i, Len(data))[k] = s
     THEN data[CHOOSE k \in 1 .. Len(data) : Region(i, Len(data))[k] = s]
     ELSE buf[s]]

=============================================================================
