--------------------------- MODULE EtherNetif_proofs ---------------------------
(***************************************************************************)
(* The Ethernet interface of MCServices, for any numbers of buffers and    *)
(* descriptors: every frame goes through, in order, in a buffer of its     *)
(* own.  The invariant lists the descriptors in the order in which they    *)
(* are linked, and counts the active buffers the controller is done with.  *)
(***************************************************************************)
EXTENDS MCServices, FiniteSetTheorems, SequenceTheorems, TLAPS

-----------------------------------------------------------------------------
(* Arithmetic, and sequences without duplicates                            *)

LEMMA ModulusOnce ==
  ASSUME NEW n \in Nat, NEW x \in Nat, n > 0, x < n + n
  PROVE  x % n = IF x < n THEN x ELSE x - n
OBVIOUS

LEMMA LeastNumber ==
  ASSUME NEW S \in SUBSET Nat, S # {}
  PROVE  \E i \in S : \A j \in S : i <= j
<1> DEFINE Less == {ss \in Nat \X Nat : ss[1] < ss[2]}
<1>1. IsWellFoundedOn(Less, Nat)
  BY NatLessThanWellFounded DEF OpToRel
<1> HIDE DEF Less
<1>2. PICK i \in S : \A j \in S : ~(<<j, i>> \in Less)
  BY <1>1, WFMin
<1>3. ASSUME NEW j \in S, ~(i <= j) PROVE FALSE
  <2>1. j \in Nat /\ i \in Nat /\ j < i
    BY <1>3
  <2>2. <<j, i>> \in Less
    BY <2>1 DEF Less
  <2> QED BY <1>2, <2>2
<1> QED BY <1>3

\* Each element of s is in s once; s and t have none in common.
OneEach(s)   == \A i, j \in 1 .. Len(s) : s[i] = s[j] => i = j
Apart(s, t)  == \A i \in 1 .. Len(s), j \in 1 .. Len(t) : s[i] # t[j]

\* t is in s, after the first m elements.
In(s, m, t) == m + Len(t) <= Len(s) /\ \A i \in 1 .. Len(t) : s[m + i] = t[i]

LEMMA PartOnce ==
  ASSUME NEW T, NEW s \in Seq(T), NEW t \in Seq(T), NEW m \in Nat, In(s, m, t), OneEach(s)
  PROVE  OneEach(t)
<1> SUFFICES ASSUME NEW i \in 1 .. Len(t), NEW j \in 1 .. Len(t), t[i] = t[j] PROVE i = j
  BY DEF OneEach
<1>1. m + i \in 1 .. Len(s) /\ m + j \in 1 .. Len(s) /\ s[m + i] = s[m + j]
  BY DEF In
<1>2. m + i = m + j
  BY <1>1 DEF OneEach
<1> QED BY <1>2

LEMMA PartsApart ==
  ASSUME NEW T, NEW s \in Seq(T), NEW t \in Seq(T), NEW u \in Seq(T), NEW m \in Nat, NEW n \in Nat,
         In(s, m, t), In(s, n, u), m + Len(t) <= n, OneEach(s)
  PROVE  Apart(t, u)
<1> SUFFICES ASSUME NEW i \in 1 .. Len(t), NEW j \in 1 .. Len(u), t[i] = u[j] PROVE FALSE
  BY DEF Apart
<1>1. m + i \in 1 .. Len(s) /\ n + j \in 1 .. Len(s) /\ s[m + i] = s[n + j]
  BY DEF In
<1>2. m + i = n + j
  BY <1>1 DEF OneEach
<1> QED BY <1>2

LEMMA PartOfConcat ==
  ASSUME NEW T, NEW s \in Seq(T), NEW t \in Seq(T), NEW u \in Seq(T), NEW m \in Nat, In(s, m, t)
  PROVE  s \o u \in Seq(T) /\ In(s \o u, m, t)
<1>1. PICK x \in Seq(T) : x = s \o u
  BY ConcatProperties
<1>2. Len(x) = Len(s) + Len(u)
         /\ \A i \in 1 .. Len(s) + Len(u) : x[i] = IF i <= Len(s) THEN s[i] ELSE u[i - Len(s)]
  BY <1>1, ConcatProperties
<1>3. In(x, m, t)
  <2>1. PICK ls, lt, lu \in Nat : ls = Len(s) /\ lt = Len(t) /\ lu = Len(u)
    BY LenProperties
  <2>2. m + lt <= ls /\ m + lt <= ls + lu
    BY <2>1 DEF In
  <2>3. ASSUME NEW i \in 1 .. lt PROVE x[m + i] = t[i]
    <3>1. PICK j \in 1 .. ls + lu : j = m + i /\ j <= ls
      BY <2>1, <2>2
    <3>2. x[j] = s[j]
      BY <1>2, <2>1, <3>1
    <3>3. s[m + i] = t[i]
      BY <2>1 DEF In
    <3> QED BY <3>1, <3>2, <3>3
  <2> QED BY <1>2, <2>1, <2>2, <2>3 DEF In
<1> QED BY <1>1, <1>3

LEMMA LastOfConcat ==
  ASSUME NEW T, NEW s \in Seq(T), NEW u \in Seq(T)
  PROVE  s \o u \in Seq(T) /\ Len(s \o u) = Len(s) + Len(u) /\ In(s \o u, Len(s), u)
     /\ In(s \o u, 0, s)
<1>1. PICK x \in Seq(T) : x = s \o u
  BY ConcatProperties
<1>2. Len(x) = Len(s) + Len(u)
         /\ \A i \in 1 .. Len(s) + Len(u) : x[i] = IF i <= Len(s) THEN s[i] ELSE u[i - Len(s)]
  BY <1>1, ConcatProperties
<1>3. PICK m, n \in Nat : m = Len(s) /\ n = Len(u)
  BY LenProperties
<1>4. In(x, 0, s)
  BY <1>2, <1>3 DEF In
<1>5. In(x, m, u)
  <2>1. ASSUME NEW i \in 1 .. n PROVE x[m + i] = u[i]
    <3>1. m + i \in 1 .. m + n /\ ~(m + i <= m) /\ m + i - m = i
      OBVIOUS
    <3> QED BY <1>2, <1>3, <3>1
  <2> QED BY <1>2, <1>3, <2>1 DEF In
<1> QED BY <1>1, <1>2, <1>3, <1>4, <1>5

LEMMA Halves ==
  ASSUME NEW T, NEW q \in Seq(T), NEW n \in Nat, n <= Len(q)
  PROVE  /\ SubSeq(q, 1, n) \in Seq(T) /\ Len(SubSeq(q, 1, n)) = n
         /\ SubSeq(q, n + 1, Len(q)) \in Seq(T) /\ Len(SubSeq(q, n + 1, Len(q))) = Len(q) - n
         /\ In(q, 0, SubSeq(q, 1, n)) /\ In(q, n, SubSeq(q, n + 1, Len(q)))
         /\ SubSeq(q, 1, n) \o SubSeq(q, n + 1, Len(q)) = q
<1>1. PICK l \in Nat : l = Len(q)
  BY LenProperties
<1>2. \A i \in 1 .. l : q[i] \in T
  BY <1>1, ElementOfSeq
<1>3. PICK u : u = SubSeq(q, 1, n)
  OBVIOUS
<1>4. PICK v : v = SubSeq(q, n + 1, l)
  OBVIOUS
<1>5. u \in Seq(T) /\ Len(u) = n /\ \A i \in 1 .. n : u[i] = q[i]
  <2>1. \A i \in 1 .. n : q[i] \in T
    BY <1>1, <1>2
  <2>2. u \in Seq(T) /\ Len(u) = (IF 1 <= n THEN n - 1 + 1 ELSE 0)
        /\ \A i \in 1 .. n - 1 + 1 : u[i] = q[1 + i - 1]
    BY <1>3, <2>1, SubSeqProperties
  <2> QED BY <2>2
<1>6. v \in Seq(T) /\ Len(v) = l - n /\ \A i \in 1 .. l - n : v[i] = q[n + i]
  <2>1. \A i \in n + 1 .. l : q[i] \in T
    BY <1>1, <1>2
  <2>2. v \in Seq(T) /\ Len(v) = (IF n + 1 <= l THEN l - (n + 1) + 1 ELSE 0)
        /\ \A i \in 1 .. l - (n + 1) + 1 : v[i] = q[n + 1 + i - 1]
    BY <1>4, <2>1, SubSeqProperties
  <2>3. l - (n + 1) + 1 = l - n /\ (\A i \in 1 .. l - n : n + 1 + i - 1 = n + i)
           /\ (~(n + 1 <= l) => l - n = 0)
    BY <1>1
  <2> QED BY <2>2, <2>3
<1>7. In(q, 0, u) /\ In(q, n, v)
  BY <1>1, <1>5, <1>6 DEF In
<1>8. u \o v = q
  <2>1. PICK w \in Seq(T) : w = u \o v /\ Len(w) = n + (l - n) /\ In(w, n, v) /\ In(w, 0, u)
    BY <1>5, <1>6, LastOfConcat
  <2>2. ASSUME NEW i \in 1 .. l PROVE w[i] = q[i]
    <3>1. CASE i <= n
      BY <1>5, <2>1, <3>1 DEF In
    <3>2. CASE i > n
      <4>1. i - n \in 1 .. l - n /\ n + (i - n) = i
        BY <3>2
      <4> QED BY <1>6, <2>1, <4>1 DEF In
    <3> QED BY <3>1, <3>2
  <2>3. Len(w) = Len(q)
    BY <1>1, <2>1
  <2> QED BY <1>1, <2>1, <2>2, <2>3, SeqEqual
<1> QED BY <1>1, <1>3, <1>4, <1>5, <1>6, <1>7, <1>8

\* The places of five sequences in their concatenation.
Five(s, a, b, c, d, e) ==
  /\ Len(s) = Len(a) + Len(b) + Len(c) + Len(d) + Len(e)
  /\ In(s, 0, a) /\ In(s, Len(a), b) /\ In(s, Len(a) + Len(b), c)
  /\ In(s, Len(a) + Len(b) + Len(c), d) /\ In(s, Len(a) + Len(b) + Len(c) + Len(d), e)

LEMMA FiveParts ==
  ASSUME NEW T, NEW a \in Seq(T), NEW b \in Seq(T), NEW c \in Seq(T), NEW d \in Seq(T),
     NEW e \in Seq(T)
  PROVE  a \o b \o c \o d \o e \in Seq(T) /\ Five(a \o b \o c \o d \o e, a, b, c, d, e)
<1>1. PICK x \in Seq(T) : x = a \o b /\ Len(x) = Len(a) + Len(b) /\ In(x, 0, a) /\ In(x, Len(a), b)
  BY LastOfConcat
<1>2. PICK y \in Seq(T) : y = x \o c /\ Len(y) = Len(x) + Len(c) /\ In(y, Len(x), c)
  BY LastOfConcat
<1>3. PICK z \in Seq(T) : z = y \o d /\ Len(z) = Len(y) + Len(d) /\ In(z, Len(y), d)
  BY LastOfConcat
<1>4. PICK s \in Seq(T) : s = z \o e /\ Len(s) = Len(z) + Len(e) /\ In(s, Len(z), e)
  BY LastOfConcat
<1>5. {Len(a), Len(b), Len(c), Len(d), Len(e), Len(x), Len(y), Len(z)} \subseteq Nat
  BY LenProperties
<1>6. In(y, 0, a) /\ In(y, Len(a), b)
  BY <1>1, <1>2, <1>5, PartOfConcat
<1>7. In(z, 0, a) /\ In(z, Len(a), b) /\ In(z, Len(x), c)
  BY <1>2, <1>3, <1>5, <1>6, PartOfConcat
<1>8. In(s, 0, a) /\ In(s, Len(a), b) /\ In(s, Len(x), c) /\ In(s, Len(y), d)
  BY <1>3, <1>4, <1>5, <1>7, PartOfConcat
<1>9. Five(s, a, b, c, d, e)
  BY <1>1, <1>2, <1>3, <1>4, <1>5, <1>8 DEF Five
<1> QED BY <1>1, <1>2, <1>3, <1>4, <1>9

LEMMA FiveApart ==
  ASSUME NEW T, NEW a \in Seq(T), NEW b \in Seq(T), NEW c \in Seq(T), NEW d \in Seq(T),
     NEW e \in Seq(T),
         NEW s \in Seq(T), Five(s, a, b, c, d, e), OneEach(s)
  PROVE  OneEach(c) /\ OneEach(d) /\ OneEach(e) /\ Apart(c, d) /\ Apart(c, e) /\ Apart(d, e)
<1>1. PICK la, lb, lc, ld \in Nat : la = Len(a) /\ lb = Len(b) /\ lc = Len(c) /\ ld = Len(d)
  BY LenProperties
<1>2. In(s, la + lb, c) /\ In(s, la + lb + lc, d) /\ In(s, la + lb + lc + ld, e)
  BY <1>1 DEF Five
<1>3. la + lb \in Nat /\ la + lb + lc \in Nat /\ la + lb + lc + ld \in Nat
  OBVIOUS
<1>4. OneEach(c) /\ OneEach(d) /\ OneEach(e)
  BY <1>2, <1>3, PartOnce
<1>5. Apart(c, d)
  BY <1>1, <1>2, <1>3, PartsApart
<1>6. Apart(d, e)
  BY <1>1, <1>2, <1>3, PartsApart
<1>7. Apart(c, e)
  <2>1. la + lb + Len(c) <= la + lb + lc + ld
    BY <1>1
  <2> QED BY <1>2, <1>3, <2>1, PartsApart
<1> QED BY <1>4, <1>5, <1>6, <1>7

\* The links lead from one of the first m elements of d to the following.
Linked(links, d, m) == \A i \in 1 .. m - 1 : links[d[i]] = d[i + 1]

LEMMA FreeIs ==
  ASSUME NEW d, NEW m \in Nat, NEW n \in Nat, n < m, d[1] = descHead, Linked(nextDesc, d, m)
  PROVE  Ether!Free(n) = d[n + 1]
<1> DEFINE Walks(p) == p = [i \in 0 .. n |-> IF i = 0 THEN descHead ELSE nextDesc[p[i - 1]]]
           p == CHOOSE q : Walks(q)
           g == [i \in 0 .. n |-> d[i + 1]]
<1>1. Walks(g)
  <2>1. \A i \in 0 .. n : g[i] = IF i = 0 THEN descHead ELSE nextDesc[g[i - 1]]
    BY DEF Linked
  <2> QED BY <2>1
<1>2. Walks(p)
  <2> HIDE DEF Walks, g
  <2> QED BY <1>1
<1>3. Ether!Free(n) = p[n]
  BY DEF Ether!Free
<1>4. \A i \in 0 .. n : p[i] = IF i = 0 THEN descHead ELSE nextDesc[p[i - 1]]
  <2> HIDE DEF p
  <2> QED BY <1>2
<1> HIDE DEF p, g, Walks
<1> DEFINE Wrong == {i \in 0 .. n : p[i] # d[i + 1]}
<1>5. Wrong = {}
  <2> SUFFICES ASSUME Wrong # {} PROVE FALSE
    OBVIOUS
  <2>1. PICK i \in Wrong : \A j \in Wrong : i <= j
    <3>1. Wrong \in SUBSET Nat
      OBVIOUS
    <3> HIDE DEF Wrong
    <3> QED BY <3>1, LeastNumber
  <2>2. i \in 1 .. n /\ p[i - 1] = d[i]
    BY <1>4, <2>1
  <2>3. p[i] = d[i + 1]
    BY <1>4, <2>2 DEF Linked
  <2> QED BY <2>1, <2>3
<1> QED BY <1>3, <1>5

-----------------------------------------------------------------------------
(* The buffers and descriptors of an Ethernet channel (adi_gemac.c)        *)

LEMMA EtherConstants ==
  /\ NumBuffers \in Nat /\ NumBuffers >= 2 /\ NumDesc \in Nat /\ NumDesc >= 2 /\ Threshold \in Nat
  /\ Ether!Descs = 1 .. NumDesc /\ Ether!Buffers = 0 .. NumBuffers - 1 /\ Ether!NULL = 0
BY EtherAssumption DEF Ether!Descs, Ether!Buffers, Ether!NULL

EtherTypes ==
  /\ flow \in {"rx", "tx"}
  /\ queued \in Seq(Ether!Buffers) /\ pending \in Seq(Ether!Buffers)
     /\ active \in Seq(Ether!Buffers)
  /\ list \in Seq(Ether!Buffers) /\ walk \in Seq(Ether!Buffers) /\ passing \in Seq(Ether!Buffers)
  /\ desc \in [Ether!Buffers -> 0 .. NumDesc] /\ nextDesc \in [0 .. NumDesc -> 0 .. NumDesc]
  /\ txPktHead \in Ether!Buffers /\ txPktTail \in Ether!Buffers
  /\ held \subseteq Ether!Buffers /\ lost \subseteq Ether!Buffers

\* The buffers of s have the descriptors of d after the first m, in order.
Bound(d, m, s) == \A i \in 1 .. Len(s) : desc[s[i]] = d[m + i]

\* d lists the descriptors as they are linked: those of the active buffers,
\* of the pending ones, and the free ones, of which there is always one.
Listed(d) ==
  /\ d \in [1 .. NumDesc -> 1 .. NumDesc]
  /\ \A i, j \in 1 .. NumDesc : d[i] = d[j] => i = j

Links(d) == \A i \in 1 .. NumDesc : nextDesc[d[i]] = IF i = NumDesc THEN 0 ELSE d[i + 1]

Bounds(d) ==
  /\ numAvail = NumDesc - Len(active) - Len(pending) /\ numAvail >= 1
  /\ Bound(d, 0, active) /\ Bound(d, Len(active), pending)
  /\ descHead = d[Len(active) + Len(pending) + 1] /\ descTail = d[NumDesc]

\* The controller is done with the first k active buffers.
Device(d, k) ==
  /\ k \in Nat /\ k <= Len(active)
  /\ own = {d[i] : i \in k + 1 .. Len(active)}
  /\ cur = d[k + 1]
  /\ dma = "moving" => k < Len(active) /\ fetched = d[k + 2]

Chained(d, k) == Links(d) /\ Bounds(d) /\ Device(d, k)

BuffersApart ==
  /\ OneEach(active) /\ OneEach(pending) /\ OneEach(queued)
  /\ Apart(active, pending) /\ Apart(active, queued) /\ Apart(pending, queued)

LEMMA ChainStays ==
  ASSUME NEW d, NEW k, Chained(d, k),
         UNCHANGED <<pending, active, desc, descHead, descTail, numAvail, nextDesc, own, dma, cur, fetched>>
  PROVE  Chained(d, k)'
BY DEF Chained, Links, Bounds, Bound, Device

\* What bind_buf_with_desc does, in the terms of the list.
BindsTo(d, n) ==
  /\ n \in Nat /\ n <= Len(queued) /\ n <= numAvail - 1
  /\ queued' = SubSeq(queued, n + 1, Len(queued))
  /\ pending' = pending \o SubSeq(queued, 1, n)
  /\ desc' \in [Ether!Buffers -> 0 .. NumDesc]
  /\ \A i \in 1 .. n : desc'[queued[i]] = d[Len(active) + Len(pending) + i]
  /\ \A b \in Ether!Buffers : (\A i \in 1 .. n : queued[i] # b) => desc'[b] = desc[b]
  /\ nextDesc' = nextDesc
  /\ descHead' = d[Len(active) + Len(pending) + n + 1]
  /\ numAvail' = numAvail - n
  /\ active' = active /\ descTail' = descTail
  /\ n = IF numAvail - 1 < Len(queued) THEN numAvail - 1 ELSE Len(queued)

LEMMA BindIs ==
  ASSUME NEW d, NEW k, EtherTypes, Listed(d), Chained(d, k), BuffersApart, Ether!bind_buf_with_desc
  PROVE  BindsTo(d, Ether!CanBind)
<1>1. PICK n : n = Ether!CanBind
  OBVIOUS
<1>2. PICK la, lp, lq \in Nat : la = Len(active) /\ lp = Len(pending) /\ lq = Len(queued)
  BY LenProperties DEF EtherTypes
<1>3. /\ n \in Nat /\ n <= lq /\ n <= numAvail - 1 /\ numAvail = NumDesc - la - lp
         /\ NumDesc \in Nat
      /\ n = IF numAvail - 1 < lq THEN numAvail - 1 ELSE lq
  BY <1>1, <1>2, EtherConstants DEF Ether!CanBind, Ether!Fewer, Chained, Bounds
<1>4. ASSUME NEW i \in Nat, i <= n PROVE Ether!Free(i) = d[la + lp + i + 1]
  <2> DEFINE g == [j \in 1 .. numAvail |-> d[la + lp + j]]
  <2>1. g[1] = descHead /\ g[i + 1] = d[la + lp + i + 1]
    BY <1>2, <1>3, <1>4 DEF Chained, Bounds
  <2>2. Linked(nextDesc, g, numAvail)
    <3>1. ASSUME NEW j \in 1 .. numAvail - 1 PROVE nextDesc[g[j]] = g[j + 1]
      <4>1. la + lp + j \in 1 .. NumDesc /\ la + lp + j # NumDesc /\ j \in 1 .. numAvail
               /\ j + 1 \in 1 .. numAvail
        BY <1>2, <1>3
      <4> QED BY <4>1 DEF Chained, Links
    <3> QED BY <3>1 DEF Linked
  <2>3. numAvail \in Nat /\ i < numAvail
    BY <1>2, <1>3, <1>4
  <2> HIDE DEF g
  <2> QED BY <2>1, <2>2, <2>3, FreeIs
<1>5. /\ queued' = SubSeq(queued, n + 1, Len(queued))
      /\ pending' = pending \o SubSeq(queued, 1, n)
      /\ descHead' = Ether!Free(n) /\ numAvail' = numAvail - n
      /\ active' = active /\ descTail' = descTail
  BY <1>1 DEF Ether!bind_buf_with_desc
<1>6. /\ desc' \in [Ether!Buffers -> 0 .. NumDesc]
      /\ \A i \in 1 .. n : desc'[queued[i]] = d[la + lp + i]
      /\ \A b \in Ether!Buffers : (\A i \in 1 .. n : queued[i] # b) => desc'[b] = desc[b]
  <2> DEFINE at(b) == CHOOSE i \in 1 .. n : queued[i] = b
  <2>1. desc' = [b \in Ether!Buffers |->
                  IF \E i \in 1 .. n : queued[i] = b THEN Ether!Free(at(b) - 1) ELSE desc[b]]
    BY <1>1 DEF Ether!bind_buf_with_desc
  <2>2. ASSUME NEW i \in 1 .. n
        PROVE  queued[i] \in Ether!Buffers /\ at(queued[i]) = i
           /\ Ether!Free(i - 1) = d[la + lp + i]
    <3>1. i \in 1 .. Len(queued)
      BY <1>2, <1>3
    <3>5. queued[i] \in Ether!Buffers
      BY <3>1 DEF EtherTypes
    <3>2. \A j \in 1 .. n : queued[j] = queued[i] => j = i
      BY <1>2, <1>3, <3>1 DEF BuffersApart, OneEach
    <3>3. Ether!Free(i - 1) = d[la + lp + (i - 1) + 1]
      <4>1. i - 1 \in Nat /\ i - 1 <= n
        BY <1>3
      <4> QED BY <1>4, <4>1
    <3>4. la + lp + (i - 1) + 1 = la + lp + i
      OBVIOUS
    <3> QED BY <3>2, <3>3, <3>4, <3>5
  <2> HIDE DEF at
  <2>3. \A i \in 1 .. n : desc'[queued[i]] = d[la + lp + i]
    BY <2>1, <2>2
  <2>4. \A b \in Ether!Buffers : (\A i \in 1 .. n : queued[i] # b) => desc'[b] = desc[b]
    BY <2>1
  <2>5. ASSUME NEW b \in Ether!Buffers PROVE desc'[b] \in 0 .. NumDesc
    <3>1. CASE \E i \in 1 .. n : queued[i] = b
      <4>1. PICK i \in 1 .. n : queued[i] = b
        BY <3>1
      <4>2. la + lp + i \in 1 .. NumDesc
        BY <1>3
      <4> QED BY <2>3, <4>1, <4>2, EtherConstants DEF Listed
    <3>2. CASE ~\E i \in 1 .. n : queued[i] = b
      BY <2>4, <3>2 DEF EtherTypes
    <3> QED BY <3>1, <3>2
  <2> QED BY <2>1, <2>3, <2>4, <2>5
<1>7. nextDesc' = nextDesc
  <2>1. CASE n > 0 /\ pending # <<>>
    <3>1. nextDesc' = [nextDesc EXCEPT ![desc[Ether!Final(pending)]] = descHead]
      BY <1>1, <2>1 DEF Ether!bind_buf_with_desc
    <3>2. Ether!Final(pending) = pending[lp] /\ lp \in 1 .. Len(pending)
      BY <1>2, <2>1, EmptySeq DEF Ether!Final, EtherTypes
    <3>3. desc[Ether!Final(pending)] = d[la + lp]
      BY <1>2, <3>2 DEF Chained, Bounds, Bound
    <3>4. la + lp \in 1 .. NumDesc /\ la + lp # NumDesc
      BY <1>2, <1>3, <2>1, <3>2
    <3>5. nextDesc[d[la + lp]] = descHead
      BY <1>2, <3>4 DEF Chained, Links, Bounds
    <3> QED BY <3>1, <3>3, <3>5 DEF EtherTypes
  <2>2. CASE ~(n > 0 /\ pending # <<>>)
    BY <1>1, <2>2 DEF Ether!bind_buf_with_desc
  <2> QED BY <2>1, <2>2
<1>8. descHead' = d[la + lp + n + 1]
  BY <1>3, <1>4, <1>5
<1>9. BindsTo(d, n)
  BY <1>2, <1>3, <1>5, <1>6, <1>7, <1>8 DEF BindsTo
<1> QED BY <1>1, <1>9

LEMMA BindKeepsChain ==
  ASSUME NEW d, NEW k, NEW n, EtherTypes, Listed(d), Chained(d, k), BuffersApart, BindsTo(d, n),
         UNCHANGED <<own, dma, cur, fetched>>
  PROVE  Chained(d, k)'
<1>1. PICK la, lp, lq \in Nat : la = Len(active) /\ lp = Len(pending) /\ lq = Len(queued)
  BY LenProperties DEF EtherTypes
<1>4. n \in Nat /\ n <= lq
  BY <1>1 DEF BindsTo
<1>2. PICK s \in Seq(Ether!Buffers) : s = SubSeq(queued, 1, n) /\ Len(s) = n
         /\ \A i \in 1 .. n : s[i] = queued[i]
  <2>1. SubSeq(queued, 1, n) \in Seq(Ether!Buffers) /\ Len(SubSeq(queued, 1, n)) = n
           /\ In(queued, 0, SubSeq(queued, 1, n))
    BY <1>1, <1>4, Halves DEF EtherTypes
  <2>2. PICK s : s = SubSeq(queued, 1, n)
    OBVIOUS
  <2>3. \A i \in 1 .. Len(s) : queued[0 + i] = s[i]
    BY <2>1, <2>2 DEF In
  <2>4. \A i \in 1 .. n : 0 + i = i
    BY <1>4
  <2> QED BY <2>1, <2>2, <2>3, <2>4
<1>3. /\ pending' \in Seq(Ether!Buffers) /\ Len(pending') = lp + n
      /\ In(pending', lp, s) /\ In(pending', 0, pending)
  <2>1. pending' = pending \o s /\ pending \in Seq(Ether!Buffers)
    BY <1>2 DEF BindsTo, EtherTypes
  <2> QED BY <1>1, <1>2, <2>1, LastOfConcat
<1>5. Bound(d, 0, active)'
  <2>1. ASSUME NEW i \in 1 .. la PROVE desc'[active[i]] = d[i]
    <3>1. \A j \in 1 .. n : queued[j] # active[i]
      BY <1>1, <1>4 DEF BuffersApart, Apart
    <3>2. active[i] \in Ether!Buffers /\ desc[active[i]] = d[i]
      BY <1>1 DEF EtherTypes, Chained, Bounds, Bound
    <3> QED BY <3>1, <3>2 DEF BindsTo
  <2> QED BY <1>1, <2>1 DEF Bound, BindsTo
<1>6. Bound(d, Len(active), pending)'
  <2>1. ASSUME NEW i \in 1 .. lp PROVE desc'[pending'[i]] = d[la + i]
    <3>1. \A j \in 1 .. n : queued[j] # pending[i]
      BY <1>1, <1>4 DEF BuffersApart, Apart
    <3>2. pending[i] \in Ether!Buffers
      BY <1>1, ElementOfSeq DEF EtherTypes
    <3>4. desc[pending[i]] = d[la + i]
      BY <1>1 DEF Chained, Bounds, Bound
    <3>3. pending'[i] = pending[i]
      BY <1>1, <1>3 DEF In
    <3> QED BY <3>1, <3>2, <3>3, <3>4 DEF BindsTo
  <2>2. ASSUME NEW i \in 1 .. n PROVE desc'[pending'[lp + i]] = d[la + (lp + i)]
    <3>1. pending'[lp + i] = queued[i]
      BY <1>2, <1>3 DEF In
    <3>2. desc'[queued[i]] = d[la + lp + i]
      BY <1>1 DEF BindsTo
    <3> QED BY <3>1, <3>2
  <2>3. ASSUME NEW i \in 1 .. lp + n PROVE desc'[pending'[i]] = d[la + i]
    <3>1. CASE i <= lp
      BY <2>1, <3>1
    <3>2. CASE i > lp
      <4>1. i - lp \in 1 .. n /\ lp + (i - lp) = i
        BY <1>4, <3>2
      <4> QED BY <2>2, <4>1
    <3> QED BY <3>1, <3>2
  <2>4. active' = active
    BY DEF BindsTo
  <2> QED BY <1>1, <1>3, <2>3, <2>4 DEF Bound
<1>7. Bounds(d)'
  <2>1. numAvail' = NumDesc - la - (lp + n) /\ numAvail' >= 1
    BY <1>1, EtherConstants DEF BindsTo, Chained, Bounds
  <2>2. descHead' = d[la + (lp + n) + 1] /\ descTail' = d[NumDesc] /\ active' = active
    <3>1. descHead' = d[la + lp + n + 1]
      BY <1>1 DEF BindsTo
    <3>3. la + lp + n + 1 = la + (lp + n) + 1
      BY <1>4
    <3>2. descTail' = descTail /\ active' = active /\ descTail = d[NumDesc]
      BY DEF BindsTo, Chained, Bounds
    <3> QED BY <3>1, <3>2, <3>3
  <2> QED BY <1>1, <1>3, <1>5, <1>6, <2>1, <2>2 DEF Bounds
<1>8. Links(d)'
  BY DEF Links, Chained, BindsTo
<1>9. Device(d, k)'
  BY DEF Device, Chained, BindsTo
<1> QED BY <1>7, <1>8, <1>9 DEF Chained

LEMMA ActivateKeepsChain ==
  ASSUME NEW d, NEW k, EtherTypes, Listed(d), Chained(d, k), Ether!activate_channel,
         UNCHANGED <<dma, cur, fetched>>
  PROVE  Chained(d, k)'
<1>1. PICK la, lp \in Nat : la = Len(active) /\ lp = Len(pending)
  BY LenProperties DEF EtherTypes
<1>2. CASE pending # <<>> /\ Ether!Activates
  <2>1. /\ active' = active \o pending /\ pending' = <<>>
        /\ own' = own \cup {desc[pending[i]] : i \in DOMAIN pending}
        /\ nextDesc' = IF active = <<>> THEN nextDesc
                       ELSE [nextDesc EXCEPT ![desc[Ether!Final(active)]] = desc[Head(pending)]]
        /\ UNCHANGED <<queued, desc, descHead, descTail, numAvail>>
    BY <1>2 DEF Ether!activate_channel
  <2>2. Len(active') = la + lp /\ In(active', la, pending) /\ In(active', 0, active)
    BY <1>1, <2>1, LastOfConcat DEF EtherTypes
  <2>3. lp >= 1 /\ Head(pending) = pending[1] /\ desc[Head(pending)] = d[la + 1]
    BY <1>1, <1>2, EmptySeq DEF EtherTypes, Chained, Bounds, Bound
  <2>4. Links(d)'
    <3>1. CASE active = <<>>
      BY <2>1, <3>1 DEF Links, Chained
    <3>2. CASE active # <<>>
      <4>1. la >= 1 /\ Ether!Final(active) = active[la] /\ desc[active[la]] = d[la]
        BY <1>1, <3>2, EmptySeq DEF Ether!Final, EtherTypes, Chained, Bounds, Bound
      <4>2. la \in 1 .. NumDesc /\ la # NumDesc
        BY <1>1, <2>3, <4>1, EtherConstants DEF Chained, Bounds
      <4>3. nextDesc[d[la]] = d[la + 1]
        BY <4>2 DEF Chained, Links
      <4>4. nextDesc' = nextDesc
        BY <2>1, <2>3, <3>2, <4>1, <4>3 DEF EtherTypes
      <4> QED BY <4>4 DEF Chained, Links
    <3> QED BY <3>1, <3>2
  <2>5. Bound(d, 0, active)'
    <3>1. ASSUME NEW i \in 1 .. la + lp PROVE desc[active'[i]] = d[i]
      <4>1. CASE i <= la
        <5>1. active'[i] = active[i] /\ i \in 1 .. la
          BY <1>1, <2>2, <4>1 DEF In
        <5> QED BY <1>1, <5>1 DEF Chained, Bounds, Bound
      <4>2. CASE i > la
        <5>1. i - la \in 1 .. lp /\ la + (i - la) = i
          BY <4>2
        <5>2. active'[i] = pending[i - la]
          BY <1>1, <2>2, <5>1 DEF In
        <5>3. desc[pending[i - la]] = d[la + (i - la)]
          BY <1>1, <5>1 DEF Chained, Bounds, Bound
        <5> QED BY <5>1, <5>2, <5>3
      <4> QED BY <4>1, <4>2
    <3> QED BY <2>1, <2>2, <3>1 DEF Bound
  <2>6. Len(pending') = 0
    BY <2>1
  <2>7. Bounds(d)'
    <3>1. Bound(d, Len(active), pending)'
      BY <2>6 DEF Bound
    <3>2. numAvail' = NumDesc - (la + lp) - 0 /\ numAvail' >= 1 /\ descHead' = d[(la + lp) + 0 + 1]
             /\ descTail' = d[NumDesc]
      BY <1>1, <2>1, EtherConstants DEF Chained, Bounds
    <3> QED BY <2>2, <2>5, <2>6, <3>1, <3>2 DEF Bounds
  <2>8. Device(d, k)'
    <3>1. own' = {d[i] : i \in k + 1 .. la + lp}
      <4>1. own = {d[i] : i \in k + 1 .. la} /\ k \in Nat /\ k <= la
        BY <1>1 DEF Chained, Device
      <4>2. \A i \in 1 .. lp : desc[pending[i]] = d[la + i]
        BY <1>1 DEF Chained, Bounds, Bound
      <4>3. DOMAIN pending = 1 .. lp
        BY <1>1, LenProperties DEF EtherTypes
      <4>4. {desc[pending[i]] : i \in DOMAIN pending} = {d[la + i] : i \in 1 .. lp}
        BY <4>2, <4>3
      <4>5. {d[la + i] : i \in 1 .. lp} \subseteq {d[i] : i \in k + 1 .. la + lp}
        BY <4>1
      <4>6. ASSUME NEW i \in k + 1 .. la + lp PROVE d[i] \in own \cup {d[la + j] : j \in 1 .. lp}
        <5>1. CASE i <= la
          BY <4>1, <5>1
        <5>2. CASE i > la
          <6>1. i - la \in 1 .. lp /\ la + (i - la) = i
            BY <4>1, <5>2
          <6> QED BY <6>1
        <5> QED BY <4>1, <5>1, <5>2
      <4>7. own \subseteq {d[i] : i \in k + 1 .. la + lp}
        BY <4>1
      <4> QED BY <2>1, <4>4, <4>5, <4>6, <4>7
    <3>2. k <= la + lp /\ (dma = "moving" => k < la + lp)
      BY <1>1 DEF Chained, Device
    <3> QED BY <2>2, <3>1, <3>2 DEF Chained, Device
  <2> QED BY <2>4, <2>7, <2>8 DEF Chained
<1>3. CASE ~(pending # <<>> /\ Ether!Activates)
  <2>1. UNCHANGED <<Ether!queues, Ether!descs, own>>
    BY <1>3 DEF Ether!activate_channel
  <2> QED BY <2>1, ChainStays DEF Ether!queues, Ether!descs
<1> QED BY <1>2, <1>3

LEMMA FetchKeepsChain ==
  ASSUME NEW d, NEW k, EtherTypes, Listed(d), Chained(d, k), Ether!Fetch
  PROVE  Chained(d, k)'
<1>1. PICK la, lp \in Nat : la = Len(active) /\ lp = Len(pending)
  BY LenProperties DEF EtherTypes
<1>2. k \in Nat /\ k <= la /\ la + lp < NumDesc /\ NumDesc \in Nat
  BY <1>1, EtherConstants DEF Chained, Bounds, Device
<1>3. cur = d[k + 1] /\ cur \in {d[i] : i \in k + 1 .. la}
  BY <1>1 DEF Chained, Device, Ether!Fetch
<1>4. k < la
  BY <1>2, <1>3 DEF Listed
<1>5. k + 1 \in 1 .. NumDesc /\ k + 1 # NumDesc
  BY <1>2, <1>4
<1>6. fetched' = d[k + 2]
  <2>1. fetched' = nextDesc[d[k + 1]]
    BY <1>3 DEF Ether!Fetch
  <2>2. nextDesc[d[k + 1]] = d[k + 1 + 1]
    BY <1>5 DEF Chained, Links
  <2>3. k + 1 + 1 = k + 2
    BY <1>2
  <2> QED BY <2>1, <2>2, <2>3
<1>7. Device(d, k)'
  BY <1>1, <1>4, <1>6 DEF Device, Chained, Ether!Fetch, Ether!queues, Ether!descs
<1> QED BY <1>7 DEF Chained, Links, Bounds, Bound, Ether!Fetch, Ether!queues, Ether!descs

LEMMA SuspendKeepsChain ==
  ASSUME NEW d, NEW k, EtherTypes, Chained(d, k), Ether!Suspend
  PROVE  Chained(d, k)' /\ k = Len(active)
<1>1. k = Len(active)
  <2>1. PICK la \in Nat : la = Len(active)
    BY LenProperties DEF EtherTypes
  <2> QED BY <2>1 DEF Chained, Device, Ether!Suspend
<1> QED BY <1>1 DEF Chained, Links, Bounds, Bound, Device, Ether!Suspend, Ether!queues, Ether!descs

LEMMA ResumeKeepsChain ==
  ASSUME NEW d, NEW k, Chained(d, k), Ether!resume,
         UNCHANGED <<Ether!queues, Ether!descs, own, cur, fetched>>
  PROVE  Chained(d, k)'
BY DEF Chained, Links, Bounds, Bound, Device, Ether!resume, Ether!queues, Ether!descs

LEMMA MovedKeepsChain ==
  ASSUME NEW d, NEW k, NEW b, EtherTypes, Listed(d), Chained(d, k), Ether!Moved(b)
  PROVE  k < Len(active) /\ b = active[k + 1] /\ Chained(d, k + 1)'
<1>1. PICK la, lp \in Nat : la = Len(active) /\ lp = Len(pending)
  BY LenProperties DEF EtherTypes
<1>2. k \in Nat /\ k <= la /\ la + lp < NumDesc /\ NumDesc \in Nat
  BY <1>1, EtherConstants DEF Chained, Bounds, Device
<1>3. k < la /\ fetched = d[k + 2] /\ cur = d[k + 1]
  BY <1>1 DEF Chained, Device, Ether!Moved
<1>4. PICK i \in 1 .. la : active[i] = b
  BY <1>1, LenProperties DEF EtherTypes, Ether!Moved
<1>5. d[i] = d[k + 1]
  BY <1>1, <1>3, <1>4 DEF Chained, Bounds, Bound, Ether!Moved
<1>6. i = k + 1
  BY <1>2, <1>3, <1>5 DEF Listed
<1>7. own' = {d[j] : j \in k + 2 .. la}
  <2>1. own' = own \ {d[k + 1]} /\ own = {d[j] : j \in k + 1 .. la}
    BY <1>1, <1>3 DEF Chained, Device, Ether!Moved
  <2>2. \A j \in k + 2 .. la : j \in k + 1 .. la /\ d[j] # d[k + 1]
    BY <1>2 DEF Listed
  <2>3. \A j \in k + 1 .. la : j = k + 1 \/ j \in k + 2 .. la
    BY <1>2
  <2> QED BY <2>1, <2>2, <2>3
<1>8. Device(d, k + 1)'
  <2>1. active' = active /\ cur' = fetched /\ dma' = "running"
    BY DEF Ether!Moved, Ether!queues
  <2>2. k + 1 \in Nat /\ k + 1 <= la /\ (k + 1) + 1 = k + 2
    BY <1>2, <1>3
  <2> QED BY <1>1, <1>3, <1>7, <2>1, <2>2 DEF Device
<1>9. Links(d)' /\ Bounds(d)'
  BY DEF Chained, Links, Bounds, Bound, Ether!Moved, Ether!queues, Ether!descs
<1> QED BY <1>1, <1>3, <1>4, <1>6, <1>8, <1>9 DEF Chained

LEMMA FinishedIs ==
  ASSUME NEW d, NEW k, EtherTypes, Listed(d), Chained(d, k)
  PROVE  Ether!Finished = IF "done" \in isrStatus THEN SubSeq(active, 1, k) ELSE <<>>
<1>1. PICK la, lp \in Nat : la = Len(active) /\ lp = Len(pending)
  BY LenProperties DEF EtherTypes
<1>2. k \in Nat /\ k <= la /\ la + lp < NumDesc /\ NumDesc \in Nat
  BY <1>1, EtherConstants DEF Chained, Bounds, Device
<1>3. own = {d[i] : i \in k + 1 .. la} /\ \A i \in 1 .. la : desc[active[i]] = d[i]
  BY <1>1 DEF Chained, Bounds, Bound, Device
<1>4. \A i \in 1 .. la : desc[active[i]] \in own <=> i > k
  <2>1. ASSUME NEW i \in 1 .. la, desc[active[i]] \in own PROVE i > k
    <3>1. PICK j \in k + 1 .. la : d[i] = d[j]
      BY <1>3, <2>1
    <3>2. i = j
      BY <1>2, <3>1 DEF Listed
    <3> QED BY <1>2, <3>2
  <2>2. ASSUME NEW i \in 1 .. la, i > k PROVE desc[active[i]] \in own
    <3>1. i \in k + 1 .. la
      BY <1>2, <2>2
    <3> QED BY <1>3, <3>1
  <2> QED BY <2>1, <2>2
<1> DEFINE Upto(n) == /\ \A i \in 1 .. n : desc[active[i]] \notin own
                      /\ n < Len(active) => desc[active[n + 1]] \in own
<1>5. k \in 0 .. Len(active) /\ Upto(k)
  BY <1>1, <1>2, <1>4
<1>6. ASSUME NEW n \in 0 .. Len(active), Upto(n) PROVE n = k
  <2>1. ~(n > k)
    BY <1>1, <1>2, <1>4, <1>6
  <2>2. ~(n < k)
    BY <1>1, <1>2, <1>4, <1>6
  <2> QED BY <1>1, <1>2, <2>1, <2>2
<1> DEFINE n == CHOOSE m \in 0 .. Len(active) : Upto(m)
<1>7. n = k
  <2> HIDE DEF Upto
  <2> QED BY <1>5, <1>6
<1>8. Ether!Finished = IF "done" \in isrStatus THEN SubSeq(active, 1, n) ELSE <<>>
  BY DEF Ether!Finished
<1> HIDE DEF n
<1> QED BY <1>7, <1>8

\* The list after the first k descriptors are free again.
Turned(d, k) == [i \in 1 .. NumDesc |-> IF i <= NumDesc - k THEN d[i + k] ELSE d[i - (NumDesc - k)]]

LEMMA TurnedIsListed ==
  ASSUME NEW d, NEW k \in Nat, k < NumDesc, Listed(d)
  PROVE  Listed(Turned(d, k))
<1>1. NumDesc \in Nat
  BY EtherConstants
<1>2. \A i \in 1 .. NumDesc : i <= NumDesc - k => i + k \in k + 1 .. NumDesc
  BY <1>1
<1>3. \A i \in 1 .. NumDesc : ~(i <= NumDesc - k) => i - (NumDesc - k) \in 1 .. k
  BY <1>1
<1>4. ASSUME NEW i \in 1 .. NumDesc PROVE Turned(d, k)[i] \in 1 .. NumDesc
  BY <1>1, <1>2, <1>3, <1>4 DEF Turned, Listed
<1>5. ASSUME NEW i \in 1 .. NumDesc, NEW j \in 1 .. NumDesc,
         Turned(d, k)[i] = Turned(d, k)[j] PROVE i = j
  <2> DEFINE p(h) == IF h <= NumDesc - k THEN h + k ELSE h - (NumDesc - k)
  <2>1. p(i) \in 1 .. NumDesc /\ p(j) \in 1 .. NumDesc
    BY <1>1, <1>2, <1>3
  <2>2. Turned(d, k)[i] = d[p(i)] /\ Turned(d, k)[j] = d[p(j)]
    BY DEF Turned
  <2>3. p(i) = p(j)
    <3> HIDE DEF p
    <3> QED BY <1>5, <2>1, <2>2 DEF Listed
  <2> QED BY <1>1, <2>3
<1>6. Turned(d, k) \in [1 .. NumDesc -> 1 .. NumDesc]
  BY <1>4 DEF Turned
<1> QED BY <1>5, <1>6 DEF Listed

\* The links of d, the first k descriptors of which follow the others in r.
Relinks(d, k, r) ==
  /\ r \in [0 .. NumDesc -> 0 .. NumDesc]
  /\ r[d[NumDesc]] = d[1] /\ r[d[k]] = 0
  /\ \A i \in 1 .. NumDesc - 1 : i # k => r[d[i]] = d[i + 1]

LEMMA RelinkedIs ==
  ASSUME NEW d, NEW k, NEW done, EtherTypes, Listed(d), Chained(d, k), k > 0,
         Len(done) = k, \A i \in 1 .. k : done[i] = active[i], DOMAIN done = 1 .. k
  PROVE  Relinks(d, k, Ether!Relinked(done))
<1>1. PICK la, lp \in Nat : la = Len(active) /\ lp = Len(pending)
  BY LenProperties DEF EtherTypes
<1>2. k \in Nat /\ k <= la /\ la + lp < NumDesc /\ NumDesc \in Nat
  BY <1>1, EtherConstants DEF Chained, Bounds, Device
<1>3. \A i \in 1 .. k : desc[done[i]] = d[i]
  BY <1>1, <1>2 DEF Chained, Bounds, Bound
<1>4. /\ \A i \in 1 .. NumDesc : d[i] \in 1 .. NumDesc
      /\ \A i, j \in 1 .. NumDesc : d[i] = d[j] => i = j
  BY DEF Listed
<1> DEFINE ch == <<descTail>> \o [i \in DOMAIN done |-> desc[done[i]]]
           pos(x) == CHOOSE i \in DOMAIN ch : ch[i] = x
           new == [x \in 0 .. NumDesc |->
                    CASE x \notin {ch[i] : i \in DOMAIN ch} -> nextDesc[x]
                      [] OTHER -> IF pos(x) = Len(ch) THEN 0 ELSE ch[pos(x) + 1]]
<1>5. Ether!Relinked(done) = new
  BY EtherConstants DEF Ether!Relinked
<1>6. /\ Len(ch) = k + 1 /\ DOMAIN ch = 1 .. k + 1
      /\ ch[1] = d[NumDesc] /\ \A i \in 1 .. k : ch[i + 1] = d[i]
  <2>1. PICK g : g = [i \in DOMAIN done |-> desc[done[i]]]
    OBVIOUS
  <2>2. g \in Seq(1 .. NumDesc) /\ Len(g) = k /\ \A i \in 1 .. k : g[i] = d[i]
    <3>1. \A i \in 1 .. k : desc[done[i]] \in 1 .. NumDesc
      BY <1>2, <1>3, <1>4
    <3>2. g \in [1 .. k -> 1 .. NumDesc]
      BY <2>1, <3>1
    <3> QED BY <1>2, <1>3, <2>1, <3>2, SeqDef
  <2>3. PICK h : h = <<descTail>>
    OBVIOUS
  <2>4. h \in Seq(1 .. NumDesc) /\ Len(h) = 1 /\ h[1] = d[NumDesc]
    BY <1>2, <1>4, <2>3 DEF Chained, Bounds
  <2>5. PICK c \in Seq(1 .. NumDesc) : c = h \o g /\ Len(c) = 1 + k /\ In(c, 1, g) /\ In(c, 0, h)
    BY <2>2, <2>4, LastOfConcat
  <2>6. ch = c
    BY <2>1, <2>3, <2>5
  <2>7. c[1] = d[NumDesc]
    BY <2>4, <2>5 DEF In
  <2>8. \A i \in 1 .. k : c[i + 1] = d[i]
    BY <1>2, <2>2, <2>5 DEF In
  <2>9. DOMAIN c = 1 .. k + 1
    BY <1>2, <2>5, LenProperties
  <2> HIDE DEF ch
  <2> QED BY <1>2, <2>5, <2>6, <2>7, <2>8, <2>9
<1>7. \A i, j \in DOMAIN ch : ch[i] = ch[j] => i = j
  <2> DEFINE p(i) == IF i = 1 THEN NumDesc ELSE i - 1
  <2>1. \A i \in 1 .. k + 1 : p(i) \in 1 .. NumDesc /\ ch[i] = d[p(i)]
    <3> HIDE DEF ch
    <3>1. ASSUME NEW i \in 1 .. k + 1, i # 1 PROVE i - 1 \in 1 .. k /\ i - 1 + 1 = i
             /\ i - 1 \in 1 .. NumDesc
      BY <1>2, <3>1
    <3> QED BY <1>2, <1>6, <3>1
  <2>2. \A i, j \in 1 .. k + 1 : p(i) = p(j) => i = j
    BY <1>2
  <2> HIDE DEF ch, p
  <2> QED BY <1>4, <1>6, <2>1, <2>2
<1>8. ASSUME NEW i \in 1 .. k + 1 PROVE pos(ch[i]) = i /\ ch[i] \in {ch[j] : j \in DOMAIN ch}
  <2> HIDE DEF ch
  <2> QED BY <1>6, <1>7
<1>9. ASSUME NEW i \in 1 .. k + 1
      PROVE  ch[i] \in 1 .. NumDesc /\ new[ch[i]] = IF i = k + 1 THEN 0 ELSE ch[i + 1]
  <2> HIDE DEF ch
  <2>1. ch[i] \in 1 .. NumDesc
    <3>1. CASE i = 1
      BY <1>2, <1>4, <1>6, <3>1
    <3>2. CASE i # 1
      <4>1. i - 1 \in 1 .. k /\ i - 1 + 1 = i /\ i - 1 \in 1 .. NumDesc
        BY <1>2, <3>2
      <4> QED BY <1>4, <1>6, <4>1
    <3> QED BY <3>1, <3>2
  <2> HIDE DEF pos
  <2> QED BY <1>6, <1>8, <2>1
<1>10. ASSUME NEW i \in 1 .. NumDesc - 1, i > k PROVE new[d[i]] = d[i + 1]
  <2>1. i \in 1 .. NumDesc /\ i # NumDesc /\ d[i] \in 0 .. NumDesc
    BY <1>2, <1>4
  <2>2. ASSUME NEW j \in 1 .. k + 1 PROVE ch[j] # d[i]
    <3> HIDE DEF ch
    <3>1. CASE j = 1
      BY <1>2, <1>4, <1>6, <2>1, <3>1
    <3>2. CASE j # 1
      <4>1. j - 1 \in 1 .. k /\ j - 1 + 1 = j /\ j - 1 \in 1 .. NumDesc /\ j - 1 # i
        BY <1>2, <1>10, <3>2
      <4> QED BY <1>4, <1>6, <2>1, <4>1
    <3> QED BY <3>1, <3>2
  <2>3. new[d[i]] = nextDesc[d[i]]
    <3> HIDE DEF ch, pos
    <3> QED BY <1>6, <2>1, <2>2
  <2>4. nextDesc[d[i]] = d[i + 1]
    BY <2>1 DEF Chained, Links
  <2> QED BY <2>3, <2>4
<1>11. new[d[NumDesc]] = d[1] /\ new[d[k]] = 0
  <2>1. 1 \in 1 .. k + 1 /\ k + 1 \in 1 .. k + 1 /\ 1 # k + 1 /\ 1 \in 1 .. k /\ k \in 1 .. k
           /\ 1 + 1 = 2
    BY <1>2
  <2> HIDE DEF ch, new
  <2>2. ch[1 + 1] = d[1] /\ ch[k + 1] = d[k]
    BY <1>6, <2>1
  <2> QED BY <1>6, <1>9, <2>1, <2>2
<1>12. ASSUME NEW i \in 1 .. NumDesc - 1, i < k PROVE new[d[i]] = d[i + 1]
  <2>1. i \in 1 .. k /\ i + 1 \in 1 .. k /\ i + 1 \in 1 .. k + 1 /\ i + 1 # k + 1
    BY <1>2, <1>12
  <2> HIDE DEF ch, new
  <2>2. ch[i + 1] = d[i] /\ ch[i + 1 + 1] = d[i + 1]
    BY <1>6, <2>1
  <2> QED BY <1>9, <2>1, <2>2
<1>13. new \in [0 .. NumDesc -> 0 .. NumDesc]
  <2>1. ASSUME NEW x \in 0 .. NumDesc PROVE new[x] \in 0 .. NumDesc
    <3>1. CASE \E i \in 1 .. k + 1 : ch[i] = x
      <4>1. PICK i \in 1 .. k + 1 : ch[i] = x
        BY <3>1
      <4>2. i + 1 \in 1 .. k + 1 \/ i = k + 1
        BY <1>2
      <4>3. 0 \in 0 .. NumDesc /\ \A y \in 1 .. NumDesc : y \in 0 .. NumDesc
        BY <1>2
      <4> HIDE DEF ch, new
      <4> QED BY <1>9, <4>1, <4>2, <4>3
    <3>2. CASE ~\E i \in 1 .. k + 1 : ch[i] = x
      <4>1. new[x] = nextDesc[x]
        <5> HIDE DEF ch, pos
        <5> QED BY <1>6, <3>2
      <4> QED BY <4>1 DEF EtherTypes
    <3> QED BY <3>1, <3>2
  <2> QED BY <2>1
<1>14. \A i \in 1 .. NumDesc - 1 : i # k => new[d[i]] = d[i + 1]
  <2> HIDE DEF new
  <2> QED BY <1>2, <1>10, <1>12
<1> HIDE DEF new
<1>15. Relinks(d, k, new)
  BY <1>11, <1>13, <1>14 DEF Relinks
<1> QED BY <1>5, <1>15

LEMMA IdleKeepsChain ==
  ASSUME NEW d, NEW k, EtherTypes, Listed(d), Chained(d, k), Ether!process_int,
     Ether!Finished = <<>>
  PROVE  Chained(d, k)' /\ active' = active /\ desc' = desc /\ nextDesc' = nextDesc
<1>1. PICK la, lp \in Nat : la = Len(active) /\ lp = Len(pending)
  BY LenProperties DEF EtherTypes
<1>2. active' = active
  <2>1. active' = SubSeq(active, 0 + 1, Len(active)) /\ SubSeq(active, 1, 0) = <<>>
    BY SubSeqEmpty DEF Ether!process_int
  <2>2. SubSeq(active, 0 + 1, Len(active)) \in Seq(Ether!Buffers)
           /\ SubSeq(active, 1, 0) \o SubSeq(active, 0 + 1, Len(active)) = active
    BY <1>1, Halves DEF EtherTypes
  <2> QED BY <2>1, <2>2, ConcatEmptySeq
<1>3. desc' = desc
  <2>1. desc' = [b \in Ether!Buffers |-> desc[b]]
    BY DEF Ether!process_int
  <2> QED BY <2>1 DEF EtherTypes
<1>4. numAvail' = numAvail
  <2>1. numAvail' = numAvail + 0 /\ numAvail = NumDesc - la - lp
    BY <1>1 DEF Ether!process_int, Chained, Bounds
  <2> QED BY <1>1, <2>1, EtherConstants
<1>5. UNCHANGED <<pending, descHead, descTail, nextDesc, own, dma, cur, fetched>>
  BY DEF Ether!process_int, Ether!device
<1> QED BY <1>2, <1>3, <1>4, <1>5, ChainStays

LEMMA FinishKeepsChain ==
  ASSUME NEW d, NEW k, EtherTypes, Listed(d), Chained(d, k), BuffersApart,
         Ether!process_int, Ether!Finished = SubSeq(active, 1, k), k > 0
  PROVE  /\ Chained(Turned(d, k), 0)'
         /\ active' \in Seq(Ether!Buffers) /\ desc' \in [Ether!Buffers -> 0 .. NumDesc]
         /\ nextDesc' \in [0 .. NumDesc -> 0 .. NumDesc]
         /\ SubSeq(active, 1, k) \in Seq(Ether!Buffers) /\ Len(SubSeq(active, 1, k)) = k
         /\ SubSeq(active, 1, k) \o active' = active
<1>1. PICK la, lp \in Nat : la = Len(active) /\ lp = Len(pending)
  BY LenProperties DEF EtherTypes
<1>2. k \in Nat /\ k <= la /\ la + lp < NumDesc /\ NumDesc \in Nat
  BY <1>1, EtherConstants DEF Chained, Bounds, Device
<1>3. PICK done : done = SubSeq(active, 1, k)
  OBVIOUS
<1>4. done \in Seq(Ether!Buffers) /\ Len(done) = k /\ In(active, 0, done) /\ DOMAIN done = 1 .. k
  <2>1. done \in Seq(Ether!Buffers) /\ Len(done) = k /\ In(active, 0, done)
    BY <1>1, <1>2, <1>3, Halves DEF EtherTypes
  <2> QED BY <2>1, LenProperties
<1>5. /\ active' \in Seq(Ether!Buffers) /\ Len(active') = la - k
      /\ In(active, k, active') /\ done \o active' = active
  <2>1. active' = SubSeq(active, k + 1, Len(active))
    BY <1>3, <1>4 DEF Ether!process_int
  <2> QED BY <1>1, <1>2, <1>3, <2>1, Halves DEF EtherTypes
<1>6. \A i \in 1 .. k : done[i] = active[i]
  BY <1>4 DEF In
<1>7. \A i \in 1 .. la - k : active'[i] = active[k + i]
  BY <1>5 DEF In
<1>8. PICK e : e = Turned(d, k)
  OBVIOUS
<1>9. /\ \A i \in 1 .. NumDesc - k : e[i] = d[i + k]
      /\ \A i \in NumDesc - k + 1 .. NumDesc : e[i] = d[i - (NumDesc - k)]
  BY <1>2, <1>8 DEF Turned
<1>10. Ether!Finished = done /\ done # <<>>
  <2>1. Len(done) # 0
    BY <1>2, <1>4
  <2>2. Len(<<>>) = 0
    OBVIOUS
  <2> QED BY <1>3, <2>1, <2>2
<1>11. nextDesc' = Ether!Relinked(done) /\ descTail' = desc[done[k]] /\ numAvail' = numAvail + k
  BY <1>4, <1>10 DEF Ether!process_int, Ether!Final
<1>12. /\ nextDesc' \in [0 .. NumDesc -> 0 .. NumDesc]
       /\ nextDesc'[d[NumDesc]] = d[1] /\ nextDesc'[d[k]] = 0
       /\ \A i \in 1 .. NumDesc - 1 : i # k => nextDesc'[d[i]] = d[i + 1]
  <2>1. Relinks(d, k, Ether!Relinked(done))
    BY <1>4, <1>6, RelinkedIs
  <2> QED BY <1>11, <2>1 DEF Relinks
<1>13. Links(e)'
  <2>1. ASSUME NEW i \in 1 .. NumDesc PROVE nextDesc'[e[i]] = IF i = NumDesc THEN 0 ELSE e[i + 1]
    <3>1. CASE i < NumDesc - k
      <4>1. i \in 1 .. NumDesc - k /\ i + 1 \in 1 .. NumDesc - k /\ i + k \in 1 .. NumDesc - 1
               /\ i + k # k /\ i + 1 + k = i + k + 1 /\ i # NumDesc
        BY <1>2, <3>1
      <4> QED BY <1>9, <1>12, <4>1
    <3>2. CASE i = NumDesc - k
      <4>1. i \in 1 .. NumDesc - k /\ i + k = NumDesc /\ i # NumDesc
        BY <1>2, <3>2
      <4>3. PICK j \in NumDesc - k + 1 .. NumDesc : j = i + 1 /\ j - (NumDesc - k) = 1
        BY <1>2, <3>2
      <4>2. e[i] = d[NumDesc] /\ e[i + 1] = d[1]
        BY <1>9, <4>1, <4>3
      <4> QED BY <1>12, <4>1, <4>2
    <3>3. CASE i > NumDesc - k /\ i # NumDesc
      <4>1. /\ i \in NumDesc - k + 1 .. NumDesc
            /\ i - (NumDesc - k) \in 1 .. NumDesc - 1 /\ i - (NumDesc - k) # k
        BY <1>2, <3>3
      <4>4. PICK j \in NumDesc - k + 1 .. NumDesc : j = i + 1
               /\ j - (NumDesc - k) = i - (NumDesc - k) + 1
        BY <1>2, <3>3
      <4>2. e[i] = d[i - (NumDesc - k)] /\ e[i + 1] = d[i - (NumDesc - k) + 1]
        BY <1>9, <4>1, <4>4
      <4>3. nextDesc'[d[i - (NumDesc - k)]] = d[i - (NumDesc - k) + 1]
        BY <1>12, <4>1
      <4> QED BY <3>3, <4>2, <4>3
    <3>4. CASE i = NumDesc
      <4>1. i \in NumDesc - k + 1 .. NumDesc /\ i - (NumDesc - k) = k
        BY <1>2, <3>4
      <4> QED BY <1>9, <1>12, <3>4, <4>1
    <3> QED BY <1>2, <3>1, <3>2, <3>3, <3>4
  <2> QED BY <2>1 DEF Links
<1>14. desc' = [b \in Ether!Buffers |-> IF \E i \in 1 .. k : done[i] = b THEN 0 ELSE desc[b]]
  BY <1>4, <1>10, EtherConstants DEF Ether!process_int
<1>15. desc' \in [Ether!Buffers -> 0 .. NumDesc]
  BY <1>2, <1>14 DEF EtherTypes
<1>16. pending' = pending /\ descHead' = descHead /\ UNCHANGED <<own, dma, cur, fetched>>
  BY DEF Ether!process_int, Ether!device
<1>17. Bound(e, 0, active)'
  <2>1. ASSUME NEW i \in 1 .. la - k PROVE desc'[active'[i]] = e[i]
    <3>1. k + i \in 1 .. la /\ i \in 1 .. NumDesc - k /\ i + k = k + i
      BY <1>2
    <3>2. active[k + i] \in Ether!Buffers
      BY <1>1, <3>1, ElementOfSeq DEF EtherTypes
    <3>3. \A j \in 1 .. k : done[j] # active[k + i]
      <4>1. \A j \in 1 .. k : j \in 1 .. la /\ j # k + i
        BY <1>2
      <4> QED BY <1>1, <1>6, <3>1, <4>1 DEF BuffersApart, OneEach
    <3>4. desc[active[k + i]] = d[k + i]
      BY <1>1, <3>1 DEF Chained, Bounds, Bound
    <3> QED BY <1>7, <1>9, <1>14, <3>1, <3>2, <3>3, <3>4
  <2> QED BY <1>5, <2>1 DEF Bound
<1>18. Bound(e, Len(active), pending)'
  <2>1. ASSUME NEW i \in 1 .. lp PROVE desc'[pending[i]] = e[la - k + i]
    <3>1. la - k + i \in 1 .. NumDesc - k /\ la - k + i + k = la + i
      BY <1>2
    <3>2. pending[i] \in Ether!Buffers
      BY <1>1, ElementOfSeq DEF EtherTypes
    <3>3. \A j \in 1 .. k : done[j] # pending[i]
      <4>1. \A j \in 1 .. k : j \in 1 .. la
        BY <1>2
      <4> QED BY <1>1, <1>6, <4>1 DEF BuffersApart, Apart
    <3>4. desc[pending[i]] = d[la + i]
      BY <1>1 DEF Chained, Bounds, Bound
    <3> QED BY <1>9, <1>14, <3>1, <3>2, <3>3, <3>4
  <2> QED BY <1>1, <1>5, <1>16, <2>1 DEF Bound
<1>19. Bounds(e)'
  <2>1. numAvail' = NumDesc - (la - k) - lp /\ numAvail' >= 1
    BY <1>1, <1>2, <1>11 DEF Chained, Bounds
  <2>2. descHead = e[la - k + lp + 1]
    <3>1. la - k + lp + 1 \in 1 .. NumDesc - k /\ la - k + lp + 1 + k = la + lp + 1
      BY <1>2
    <3>2. descHead = d[la + lp + 1]
      BY <1>1 DEF Chained, Bounds
    <3> QED BY <1>9, <3>1, <3>2
  <2>3. descTail' = e[NumDesc]
    <3>1. NumDesc \in NumDesc - k + 1 .. NumDesc /\ NumDesc - (NumDesc - k) = k /\ k \in 1 .. la
      BY <1>2
    <3>2. desc[active[k]] = d[k]
      BY <1>1, <3>1 DEF Chained, Bounds, Bound
    <3>3. done[k] = active[k]
      BY <1>2, <1>6
    <3> QED BY <1>9, <1>11, <3>1, <3>2, <3>3
  <2> QED BY <1>1, <1>5, <1>16, <1>17, <1>18, <2>1, <2>2, <2>3 DEF Bounds
<1>20. Device(e, 0)'
  <2>1. own = {e[i] : i \in 0 + 1 .. la - k}
    <3>1. own = {d[i] : i \in k + 1 .. la}
      BY <1>1 DEF Chained, Device
    <3>2. ASSUME NEW i \in k + 1 .. la PROVE i - k \in 0 + 1 .. la - k /\ e[i - k] = d[i]
      <4>1. i - k \in 1 .. NumDesc - k /\ i - k + k = i /\ i - k \in 0 + 1 .. la - k
        BY <1>2
      <4> QED BY <1>9, <4>1
    <3>3. ASSUME NEW i \in 0 + 1 .. la - k PROVE i + k \in k + 1 .. la /\ e[i] = d[i + k]
      <4>1. i \in 1 .. NumDesc - k /\ i + k \in k + 1 .. la
        BY <1>2
      <4> QED BY <1>9, <4>1
    <3>4. own \subseteq {e[i] : i \in 0 + 1 .. la - k}
      BY <3>1, <3>2
    <3>5. {e[i] : i \in 0 + 1 .. la - k} \subseteq own
      BY <3>1, <3>3
    <3> QED BY <3>4, <3>5
  <2>2. cur = e[0 + 1]
    <3>1. 0 + 1 \in 1 .. NumDesc - k /\ 0 + 1 + k = k + 1
      BY <1>2
    <3>2. cur = d[k + 1]
      BY DEF Chained, Device
    <3> QED BY <1>9, <3>1, <3>2
  <2>3. dma = "moving" => 0 < la - k /\ fetched = e[0 + 2]
    <3> SUFFICES ASSUME dma = "moving" PROVE 0 < la - k /\ fetched = e[0 + 2]
      OBVIOUS
    <3>1. k < la /\ fetched = d[k + 2]
      BY <1>1 DEF Chained, Device
    <3>2. 0 + 2 \in 1 .. NumDesc - k /\ 0 + 2 + k = k + 2 /\ 0 < la - k
      BY <1>2, <3>1
    <3> QED BY <1>9, <3>1, <3>2
  <2>4. 0 <= la - k
    BY <1>2
  <2> QED BY <1>5, <1>16, <2>1, <2>2, <2>3, <2>4 DEF Device
<1> QED BY <1>3, <1>4, <1>5, <1>8, <1>12, <1>13, <1>15, <1>19, <1>20 DEF Chained

-----------------------------------------------------------------------------
(* The frames on their way (lwip_adi_ether_netif.c)                        *)

\* The slots of the transmit ring, and the slot of the first frame that the
\* worker has not freed.
RingSlot(i) == IF i < NumBuffers THEN i ELSE i - NumBuffers
Behind1 == IF etherAt = "next" THEN 1 ELSE 0
Eldest  == IF etherAt # "next" THEN txPktTail
           ELSE IF txPktTail = 0 THEN NumBuffers - 1 ELSE txPktTail - 1

\* s is the buffers in their places; the frames of the first m have moved.
Received(s, m) ==
  /\ \A b \in Ether!Buffers : b \in held \/ b \in lost \/ \E i \in 1 .. Len(s) : s[i] = b
  /\ OneEach(s) /\ \A i \in 1 .. Len(s) : s[i] \notin held /\ s[i] \notin lost
  /\ \A b \in Ether!Buffers : ~(b \in held /\ b \in lost)
  /\ Len(passing) = m /\ In(s, 0, passing)

Sent(s, m) ==
  /\ held = {} /\ lost = {}
  /\ Len(s) < NumBuffers + Behind1
  /\ \A i \in 1 .. Len(s) : s[i] = RingSlot(Eldest + i - 1)
  /\ RingSlot(Eldest + Len(s)) = IF call = "none" THEN txPktHead ELSE RingSlot(txPktHead + 1)
  /\ m + Len(passing) = Len(s) /\ In(s, m, passing)

EtherFrames(s, m) ==
  /\ s \in Seq(Ether!Buffers) /\ m \in Nat /\ m <= Len(s)
  /\ flow = "rx" => Received(s, m)
  /\ flow = "tx" => Sent(s, m)

LEMMA NextSlotIs ==
  ASSUME NEW i \in Ether!Buffers
  PROVE  Ether!NextSlot(i) = RingSlot(i + 1) /\ RingSlot(i + 1) \in Ether!Buffers
<1>1. i \in Nat /\ i < NumBuffers /\ NumBuffers \in Nat /\ NumBuffers > 0
  BY EtherConstants
<1>2. (i + 1) % NumBuffers = IF i + 1 < NumBuffers THEN i + 1 ELSE i + 1 - NumBuffers
  BY <1>1, ModulusOnce
<1> QED BY <1>1, <1>2, EtherConstants DEF Ether!NextSlot, RingSlot

LEMMA EldestType == EtherTypes => Eldest \in 0 .. NumBuffers - 1
BY EtherConstants DEF EtherTypes, Eldest

LEMMA EachOnce ==
  ASSUME NEW s, NEW m, EtherTypes, EtherFrames(s, m)
  PROVE  OneEach(s) /\ \A i \in 1 .. Len(s) : s[i] \notin held /\ s[i] \notin lost
<1>1. CASE flow = "rx"
  BY <1>1 DEF EtherFrames, Received
<1>2. CASE flow = "tx"
  <2>1. PICK l \in Nat : l = Len(s)
    BY LenProperties DEF EtherFrames
  <2>2. l <= NumBuffers /\ \A i \in 1 .. l : s[i] = RingSlot(Eldest + i - 1)
    BY <1>2, <2>1, EtherConstants DEF EtherFrames, Sent, Behind1
  <2>3. PICK e \in 0 .. NumBuffers - 1 : e = Eldest
    BY EldestType
  <2>4. \A i, j \in 1 .. l : RingSlot(e + i - 1) = RingSlot(e + j - 1) => i = j
    BY <2>2, <2>3, EtherConstants DEF RingSlot
  <2>5. OneEach(s)
    BY <2>1, <2>2, <2>3, <2>4 DEF OneEach
  <2> QED BY <1>2, <2>5 DEF EtherFrames, Sent
<1> QED BY <1>1, <1>2 DEF EtherTypes

LEMMA FramesStay ==
  ASSUME NEW s, NEW m, EtherFrames(s, m),
         UNCHANGED <<flow, held, lost, passing, txPktHead, txPktTail>>,
         (etherAt' = "next") <=> (etherAt = "next"), (call' = "none") <=> (call = "none")
  PROVE  EtherFrames(s, m)'
BY DEF EtherFrames, Received, Sent, Behind1, Eldest

\* A received frame does not care where calls are.
LEMMA ReceivedStay ==
  ASSUME NEW s, NEW m, EtherFrames(s, m), flow = "rx",
         UNCHANGED <<flow, held, lost, passing>>
  PROVE  EtherFrames(s, m)'
BY DEF EtherFrames, Received

LEMMA FreedIsInserted ==
  ASSUME NEW s, NEW m, NEW b \in held, EtherTypes, EtherFrames(s, m), flow = "rx",
         held' = held \ {b}, UNCHANGED <<flow, lost, passing>>
  PROVE  EtherFrames(Append(s, b), m)'
<1>1. PICK l \in Nat : l = Len(s)
  BY LenProperties DEF EtherFrames
<1>2. b \in Ether!Buffers
  BY DEF EtherTypes
<1>3. PICK r \in Seq(Ether!Buffers) : r = Append(s, b) /\ Len(r) = l + 1
                                       /\ (\A i \in 1 .. l : r[i] = s[i]) /\ r[l + 1] = b
  BY <1>1, <1>2, AppendProperties DEF EtherFrames
<1>4. \A i \in 1 .. l + 1 : i \in 1 .. l \/ i = l + 1
  BY <1>1
<1>5. Received(s, m) /\ s \in Seq(Ether!Buffers) /\ m \in Nat /\ m <= l
  BY <1>1 DEF EtherFrames
<1>6. Received(r, m)'
  <2>1. ASSUME NEW c \in Ether!Buffers PROVE c \in held' \/ c \in lost' \/ \E i \in 1 .. l + 1 : r[i] = c
    <3>1. CASE c = b
      BY <1>1, <1>3, <3>1
    <3>2. CASE \E i \in 1 .. l : s[i] = c
      BY <1>1, <1>3, <3>2
    <3> QED BY <1>1, <1>5, <3>1, <3>2 DEF Received
  <2>2. OneEach(r) /\ \A i \in 1 .. l + 1 : r[i] \notin held' /\ r[i] \notin lost'
    <3>1. \A i \in 1 .. l : s[i] # b /\ s[i] \notin held /\ s[i] \notin lost
      BY <1>1, <1>5 DEF Received
    <3>2. b \notin lost
      BY <1>2, <1>5 DEF Received
    <3>3. \A i, j \in 1 .. l : s[i] = s[j] => i = j
      BY <1>1, <1>5 DEF Received, OneEach
    <3>4. \A i, j \in 1 .. l + 1 : r[i] = r[j] => i = j
      BY <1>3, <1>4, <3>1, <3>3
    <3> QED BY <1>3, <1>4, <3>1, <3>2, <3>4 DEF OneEach
  <2>3. Len(passing') = m /\ In(r, 0, passing')
    BY <1>1, <1>3, <1>5 DEF Received, In
  <2>4. \A c \in Ether!Buffers : ~(c \in held' /\ c \in lost')
    BY <1>5 DEF Received
  <2> QED BY <1>3, <2>1, <2>2, <2>3, <2>4 DEF Received
<1> QED BY <1>1, <1>3, <1>5, <1>6 DEF EtherFrames

LEMMA FrameIsInserted ==
  ASSUME NEW s, NEW m, EtherTypes, EtherFrames(s, m), flow = "tx",
         call = "none", call' # "none", RingSlot(txPktHead + 1) # txPktTail,
         passing' = Append(passing, txPktHead),
         UNCHANGED <<flow, held, lost, txPktHead, txPktTail, etherAt>>
  PROVE  EtherFrames(Append(s, txPktHead), m)'
<1>1. PICK l \in Nat : l = Len(s)
  BY LenProperties DEF EtherFrames
<1>2. PICK e \in 0 .. NumBuffers - 1 : e = Eldest
  BY EldestType
<1>3. PICK r \in Seq(Ether!Buffers) : r = Append(s, txPktHead) /\ Len(r) = l + 1
                                       /\ (\A i \in 1 .. l : r[i] = s[i]) /\ r[l + 1] = txPktHead
  BY <1>1, AppendProperties DEF EtherFrames, EtherTypes
<1>4. PICK p \in Nat : p = Len(passing)
  BY LenProperties DEF EtherTypes
<1>5. /\ Len(passing') = p + 1 /\ passing'[p + 1] = txPktHead
      /\ \A i \in 1 .. p : passing'[i] = passing[i]
  BY <1>4, AppendProperties DEF EtherTypes
<1>6. Sent(s, m) /\ m \in Nat /\ m <= l
  BY <1>1 DEF EtherFrames
<1>7. RingSlot(e + l) = txPktHead /\ l < NumBuffers + Behind1
  BY <1>1, <1>2, <1>6 DEF Sent
<1>8. l + 1 < NumBuffers + Behind1
  <2>1. PICK h, t \in 0 .. NumBuffers - 1 : h = txPktHead /\ t = txPktTail
    BY EtherConstants DEF EtherTypes
  <2>2. RingSlot(e + l) = h /\ RingSlot(h + 1) # t
    BY <1>7, <2>1
  <2>3. NumBuffers \in Nat /\ NumBuffers >= 2
    BY EtherConstants
  <2>4. CASE etherAt = "next"
    <3>1. e = (IF t = 0 THEN NumBuffers - 1 ELSE t - 1) /\ Behind1 = 1
      BY <1>2, <2>1, <2>4 DEF Eldest, Behind1
    <3> QED BY <1>1, <1>7, <2>2, <2>3, <3>1 DEF RingSlot
  <2>5. CASE etherAt # "next"
    <3>1. e = t /\ Behind1 = 0
      BY <1>2, <2>1, <2>5 DEF Eldest, Behind1
    <3> QED BY <1>1, <1>7, <2>2, <2>3, <3>1 DEF RingSlot
  <2> QED BY <2>4, <2>5
<1>9. Eldest' = e /\ Behind1' = Behind1
  BY <1>2 DEF Eldest, Behind1
<1>10. \A i \in 1 .. l + 1 : r[i] = RingSlot(e + i - 1)
  <2>1. \A i \in 1 .. l : r[i] = RingSlot(e + i - 1)
    BY <1>1, <1>2, <1>3, <1>6 DEF Sent
  <2>2. r[l + 1] = RingSlot(e + (l + 1) - 1)
    <3>1. e + (l + 1) - 1 = e + l
      OBVIOUS
    <3> QED BY <1>3, <1>7, <3>1
  <2>3. \A i \in 1 .. l + 1 : i \in 1 .. l \/ i = l + 1
    BY <1>1
  <2> QED BY <2>1, <2>2, <2>3
<1>11. RingSlot(e + (l + 1)) = RingSlot(txPktHead + 1)
  <2>1. PICK h \in 0 .. NumBuffers - 1 : h = txPktHead
    BY EtherConstants DEF EtherTypes
  <2>2. NumBuffers \in Nat /\ NumBuffers >= 2 /\ l < NumBuffers
    BY <1>1, <1>8, EtherConstants DEF Behind1
  <2>3. RingSlot(e + l) = h
    BY <1>7, <2>1
  <2>4. RingSlot(e + (l + 1)) = RingSlot(h + 1)
    BY <1>1, <2>2, <2>3 DEF RingSlot
  <2> QED BY <2>1, <2>4
<1>12. m + (p + 1) = l + 1 /\ In(r, m, passing')
  <2>1. m + p = l /\ \A i \in 1 .. p : s[m + i] = passing[i]
    BY <1>1, <1>4, <1>6 DEF Sent, In
  <2>2. ASSUME NEW i \in 1 .. p + 1 PROVE r[m + i] = passing'[i]
    <3>1. CASE i = p + 1
      <4>1. m + i = l + 1
        <5>1. m + p = l /\ i = p + 1 /\ m \in Nat
          BY <1>6, <2>1, <3>1
        <5> QED BY <1>4, <5>1
      <4> QED BY <1>3, <1>5, <3>1, <4>1
    <3>2. CASE i # p + 1
      <4>1. i \in 1 .. p /\ m + i \in 1 .. l
        BY <1>1, <1>4, <1>6, <2>1, <3>2
      <4> QED BY <1>3, <1>5, <2>1, <4>1
    <3> QED BY <3>1, <3>2
  <2>3. m + (p + 1) = l + 1 /\ m + (p + 1) <= l + 1
    BY <1>1, <1>4, <1>6, <2>1
  <2> QED BY <1>3, <1>5, <2>2, <2>3 DEF In
<1>13. Sent(r, m)'
  BY <1>1, <1>3, <1>5, <1>6, <1>8, <1>9, <1>10, <1>11, <1>12 DEF Sent
<1> QED BY <1>1, <1>3, <1>6, <1>13 DEF EtherFrames

LEMMA TailIs ==
  ASSUME NEW T, NEW s \in Seq(T), Len(s) > 0
  PROVE  /\ Tail(s) \in Seq(T) /\ Len(Tail(s)) = Len(s) - 1 /\ Head(s) = s[1] /\ s[1] \in T
         /\ \A i \in 1 .. Len(s) - 1 : Tail(s)[i] = s[i + 1]
<1>1. Len(s) \in Nat /\ s # <<>>
  BY LenProperties, EmptySeq
<1> QED BY <1>1, HeadTailProperties

\* The worker hands a received frame over, or drops it.
LEMMA FrameIsTaken ==
  ASSUME NEW s, NEW m, EtherTypes, EtherFrames(s, m), flow = "rx", m > 0,
         passing' = Tail(passing), UNCHANGED flow,
         \/ held' = held \cup {s[1]} /\ lost' = lost
         \/ lost' = lost \cup {s[1]} /\ held' = held
  PROVE  EtherFrames(Tail(s), m - 1)' /\ Head(passing) = s[1]
<1>1. PICK l \in Nat : l = Len(s)
  BY LenProperties DEF EtherFrames
<1>2. Received(s, m) /\ m \in Nat /\ m <= l /\ s \in Seq(Ether!Buffers) /\ l > 0
  BY <1>1 DEF EtherFrames
<1>3. PICK r \in Seq(Ether!Buffers) : r = Tail(s) /\ Len(r) = l - 1
         /\ (\A i \in 1 .. l - 1 : r[i] = s[i + 1])
  <2>1. Len(s) > 0
    BY <1>1, <1>2
  <2>2. Tail(s) \in Seq(Ether!Buffers) /\ Len(Tail(s)) = Len(s) - 1
           /\ \A i \in 1 .. Len(s) - 1 : Tail(s)[i] = s[i + 1]
    BY <1>2, <2>1, TailIs
  <2> QED BY <1>1, <2>2
<1>4. /\ Len(passing') = m - 1 /\ Head(passing) = passing[1]
      /\ \A i \in 1 .. m - 1 : passing'[i] = passing[i + 1]
  BY <1>2, TailIs DEF EtherTypes, Received
<1>5. \A i \in 1 .. m : s[i] = passing[i]
  BY <1>2 DEF Received, In
<1>6. \A i \in 1 .. l - 1 : i + 1 \in 1 .. l /\ i + 1 # 1
  BY <1>1
<1>7. Received(r, m - 1)'
  <2>1. ASSUME NEW c \in Ether!Buffers PROVE c \in held' \/ c \in lost' \/ \E i \in 1 .. l - 1 : r[i] = c
    <3>1. CASE \E i \in 1 .. l : s[i] = c
      <4>1. PICK i \in 1 .. l : s[i] = c
        BY <3>1
      <4>2. CASE i = 1
        BY <4>1, <4>2
      <4>3. CASE i # 1
        <5>1. i - 1 \in 1 .. l - 1 /\ i - 1 + 1 = i
          BY <4>3
        <5> QED BY <1>3, <4>1, <5>1
      <4> QED BY <4>2, <4>3
    <3>2. CASE c \in held \/ c \in lost
      BY <3>2
    <3> QED BY <1>1, <1>2, <3>1, <3>2 DEF Received
  <2>2. \A i \in 1 .. l - 1 : r[i] \notin held' /\ r[i] \notin lost'
    <3>1. \A i \in 1 .. l : s[i] \notin held /\ s[i] \notin lost
      BY <1>1, <1>2 DEF Received
    <3>2. \A i \in 1 .. l - 1 : s[i + 1] # s[1]
      BY <1>1, <1>2, <1>6 DEF Received, OneEach
    <3> QED BY <1>3, <1>6, <3>1, <3>2
  <2>3. OneEach(r)
    BY <1>1, <1>2, <1>3, <1>6 DEF Received, OneEach
  <2>4. \A c \in Ether!Buffers : ~(c \in held' /\ c \in lost')
    <3>1. \A c \in Ether!Buffers : ~(c \in held /\ c \in lost)
      BY <1>2 DEF Received
    <3>2. s[1] \notin held /\ s[1] \notin lost
      BY <1>1, <1>2 DEF Received
    <3> QED BY <3>1, <3>2
  <2>5. Len(passing') = m - 1 /\ In(r, 0, passing')
    <3>1. \A i \in 1 .. m - 1 : i \in 1 .. l - 1 /\ i + 1 \in 1 .. m /\ 0 + i = i
      BY <1>1, <1>2
    <3>2. \A i \in 1 .. m - 1 : r[0 + i] = passing'[i]
      BY <1>3, <1>4, <1>5, <3>1
    <3>3. 0 + (m - 1) <= l - 1
      BY <1>1, <1>2
    <3> QED BY <1>3, <1>4, <3>2, <3>3 DEF In
  <2> QED BY <1>3, <2>1, <2>2, <2>3, <2>4, <2>5 DEF Received
<1>8. m - 1 \in Nat /\ m - 1 <= l - 1 /\ 1 \in 1 .. m
  BY <1>1, <1>2
<1> QED BY <1>3, <1>4, <1>5, <1>7, <1>8 DEF EtherFrames

\* The worker gives the buffer of a received frame back to the driver.
LEMMA FrameIsReturned ==
  ASSUME NEW s, NEW m, EtherTypes, EtherFrames(s, m), flow = "rx", m > 0,
         passing' = Tail(passing), UNCHANGED <<flow, held, lost>>
  PROVE  EtherFrames(Append(Tail(s), s[1]), m - 1)' /\ Head(passing) = s[1]
<1>1. PICK l \in Nat : l = Len(s)
  BY LenProperties DEF EtherFrames
<1>2. Received(s, m) /\ m \in Nat /\ m <= l /\ s \in Seq(Ether!Buffers) /\ l > 0
  BY <1>1 DEF EtherFrames
<1>3. PICK t \in Seq(Ether!Buffers) : t = Tail(s) /\ Len(t) = l - 1
         /\ (\A i \in 1 .. l - 1 : t[i] = s[i + 1]) /\ s[1] \in Ether!Buffers
  <2>1. Len(s) > 0
    BY <1>1, <1>2
  <2>2. Tail(s) \in Seq(Ether!Buffers) /\ Len(Tail(s)) = Len(s) - 1
           /\ (\A i \in 1 .. Len(s) - 1 : Tail(s)[i] = s[i + 1]) /\ s[1] \in Ether!Buffers
    BY <1>2, <2>1, TailIs
  <2> QED BY <1>1, <2>2
<1>13. PICK b \in Ether!Buffers : b = s[1]
  BY <1>3
<1>4. PICK r \in Seq(Ether!Buffers) : r = Append(t, b) /\ Len(r) = l - 1 + 1
         /\ (\A i \in 1 .. l - 1 : r[i] = t[i]) /\ r[l - 1 + 1] = b
  <2>1. /\ Append(t, b) \in Seq(Ether!Buffers) /\ Len(Append(t, b)) = Len(t) + 1
        /\ (\A i \in 1 .. Len(t) : Append(t, b)[i] = t[i]) /\ Append(t, b)[Len(t) + 1] = b
    BY AppendProperties
  <2> QED BY <1>3, <2>1
<1>5. Len(r) = l /\ r[l] = s[1] /\ \A i \in 1 .. l - 1 : r[i] = s[i + 1]
  <2>1. l - 1 + 1 = l
    BY <1>1
  <2> QED BY <1>3, <1>4, <1>13, <2>1
<1>6. /\ Len(passing') = m - 1 /\ Head(passing) = passing[1]
      /\ \A i \in 1 .. m - 1 : passing'[i] = passing[i + 1]
  BY <1>2, TailIs DEF EtherTypes, Received
<1>7. \A i \in 1 .. m : s[i] = passing[i]
  BY <1>2 DEF Received, In
<1> DEFINE p(i) == IF i = l THEN 1 ELSE i + 1
<1>8. \A i \in 1 .. l : p(i) \in 1 .. l /\ r[i] = s[p(i)]
  <2>1. \A i \in 1 .. l : i # l => i \in 1 .. l - 1 /\ i + 1 \in 1 .. l
    BY <1>1
  <2> QED BY <1>2, <1>5, <2>1
<1>9. \A i, j \in 1 .. l : p(i) = p(j) => i = j
  BY <1>1
<1>10. \A j \in 1 .. l : \E i \in 1 .. l : p(i) = j
  <2>1. ASSUME NEW j \in 1 .. l PROVE \E i \in 1 .. l : p(i) = j
    <3>1. CASE j = 1
      <4>1. l \in 1 .. l /\ p(l) = j
        BY <1>1, <1>2, <3>1
      <4> QED BY <4>1
    <3>2. CASE j # 1
      <4>1. j - 1 \in 1 .. l /\ p(j - 1) = j
        BY <1>1, <3>2
      <4> QED BY <4>1
    <3> QED BY <3>1, <3>2
  <2> QED BY <2>1
<1>11. Received(r, m - 1)'
  <2> HIDE DEF p
  <2>1. ASSUME NEW c \in Ether!Buffers PROVE c \in held \/ c \in lost \/ \E i \in 1 .. l : r[i] = c
    <3>1. CASE \E i \in 1 .. l : s[i] = c
      BY <1>8, <1>10, <3>1
    <3> QED BY <1>1, <1>2, <3>1 DEF Received
  <2>2. \A i \in 1 .. l : r[i] \notin held /\ r[i] \notin lost
    BY <1>1, <1>2, <1>8 DEF Received
  <2>3. OneEach(r)
    <3>1. \A i, j \in 1 .. l : s[i] = s[j] => i = j
      BY <1>1, <1>2 DEF Received, OneEach
    <3>2. \A i, j \in 1 .. l : r[i] = r[j] => i = j
      BY <1>8, <1>9, <3>1
    <3> QED BY <1>5, <3>2 DEF OneEach
  <2>4. \A c \in Ether!Buffers : ~(c \in held /\ c \in lost)
    BY <1>2 DEF Received
  <2>5. Len(passing') = m - 1 /\ In(r, 0, passing')
    <3>1. \A i \in 1 .. m - 1 : i \in 1 .. l - 1 /\ i + 1 \in 1 .. m /\ 0 + i = i
      BY <1>1, <1>2
    <3>2. \A i \in 1 .. m - 1 : r[0 + i] = passing'[i]
      BY <1>5, <1>6, <1>7, <3>1
    <3>3. 0 + (m - 1) <= l
      BY <1>1, <1>2
    <3> QED BY <1>5, <1>6, <3>2, <3>3 DEF In
  <2> QED BY <1>5, <2>1, <2>2, <2>3, <2>4, <2>5 DEF Received
<1>12. m - 1 \in Nat /\ m - 1 <= l /\ 1 \in 1 .. m
  BY <1>1, <1>2
<1> QED BY <1>3, <1>4, <1>5, <1>6, <1>7, <1>11, <1>12, <1>13 DEF EtherFrames

\* The worker frees a slot of the transmit ring, then forgets its frame.
LEMMA SlotIsFreed ==
  ASSUME NEW s, NEW m, EtherTypes, EtherFrames(s, m), flow = "tx", etherAt # "next",
         txPktTail' = Ether!NextSlot(txPktTail), etherAt' = "next",
         UNCHANGED <<flow, held, lost, passing, txPktHead, call>>
  PROVE  EtherFrames(s, m)'
<1>1. PICK t \in 0 .. NumBuffers - 1 : t = txPktTail
  BY EtherConstants DEF EtherTypes
<1>2. NumBuffers \in Nat /\ NumBuffers >= 2
  BY EtherConstants
<1>3. txPktTail' = RingSlot(t + 1)
  BY <1>1, NextSlotIs DEF EtherTypes
<1>4. Eldest' = t /\ Eldest = t
  <2>1. Eldest = t
    BY <1>1 DEF Eldest
  <2>2. Eldest' = IF txPktTail' = 0 THEN NumBuffers - 1 ELSE txPktTail' - 1
    BY DEF Eldest
  <2> QED BY <1>2, <1>3, <2>1, <2>2 DEF RingSlot
<1>5. Behind1 = 0 /\ Behind1' = 1
  BY DEF Behind1
<1>6. Sent(s, m) /\ s \in Seq(Ether!Buffers)
  BY DEF EtherFrames
<1>7. Len(s) < NumBuffers + Behind1'
  <2>1. Len(s) \in Nat /\ Len(s) < NumBuffers + 0
    BY <1>5, <1>6, LenProperties DEF Sent
  <2> QED BY <1>2, <1>5, <2>1
<1>8. Sent(s, m)'
  BY <1>4, <1>6, <1>7 DEF Sent
<1> QED BY <1>8 DEF EtherFrames

LEMMA FrameIsForgotten ==
  ASSUME NEW s, NEW m, EtherTypes, EtherFrames(s, m), flow = "tx", m > 0,
         etherAt = "next", etherAt' # "next",
         UNCHANGED <<flow, held, lost, passing, txPktHead, txPktTail, call>>
  PROVE  EtherFrames(Tail(s), m - 1)'
<1>1. PICK l \in Nat : l = Len(s)
  BY LenProperties DEF EtherFrames
<1>2. PICK e, t \in 0 .. NumBuffers - 1 : e = Eldest /\ t = txPktTail
  BY EldestType, EtherConstants DEF EtherTypes
<1>3. NumBuffers \in Nat /\ NumBuffers >= 2
  BY EtherConstants
<1>4. e = (IF t = 0 THEN NumBuffers - 1 ELSE t - 1) /\ Eldest' = t /\ Behind1 = 1 /\ Behind1' = 0
  BY <1>2 DEF Eldest, Behind1
<1>5. Sent(s, m) /\ m \in Nat /\ m <= l /\ s \in Seq(Ether!Buffers) /\ l > 0
  BY <1>1 DEF EtherFrames
<1>6. PICK r \in Seq(Ether!Buffers) : r = Tail(s) /\ Len(r) = l - 1
         /\ (\A i \in 1 .. l - 1 : r[i] = s[i + 1])
  <2>1. Len(s) > 0
    BY <1>1, <1>5
  <2>2. Tail(s) \in Seq(Ether!Buffers) /\ Len(Tail(s)) = Len(s) - 1
           /\ (\A i \in 1 .. Len(s) - 1 : Tail(s)[i] = s[i + 1])
    BY <1>5, <2>1, TailIs
  <2> QED BY <1>1, <2>2
<1>7. \A i \in 0 .. NumBuffers - 1 : RingSlot(e + (i + 1)) = RingSlot(t + i)
  BY <1>2, <1>3, <1>4 DEF RingSlot
<1>8. l - 1 < NumBuffers + Behind1' /\ l <= NumBuffers
  BY <1>1, <1>3, <1>4, <1>5 DEF Sent
<1>9. \A i \in 1 .. l - 1 : r[i] = RingSlot(t + i - 1)
  <2>1. ASSUME NEW i \in 1 .. l - 1 PROVE r[i] = RingSlot(t + i - 1)
    <3>1. i + 1 \in 1 .. l /\ i - 1 \in 0 .. NumBuffers - 1 /\ e + (i + 1) - 1 = e + (i - 1 + 1)
             /\ t + (i - 1) = t + i - 1
      BY <1>1, <1>3, <1>8
    <3>2. s[i + 1] = RingSlot(e + (i + 1) - 1)
      BY <1>1, <1>2, <1>5, <3>1 DEF Sent
    <3>3. RingSlot(e + (i - 1 + 1)) = RingSlot(t + (i - 1))
      BY <1>7, <3>1
    <3> QED BY <1>6, <3>1, <3>2, <3>3
  <2> QED BY <2>1
<1>10. RingSlot(t + (l - 1)) = RingSlot(e + l)
  <2>1. l - 1 \in 0 .. NumBuffers - 1 /\ e + (l - 1 + 1) = e + l
    BY <1>1, <1>3, <1>5, <1>8
  <2>2. RingSlot(e + (l - 1 + 1)) = RingSlot(t + (l - 1))
    BY <1>7, <2>1
  <2> QED BY <2>1, <2>2
<1>11. m - 1 + Len(passing) = l - 1 /\ In(r, m - 1, passing)
  <2>1. PICK p \in Nat : p = Len(passing)
    BY LenProperties DEF EtherTypes
  <2>2. m + p = l /\ \A i \in 1 .. p : s[m + i] = passing[i]
    BY <1>1, <1>5, <2>1 DEF Sent, In
  <2>3. ASSUME NEW i \in 1 .. p PROVE r[m - 1 + i] = passing[i]
    <3>1. m - 1 + i \in 1 .. l - 1 /\ m - 1 + i + 1 = m + i
      BY <1>1, <1>5, <2>1, <2>2
    <3> QED BY <1>6, <2>2, <3>1
  <2>5. m + p = l /\ m \in Nat
    BY <1>5, <2>2
  <2>4. m - 1 + p = l - 1 /\ m - 1 + p <= l - 1
    BY <2>5
  <2> QED BY <1>6, <2>1, <2>3, <2>4 DEF In
<1>12. Sent(r, m - 1)'
  BY <1>1, <1>2, <1>4, <1>5, <1>6, <1>8, <1>9, <1>10, <1>11 DEF Sent
<1>13. m - 1 \in Nat /\ m - 1 <= l - 1
  BY <1>1, <1>5
<1> QED BY <1>6, <1>12, <1>13 DEF EtherFrames

\* The frame of the next buffer has moved.
LEMMA FrameHasMoved ==
  ASSUME NEW s, NEW m, EtherTypes, EtherFrames(s, m), m < Len(s),
         flow = "rx" => passing' = Append(passing, s[m + 1]),
         flow = "tx" => passing' = Tail(passing),
         UNCHANGED <<flow, held, lost, txPktHead, txPktTail, call, etherAt>>
  PROVE  EtherFrames(s, m + 1)' /\ (flow = "tx" => Head(passing) = s[m + 1])
<1>1. PICK l, p \in Nat : l = Len(s) /\ p = Len(passing)
  BY LenProperties DEF EtherFrames, EtherTypes
<1>2. m \in Nat /\ m + 1 \in 1 .. l /\ s \in Seq(Ether!Buffers) /\ m + 1 \in Nat /\ m + 1 <= l
  BY <1>1 DEF EtherFrames
<1>3. s[m + 1] \in Ether!Buffers
  BY <1>1, <1>2, ElementOfSeq
<1>4. CASE flow = "rx"
  <2>1. Received(s, m)
    BY <1>4 DEF EtherFrames
  <2>2. p = m /\ \A i \in 1 .. p : s[i] = passing[i]
    BY <1>1, <2>1 DEF Received, In
  <2>3. Len(passing') = p + 1 /\ passing'[p + 1] = s[m + 1]
           /\ \A i \in 1 .. p : passing'[i] = passing[i]
    <3>1. PICK b \in Ether!Buffers : b = s[m + 1]
      BY <1>3
    <3>2. passing' = Append(passing, b) /\ passing \in Seq(Ether!Buffers)
      BY <1>4, <3>1 DEF EtherTypes
    <3> QED BY <1>1, <3>1, <3>2, AppendProperties
  <2>4. In(s, 0, passing') /\ Len(passing') = m + 1
    <3>1. ASSUME NEW i \in 1 .. m + 1 PROVE s[0 + i] = passing'[i]
      <4>1. i \in 1 .. m \/ i = m + 1
        BY <1>2
      <4>2. 0 + i = i
        OBVIOUS
      <4> QED BY <2>2, <2>3, <4>1, <4>2
    <3>2. 0 + (m + 1) <= l /\ Len(passing') = m + 1
      BY <1>1, <1>2, <2>2, <2>3
    <3> QED BY <1>1, <3>1, <3>2 DEF In
  <2>5. Received(s, m + 1)'
    BY <2>1, <2>4 DEF Received
  <2> QED BY <1>1, <1>2, <1>4, <2>5 DEF EtherFrames
<1>5. CASE flow = "tx"
  <2>1. Sent(s, m)
    BY <1>5 DEF EtherFrames
  <2>2. m + p = l /\ \A i \in 1 .. p : s[m + i] = passing[i]
    BY <1>1, <2>1 DEF Sent, In
  <2>3. p > 0 /\ 1 \in 1 .. p
    BY <1>1, <1>2, <2>2
  <2>4. Len(passing') = p - 1 /\ Head(passing) = passing[1]
           /\ \A i \in 1 .. p - 1 : passing'[i] = passing[i + 1]
    BY <1>1, <1>5, <2>3, TailIs DEF EtherTypes
  <2>5. m + 1 + (p - 1) = l /\ In(s, m + 1, passing')
    <3>1. ASSUME NEW i \in 1 .. p - 1 PROVE s[m + 1 + i] = passing'[i]
      <4>1. i + 1 \in 1 .. p /\ m + (i + 1) = m + 1 + i
        BY <1>1, <1>2
      <4> QED BY <2>2, <2>4, <4>1
    <3>3. m + p = l /\ m \in Nat
      BY <1>2, <2>2
    <3>2. m + 1 + (p - 1) = l /\ m + 1 + (p - 1) <= l
      BY <3>3
    <3> QED BY <1>1, <2>4, <3>1, <3>2 DEF In
  <2>6. Sent(s, m + 1)'
    <3>1. Eldest' = Eldest /\ Behind1' = Behind1
      BY DEF Eldest, Behind1
    <3> QED BY <1>1, <2>1, <2>4, <2>5, <3>1 DEF Sent
  <2> QED BY <1>1, <1>2, <1>5, <2>2, <2>3, <2>4, <2>6 DEF EtherFrames
<1> QED BY <1>4, <1>5 DEF EtherTypes

-----------------------------------------------------------------------------
(* The driver's operations on the buffers in their places                  *)

\* The frames of the finished buffers have moved.
FramesAt(k) ==
  \E s, m : s = Ether!Places /\ m = Len(walk) + Len(list) + k /\ EtherFrames(s, m)

\* The controller's status has a wake-up for the interrupt.
Unavailable ==
  \/ "unavail" \in status
  \/ isr = "process" /\ "unavail" \in isrStatus
  \/ isr = "bind"

\* A controller that waits, or is done with k buffers, has somebody's attention.
EtherWakes(k) ==
  /\ isr # "off" => call # "resume"
  /\ dma = "suspended" /\ own # {} => call = "resume" \/ isr = "resume"
  /\ k > 0 => "done" \in status \/ (isr = "process" /\ "done" \in isrStatus)
  /\ dma = "suspended" /\ k > 0 =>
       \/ "unavail" \in status
       \/ isr = "process" /\ "done" \in isrStatus /\ "unavail" \in isrStatus
  /\ dma = "suspended" /\ queued # <<>> /\ numAvail > 1 => call = "bind" \/ Unavailable
  /\ dma = "suspended" /\ pending # <<>> =>
       call \in {"activate", "resume"} \/ isr \in {"activate", "resume"} \/ Unavailable

\* Where the worker is, and the call of the driver.
EtherControl ==
  /\ flow = "rx" => etherAt # "next" /\ call # "head"
  /\ flow = "tx" => etherAt # "call"
  /\ etherAt = "call" => call \in {"bind", "activate", "resume"}
  /\ etherAt \in {"wait", "take"} => walk = <<>>
  /\ etherAt = "next" => walk # <<>>

Attended == list # <<>> => posted \/ etherAt = "take"

EtherAt(d, k) == Listed(d) /\ Chained(d, k) /\ FramesAt(k) /\ EtherWakes(k)

EtherInv == EtherTypes /\ EtherControl /\ Attended /\ ~misplaced /\ \E d, k : EtherAt(d, k)

LEMMA PlacesType ==
  EtherTypes => Ether!Places \in Seq(Ether!Buffers)
     /\ Five(Ether!Places, walk, list, active, pending, queued)
<1> SUFFICES ASSUME EtherTypes
             PROVE  Ether!Places \in Seq(Ether!Buffers)
                /\ Five(Ether!Places, walk, list, active, pending, queued)
  OBVIOUS
<1> QED BY FiveParts DEF EtherTypes, Ether!Places

LEMMA ApartNow ==
  ASSUME NEW k, EtherTypes, FramesAt(k)
  PROVE  BuffersApart
<1>1. PICK s, m : s = Ether!Places /\ EtherFrames(s, m)
  BY DEF FramesAt
<1>2. OneEach(s) /\ s \in Seq(Ether!Buffers) /\ Five(s, walk, list, active, pending, queued)
  BY <1>1, EachOnce, PlacesType
<1>3. /\ OneEach(active) /\ OneEach(pending) /\ OneEach(queued)
      /\ Apart(active, pending) /\ Apart(active, queued) /\ Apart(pending, queued)
  BY <1>2, FiveApart DEF EtherTypes
<1> QED BY <1>3 DEF BuffersApart

Associates(x, y, z) == (x \o y) \o z = x \o (y \o z)

LEMMA ConcatAssociates ==
  ASSUME NEW T, NEW x \in Seq(T), NEW y \in Seq(T), NEW z \in Seq(T)
  PROVE  Associates(x, y, z)
BY ConcatAssociative DEF Associates

\* Between two concatenations with the same elements.
Moves(a, b, u, v) == a \o (b \o u) \o v = (a \o b) \o (u \o v)

LEMMA MoveOver ==
  ASSUME NEW T, NEW a \in Seq(T), NEW b \in Seq(T), NEW u \in Seq(T), NEW v \in Seq(T)
  PROVE  Moves(a, b, u, v)
<1>1. Associates(a, b, u)
  BY ConcatAssociates
<1>2. PICK x \in Seq(T) : x = a \o b
  BY ConcatProperties
<1>3. Associates(x, u, v)
  BY ConcatAssociates
<1> QED BY <1>1, <1>2, <1>3, Zenon DEF Associates, Moves

LEMMA BindIsKept ==
  ASSUME NEW d, NEW k, EtherTypes, Listed(d), Chained(d, k), FramesAt(k), Ether!bind_buf_with_desc,
         UNCHANGED <<flow, list, walk, passing, txPktHead, txPktTail, held, lost>>,
         UNCHANGED <<own, dma, cur, fetched>>
  PROVE  EtherTypes' /\ Chained(d, k)' /\ Ether!Places' = Ether!Places
     /\ (queued' = <<>> \/ numAvail' <= 1)
<1>1. BuffersApart
  BY ApartNow
<1>2. PICK n : BindsTo(d, n)
  BY <1>1, BindIs
<1>3. Chained(d, k)'
  BY <1>1, <1>2, BindKeepsChain
<1>4. PICK lq \in Nat : lq = Len(queued)
  BY LenProperties DEF EtherTypes
<1>5. n \in Nat /\ n <= lq /\ n = (IF numAvail - 1 < lq THEN numAvail - 1 ELSE lq)
  BY <1>2, <1>4 DEF BindsTo
<1>6. PICK u, v \in Seq(Ether!Buffers) :
        u = SubSeq(queued, 1, n) /\ v = SubSeq(queued, n + 1, Len(queued)) /\ u \o v = queued
           /\ Len(v) = lq - n
  <2>1. queued \in Seq(Ether!Buffers) /\ n \in Nat /\ n <= Len(queued)
    BY <1>4, <1>5 DEF EtherTypes
  <2>2. /\ SubSeq(queued, 1, n) \in Seq(Ether!Buffers)
           /\ SubSeq(queued, n + 1, Len(queued)) \in Seq(Ether!Buffers)
        /\ Len(SubSeq(queued, n + 1, Len(queued))) = Len(queued) - n
        /\ SubSeq(queued, 1, n) \o SubSeq(queued, n + 1, Len(queued)) = queued
    BY <2>1, Halves
  <2> QED BY <1>4, <2>2
<1>7. queued' = v /\ pending' = pending \o u /\ active' = active /\ nextDesc' = nextDesc
  BY <1>2, <1>6 DEF BindsTo
<1>8. pending' \in Seq(Ether!Buffers)
  BY <1>6, <1>7, ConcatProperties DEF EtherTypes
<1>9. desc' \in [Ether!Buffers -> 0 .. NumDesc]
  BY <1>2 DEF BindsTo
<1>10. EtherTypes'
  BY <1>6, <1>7, <1>8, <1>9 DEF EtherTypes
<1>11. Ether!Places' = Ether!Places
  <2>1. PICK x \in Seq(Ether!Buffers) : x = walk \o list \o active
    BY ConcatProperties DEF EtherTypes
  <2>2. Ether!Places' = x \o (pending \o u) \o v
    BY <1>7, <2>1 DEF Ether!Places
  <2>3. Ether!Places = (x \o pending) \o (u \o v)
    BY <1>6, <2>1 DEF Ether!Places
  <2>5. pending \in Seq(Ether!Buffers)
    BY DEF EtherTypes
  <2>4. x \o (pending \o u) \o v = (x \o pending) \o (u \o v)
    <3>1. x \in Seq(Ether!Buffers) /\ u \in Seq(Ether!Buffers) /\ v \in Seq(Ether!Buffers)
      BY <1>6, <2>1
    <3>2. Moves(x, pending, u, v)
      BY <2>5, <3>1, MoveOver
    <3> QED BY <3>2 DEF Moves
  <2> QED BY <2>2, <2>3, <2>4
<1>12. queued' = <<>> \/ numAvail' <= 1
  <2>1. numAvail' = numAvail - n
    BY <1>2 DEF BindsTo
  <2>2. CASE numAvail - 1 < lq
    <3>1. PICK la, lp \in Nat : la = Len(active) /\ lp = Len(pending)
      BY LenProperties DEF EtherTypes
    <3>2. numAvail \in Int
      BY <3>1, EtherConstants DEF Chained, Bounds
    <3> QED BY <1>5, <2>1, <2>2, <3>2
  <2>3. CASE ~(numAvail - 1 < lq)
    <3>1. Len(v) = 0
      BY <1>5, <1>6, <2>3
    <3> QED BY <1>6, <1>7, <3>1, EmptySeq
  <2> QED BY <2>2, <2>3
<1> QED BY <1>3, <1>10, <1>11, <1>12

LEMMA ActivateIsKept ==
  ASSUME NEW d, NEW k, EtherTypes, Listed(d), Chained(d, k), Ether!activate_channel,
         UNCHANGED <<flow, list, walk, passing, txPktHead, txPktTail, held, lost>>,
         UNCHANGED <<dma, cur, fetched>>
  PROVE  /\ EtherTypes' /\ Chained(d, k)' /\ Ether!Places' = Ether!Places
         /\ queued' = queued /\ numAvail' = numAvail
            /\ (pending = <<>> => pending' = <<>> /\ own' = own)
<1>1. Chained(d, k)'
  BY ActivateKeepsChain
<1>2. CASE pending # <<>> /\ Ether!Activates
  <2>1. /\ active' = active \o pending /\ pending' = <<>> /\ queued' = queued /\ desc' = desc
           /\ numAvail' = numAvail
        /\ nextDesc' = IF active = <<>> THEN nextDesc
                       ELSE [nextDesc EXCEPT ![desc[Ether!Final(active)]] = desc[Head(pending)]]
    BY <1>2 DEF Ether!activate_channel
  <2>2. active' \in Seq(Ether!Buffers) /\ pending' \in Seq(Ether!Buffers)
    BY <2>1, ConcatProperties, EmptySeq DEF EtherTypes
  <2>3. nextDesc' \in [0 .. NumDesc -> 0 .. NumDesc]
    <3>1. desc[Head(pending)] \in 0 .. NumDesc
      BY <1>2, HeadTailProperties DEF EtherTypes
    <3> QED BY <2>1, <3>1 DEF EtherTypes
  <2>4. EtherTypes'
    BY <2>1, <2>2, <2>3 DEF EtherTypes
  <2>5. PICK x \in Seq(Ether!Buffers) : x = walk \o list
    BY ConcatProperties DEF EtherTypes
  <2>6. Ether!Places' = x \o (active \o pending) \o <<>> \o queued
    BY <2>1, <2>5 DEF Ether!Places
  <2>7. x \o (active \o pending) \o <<>> = (x \o active) \o (pending \o <<>>)
    <3>1. PICK e \in Seq(Ether!Buffers) : e = <<>>
      BY EmptySeq
    <3>3. active \in Seq(Ether!Buffers) /\ pending \in Seq(Ether!Buffers)
      BY DEF EtherTypes
    <3>2. x \o (active \o pending) \o e = (x \o active) \o (pending \o e)
      <4>1. x \in Seq(Ether!Buffers) /\ e \in Seq(Ether!Buffers)
        BY <2>5, <3>1
      <4>2. Moves(x, active, pending, e)
        BY <3>3, <4>1, MoveOver
      <4> QED BY <4>2 DEF Moves
    <3> QED BY <3>1, <3>2
  <2>8. pending \o <<>> = pending
    BY ConcatEmptySeq DEF EtherTypes
  <2>9. Ether!Places = x \o active \o pending \o queued
    BY <2>5 DEF Ether!Places
  <2> QED BY <1>1, <1>2, <2>1, <2>4, <2>6, <2>7, <2>8, <2>9
<1>3. CASE ~(pending # <<>> /\ Ether!Activates)
  <2>1. UNCHANGED <<queued, pending, active, desc, numAvail, nextDesc, own>>
    BY <1>3 DEF Ether!activate_channel, Ether!queues, Ether!descs
  <2>2. EtherTypes'
    BY <2>1 DEF EtherTypes
  <2>3. Ether!Places' = Ether!Places
    BY <2>1 DEF Ether!Places
  <2> QED BY <1>1, <2>1, <2>2, <2>3
<1> QED BY <1>2, <1>3

LEMMA ProcessIsKept ==
  ASSUME NEW d, NEW k, NEW j, EtherTypes, Listed(d), Chained(d, k), FramesAt(k),
         Ether!process_int, list' = list \o Ether!Finished,
         UNCHANGED <<walk, passing, txPktHead, txPktTail, held, lost>>,
         j = IF "done" \in isrStatus THEN 0 ELSE k
  PROVE  /\ EtherTypes' /\ (\E e : Listed(e) /\ Chained(e, j)') /\ Ether!Places' = Ether!Places
         /\ Len(list') + j = Len(list) + k /\ (k = 0 => numAvail' = numAvail)
         /\ (Ether!Finished = <<>> => list' = list) /\ k \in Nat
<1>1. PICK la, ll \in Nat : la = Len(active) /\ ll = Len(list)
  BY LenProperties DEF EtherTypes
<1>2. k \in Nat /\ k <= la
  BY <1>1 DEF Chained, Device
<1>3. flow' = flow /\ queued' = queued /\ pending' = pending
         /\ numAvail' = numAvail + Len(Ether!Finished)
  BY DEF Ether!process_int
<1>4. CASE Ether!Finished = <<>>
  <2>1. list' = list
    BY <1>4, ConcatEmptySeq DEF EtherTypes
  <2>2. Chained(d, k)' /\ active' = active /\ desc' = desc /\ nextDesc' = nextDesc
    BY <1>4, IdleKeepsChain
  <2>3. EtherTypes'
    BY <1>3, <2>1, <2>2 DEF EtherTypes
  <2>4. Ether!Places' = Ether!Places
    BY <1>3, <2>1, <2>2 DEF Ether!Places
  <2>5. j = k
    <3>1. CASE "done" \in isrStatus
      <4>1. SubSeq(active, 1, k) = <<>> /\ Len(SubSeq(active, 1, k)) = k
        BY <1>1, <1>2, <1>4, <3>1, FinishedIs, Halves DEF EtherTypes
      <4> QED BY <3>1, <4>1, EmptySeq
    <3> QED BY <3>1
  <2>6. numAvail' = numAvail
    <3>1. numAvail \in Int
      <4>1. PICK lp \in Nat : lp = Len(pending)
        BY LenProperties DEF EtherTypes
      <4> QED BY <1>1, <4>1, EtherConstants DEF Chained, Bounds
    <3>2. numAvail' = numAvail + 0
      BY <1>3, <1>4, EmptySeq
    <3> QED BY <3>1, <3>2
  <2> QED BY <1>2, <2>1, <2>2, <2>3, <2>4, <2>5, <2>6
<1>5. CASE Ether!Finished # <<>>
  <2>1. "done" \in isrStatus /\ Ether!Finished = SubSeq(active, 1, k) /\ j = 0
    BY <1>5, FinishedIs
  <2>2. k > 0
    <3>1. k = 0 => SubSeq(active, 1, k) = <<>>
      BY SubSeqEmpty
    <3> QED BY <1>2, <1>5, <2>1, <3>1
  <2>3. PICK u : u = SubSeq(active, 1, k)
    OBVIOUS
  <2>4. BuffersApart
    BY ApartNow
  <2>5. /\ Chained(Turned(d, k), 0)'
        /\ active' \in Seq(Ether!Buffers) /\ desc' \in [Ether!Buffers -> 0 .. NumDesc]
        /\ nextDesc' \in [0 .. NumDesc -> 0 .. NumDesc]
        /\ u \in Seq(Ether!Buffers) /\ Len(u) = k /\ u \o active' = active
    BY <2>1, <2>2, <2>3, <2>4, FinishKeepsChain
  <2>6. Listed(Turned(d, k))
    <3>1. k < NumDesc
      <4>1. PICK lp \in Nat : lp = Len(pending)
        BY LenProperties DEF EtherTypes
      <4> QED BY <1>1, <1>2, <4>1, EtherConstants DEF Chained, Bounds
    <3> QED BY <1>2, <3>1, TurnedIsListed
  <2>7. list' = list \o u
    BY <2>1, <2>3
  <2>8. list' \in Seq(Ether!Buffers) /\ Len(list') = ll + k
    <3>1. list \in Seq(Ether!Buffers) /\ u \in Seq(Ether!Buffers)
      BY <2>5 DEF EtherTypes
    <3>2. list \o u \in Seq(Ether!Buffers) /\ Len(list \o u) = Len(list) + Len(u)
      BY <3>1, LastOfConcat
    <3> QED BY <1>1, <2>5, <2>7, <3>2
  <2>9. EtherTypes'
    BY <1>3, <2>5, <2>8 DEF EtherTypes
  <2>10. Ether!Places' = Ether!Places
    <3>1. PICK v \in Seq(Ether!Buffers) : v = active'
      BY <2>5
    <3>2. walk \in Seq(Ether!Buffers) /\ list \in Seq(Ether!Buffers) /\ u \in Seq(Ether!Buffers)
             /\ v \in Seq(Ether!Buffers)
      BY <2>5, <3>1 DEF EtherTypes
    <3>3. Moves(walk, list, u, v)
      BY <3>2, MoveOver
    <3>4. walk \o (list \o u) \o v = (walk \o list) \o (u \o v)
      BY <3>3 DEF Moves
    <3>5. walk' \o list' \o active' = walk \o list \o active
      BY <2>5, <2>7, <3>1, <3>4
    <3> QED BY <1>3, <3>5 DEF Ether!Places
  <2>11. Len(list') + j = Len(list) + k
    BY <1>1, <1>2, <2>1, <2>8
  <2>12. \E e : Listed(e) /\ Chained(e, j)'
    <3>1. PICK e : e = Turned(d, k)
      OBVIOUS
    <3>2. Listed(e) /\ Chained(e, 0)'
      BY <2>5, <2>6, <3>1
    <3>3. Chained(e, j)'
      BY <2>1, <3>2 DEF Chained, Links, Bounds, Bound, Device
    <3> QED BY <3>2, <3>3
  <2> QED BY <1>2, <1>5, <2>2, <2>9, <2>10, <2>11, <2>12
<1> QED BY <1>4, <1>5

\* A buffer leaves the worker's list.
TailOf(s, r) == Tail(s \o r) = Tail(s) \o r

LEMMA TailFirst ==
  ASSUME NEW T, NEW s \in Seq(T), NEW r \in Seq(T), s # <<>>
  PROVE  TailOf(s, r)
<1>1. PICK m, n \in Nat : m = Len(s) /\ n = Len(r)
  BY LenProperties
<1>2. m > 0
  BY <1>1, EmptySeq
<1>3. PICK x \in Seq(T) : x = s \o r /\ Len(x) = m + n /\ In(x, m, r) /\ In(x, 0, s)
  BY <1>1, LastOfConcat
<1>4. PICK t \in Seq(T) : t = Tail(s) /\ Len(t) = m - 1 /\ \A i \in 1 .. m - 1 : t[i] = s[i + 1]
  <2>1. Len(s) > 0
    BY <1>1, <1>2
  <2>2. Tail(s) \in Seq(T) /\ Len(Tail(s)) = Len(s) - 1
           /\ \A i \in 1 .. Len(s) - 1 : Tail(s)[i] = s[i + 1]
    BY <2>1, TailIs
  <2> QED BY <1>1, <2>2
<1>5. PICK y \in Seq(T) : y = t \o r /\ Len(y) = m - 1 + n /\ In(y, m - 1, r) /\ In(y, 0, t)
  BY <1>1, <1>4, LastOfConcat
<1>6. PICK z \in Seq(T) : z = Tail(x) /\ Len(z) = m + n - 1
         /\ \A i \in 1 .. m + n - 1 : z[i] = x[i + 1]
  <2>1. Len(x) > 0 /\ x \in Seq(T)
    BY <1>2, <1>3
  <2>2. Tail(x) \in Seq(T) /\ Len(Tail(x)) = Len(x) - 1
           /\ \A i \in 1 .. Len(x) - 1 : Tail(x)[i] = x[i + 1]
    BY <2>1, TailIs
  <2>3. Len(x) = m + n
    BY <1>3
  <2>4. PICK v : v = Tail(x)
    OBVIOUS
  <2>5. v \in Seq(T) /\ Len(v) = m + n - 1
    BY <2>2, <2>3, <2>4
  <2>6. \A i \in 1 .. m + n - 1 : v[i] = x[i + 1]
    BY <2>2, <2>3, <2>4
  <2> QED BY <2>4, <2>5, <2>6
<1>7. ASSUME NEW i \in 1 .. m + n - 1 PROVE z[i] = y[i]
  <2>1. CASE i < m
    <3>1. i \in 1 .. m - 1 /\ i + 1 \in 1 .. m
      BY <2>1
    <3>2. x[i + 1] = s[i + 1]
      BY <1>1, <1>3, <3>1 DEF In
    <3>3. y[i] = t[i]
      BY <1>4, <1>5, <3>1 DEF In
    <3> QED BY <1>4, <1>6, <3>1, <3>2, <3>3
  <2>2. CASE ~(i < m)
    <3>1. i + 1 - m \in 1 .. n /\ m + (i + 1 - m) = i + 1 /\ m - 1 + (i + 1 - m) = i
      BY <2>2
    <3>2. x[i + 1] = r[i + 1 - m]
      BY <1>1, <1>3, <3>1 DEF In
    <3>3. y[i] = r[i + 1 - m]
      BY <1>1, <1>5, <3>1 DEF In
    <3> QED BY <1>6, <3>2, <3>3
  <2> QED BY <2>1, <2>2
<1>8. m + n - 1 = m - 1 + n
  OBVIOUS
<1>9. z = y
  BY <1>5, <1>6, <1>7, <1>8, SeqEqual
<1> QED BY <1>3, <1>4, <1>5, <1>6, <1>9 DEF TailOf

\* Five sequences, one after the other.
Row5(w, l, a, p, q) == w \o l \o a \o p \o q

RowWithout(T, w, l, a, p, q) ==
  /\ Tail(Row5(w, l, a, p, q)) = Row5(Tail(w), l, a, p, q)
  /\ Head(w) = Row5(w, l, a, p, q)[1] /\ Head(w) \in T /\ Tail(w) \in Seq(T)

RowWith(T, w, l, a, p, q, b) ==
  Row5(w, l, a, p, Append(q, b)) = Append(Row5(w, l, a, p, q), b) /\ Append(q, b) \in Seq(T)

LEMMA RowTail ==
  ASSUME NEW T, NEW w \in Seq(T), NEW l \in Seq(T), NEW a \in Seq(T), NEW p \in Seq(T),
     NEW q \in Seq(T),
         w # <<>>
  PROVE  RowWithout(T, w, l, a, p, q)
<1>2. Len(w) \in Nat /\ Len(w) > 0
  BY EmptySeq, LenProperties
<1>3. Head(w) = w[1] /\ w[1] \in T /\ Tail(w) \in Seq(T)
  BY <1>2, TailIs
<1>4. PICK r1, r2, r3, r4 \in Seq(T) : r1 = w \o l /\ r2 = r1 \o a /\ r3 = r2 \o p /\ r4 = r3 \o q
  BY ConcatProperties
<1>5. Len(r1) \in Nat /\ Len(r1) > 0 /\ Len(r2) > 0 /\ Len(r3) > 0
  <2>1. Len(r1) = Len(w) + Len(l) /\ Len(r2) = Len(r1) + Len(a) /\ Len(r3) = Len(r2) + Len(p)
    BY <1>4, ConcatProperties
  <2>2. {Len(l), Len(a), Len(p), Len(r1), Len(r2)} \subseteq Nat
    BY <1>4, LenProperties
  <2> QED BY <1>2, <2>1, <2>2
<1>6. w # <<>> /\ r1 # <<>> /\ r2 # <<>> /\ r3 # <<>>
  <2>1. Len(<<>>) = 0
    BY EmptySeq
  <2> QED BY <1>2, <1>5, <2>1
<1>7. TailOf(w, l) /\ TailOf(r1, a) /\ TailOf(r2, p) /\ TailOf(r3, q)
  BY <1>4, <1>6, TailFirst
<1>8. Tail(r4) = Tail(w) \o l \o a \o p \o q
  BY <1>4, <1>7 DEF TailOf
<1>9. r4[1] = w[1]
  <2>1. In(r4, 0, w)
    BY <1>4, FiveParts DEF Five
  <2>2. 1 \in 1 .. Len(w) /\ 0 + 1 = 1
    BY <1>2
  <2> QED BY <2>1, <2>2 DEF In
<1> QED BY <1>3, <1>4, <1>8, <1>9 DEF Row5, RowWithout

LEMMA RowAppend ==
  ASSUME NEW T, NEW w \in Seq(T), NEW l \in Seq(T), NEW a \in Seq(T), NEW p \in Seq(T),
     NEW q \in Seq(T),
         NEW b \in T
  PROVE  RowWith(T, w, l, a, p, q, b)
<1>1. PICK x \in Seq(T) : x = w \o l \o a \o p
  BY ConcatProperties
<1>2. Append(q, b) = q \o <<b>> /\ Append(q, b) \in Seq(T)
  BY AppendIsConcat, AppendProperties
<1>3. PICK y \in Seq(T) : y = x \o q
  BY <1>1, ConcatProperties
<1>4. Append(y, b) = y \o <<b>>
  BY <1>3, AppendIsConcat
<1>5. PICK c \in Seq(T) : c = <<b>>
  <2>1. <<b>> \in Seq(T)
    OBVIOUS
  <2> QED BY <2>1
<1>6. (x \o q) \o c = x \o (q \o c)
  <2>1. x \in Seq(T) /\ q \in Seq(T) /\ c \in Seq(T)
    BY <1>1, <1>5
  <2>2. Associates(x, q, c)
    BY <2>1, ConcatAssociates
  <2> QED BY <2>2 DEF Associates
<1> QED BY <1>1, <1>2, <1>3, <1>4, <1>5, <1>6 DEF Row5, RowWith

LEMMA PlacesAppend ==
  ASSUME NEW b, EtherTypes, b \in Ether!Buffers, queued' = Append(queued, b),
         UNCHANGED <<walk, list, active, pending>>
  PROVE  Ether!Places' = Append(Ether!Places, b) /\ queued' \in Seq(Ether!Buffers)
<1>1. PICK w, l, a, p, q \in Seq(Ether!Buffers) : w = walk /\ l = list /\ a = active /\ p = pending
         /\ q = queued
  BY DEF EtherTypes
<1>4. RowWith(Ether!Buffers, w, l, a, p, q, b)
  BY <1>1, RowAppend
<1>2. Row5(w, l, a, p, Append(q, b)) = Append(Row5(w, l, a, p, q), b)
         /\ Append(q, b) \in Seq(Ether!Buffers)
  BY <1>4 DEF RowWith
<1>3. Ether!Places = Row5(w, l, a, p, q) /\ Ether!Places' = Row5(w, l, a, p, Append(q, b))
  BY <1>1 DEF Ether!Places, Row5
<1> QED BY <1>1, <1>2, <1>3

LEMMA PlacesTail ==
  ASSUME EtherTypes, walk # <<>>, walk' = Tail(walk), UNCHANGED <<list, active, pending, queued>>
  PROVE  /\ Ether!Places' = Tail(Ether!Places) /\ walk' \in Seq(Ether!Buffers)
         /\ Head(walk) = Ether!Places[1] /\ Head(walk) \in Ether!Buffers
<1>1. PICK w, l, a, p, q \in Seq(Ether!Buffers) : w = walk /\ l = list /\ a = active /\ p = pending
         /\ q = queued
  BY DEF EtherTypes
<1>4. RowWithout(Ether!Buffers, w, l, a, p, q)
  BY <1>1, RowTail
<1>2. /\ Tail(Row5(w, l, a, p, q)) = Row5(Tail(w), l, a, p, q)
      /\ Head(w) = Row5(w, l, a, p, q)[1] /\ Head(w) \in Ether!Buffers
         /\ Tail(w) \in Seq(Ether!Buffers)
  BY <1>4 DEF RowWithout
<1>3. Ether!Places = Row5(w, l, a, p, q) /\ Ether!Places' = Row5(Tail(w), l, a, p, q)
  BY <1>1 DEF Ether!Places, Row5
<1> QED BY <1>1, <1>2, <1>3

\* The buffer goes back to the driver.
LEMMA PlacesReturn ==
  ASSUME EtherTypes, walk # <<>>, walk' = Tail(walk), queued' = Append(queued, Head(walk)),
         UNCHANGED <<list, active, pending>>
  PROVE  /\ Ether!Places' = Append(Tail(Ether!Places), Ether!Places[1])
         /\ walk' \in Seq(Ether!Buffers) /\ queued' \in Seq(Ether!Buffers)
         /\ Head(walk) = Ether!Places[1]
<1>1. PICK w, l, a, p, q \in Seq(Ether!Buffers) : w = walk /\ l = list /\ a = active /\ p = pending
         /\ q = queued
  BY DEF EtherTypes
<1>2. PICK t, b : t = Tail(w) /\ b = Head(w)
  OBVIOUS
<1>3. /\ Tail(Row5(w, l, a, p, q)) = Row5(t, l, a, p, q)
      /\ b = Row5(w, l, a, p, q)[1] /\ b \in Ether!Buffers /\ t \in Seq(Ether!Buffers)
  <2>1. RowWithout(Ether!Buffers, w, l, a, p, q)
    BY <1>1, RowTail
  <2> QED BY <1>2, <2>1 DEF RowWithout
<1>4. Row5(t, l, a, p, Append(q, b)) = Append(Row5(t, l, a, p, q), b)
         /\ Append(q, b) \in Seq(Ether!Buffers)
  <2>1. RowWith(Ether!Buffers, t, l, a, p, q, b)
    <3>1. t \in Seq(Ether!Buffers) /\ b \in Ether!Buffers
      BY <1>3
    <3> QED BY <1>1, <3>1, RowAppend
  <2> QED BY <2>1 DEF RowWith
<1>5. Ether!Places = Row5(w, l, a, p, q) /\ Ether!Places' = Row5(t, l, a, p, Append(q, b))
  BY <1>1, <1>2 DEF Ether!Places, Row5
<1> QED BY <1>1, <1>2, <1>3, <1>4, <1>5

\* The next buffer whose frame moves.
LEMMA PlaceOfActive ==
  ASSUME NEW k \in Nat, EtherTypes, k < Len(active)
  PROVE  /\ Len(walk) + Len(list) + k < Len(Ether!Places)
         /\ Ether!Places[Len(walk) + Len(list) + k + 1] = active[k + 1]
<1>1. PICK lw, ll, la \in Nat : lw = Len(walk) /\ ll = Len(list) /\ la = Len(active)
  BY LenProperties DEF EtherTypes
<1>2. In(Ether!Places, lw + ll, active)
  BY <1>1, PlacesType DEF Five
<1>3. PICK n \in Nat : n = Len(Ether!Places)
  BY PlacesType, LenProperties
<1>4. lw + ll + la <= n /\ k + 1 \in 1 .. la /\ lw + ll + (k + 1) = lw + ll + k + 1
  BY <1>1, <1>2, <1>3 DEF In
<1> QED BY <1>1, <1>2, <1>3, <1>4 DEF In

-----------------------------------------------------------------------------
(* Each step of the interface keeps its invariant                          *)

\* The frames stay where they are.
FramesRest ==
  /\ flow' = flow /\ held' = held /\ lost' = lost /\ passing' = passing
  /\ txPktHead' = txPktHead /\ txPktTail' = txPktTail
  /\ flow = "tx" => ((etherAt' = "next") <=> (etherAt = "next"))
     /\ ((call' = "none") <=> (call = "none"))

LEMMA FramesAtStay ==
  ASSUME NEW k, NEW j, EtherTypes, FramesAt(k), Ether!Places' = Ether!Places,
         Len(walk') + Len(list') + j = Len(walk) + Len(list) + k, FramesRest
  PROVE  FramesAt(j)'
<1>1. PICK s, m : s = Ether!Places /\ m = Len(walk) + Len(list) + k /\ EtherFrames(s, m)
  BY DEF FramesAt
<1>2. EtherFrames(s, m)'
  <2>1. CASE flow = "rx"
    BY <1>1, <2>1, ReceivedStay DEF FramesRest
  <2>2. CASE flow = "tx"
    BY <1>1, <2>2, FramesStay DEF FramesRest
  <2> QED BY <2>1, <2>2 DEF EtherTypes
<1> QED BY <1>1, <1>2 DEF FramesAt

LEMMA AttentionStays ==
  ASSUME EtherInv, UNCHANGED list, UNCHANGED posted, UNCHANGED misplaced,
     (etherAt = "take") => (etherAt' = "take")
  PROVE  Attended' /\ ~misplaced'
BY Zenon DEF EtherInv, Attended

LEMMA BindStep == EtherInv /\ Ether!Bind => EtherInv'
<1> SUFFICES ASSUME EtherInv, Ether!Bind PROVE EtherInv'
  OBVIOUS
<1>1. PICK d, k : EtherAt(d, k)
  BY DEF EtherInv
<1>2. EtherTypes /\ Listed(d) /\ Chained(d, k) /\ FramesAt(k) /\ EtherWakes(k) /\ EtherControl
  BY <1>1 DEF EtherInv, EtherAt
<1>3. /\ isr = "off" /\ isr' = "off" /\ call = "bind" /\ call' = "activate"
         /\ Ether!bind_buf_with_desc
      /\ UNCHANGED <<flow, list, walk, passing, txPktHead, txPktTail, held, lost>>
      /\ UNCHANGED <<own, dma, cur, fetched>>
  BY DEF Ether!Bind, Ether!InTasks, Ether!Unwritten, Ether!device, Ether!worker, Ether!frames
<1>4. status' = status /\ isrStatus' = isrStatus
  BY DEF Ether!Bind, Ether!device
<1>5. UNCHANGED list /\ UNCHANGED posted /\ UNCHANGED misplaced /\ UNCHANGED etherAt
         /\ UNCHANGED walk
  BY DEF Ether!Bind, Ether!worker, Ether!frames
<1>6. EtherTypes' /\ Chained(d, k)' /\ Ether!Places' = Ether!Places
         /\ (queued' = <<>> \/ numAvail' <= 1)
  BY <1>2, <1>3, BindIsKept
<1>7. FramesAt(k)'
  <2>1. FramesRest
    BY <1>3, <1>5 DEF FramesRest
  <2> QED BY <1>2, <1>3, <1>6, <2>1, FramesAtStay
<1>8. EtherWakes(k)'
  <2>1. ~(numAvail' > 1 /\ numAvail' <= 1)
    <3>1. numAvail' \in Int
      <4>1. Len(active') \in Nat /\ Len(pending') \in Nat
        BY <1>6, LenProperties DEF EtherTypes
      <4>2. numAvail' = NumDesc - Len(active') - Len(pending')
        BY <1>6 DEF Chained, Bounds
      <4> QED BY <4>1, <4>2, EtherConstants
    <3> QED BY <3>1
  <2> QED BY <1>2, <1>3, <1>4, <1>6, <2>1 DEF EtherWakes, Unavailable
<1>9. EtherControl'
  BY <1>2, <1>3, <1>5 DEF EtherControl
<1>10. Attended' /\ ~misplaced'
  BY <1>5, AttentionStays
<1>11. EtherAt(d, k)'
  BY <1>2, <1>6, <1>7, <1>8 DEF EtherAt
<1> QED BY <1>6, <1>9, <1>10, <1>11 DEF EtherInv

LEMMA ActivateStep == EtherInv /\ Ether!Activate => EtherInv'
<1> SUFFICES ASSUME EtherInv, Ether!Activate PROVE EtherInv'
  OBVIOUS
<1>1. PICK d, k : EtherAt(d, k)
  BY DEF EtherInv
<1>2. EtherTypes /\ Listed(d) /\ Chained(d, k) /\ FramesAt(k) /\ EtherWakes(k) /\ EtherControl
  BY <1>1 DEF EtherInv, EtherAt
<1>3. /\ isr = "off" /\ isr' = "off" /\ call = "activate" /\ Ether!activate_channel
      /\ UNCHANGED <<flow, passing, txPktHead, txPktTail, held, lost>>
      /\ UNCHANGED <<dma, cur, fetched>>
  BY DEF Ether!Activate, Ether!InTasks, Ether!Unwritten, Ether!frames
<1>4. status' = status /\ isrStatus' = isrStatus
  BY DEF Ether!Activate
<1>5. UNCHANGED list /\ UNCHANGED posted /\ UNCHANGED misplaced /\ UNCHANGED walk
  BY DEF Ether!Activate, Ether!Return, Ether!worker, Ether!frames
<1>6. \/ pending # <<>> /\ call' = "resume" /\ etherAt' = etherAt
      \/ pending = <<>> /\ flow = "tx" /\ call' = "head" /\ etherAt' = etherAt
      \/ pending = <<>> /\ flow = "rx" /\ call' = "none" /\ etherAt = "call" /\ etherAt' = "walk"
      \/ pending = <<>> /\ flow = "rx" /\ call' = "none" /\ etherAt # "call" /\ etherAt' = etherAt
  BY <1>2 DEF Ether!Activate, Ether!Return, Ether!worker, EtherTypes, EtherControl
<1>7. /\ EtherTypes' /\ Chained(d, k)' /\ Ether!Places' = Ether!Places
      /\ queued' = queued /\ numAvail' = numAvail
         /\ (pending = <<>> => pending' = <<>> /\ own' = own)
  BY <1>2, <1>3, <1>5, ActivateIsKept
<1>8. FramesAt(k)'
  <2>1. FramesRest
    BY <1>2, <1>3, <1>6 DEF FramesRest
  <2> QED BY <1>2, <1>5, <1>7, <2>1, FramesAtStay
<1>9. EtherWakes(k)'
  BY <1>2, <1>3, <1>4, <1>6, <1>7 DEF EtherWakes, Unavailable
<1>10. EtherControl'
  BY <1>2, <1>3, <1>5, <1>6 DEF EtherControl
<1>11. Attended' /\ ~misplaced'
  <2>1. (etherAt = "take") => (etherAt' = "take")
    BY <1>6
  <2> QED BY <1>5, <2>1, AttentionStays
<1>12. EtherAt(d, k)'
  BY <1>2, <1>7, <1>8, <1>9 DEF EtherAt
<1> QED BY <1>7, <1>10, <1>11, <1>12 DEF EtherInv

LEMMA ResumeStep == EtherInv /\ Ether!Resume => EtherInv'
<1> SUFFICES ASSUME EtherInv, Ether!Resume PROVE EtherInv'
  OBVIOUS
<1>1. PICK d, k : EtherAt(d, k)
  BY DEF EtherInv
<1>2. EtherTypes /\ Listed(d) /\ Chained(d, k) /\ FramesAt(k) /\ EtherWakes(k) /\ EtherControl
  BY <1>1 DEF EtherInv, EtherAt
<1>3. /\ isr = "off" /\ isr' = "off" /\ call = "resume" /\ Ether!resume
      /\ UNCHANGED <<flow, passing, txPktHead, txPktTail, held, lost>>
      /\ UNCHANGED <<Ether!queues, Ether!descs, own, cur, fetched>>
  BY DEF Ether!Resume, Ether!InTasks, Ether!Unwritten, Ether!frames
<1>4. status' = status /\ isrStatus' = isrStatus
  BY DEF Ether!Resume
<1>5. UNCHANGED list /\ UNCHANGED posted /\ UNCHANGED misplaced /\ UNCHANGED walk
  BY DEF Ether!Resume, Ether!Return, Ether!worker, Ether!frames
<1>6. \/ flow = "tx" /\ call' = "head" /\ etherAt' = etherAt
      \/ flow = "rx" /\ call' = "none" /\ etherAt = "call" /\ etherAt' = "walk"
      \/ flow = "rx" /\ call' = "none" /\ etherAt # "call" /\ etherAt' = etherAt
  BY <1>2 DEF Ether!Resume, Ether!Return, EtherTypes, EtherControl
<1>7. Chained(d, k)'
  BY <1>2, <1>3, ResumeKeepsChain
<1>8. /\ UNCHANGED <<queued, pending, active, desc, numAvail, nextDesc, own>> /\ dma' # "suspended"
  BY <1>3 DEF Ether!queues, Ether!descs, Ether!resume
<1>9. EtherTypes' /\ Ether!Places' = Ether!Places
  BY <1>2, <1>3, <1>5, <1>8 DEF EtherTypes, Ether!Places
<1>10. FramesAt(k)'
  <2>1. FramesRest
    BY <1>2, <1>3, <1>6 DEF FramesRest
  <2> QED BY <1>2, <1>5, <1>9, <2>1, FramesAtStay
<1>11. EtherWakes(k)'
  BY <1>2, <1>3, <1>4, <1>8 DEF EtherWakes, Unavailable
<1>12. EtherControl'
  BY <1>2, <1>3, <1>5, <1>6 DEF EtherControl
<1>13. Attended' /\ ~misplaced'
  <2>1. (etherAt = "take") => (etherAt' = "take")
    BY <1>6
  <2> QED BY <1>5, <2>1, AttentionStays
<1>14. EtherAt(d, k)'
  BY <1>2, <1>7, <1>10, <1>11 DEF EtherAt
<1> QED BY <1>9, <1>12, <1>13, <1>14 DEF EtherInv

\* The gemac stands still.
GemacRests ==
  UNCHANGED <<flow, queued, pending, active, desc, descHead, descTail, numAvail, nextDesc,
              own, dma, cur, fetched, status, isr, isrStatus>>

LEMMA GemacIsStill == UNCHANGED Ether!gemac => GemacRests
BY DEF Ether!gemac, Ether!queues, Ether!descs, Ether!device, GemacRests

LEMMA RestKeepsChain ==
  ASSUME NEW d, NEW k, Chained(d, k), GemacRests
  PROVE  Chained(d, k)'
BY ChainStays DEF GemacRests

LEMMA RestKeepsWakes ==
  ASSUME NEW k, EtherWakes(k), GemacRests,
         \/ call' = call
         \/ isr = "off" /\ call = "head" /\ call' = "none"
  PROVE  EtherWakes(k)'
BY DEF GemacRests, EtherWakes, Unavailable

LEMMA WorkerMovesOn ==
  EtherInv /\ (Ether!FetchEvent \/ Ether!TakeList \/ Ether!EndOfList) => EtherInv'
<1> SUFFICES ASSUME EtherInv, Ether!FetchEvent \/ Ether!TakeList \/ Ether!EndOfList PROVE EtherInv'
  OBVIOUS
<1>1. PICK d, k : EtherAt(d, k)
  BY DEF EtherInv
<1>2. EtherTypes /\ Listed(d) /\ Chained(d, k) /\ FramesAt(k) /\ EtherWakes(k) /\ EtherControl
  BY <1>1 DEF EtherInv, EtherAt
<1>3. /\ GemacRests
      /\ UNCHANGED <<linkUp, call, txPktHead, txPktTail, held, lost, passing>>
  BY GemacIsStill DEF Ether!FetchEvent, Ether!TakeList, Ether!EndOfList, Ether!request, Ether!frames
<1>4. UNCHANGED misplaced
  BY DEF Ether!FetchEvent, Ether!TakeList, Ether!EndOfList, Ether!frames
<1>5. \/ etherAt = "wait" /\ etherAt' = "take" /\ list' = list /\ walk' = walk
      \/ etherAt = "take" /\ etherAt' = "walk" /\ list' = <<>> /\ walk' = list
      \/ etherAt = "walk" /\ etherAt' = "wait" /\ list' = list /\ walk' = walk /\ walk = <<>>
  BY DEF Ether!FetchEvent, Ether!TakeList, Ether!EndOfList
<1>6. EtherTypes' /\ Ether!Places' = Ether!Places
         /\ Len(walk') + Len(list') + k = Len(walk) + Len(list) + k
  <2>1. CASE list' = list /\ walk' = walk
    BY <1>2, <1>3, <2>1 DEF EtherTypes, Ether!Places, GemacRests
  <2>2. CASE walk = <<>> /\ list' = <<>> /\ walk' = list
    <3>1. EtherTypes'
      BY <1>2, <1>3, <2>2 DEF EtherTypes, GemacRests
    <3>2. walk' \o list' = walk \o list
      <4>1. walk' \o list' = list
        BY <1>2, <2>2, ConcatEmptySeq DEF EtherTypes
      <4>2. walk \o list = list
        BY <1>2, <2>2, ConcatEmptySeq DEF EtherTypes
      <4> QED BY <4>1, <4>2
    <3>3. Ether!Places' = Ether!Places
      BY <1>3, <3>2 DEF Ether!Places, GemacRests
    <3>4. Len(walk') + Len(list') = Len(walk) + Len(list)
      <4>1. Len(list) \in Nat /\ Len(<<>>) = 0
        BY <1>2, LenProperties, EmptySeq DEF EtherTypes
      <4> QED BY <2>2, <4>1
    <3> QED BY <3>1, <3>3, <3>4
  <2> QED BY <1>2, <1>5, <2>1, <2>2 DEF EtherControl
<1>7. FramesAt(k)'
  <2>1. FramesRest
    BY <1>3, <1>5 DEF FramesRest, GemacRests
  <2> QED BY <1>2, <1>6, <2>1, FramesAtStay
<1>8. Chained(d, k)' /\ EtherWakes(k)'
  BY <1>2, <1>3, RestKeepsChain, RestKeepsWakes
<1>9. EtherControl'
  BY <1>2, <1>3, <1>5 DEF EtherControl, GemacRests
<1>10. Attended'
  <2>1. CASE Ether!FetchEvent
    BY <2>1 DEF Ether!FetchEvent, Attended
  <2>2. CASE Ether!TakeList
    BY <2>2 DEF Ether!TakeList, Attended
  <2>3. CASE Ether!EndOfList
    <3>1. UNCHANGED list /\ UNCHANGED posted /\ etherAt # "take"
      BY <2>3 DEF Ether!EndOfList
    <3> QED BY <1>4, <3>1, AttentionStays
  <2> QED BY <2>1, <2>2, <2>3
<1>11. ~misplaced'
  BY <1>4, Zenon DEF EtherInv
<1>12. EtherAt(d, k)'
  BY <1>2, <1>7, <1>8 DEF EtherAt
<1> QED BY <1>6, <1>9, <1>10, <1>11, <1>12 DEF EtherInv

LEMMA AdvanceTailStep == EtherInv /\ Ether!AdvanceTail => EtherInv'
<1> SUFFICES ASSUME EtherInv, Ether!AdvanceTail PROVE EtherInv'
  OBVIOUS
<1>1. PICK d, k : EtherAt(d, k)
  BY DEF EtherInv
<1>2. EtherTypes /\ Listed(d) /\ Chained(d, k) /\ FramesAt(k) /\ EtherWakes(k) /\ EtherControl
  BY <1>1 DEF EtherInv, EtherAt
<1>3. /\ GemacRests /\ flow = "tx" /\ etherAt = "walk" /\ etherAt' = "next" /\ walk # <<>>
      /\ txPktTail' = Ether!NextSlot(txPktTail)
      /\ UNCHANGED <<list, walk, linkUp, call, txPktHead, held, lost, passing>>
  BY GemacIsStill DEF Ether!AdvanceTail, Ether!frames
<1>4. UNCHANGED list /\ UNCHANGED posted /\ UNCHANGED misplaced
  BY DEF Ether!AdvanceTail, Ether!frames
<1>5. EtherTypes'
  <2>1. txPktTail' \in Ether!Buffers
    BY <1>2, <1>3, NextSlotIs DEF EtherTypes
  <2> QED BY <1>2, <1>3, <2>1 DEF EtherTypes, GemacRests
<1>6. FramesAt(k)'
  <2>1. PICK s, m : s = Ether!Places /\ m = Len(walk) + Len(list) + k /\ EtherFrames(s, m)
    BY <1>2 DEF FramesAt
  <2>2. EtherFrames(s, m)'
    BY <1>2, <1>3, <2>1, SlotIsFreed DEF GemacRests
  <2>3. Ether!Places' = Ether!Places /\ walk' = walk /\ list' = list
    BY <1>3 DEF Ether!Places, GemacRests
  <2> QED BY <2>1, <2>2, <2>3 DEF FramesAt
<1>7. Chained(d, k)' /\ EtherWakes(k)'
  BY <1>2, <1>3, RestKeepsChain, RestKeepsWakes
<1>8. EtherControl'
  BY <1>2, <1>3 DEF EtherControl, GemacRests
<1>9. Attended' /\ ~misplaced'
  BY <1>3, <1>4, AttentionStays
<1>10. EtherAt(d, k)'
  BY <1>2, <1>6, <1>7 DEF EtherAt
<1> QED BY <1>5, <1>8, <1>9, <1>10 DEF EtherInv

\* The number of buffers that a worker has still to look at.
LEMMA OneLess ==
  ASSUME NEW k, EtherTypes, k \in Nat, walk # <<>>, walk' = Tail(walk), list' = list
  PROVE  /\ Len(walk) + Len(list) + k > 0
         /\ Len(walk') + Len(list') + k = Len(walk) + Len(list) + k - 1
<1>1. PICK lw, ll \in Nat : lw = Len(walk) /\ ll = Len(list)
  BY LenProperties DEF EtherTypes
<1>2. Len(walk') = lw - 1 /\ lw > 0
  <2>1. lw > 0
    BY <1>1, EmptySeq DEF EtherTypes
  <2>2. Len(Tail(walk)) = Len(walk) - 1
    BY <1>1, <2>1, TailIs DEF EtherTypes
  <2> QED BY <1>1, <2>1, <2>2
<1> QED BY <1>1, <1>2

LEMMA ReadLinkStep == EtherInv /\ Ether!ReadLink => EtherInv'
<1> SUFFICES ASSUME EtherInv, Ether!ReadLink PROVE EtherInv'
  OBVIOUS
<1>1. PICK d, k : EtherAt(d, k)
  BY DEF EtherInv
<1>2. EtherTypes /\ Listed(d) /\ Chained(d, k) /\ FramesAt(k) /\ EtherWakes(k) /\ EtherControl
  BY <1>1 DEF EtherInv, EtherAt
<1>3. /\ GemacRests /\ etherAt = "next" /\ etherAt' = "walk" /\ walk' = Tail(walk)
      /\ UNCHANGED <<list, linkUp, call, txPktHead, txPktTail, held, lost, passing>>
  BY GemacIsStill DEF Ether!ReadLink, Ether!request, Ether!frames
<1>4. UNCHANGED list /\ UNCHANGED posted /\ UNCHANGED misplaced
  BY DEF Ether!ReadLink, Ether!frames
<1>5. flow = "tx" /\ walk # <<>> /\ k \in Nat
  BY <1>2, <1>3 DEF EtherTypes, EtherControl, Chained, Device
<1>6. Ether!Places' = Tail(Ether!Places) /\ walk' \in Seq(Ether!Buffers)
  BY <1>2, <1>3, <1>5, PlacesTail DEF GemacRests
<1>7. EtherTypes'
  BY <1>2, <1>3, <1>6 DEF EtherTypes, GemacRests
<1>8. FramesAt(k)'
  <2>1. PICK s, m : s = Ether!Places /\ m = Len(walk) + Len(list) + k /\ EtherFrames(s, m)
    BY <1>2 DEF FramesAt
  <2>2. m > 0 /\ Len(walk') + Len(list') + k = m - 1
    BY <1>2, <1>3, <1>5, <2>1, OneLess
  <2>3. EtherFrames(Tail(s), m - 1)'
    BY <1>2, <1>3, <1>5, <2>1, <2>2, FrameIsForgotten DEF GemacRests
  <2>4. PICK r, n : r = Tail(s) /\ n = m - 1
    OBVIOUS
  <2>5. EtherFrames(r, n)'
    BY <2>3, <2>4 DEF EtherFrames, Received, Sent
  <2> QED BY <1>6, <2>1, <2>2, <2>4, <2>5 DEF FramesAt
<1>9. Chained(d, k)' /\ EtherWakes(k)'
  BY <1>2, <1>3, RestKeepsChain, RestKeepsWakes
<1>10. EtherControl'
  BY <1>2, <1>3, <1>5 DEF EtherControl, GemacRests
<1>11. Attended' /\ ~misplaced'
  BY <1>3, <1>4, AttentionStays
<1>12. EtherAt(d, k)'
  BY <1>2, <1>8, <1>9 DEF EtherAt
<1> QED BY <1>7, <1>10, <1>11, <1>12 DEF EtherInv

\* What a call of the driver changes in its critical section.
Inserts(b) ==
  /\ isr = "off" /\ call = "none" /\ call' = "bind" /\ queued' = Append(queued, b)
  /\ UNCHANGED <<flow, pending, active, desc, descHead, descTail, numAvail, nextDesc,
                 own, dma, cur, fetched, status, isr, isrStatus>>

LEMMA InsertIs ==
  ASSUME NEW b, isr = "off", Ether!insert_queue(b)
  PROVE  Inserts(b)
BY DEF Inserts, Ether!insert_queue, Ether!descs, Ether!device

LEMMA InsertKeeps ==
  ASSUME NEW d, NEW k, NEW b, Chained(d, k), EtherWakes(k), Inserts(b)
  PROVE  Chained(d, k)' /\ EtherWakes(k)'
<1>1. Chained(d, k)'
  BY ChainStays DEF Inserts
<1>2. EtherWakes(k)'
  BY DEF Inserts, EtherWakes, Unavailable
<1> QED BY <1>1, <1>2

\* The frame at the head of the list is the next.
LEMMA SeenInOrder ==
  ASSUME NEW b, EtherInv, Ether!See(b), Head(passing) = b
  PROVE  ~misplaced'
<1>1. misplaced' <=> (misplaced \/ Head(passing) # b)
  BY Zenon DEF Ether!See
<1>2. ~misplaced
  BY Zenon DEF EtherInv
<1> QED BY <1>1, <1>2, Zenon

\* lwIP takes a received frame, or nobody does.
LEMMA TakenStep == EtherInv /\ (Ether!HandOver \/ Ether!p1722_frame) => EtherInv'
<1> SUFFICES ASSUME EtherInv, Ether!HandOver \/ Ether!p1722_frame PROVE EtherInv'
  OBVIOUS
<1>1. PICK d, k : EtherAt(d, k)
  BY DEF EtherInv
<1>2. EtherTypes /\ Listed(d) /\ Chained(d, k) /\ FramesAt(k) /\ EtherWakes(k) /\ EtherControl
  BY <1>1 DEF EtherInv, EtherAt
<1>3. /\ GemacRests /\ flow = "rx" /\ etherAt = "walk" /\ etherAt' = "walk"
      /\ walk # <<>> /\ walk' = Tail(walk) /\ passing' = Tail(passing)
      /\ UNCHANGED <<list, linkUp, call, txPktHead, txPktTail>>
      /\ \/ held' = held \cup {Head(walk)} /\ lost' = lost
         \/ lost' = lost \cup {Head(walk)} /\ held' = held
  BY GemacIsStill DEF Ether!HandOver, Ether!p1722_frame, Ether!Receives, Ether!See, Ether!request
<1>4. UNCHANGED list /\ UNCHANGED posted /\ Ether!See(Head(walk))
  BY DEF Ether!HandOver, Ether!p1722_frame
<1>5. k \in Nat
  BY <1>2 DEF Chained, Device
<1>6. /\ Ether!Places' = Tail(Ether!Places) /\ walk' \in Seq(Ether!Buffers)
      /\ Head(walk) = Ether!Places[1] /\ Head(walk) \in Ether!Buffers
  BY <1>2, <1>3, PlacesTail DEF GemacRests
<1>7. PICK s, m : s = Ether!Places /\ m = Len(walk) + Len(list) + k /\ EtherFrames(s, m)
  BY <1>2 DEF FramesAt
<1>8. m > 0 /\ Len(walk') + Len(list') + k = m - 1
  BY <1>2, <1>3, <1>5, <1>7, OneLess
<1>9. EtherFrames(Tail(s), m - 1)' /\ Head(passing) = s[1]
  <2>1. \/ held' = held \cup {s[1]} /\ lost' = lost
        \/ lost' = lost \cup {s[1]} /\ held' = held
    BY <1>3, <1>6, <1>7
  <2>2. flow' = flow
    BY <1>3 DEF GemacRests
  <2> QED BY <1>2, <1>3, <1>7, <1>8, <2>1, <2>2, FrameIsTaken
<1>10. EtherTypes'
  <2>1. passing # <<>>
    <3>1. Len(passing) = m /\ Len(<<>>) = 0
      BY <1>3, <1>7, EmptySeq DEF EtherFrames, Received
    <3> QED BY <1>8, <3>1
  <2>2. passing' \in Seq(Ether!Buffers)
    BY <1>2, <1>3, <2>1, HeadTailProperties DEF EtherTypes
  <2>3. held' \subseteq Ether!Buffers /\ lost' \subseteq Ether!Buffers
    BY <1>2, <1>3, <1>6 DEF EtherTypes
  <2> QED BY <1>2, <1>3, <1>6, <2>2, <2>3 DEF EtherTypes, GemacRests
<1>11. FramesAt(k)'
  <2>1. PICK r, n : r = Tail(s) /\ n = m - 1
    OBVIOUS
  <2>2. EtherFrames(r, n)'
    BY <1>9, <2>1 DEF EtherFrames, Received, Sent
  <2> QED BY <1>6, <1>7, <1>8, <2>1, <2>2 DEF FramesAt
<1>12. Chained(d, k)' /\ EtherWakes(k)'
  BY <1>2, <1>3, RestKeepsChain, RestKeepsWakes
<1>13. EtherControl'
  BY <1>2, <1>3 DEF EtherControl, GemacRests
<1>14. Attended'
  <2>1. etherAt # "take"
    BY <1>3
  <2> QED BY <1>4, <2>1, Zenon DEF EtherInv, Attended
<1>15. ~misplaced'
  BY <1>4, <1>6, <1>7, <1>9, SeenInOrder
<1>16. EtherAt(d, k)'
  BY <1>2, <1>11, <1>12 DEF EtherAt
<1> QED BY <1>10, <1>13, <1>14, <1>15, <1>16 DEF EtherInv

LEMMA HandBackStep == EtherInv /\ Ether!HandBack => EtherInv'
<1> SUFFICES ASSUME EtherInv, Ether!HandBack PROVE EtherInv'
  OBVIOUS
<1>1. PICK d, k : EtherAt(d, k)
  BY DEF EtherInv
<1>2. EtherTypes /\ Listed(d) /\ Chained(d, k) /\ FramesAt(k) /\ EtherWakes(k) /\ EtherControl
  BY <1>1 DEF EtherInv, EtherAt
<1>3. /\ flow = "rx" /\ etherAt = "walk" /\ etherAt' = "call" /\ isr = "off"
      /\ walk # <<>> /\ walk' = Tail(walk) /\ passing' = Tail(passing)
      /\ UNCHANGED <<list, linkUp, txPktHead, txPktTail, held, lost>>
      /\ Ether!insert_queue(Head(walk))
  BY DEF Ether!HandBack, Ether!Receives, Ether!See, Ether!Unwritten, Ether!InTasks
<1>4. UNCHANGED list /\ UNCHANGED posted /\ Ether!See(Head(walk))
  BY DEF Ether!HandBack
<1>5. PICK b : b = Head(walk)
  OBVIOUS
<1>6. Inserts(b) /\ k \in Nat
  BY <1>2, <1>3, <1>5, InsertIs DEF Chained, Device
<1>7. PICK s, m : s = Ether!Places /\ m = Len(walk) + Len(list) + k /\ EtherFrames(s, m)
  BY <1>2 DEF FramesAt
<1>8. m > 0 /\ Len(walk') + Len(list') + k = m - 1
  BY <1>2, <1>3, <1>6, <1>7, OneLess
<1>9. b = s[1] /\ walk' \in Seq(Ether!Buffers) /\ queued' \in Seq(Ether!Buffers)
      /\ Ether!Places' = Append(Tail(s), s[1])
  BY <1>2, <1>3, <1>5, <1>6, <1>7, PlacesReturn DEF Inserts
<1>10. EtherFrames(Append(Tail(s), s[1]), m - 1)' /\ Head(passing) = s[1]
  <2>1. flow' = flow
    BY <1>6 DEF Inserts
  <2> QED BY <1>2, <1>3, <1>7, <1>8, <2>1, FrameIsReturned
<1>11. EtherTypes'
  <2>1. passing # <<>>
    <3>1. Len(passing) = m /\ Len(<<>>) = 0
      BY <1>3, <1>7, EmptySeq DEF EtherFrames, Received
    <3> QED BY <1>8, <3>1
  <2>2. passing' \in Seq(Ether!Buffers)
    BY <1>2, <1>3, <2>1, HeadTailProperties DEF EtherTypes
  <2> QED BY <1>2, <1>3, <1>6, <1>9, <2>2 DEF EtherTypes, Inserts
<1>12. FramesAt(k)'
  <2>1. PICK r, n : r = Append(Tail(s), s[1]) /\ n = m - 1
    OBVIOUS
  <2>2. EtherFrames(r, n)'
    BY <1>10, <2>1 DEF EtherFrames, Received, Sent
  <2> QED BY <1>8, <1>9, <2>1, <2>2 DEF FramesAt
<1>13. Chained(d, k)' /\ EtherWakes(k)'
  BY <1>2, <1>6, InsertKeeps
<1>14. EtherControl'
  BY <1>2, <1>3, <1>6 DEF EtherControl, Inserts
<1>15. Attended'
  <2>1. etherAt # "take"
    BY <1>3
  <2> QED BY <1>4, <2>1, Zenon DEF EtherInv, Attended
<1>16. ~misplaced'
  BY <1>4, <1>5, <1>9, <1>10, SeenInOrder
<1>17. EtherAt(d, k)'
  BY <1>2, <1>12, <1>13 DEF EtherAt
<1> QED BY <1>11, <1>14, <1>15, <1>16, <1>17 DEF EtherInv

LEMMA WriteStep == EtherInv /\ Ether!tx_frame => EtherInv'
<1> SUFFICES ASSUME EtherInv, Ether!tx_frame PROVE EtherInv'
  OBVIOUS
<1>1. PICK d, k : EtherAt(d, k)
  BY DEF EtherInv
<1>2. EtherTypes /\ Listed(d) /\ Chained(d, k) /\ FramesAt(k) /\ EtherWakes(k) /\ EtherControl
  BY <1>1 DEF EtherInv, EtherAt
<1>3. /\ flow = "tx" /\ isr = "off" /\ Ether!NextSlot(txPktHead) # txPktTail
      /\ passing' = Append(passing, txPktHead)
      /\ UNCHANGED <<list, walk, etherAt, linkUp, txPktHead, txPktTail, held, lost>>
      /\ Ether!insert_queue(txPktHead)
  BY DEF Ether!tx_frame, Ether!Unwritten, Ether!InTasks, Ether!worker
<1>4. UNCHANGED list /\ UNCHANGED posted /\ UNCHANGED misplaced
  BY DEF Ether!tx_frame, Ether!worker
<1>5. Inserts(txPktHead) /\ txPktHead \in Ether!Buffers
  BY <1>2, <1>3, InsertIs DEF EtherTypes
<1>6. PICK s, m : s = Ether!Places /\ m = Len(walk) + Len(list) + k /\ EtherFrames(s, m)
  BY <1>2 DEF FramesAt
<1>7. Ether!Places' = Append(Ether!Places, txPktHead) /\ queued' \in Seq(Ether!Buffers)
  BY <1>2, <1>3, <1>5, PlacesAppend DEF Inserts
<1>8. EtherFrames(Append(s, txPktHead), m)'
  <2>1. RingSlot(txPktHead + 1) # txPktTail
    BY <1>3, <1>5, NextSlotIs
  <2>2. call = "none" /\ call' # "none" /\ flow' = flow
    BY <1>5 DEF Inserts
  <2> QED BY <1>2, <1>3, <1>6, <2>1, <2>2, FrameIsInserted
<1>9. EtherTypes'
  <2>1. passing' \in Seq(Ether!Buffers)
    BY <1>2, <1>3, <1>5, AppendProperties DEF EtherTypes
  <2> QED BY <1>2, <1>3, <1>5, <1>7, <2>1 DEF EtherTypes, Inserts
<1>10. FramesAt(k)'
  <2>1. PICK r : r = Append(s, txPktHead)
    OBVIOUS
  <2>2. EtherFrames(r, m)'
    <3>1. txPktHead' = txPktHead
      BY <1>3
    <3> QED BY <1>8, <2>1, <3>1 DEF EtherFrames, Received, Sent
  <2> QED BY <1>3, <1>6, <1>7, <2>1, <2>2 DEF FramesAt
<1>11. Chained(d, k)' /\ EtherWakes(k)'
  BY <1>2, <1>5, InsertKeeps
<1>12. EtherControl'
  BY <1>2, <1>3, <1>5 DEF EtherControl, Inserts
<1>13. Attended' /\ ~misplaced'
  BY <1>3, <1>4, AttentionStays
<1>14. EtherAt(d, k)'
  BY <1>2, <1>10, <1>11 DEF EtherAt
<1> QED BY <1>9, <1>12, <1>13, <1>14 DEF EtherInv

LEMMA WrittenStep == EtherInv /\ Ether!tx_frame_sent => EtherInv'
<1> SUFFICES ASSUME EtherInv, Ether!tx_frame_sent PROVE EtherInv'
  OBVIOUS
<1>1. PICK d, k : EtherAt(d, k)
  BY DEF EtherInv
<1>2. EtherTypes /\ Listed(d) /\ Chained(d, k) /\ FramesAt(k) /\ EtherWakes(k) /\ EtherControl
  BY <1>1 DEF EtherInv, EtherAt
<1>3. /\ GemacRests /\ isr = "off" /\ call = "head" /\ call' = "none"
      /\ txPktHead' = Ether!NextSlot(txPktHead)
      /\ UNCHANGED <<list, walk, etherAt, linkUp, txPktTail, held, lost, passing>>
  BY GemacIsStill DEF Ether!tx_frame_sent, Ether!InTasks, Ether!worker, Ether!frames
<1>4. UNCHANGED list /\ UNCHANGED posted /\ UNCHANGED misplaced
  BY DEF Ether!tx_frame_sent, Ether!worker, Ether!frames
<1>5. flow = "tx"
  BY <1>2, <1>3 DEF EtherControl, EtherTypes
<1>6. txPktHead' = RingSlot(txPktHead + 1) /\ txPktHead' \in Ether!Buffers
  BY <1>2, <1>3, NextSlotIs DEF EtherTypes
<1>7. EtherTypes'
  BY <1>2, <1>3, <1>6 DEF EtherTypes, GemacRests
<1>8. FramesAt(k)'
  <2>1. PICK s, m : s = Ether!Places /\ m = Len(walk) + Len(list) + k /\ EtherFrames(s, m)
    BY <1>2 DEF FramesAt
  <2>2. Sent(s, m)
    BY <1>5, <2>1 DEF EtherFrames
  <2>3. Sent(s, m)'
    <3>1. Eldest' = Eldest /\ Behind1' = Behind1
      BY <1>3 DEF Eldest, Behind1
    <3>2. RingSlot(Eldest + Len(s)) = RingSlot(txPktHead + 1)
      BY <1>3, <2>2 DEF Sent
    <3> QED BY <1>3, <1>6, <2>2, <3>1, <3>2 DEF Sent
  <2>4. EtherFrames(s, m)'
    BY <1>3, <1>5, <2>1, <2>3 DEF EtherFrames, GemacRests
  <2>5. Ether!Places' = Ether!Places
    BY <1>3 DEF Ether!Places, GemacRests
  <2> QED BY <1>3, <2>1, <2>4, <2>5 DEF FramesAt
<1>9. Chained(d, k)' /\ EtherWakes(k)'
  BY <1>2, <1>3, RestKeepsChain, RestKeepsWakes
<1>10. EtherControl'
  BY <1>2, <1>3 DEF EtherControl, GemacRests
<1>11. Attended' /\ ~misplaced'
  BY <1>3, <1>4, AttentionStays
<1>12. EtherAt(d, k)'
  BY <1>2, <1>8, <1>9 DEF EtherAt
<1> QED BY <1>7, <1>10, <1>11, <1>12 DEF EtherInv

LEMMA FreeStep == EtherInv /\ Ether!pbuf_free => EtherInv'
<1> SUFFICES ASSUME EtherInv, Ether!pbuf_free PROVE EtherInv'
  OBVIOUS
<1>1. PICK d, k : EtherAt(d, k)
  BY DEF EtherInv
<1>2. EtherTypes /\ Listed(d) /\ Chained(d, k) /\ FramesAt(k) /\ EtherWakes(k) /\ EtherControl
  BY <1>1 DEF EtherInv, EtherAt
<1>3. PICK b \in held : Ether!insert_queue(b) /\ held' = held \ {b}
  BY DEF Ether!pbuf_free
<1>4. isr = "off" /\ UNCHANGED <<list, walk, etherAt, linkUp, txPktHead, txPktTail, lost, passing>>
  BY DEF Ether!pbuf_free, Ether!Unwritten, Ether!InTasks, Ether!worker, Ether!frames
<1>5. UNCHANGED list /\ UNCHANGED posted /\ UNCHANGED misplaced
  BY DEF Ether!pbuf_free, Ether!worker, Ether!frames
<1>6. Inserts(b) /\ b \in Ether!Buffers
  BY <1>2, <1>3, <1>4, InsertIs DEF EtherTypes
<1>7. PICK s, m : s = Ether!Places /\ m = Len(walk) + Len(list) + k /\ EtherFrames(s, m)
  BY <1>2 DEF FramesAt
<1>8. flow = "rx"
  BY <1>2, <1>3, <1>7 DEF EtherTypes, EtherFrames, Sent
<1>9. Ether!Places' = Append(Ether!Places, b) /\ queued' \in Seq(Ether!Buffers)
  BY <1>2, <1>4, <1>6, PlacesAppend DEF Inserts
<1>10. EtherFrames(Append(s, b), m)'
  <2>1. flow' = flow
    BY <1>6 DEF Inserts
  <2> QED BY <1>2, <1>3, <1>4, <1>7, <1>8, <2>1, FreedIsInserted
<1>11. EtherTypes'
  BY <1>2, <1>3, <1>4, <1>6, <1>9 DEF EtherTypes, Inserts
<1>12. FramesAt(k)'
  <2>1. PICK r : r = Append(s, b)
    OBVIOUS
  <2>2. EtherFrames(r, m)'
    BY <1>10, <2>1 DEF EtherFrames, Received, Sent
  <2> QED BY <1>4, <1>7, <1>9, <2>1, <2>2 DEF FramesAt
<1>13. Chained(d, k)' /\ EtherWakes(k)'
  BY <1>2, <1>6, InsertKeeps
<1>14. EtherControl'
  BY <1>2, <1>4, <1>6 DEF EtherControl, Inserts
<1>15. Attended' /\ ~misplaced'
  BY <1>4, <1>5, AttentionStays
<1>16. EtherAt(d, k)'
  BY <1>2, <1>12, <1>13 DEF EtherAt
<1> QED BY <1>11, <1>14, <1>15, <1>16 DEF EtherInv

LEMMA LinkStep == EtherInv /\ Ether!PhyInterrupt => EtherInv'
<1> SUFFICES ASSUME EtherInv, Ether!PhyInterrupt PROVE EtherInv'
  OBVIOUS
<1>1. PICK d, k : EtherAt(d, k)
  BY DEF EtherInv
<1>2. EtherTypes /\ Listed(d) /\ Chained(d, k) /\ FramesAt(k) /\ EtherWakes(k) /\ EtherControl
  BY <1>1 DEF EtherInv, EtherAt
<1>3. /\ GemacRests
      /\ UNCHANGED <<list, walk, etherAt, call, txPktHead, txPktTail, held, lost, passing>>
  BY GemacIsStill DEF Ether!PhyInterrupt, Ether!worker, Ether!frames
<1>4. UNCHANGED list /\ UNCHANGED posted /\ UNCHANGED misplaced
  BY DEF Ether!PhyInterrupt, Ether!worker, Ether!frames
<1>5. EtherTypes' /\ Ether!Places' = Ether!Places
  BY <1>2, <1>3 DEF EtherTypes, GemacRests, Ether!Places
<1>6. FramesAt(k)'
  <2>1. FramesRest
    BY <1>3 DEF FramesRest, GemacRests
  <2> QED BY <1>2, <1>3, <1>5, <2>1, FramesAtStay
<1>7. Chained(d, k)' /\ EtherWakes(k)'
  BY <1>2, <1>3, RestKeepsChain, RestKeepsWakes
<1>8. EtherControl'
  BY <1>2, <1>3 DEF EtherControl, GemacRests
<1>9. Attended' /\ ~misplaced'
  BY <1>3, <1>4, AttentionStays
<1>10. EtherAt(d, k)'
  BY <1>2, <1>6, <1>7 DEF EtherAt
<1> QED BY <1>5, <1>8, <1>9, <1>10 DEF EtherInv

LEMMA EnterStep ==
  ASSUME EtherInv, Ether!EnterInterrupt, call # "resume",
         UNCHANGED <<Ether!worker, Ether!request, held, lost, Ether!frames>>
  PROVE  EtherInv'
<1>1. PICK d, k : EtherAt(d, k)
  BY DEF EtherInv
<1>2. EtherTypes /\ Listed(d) /\ Chained(d, k) /\ FramesAt(k) /\ EtherWakes(k) /\ EtherControl
  BY <1>1 DEF EtherInv, EtherAt
<1>3. /\ UNCHANGED <<flow, queued, pending, active, desc, descHead, descTail, numAvail, nextDesc, own, dma, cur, fetched>>
      /\ isr = "off" /\ isr' = "process" /\ isrStatus' = status /\ status' = {}
      /\ UNCHANGED <<list, walk, etherAt, call, txPktHead, txPktTail, held, lost, passing>>
  BY DEF Ether!EnterInterrupt, Ether!queues, Ether!descs, Ether!worker, Ether!request, Ether!frames
<1>4. UNCHANGED list /\ UNCHANGED posted /\ UNCHANGED misplaced
  BY DEF Ether!worker, Ether!frames
<1>5. EtherTypes' /\ Ether!Places' = Ether!Places
  BY <1>2, <1>3 DEF EtherTypes, Ether!Places
<1>6. FramesAt(k)'
  <2>1. FramesRest
    BY <1>3 DEF FramesRest
  <2> QED BY <1>2, <1>3, <1>5, <2>1, FramesAtStay
<1>7. Chained(d, k)'
  BY <1>2, <1>3, ChainStays
<1>8. EtherWakes(k)'
  BY <1>2, <1>3 DEF EtherWakes, Unavailable
<1>9. EtherControl'
  BY <1>2, <1>3 DEF EtherControl
<1>10. Attended' /\ ~misplaced'
  BY <1>3, <1>4, AttentionStays
<1>11. EtherAt(d, k)'
  BY <1>2, <1>6, <1>7, <1>8 DEF EtherAt
<1> QED BY <1>5, <1>9, <1>10, <1>11 DEF EtherInv

LEMMA ProcessStep == EtherInv /\ Ether!ProcessInt => EtherInv'
<1> SUFFICES ASSUME EtherInv, Ether!ProcessInt PROVE EtherInv'
  OBVIOUS
<1>1. PICK d, k : EtherAt(d, k)
  BY DEF EtherInv
<1>2. EtherTypes /\ Listed(d) /\ Chained(d, k) /\ FramesAt(k) /\ EtherWakes(k) /\ EtherControl
  BY <1>1 DEF EtherInv, EtherAt
<1>3. /\ Ether!process_int /\ list' = list \o Ether!Finished
      /\ UNCHANGED <<walk, etherAt, call, txPktHead, txPktTail, held, lost, passing>>
  BY DEF Ether!ProcessInt, Ether!request, Ether!frames
<1>4. PICK j : j = IF "done" \in isrStatus THEN 0 ELSE k
  OBVIOUS
<1>5. /\ EtherTypes' /\ (\E e : Listed(e) /\ Chained(e, j)') /\ Ether!Places' = Ether!Places
      /\ Len(list') + j = Len(list) + k /\ (k = 0 => numAvail' = numAvail)
      /\ (Ether!Finished = <<>> => list' = list) /\ k \in Nat
  BY <1>2, <1>3, <1>4, ProcessIsKept
<1>6. PICK e : Listed(e) /\ Chained(e, j)'
  BY <1>5
<1>7. /\ UNCHANGED <<flow, queued, pending, own, dma, status>> /\ isr = "process"
      /\ isr' = IF "unavail" \in isrStatus THEN "bind" ELSE "off"
  BY <1>3 DEF Ether!process_int, Ether!device
<1>8. FramesAt(j)'
  <2>1. FramesRest
    BY <1>3, <1>7 DEF FramesRest
  <2>2. Len(walk') + Len(list') + j = Len(walk) + Len(list) + k
    <3>1. Len(walk) \in Nat /\ Len(list) \in Nat /\ Len(list') \in Nat /\ j \in Nat /\ k \in Nat
      BY <1>2, <1>4, <1>5, LenProperties DEF EtherTypes
    <3> QED BY <1>3, <1>5, <3>1
  <2> QED BY <1>2, <1>5, <2>1, <2>2, FramesAtStay
<1>9. EtherWakes(j)'
  <2>1. own' # {} /\ dma' = "suspended" => FALSE
    BY <1>2, <1>7 DEF EtherWakes
  <2>2. k = 0 \/ k > 0
    BY <1>5
  <2> QED BY <1>2, <1>3, <1>4, <1>5, <1>7, <2>1, <2>2 DEF EtherWakes, Unavailable
<1>10. EtherControl'
  BY <1>2, <1>3, <1>7 DEF EtherControl
<1>11. Attended'
  <2>1. posted' <=> (posted \/ (list = <<>> /\ Ether!Finished # <<>>))
    BY Zenon DEF Ether!ProcessInt
  <2>2. Attended
    BY Zenon DEF EtherInv
  <2>3. etherAt' = etherAt /\ (Ether!Finished = <<>> => list' = list)
    BY <1>3, <1>5
  <2> QED BY <2>1, <2>2, <2>3, Zenon DEF Attended
<1>12. ~misplaced'
  <2>1. UNCHANGED misplaced
    BY DEF Ether!ProcessInt, Ether!frames
  <2> QED BY <2>1, Zenon DEF EtherInv
<1>13. EtherAt(e, j)'
  BY <1>6, <1>8, <1>9 DEF EtherAt
<1> QED BY <1>5, <1>10, <1>11, <1>12, <1>13 DEF EtherInv

\* The worker and the calls stand still.
OthersRest ==
  UNCHANGED <<list, walk, etherAt, call, txPktHead, txPktTail, held, lost, passing>>

LEMMA OthersAreStill ==
  UNCHANGED <<Ether!worker, Ether!request, held, lost, Ether!frames>>
    => OthersRest /\ UNCHANGED list /\ UNCHANGED posted /\ UNCHANGED misplaced
BY DEF Ether!worker, Ether!request, Ether!frames, OthersRest

LEMMA TransferStep ==
  ASSUME EtherInv, Ether!TransferBind \/ Ether!TransferActivate \/ Ether!TransferResume,
         UNCHANGED <<Ether!worker, Ether!request, held, lost, Ether!frames>>
  PROVE  EtherInv'
<1>1. PICK d, k : EtherAt(d, k)
  BY DEF EtherInv
<1>2. EtherTypes /\ Listed(d) /\ Chained(d, k) /\ FramesAt(k) /\ EtherWakes(k) /\ EtherControl
  BY <1>1 DEF EtherInv, EtherAt
<1>3. OthersRest
  BY OthersAreStill
<1>4. Attended' /\ ~misplaced'
  <2>1. (etherAt = "take") => (etherAt' = "take")
    BY <1>3 DEF OthersRest
  <2> QED BY <2>1, OthersAreStill, AttentionStays
<1>5. flow' = flow /\ isrStatus' = isrStatus /\ status' = status
  BY DEF Ether!TransferBind, Ether!TransferActivate, Ether!TransferResume, Ether!device
<1>6. FramesRest
  BY <1>3, <1>5 DEF FramesRest, OthersRest
<1>7. EtherControl'
  BY <1>2, <1>3, <1>5 DEF EtherControl, OthersRest
<1>8. CASE Ether!TransferBind
  <2>1. isr = "bind" /\ UNCHANGED <<own, dma, cur, fetched>>
    BY <1>8 DEF Ether!TransferBind, Ether!device
  <2>2. CASE Ether!NothingWaits
    <3>1. UNCHANGED <<queued, pending, active, desc, descHead, descTail, numAvail, nextDesc>>
             /\ isr' = "off"
      BY <1>8, <2>2 DEF Ether!TransferBind, Ether!queues, Ether!descs
    <3>2. EtherTypes' /\ Ether!Places' = Ether!Places
      BY <1>2, <1>3, <1>5, <3>1 DEF EtherTypes, Ether!Places, OthersRest
    <3>3. Chained(d, k)'
      BY <1>2, <2>1, <3>1, ChainStays
    <3>4. FramesAt(k)'
      BY <1>2, <1>3, <1>6, <3>2, FramesAtStay DEF OthersRest
    <3>5. EtherWakes(k)'
      <4>1. ~(queued # <<>> /\ numAvail > 1) /\ pending = <<>>
        <5>1. numAvail \in Int
          <6>1. Len(active) \in Nat /\ Len(pending) \in Nat
            BY <1>2, LenProperties DEF EtherTypes
          <6>2. numAvail = NumDesc - Len(active) - Len(pending)
            BY <1>2 DEF Chained, Bounds
          <6> QED BY <6>1, <6>2, EtherConstants
        <5> QED BY <2>2, <5>1 DEF Ether!NothingWaits
      <4> QED BY <1>2, <1>3, <1>5, <2>1, <3>1, <4>1 DEF EtherWakes, Unavailable, OthersRest
    <3>6. EtherAt(d, k)'
      BY <1>2, <3>3, <3>4, <3>5 DEF EtherAt
    <3> QED BY <1>4, <1>7, <3>2, <3>6 DEF EtherInv
  <2>3. CASE ~Ether!NothingWaits
    <3>1. Ether!bind_buf_with_desc /\ isr' = "activate"
      BY <1>8, <2>3 DEF Ether!TransferBind
    <3>2. EtherTypes' /\ Chained(d, k)' /\ Ether!Places' = Ether!Places
             /\ (queued' = <<>> \/ numAvail' <= 1)
      BY <1>2, <1>3, <1>5, <2>1, <3>1, BindIsKept DEF OthersRest
    <3>3. FramesAt(k)'
      BY <1>2, <1>3, <1>6, <3>2, FramesAtStay DEF OthersRest
    <3>4. EtherWakes(k)'
      <4>1. ~(queued' # <<>> /\ numAvail' > 1)
        <5>1. numAvail' \in Int
          <6>1. Len(active') \in Nat /\ Len(pending') \in Nat
            BY <3>2, LenProperties DEF EtherTypes
          <6>2. numAvail' = NumDesc - Len(active') - Len(pending')
            BY <3>2 DEF Chained, Bounds
          <6> QED BY <6>1, <6>2, EtherConstants
        <5> QED BY <3>2, <5>1
      <4> QED BY <1>2, <1>3, <1>5, <2>1, <3>1, <4>1 DEF EtherWakes, Unavailable, OthersRest
    <3>5. EtherAt(d, k)'
      BY <1>2, <3>2, <3>3, <3>4 DEF EtherAt
    <3> QED BY <1>4, <1>7, <3>2, <3>5 DEF EtherInv
  <2> QED BY <2>2, <2>3
<1>9. CASE Ether!TransferActivate
  <2>1. /\ isr = "activate" /\ Ether!activate_channel /\ UNCHANGED <<dma, cur, fetched>>
        /\ isr' = IF pending = <<>> THEN "off" ELSE "resume"
    BY <1>9 DEF Ether!TransferActivate
  <2>2. /\ EtherTypes' /\ Chained(d, k)' /\ Ether!Places' = Ether!Places
        /\ queued' = queued /\ numAvail' = numAvail
           /\ (pending = <<>> => pending' = <<>> /\ own' = own)
    BY <1>2, <1>3, <1>5, <2>1, ActivateIsKept DEF OthersRest
  <2>3. FramesAt(k)'
    BY <1>2, <1>3, <1>6, <2>2, FramesAtStay DEF OthersRest
  <2>4. EtherWakes(k)'
    BY <1>2, <1>3, <1>5, <2>1, <2>2 DEF EtherWakes, Unavailable, OthersRest
  <2>5. EtherAt(d, k)'
    BY <1>2, <2>2, <2>3, <2>4 DEF EtherAt
  <2> QED BY <1>4, <1>7, <2>2, <2>5 DEF EtherInv
<1>10. CASE Ether!TransferResume
  <2>1. /\ isr = "resume" /\ isr' = "off" /\ Ether!resume
           /\ UNCHANGED <<Ether!queues, Ether!descs, own, cur, fetched>>
    BY <1>10 DEF Ether!TransferResume
  <2>2. UNCHANGED <<queued, pending, active, desc, numAvail, nextDesc, own>> /\ dma' # "suspended"
    BY <2>1 DEF Ether!queues, Ether!descs, Ether!resume
  <2>3. EtherTypes' /\ Ether!Places' = Ether!Places
    BY <1>2, <1>3, <1>5, <2>2 DEF EtherTypes, Ether!Places, OthersRest
  <2>4. Chained(d, k)'
    BY <1>2, <2>1, ResumeKeepsChain
  <2>5. FramesAt(k)'
    BY <1>2, <1>3, <1>6, <2>3, FramesAtStay DEF OthersRest
  <2>6. EtherWakes(k)'
    BY <1>2, <1>3, <1>5, <2>1, <2>2 DEF EtherWakes, Unavailable, OthersRest
  <2>7. EtherAt(d, k)'
    BY <1>2, <2>4, <2>5, <2>6 DEF EtherAt
  <2> QED BY <1>4, <1>7, <2>3, <2>7 DEF EtherInv
<1> QED BY <1>8, <1>9, <1>10

LEMMA LookStepEther ==
  ASSUME EtherInv, Ether!Fetch \/ Ether!Suspend,
         UNCHANGED <<Ether!worker, Ether!request, held, lost, Ether!frames>>
  PROVE  EtherInv'
<1>1. PICK d, k : EtherAt(d, k)
  BY DEF EtherInv
<1>2. EtherTypes /\ Listed(d) /\ Chained(d, k) /\ FramesAt(k) /\ EtherWakes(k) /\ EtherControl
  BY <1>1 DEF EtherInv, EtherAt
<1>3. OthersRest
  BY OthersAreStill
<1>4. Attended' /\ ~misplaced'
  <2>1. (etherAt = "take") => (etherAt' = "take")
    BY <1>3 DEF OthersRest
  <2> QED BY <2>1, OthersAreStill, AttentionStays
<1>5. UNCHANGED <<flow, queued, pending, active, desc, descHead, descTail, numAvail, nextDesc, own, isr, isrStatus>>
  BY DEF Ether!Fetch, Ether!Suspend, Ether!queues, Ether!descs
<1>6. EtherTypes' /\ Ether!Places' = Ether!Places
  BY <1>2, <1>3, <1>5 DEF EtherTypes, Ether!Places, OthersRest
<1>7. FramesAt(k)'
  <2>1. FramesRest
    BY <1>3, <1>5 DEF FramesRest, OthersRest
  <2> QED BY <1>2, <1>3, <1>6, <2>1, FramesAtStay DEF OthersRest
<1>8. EtherControl'
  BY <1>2, <1>3, <1>5 DEF EtherControl, OthersRest
<1>9. Chained(d, k)' /\ EtherWakes(k)'
  <2>1. CASE Ether!Fetch
    <3>1. dma' = "moving" /\ status' = status
      BY <2>1 DEF Ether!Fetch
    <3>2. EtherWakes(k)'
      BY <1>2, <1>3, <1>5, <3>1 DEF EtherWakes, Unavailable, OthersRest
    <3> QED BY <1>2, <2>1, <3>2, FetchKeepsChain
  <2>2. CASE Ether!Suspend
    <3>1. status' = status \cup {"unavail"}
      BY <2>2 DEF Ether!Suspend
    <3>2. Chained(d, k)' /\ k = Len(active)
      BY <1>2, <2>2, SuspendKeepsChain
    <3>3. own = {}
      <4>1. own = {d[i] : i \in k + 1 .. k} /\ k \in Nat
        BY <1>2, <3>2 DEF Chained, Device
      <4> QED BY <4>1
    <3>4. EtherWakes(k)'
      BY <1>2, <1>3, <1>5, <3>1, <3>3 DEF EtherWakes, Unavailable, OthersRest
    <3> QED BY <3>2, <3>4
  <2> QED BY <2>1, <2>2
<1>10. EtherAt(d, k)'
  BY <1>2, <1>7, <1>9 DEF EtherAt
<1> QED BY <1>4, <1>6, <1>8, <1>10 DEF EtherInv

LEMMA FrameMovedStep ==
  ASSUME NEW b \in Ether!Buffers, EtherInv, Ether!FrameMoved(b)
  PROVE  EtherInv'
<1>1. PICK d, k : EtherAt(d, k)
  BY DEF EtherInv
<1>2. EtherTypes /\ Listed(d) /\ Chained(d, k) /\ FramesAt(k) /\ EtherWakes(k) /\ EtherControl
  BY <1>1 DEF EtherInv, EtherAt
<1>3. /\ Ether!Moved(b)
      /\ UNCHANGED <<list, walk, etherAt, call, txPktHead, txPktTail, held, lost>>
  BY DEF Ether!FrameMoved, Ether!worker, Ether!request
<1>4. UNCHANGED <<flow, queued, pending, active, desc, numAvail, nextDesc, isr, isrStatus>>
      /\ dma' = "running" /\ status' = status \cup {"done"}
  BY <1>3 DEF Ether!Moved, Ether!queues, Ether!descs
<1>5. k < Len(active) /\ b = active[k + 1] /\ Chained(d, k + 1)' /\ k \in Nat
  BY <1>2, <1>3, MovedKeepsChain DEF Chained, Device
<1>6. PICK s, m : s = Ether!Places /\ m = Len(walk) + Len(list) + k /\ EtherFrames(s, m)
  BY <1>2 DEF FramesAt
<1>7. m < Len(s) /\ s[m + 1] = b
  BY <1>2, <1>5, <1>6, PlaceOfActive
<1>8. flow = "tx" => Ether!See(b)
  BY DEF Ether!FrameMoved
<1>9. flow = "rx" => passing' = Append(passing, b)
  BY DEF Ether!FrameMoved
<1>10. flow = "tx" => passing' = Tail(passing)
  BY <1>8 DEF Ether!See
<1>11. EtherFrames(s, m + 1)' /\ (flow = "tx" => Head(passing) = b)
  <2>1. flow = "rx" => passing' = Append(passing, s[m + 1])
    BY <1>7, <1>9
  <2> QED BY <1>2, <1>3, <1>4, <1>6, <1>7, <1>10, <2>1, FrameHasMoved
<1>12. EtherTypes'
  <2>1. passing' \in Seq(Ether!Buffers)
    <3>1. CASE flow = "rx"
      <4>1. passing \in Seq(Ether!Buffers) /\ passing' = Append(passing, b)
        BY <1>2, <1>9, <3>1 DEF EtherTypes
      <4> QED BY <4>1, AppendProperties
    <3>2. CASE flow = "tx"
      <4>1. PICK l, p \in Nat : l = Len(s) /\ p = Len(passing)
        BY <1>2, <1>6, LenProperties DEF EtherFrames, EtherTypes
      <4>2. m + p = l /\ m < l /\ m \in Nat
        BY <1>6, <1>7, <3>2, <4>1 DEF EtherFrames, Sent
      <4>3. passing # <<>>
        <5> SUFFICES ASSUME passing = <<>> PROVE FALSE
          OBVIOUS
        <5>1. p = 0
          BY <4>1
        <5> QED BY <4>2, <5>1
      <4>4. passing \in Seq(Ether!Buffers) /\ passing' = Tail(passing)
        BY <1>2, <1>10, <3>2 DEF EtherTypes
      <4> QED BY <4>3, <4>4, HeadTailProperties
    <3> QED BY <1>2, <3>1, <3>2 DEF EtherTypes
  <2> QED BY <1>2, <1>3, <1>4, <2>1 DEF EtherTypes
<1>13. FramesAt(k + 1)'
  <2>1. PICK n : n = m + 1
    OBVIOUS
  <2>2. EtherFrames(s, n)'
    BY <1>11, <2>1 DEF EtherFrames, Received, Sent
  <2>3. Ether!Places' = Ether!Places
    BY <1>3, <1>4 DEF Ether!Places
  <2>4. n = Len(walk') + Len(list') + (k + 1)
    <3>1. Len(walk) \in Nat /\ Len(list) \in Nat
      BY <1>2, LenProperties DEF EtherTypes
    <3> QED BY <1>3, <1>5, <1>6, <2>1, <3>1
  <2> QED BY <1>6, <2>2, <2>3, <2>4 DEF FramesAt
<1>14. EtherWakes(k + 1)'
  BY <1>2, <1>3, <1>4 DEF EtherWakes, Unavailable
<1>15. EtherControl'
  BY <1>2, <1>3, <1>4 DEF EtherControl
<1>16. Attended'
  <2>1. UNCHANGED list /\ UNCHANGED posted /\ UNCHANGED etherAt
    BY DEF Ether!FrameMoved, Ether!worker
  <2> QED BY <2>1, Zenon DEF EtherInv, Attended
<1>17. ~misplaced'
  <2>1. CASE flow = "rx"
    <3>1. UNCHANGED misplaced
      BY <2>1 DEF Ether!FrameMoved
    <3> QED BY <3>1, Zenon DEF EtherInv
  <2>2. CASE flow = "tx"
    BY <1>8, <1>11, <2>2, SeenInOrder
  <2> QED BY <1>2, <2>1, <2>2 DEF EtherTypes
<1>18. EtherAt(d, k + 1)'
  BY <1>2, <1>5, <1>13, <1>14 DEF EtherAt
<1> QED BY <1>12, <1>15, <1>16, <1>17, <1>18 DEF EtherInv

LEMMA EtherRest == EtherInv /\ UNCHANGED etherVars => EtherInv'
<1> SUFFICES ASSUME EtherInv, UNCHANGED etherVars PROVE EtherInv'
  OBVIOUS
<1>1. PICK d, k : EtherAt(d, k)
  BY DEF EtherInv
<1>2. EtherTypes /\ Listed(d) /\ Chained(d, k) /\ FramesAt(k) /\ EtherWakes(k) /\ EtherControl
  BY <1>1 DEF EtherInv, EtherAt
<1>3. /\ GemacRests
      /\ UNCHANGED <<list, walk, etherAt, call, txPktHead, txPktTail, held, lost, passing>>
  BY DEF etherVars, GemacRests
<1>4. UNCHANGED list /\ UNCHANGED posted /\ UNCHANGED misplaced
  BY DEF etherVars
<1>5. EtherTypes' /\ Ether!Places' = Ether!Places
  BY <1>2, <1>3 DEF EtherTypes, GemacRests, Ether!Places
<1>6. FramesAt(k)'
  <2>1. FramesRest
    BY <1>3 DEF FramesRest, GemacRests
  <2> QED BY <1>2, <1>3, <1>5, <2>1, FramesAtStay
<1>7. Chained(d, k)' /\ EtherWakes(k)'
  BY <1>2, <1>3, RestKeepsChain, RestKeepsWakes
<1>8. EtherControl'
  BY <1>2, <1>3 DEF EtherControl, GemacRests
<1>9. Attended' /\ ~misplaced'
  BY <1>3, <1>4, AttentionStays
<1>10. EtherAt(d, k)'
  BY <1>2, <1>6, <1>7 DEF EtherAt
<1> QED BY <1>5, <1>8, <1>9, <1>10 DEF EtherInv

LEMMA EtherInvStep == EtherInv /\ [PartsNext]_all => EtherInv'
<1> SUFFICES ASSUME EtherInv, [PartsNext]_all PROVE EtherInv'
  OBVIOUS
<1>1. Ether!EtherNext \/ UNCHANGED etherVars
  BY DEF PartsNext, StreamStep, FilesStep, LogStep, SerialStep, TwiStep, UsbStep, EtherStep, Still,
     all
<1>2. CASE UNCHANGED etherVars
  BY <1>2, EtherRest
<1>3. CASE Ether!Driver
  <2>1. \/ Ether!Bind \/ Ether!Activate \/ Ether!Resume
        \/ Ether!tx_frame \/ Ether!tx_frame_sent \/ Ether!pbuf_free
    BY <1>3 DEF Ether!Driver
  <2> QED BY <2>1, BindStep, ActivateStep, ResumeStep, WriteStep, WrittenStep, FreeStep
<1>4. CASE Ether!Worker
  <2>1. \/ Ether!FetchEvent \/ Ether!TakeList \/ Ether!EndOfList \/ Ether!AdvanceTail \/ Ether!ReadLink
        \/ Ether!HandOver \/ Ether!HandBack \/ Ether!p1722_frame
    BY <1>4 DEF Ether!Worker
  <2> QED BY <2>1, WorkerMovesOn, AdvanceTailStep, ReadLinkStep, TakenStep, HandBackStep
<1>5. CASE Ether!Interrupt
  BY <1>5, EnterStep, ProcessStep, TransferStep DEF Ether!Interrupt
<1>6. CASE Ether!PhyInterrupt
  BY <1>6, LinkStep
<1>7. CASE Ether!Controller
  BY <1>7, LookStepEther, FrameMovedStep DEF Ether!Controller
<1> QED BY <1>1, <1>2, <1>3, <1>4, <1>5, <1>6, <1>7 DEF Ether!EtherNext

\* The first n buffers are active, the others the driver has are queued.
LEMMA FirstBuffers ==
  ASSUME NEW n \in Nat, NEW h \in Nat, n <= h, h <= NumBuffers,
         active = [i \in 1 .. n |-> i - 1], queued = [i \in 1 .. h - n |-> n + i - 1],
         walk = <<>>, list = <<>>, pending = <<>>
  PROVE  /\ active \in Seq(Ether!Buffers) /\ Len(active) = n
         /\ queued \in Seq(Ether!Buffers)
         /\ Ether!Places = [i \in 1 .. h |-> i - 1]
<1>1. active \in Seq(Ether!Buffers) /\ Len(active) = n
  BY EtherConstants
<1>2. queued \in Seq(Ether!Buffers) /\ Len(queued) = h - n
  BY EtherConstants
<1>3. Ether!Places = active \o queued
  <2>1. walk \o list = <<>>
    OBVIOUS
  <2>2. walk \o list \o active = active
    BY <1>1, <2>1
  <2>3. walk \o list \o active \o pending = active
    BY <1>1, <2>2
  <2> QED BY <2>3 DEF Ether!Places
<1>4. /\ active \o queued \in Seq(Ether!Buffers) /\ Len(active \o queued) = h
      /\ \A i \in 1 .. h : (active \o queued)[i] = i - 1
  BY <1>1, <1>2
<1>5. active \o queued = [i \in 1 .. h |-> i - 1]
  <2> DEFINE s == active \o queued
             t == [i \in 1 .. h |-> i - 1]
  <2>1. t \in Seq(Ether!Buffers) /\ Len(t) = h /\ \A i \in 1 .. h : t[i] = i - 1
    BY EtherConstants
  <2>2. s \in Seq(Ether!Buffers) /\ Len(s) = h /\ \A i \in 1 .. h : s[i] = i - 1
    BY <1>4
  <2> HIDE DEF s, t
  <2> QED BY <2>1, <2>2, SeqEqual
<1> QED BY <1>1, <1>2, <1>3, <1>5

LEMMA EtherInvInit == PartsInit => EtherInv
<1> SUFFICES ASSUME PartsInit PROVE EtherInv
  OBVIOUS
<1>1. Ether!EtherInit
  BY DEF PartsInit
<1>2. PICK h : h = (IF flow = "rx" THEN NumBuffers ELSE 0)
  OBVIOUS
<1>3. PICK n : n = Ether!Fewer(NumDesc - 1, h)
  OBVIOUS
<1>4. n \in Nat /\ h \in Nat /\ n <= h /\ h <= NumBuffers /\ n <= NumDesc - 1
  BY <1>2, <1>3, EtherConstants DEF Ether!Fewer
<1>5. /\ queued = [i \in 1 .. h - n |-> n + i - 1] /\ pending = <<>>
      /\ active = [i \in 1 .. n |-> i - 1]
      /\ desc = [b \in Ether!Buffers |-> IF b < n THEN b + 1 ELSE 0]
      /\ descHead = n + 1 /\ descTail = NumDesc /\ numAvail = NumDesc - n
      /\ nextDesc = [e \in 0 .. NumDesc |-> IF e \in 1 .. NumDesc - 1 THEN e + 1 ELSE 0]
      /\ own = 1 .. n /\ dma = "running" /\ cur = 1 /\ status = {} /\ isr = "off"
  BY <1>1, <1>2, <1>3, EtherConstants DEF Ether!EtherInit, Ether!GemacInit
<1>6. /\ flow \in {"rx", "tx"} /\ call = "none" /\ txPktHead = 0 /\ txPktTail = 0
      /\ list = <<>> /\ etherAt = "wait" /\ walk = <<>>
      /\ held = {} /\ lost = {} /\ passing = <<>>
  BY <1>1 DEF Ether!EtherInit
<1>7. /\ active \in Seq(Ether!Buffers) /\ Len(active) = n
      /\ queued \in Seq(Ether!Buffers)
      /\ Ether!Places = [i \in 1 .. h |-> i - 1]
  BY <1>4, <1>5, <1>6, FirstBuffers
<1>8. EtherTypes
  <2>1. desc \in [Ether!Buffers -> 0 .. NumDesc]
    BY <1>4, <1>5, EtherConstants
  <2>2. nextDesc \in [0 .. NumDesc -> 0 .. NumDesc]
    BY <1>5, EtherConstants
  <2>3. 0 \in Ether!Buffers
    BY EtherConstants
  <2>4. <<>> \in Seq(Ether!Buffers)
    OBVIOUS
  <2> QED BY <1>5, <1>6, <1>7, <2>1, <2>2, <2>3, <2>4 DEF EtherTypes
<1>9. EtherControl
  BY <1>6 DEF EtherControl
<1>10. Attended
  BY <1>6 DEF Attended
<1>11. ~misplaced
  <2>1. misplaced = FALSE
    BY <1>1 DEF Ether!EtherInit
  <2> QED BY <2>1, Zenon
<1> DEFINE d == [i \in 1 .. NumDesc |-> i]
<1>12. Listed(d)
  BY EtherConstants DEF Listed
<1>13. Chained(d, 0)
  <2>1. Links(d)
    BY <1>5, EtherConstants DEF Links
  <2>2. Bound(d, 0, active)
    <3> SUFFICES ASSUME NEW i \in 1 .. Len(active) PROVE desc[active[i]] = d[0 + i]
      BY DEF Bound
    <3>1. i \in 1 .. n /\ active[i] = i - 1 /\ i - 1 \in Ether!Buffers
      BY <1>4, <1>5, <1>7, EtherConstants
    <3>2. desc[i - 1] = i
      <4>1. i - 1 < n /\ i - 1 + 1 = i
        BY <1>4, <3>1
      <4> QED BY <1>5, <3>1, <4>1
    <3>3. d[0 + i] = i
      BY <1>4, <3>1, EtherConstants
    <3> QED BY <3>1, <3>2, <3>3
  <2>3. Bounds(d)
    <3>1. Len(pending) = 0
      BY <1>5
    <3>2. Bound(d, Len(active), pending)
      BY <3>1 DEF Bound
    <3>3. d[Len(active) + Len(pending) + 1] = n + 1 /\ d[NumDesc] = NumDesc
      BY <1>4, <1>7, <3>1, EtherConstants
    <3>4. numAvail = NumDesc - Len(active) - Len(pending) /\ numAvail >= 1
      BY <1>4, <1>5, <1>7, <3>1, EtherConstants
    <3> QED BY <1>5, <2>2, <3>2, <3>3, <3>4 DEF Bounds
  <2>4. Device(d, 0)
    <3>1. \A i \in 1 .. n : d[i] = i
      BY <1>4, EtherConstants
    <3>2. d[0 + 1] = 1
      BY EtherConstants
    <3> HIDE DEF d
    <3>3. own = {d[i] : i \in 0 + 1 .. Len(active)}
      <4>1. 0 + 1 = 1 /\ Len(active) = n
        BY <1>7
      <4> QED BY <1>5, <3>1, <4>1
    <3>4. Len(active) \in Nat /\ 0 <= Len(active)
      BY <1>4, <1>7
    <3> QED BY <1>5, <3>2, <3>3, <3>4 DEF Device
  <2> QED BY <2>1, <2>3, <2>4 DEF Chained
<1>14. FramesAt(0)
  <2>1. PICK s : s = Ether!Places
    OBVIOUS
  <2>2. s \in Seq(Ether!Buffers) /\ Len(s) = h /\ \A i \in 1 .. h : s[i] = i - 1
    BY <1>4, <1>7, <2>1, EtherConstants
  <2>3. Len(passing) = 0
    BY <1>6
  <2>4. flow = "rx" => Received(s, 0)
    <3> SUFFICES ASSUME flow = "rx" PROVE Received(s, 0)
      OBVIOUS
    <3>1. \A b \in Ether!Buffers : \E i \in 1 .. Len(s) : s[i] = b
      <4> SUFFICES ASSUME NEW b \in Ether!Buffers PROVE \E i \in 1 .. Len(s) : s[i] = b
        OBVIOUS
      <4>1. PICK j \in 1 .. h : j - 1 = b
        <5>1. b \in Int /\ b + 1 \in 1 .. h /\ (b + 1) - 1 = b
          BY <1>2, EtherConstants
        <5> QED BY <5>1
      <4> QED BY <2>2, <4>1
    <3>2. OneEach(s)
      BY <2>2 DEF OneEach
    <3>3. In(s, 0, passing)
      BY <1>4, <2>2, <2>3 DEF In
    <3> QED BY <1>6, <2>3, <3>1, <3>2, <3>3 DEF Received
  <2>5. flow = "tx" => Sent(s, 0)
    <3> SUFFICES ASSUME flow = "tx" PROVE Sent(s, 0)
      OBVIOUS
    <3>1. h = 0
      BY <1>2
    <3>2. Behind1 = 0 /\ Eldest = 0
      BY <1>6 DEF Behind1, Eldest
    <3>3. RingSlot(0 + 0) = 0
      BY EtherConstants DEF RingSlot
    <3>4. In(s, 0, passing)
      BY <2>2, <2>3, <3>1 DEF In
    <3> QED BY <1>6, <2>2, <2>3, <3>1, <3>2, <3>3, <3>4, EtherConstants DEF Sent
  <2>6. EtherFrames(s, 0)
    BY <1>4, <2>2, <2>4, <2>5 DEF EtherFrames
  <2>7. Len(walk) + Len(list) + 0 = 0
    BY <1>6
  <2> QED BY <2>1, <2>6, <2>7 DEF FramesAt
<1>15. EtherWakes(0)
  BY <1>5, <1>6 DEF EtherWakes
<1> HIDE DEF d
<1>16. EtherAt(d, 0)
  BY <1>12, <1>13, <1>14, <1>15 DEF EtherAt
<1> QED BY <1>8, <1>9, <1>10, <1>11, <1>16 DEF EtherInv

-----------------------------------------------------------------------------
(* What the invariant says of the frames                                   *)

LEMMA ValuesCount ==
  ASSUME NEW T, NEW s \in Seq(T), OneEach(s)
  PROVE  Cardinality({s[i] : i \in DOMAIN s}) = Len(s)
<1> DEFINE B == {s[i] : i \in 1 .. Len(s)}
<1>1. s \in Bijection(1 .. Len(s), B)
  <2>1. s \in [1 .. Len(s) -> B]
    BY SeqDef
  <2>2. \A i, j \in 1 .. Len(s) : s[i] = s[j] => i = j
    BY DEF OneEach
  <2>3. \A b \in B : \E i \in 1 .. Len(s) : s[i] = b
    OBVIOUS
  <2> HIDE DEF B
  <2> QED BY <2>1, <2>2, <2>3 DEF Bijection, Injection, IsInjective, Surjection
<1>2. Len(s) \in Nat /\ DOMAIN s = 1 .. Len(s)
  OBVIOUS
<1>3. IsFiniteSet(1 .. Len(s)) /\ Cardinality(1 .. Len(s)) = Len(s)
  BY <1>2, FS_Interval
<1> HIDE DEF B
<1>4. ExistsBijection(1 .. Len(s), B)
  BY <1>1 DEF ExistsBijection
<1>5. Cardinality(B) = Len(s)
  BY <1>3, <1>4, FS_Bijection
<1> QED BY <1>2, <1>5 DEF B

LEMMA SameNumber ==
  ASSUME NEW S
  PROVE  Ether!Cardinality(S) = Cardinality(S)
BY Zenon DEF Cardinality, Ether!Cardinality

LEMMA PlacesAreOne == EtherInv => Ether!OnePlace
<1> SUFFICES ASSUME EtherInv PROVE Ether!OnePlace
  OBVIOUS
<1>1. PICK d, k : EtherAt(d, k)
  BY DEF EtherInv
<1>2. PICK s, m : s = Ether!Places /\ EtherFrames(s, m)
  BY <1>1 DEF EtherAt, FramesAt
<1>3. EtherTypes
  BY DEF EtherInv
<1>4. s \in Seq(Ether!Buffers) /\ OneEach(s) /\ \A i \in 1 .. Len(s) : s[i] \notin held
         /\ s[i] \notin lost
  BY <1>2, <1>3, EachOnce DEF EtherFrames
<1>5. DOMAIN s = 1 .. Len(s)
  BY <1>4
<1>6. Cardinality({s[i] : i \in DOMAIN s}) = Len(s)
  BY <1>4, ValuesCount
<1>7. {s[i] : i \in DOMAIN s} \cap (held \cup lost) = {}
  BY <1>4, <1>5
<1>8. held \cap lost = {}
  BY <1>2, <1>3 DEF EtherFrames, Received, Sent, EtherTypes
<1>9. flow = "rx" => {s[i] : i \in DOMAIN s} \cup (held \cup lost) = Ether!Buffers
  <2> SUFFICES ASSUME flow = "rx" PROVE {s[i] : i \in DOMAIN s} \cup (held \cup lost) = Ether!Buffers
    OBVIOUS
  <2>1. \A b \in Ether!Buffers : b \in held \/ b \in lost \/ \E i \in 1 .. Len(s) : s[i] = b
    BY <1>2 DEF EtherFrames, Received
  <2>2. \A i \in 1 .. Len(s) : s[i] \in Ether!Buffers
    BY <1>4
  <2> QED BY <1>3, <1>5, <2>1, <2>2 DEF EtherTypes
<1>10. /\ Cardinality({Ether!Places[i] : i \in DOMAIN Ether!Places}) = Len(Ether!Places)
       /\ {Ether!Places[i] : i \in DOMAIN Ether!Places} \cap (held \cup lost) = {}
       /\ flow = "rx" => {Ether!Places[i] : i \in DOMAIN Ether!Places} \cup (held \cup lost) = Ether!Buffers
  BY <1>2, <1>6, <1>7, <1>9, Zenon
<1> QED BY <1>8, <1>10, SameNumber DEF Ether!OnePlace

LEMMA NextIsFound == EtherInv => cur = Ether!NextUsed
<1> SUFFICES ASSUME EtherInv PROVE cur = Ether!NextUsed
  OBVIOUS
<1>1. PICK d, k : EtherAt(d, k)
  BY DEF EtherInv
<1>2. EtherTypes /\ Listed(d) /\ Bounds(d) /\ Device(d, k)
  BY <1>1 DEF EtherInv, EtherAt, Chained
<1>3. PICK la, lp \in Nat : la = Len(active) /\ lp = Len(pending)
  BY <1>2, LenProperties DEF EtherTypes
<1>4. k \in Nat /\ k <= la /\ la + lp + 1 <= NumDesc
  BY <1>2, <1>3, EtherConstants DEF Device, Bounds
<1>5. DOMAIN active = 1 .. la
  BY <1>2, <1>3 DEF EtherTypes
<1>6. \A i \in 1 .. la : desc[active[i]] = d[i] /\ i \in 1 .. NumDesc
  <2>1. \A i \in 1 .. la : desc[active[i]] = d[0 + i]
    BY <1>2, <1>3 DEF Bounds, Bound
  <2>2. \A i \in 1 .. la : 0 + i = i /\ i \in 1 .. NumDesc
    BY <1>4, EtherConstants
  <2> QED BY <2>1, <2>2
<1>7. own = {d[i] : i \in k + 1 .. la} /\ cur = d[k + 1]
  BY <1>2, <1>3 DEF Device
<1> DEFINE owned == {i \in DOMAIN active : desc[active[i]] \in own}
<1>8. owned = k + 1 .. la
  <2>1. \A i \in 1 .. la : d[i] \in own <=> i \in k + 1 .. la
    <3> SUFFICES ASSUME NEW i \in 1 .. la, d[i] \in own PROVE i \in k + 1 .. la
      BY <1>7
    <3>1. PICK j \in k + 1 .. la : d[i] = d[j]
      BY <1>7
    <3>2. i \in 1 .. NumDesc /\ j \in 1 .. NumDesc
      BY <1>4, <3>1, EtherConstants
    <3>3. i = j
      BY <1>2, <3>1, <3>2 DEF Listed
    <3> QED BY <3>1, <3>3
  <2>2. \A i \in k + 1 .. la : i \in 1 .. la
    BY <1>4
  <2> QED BY <1>5, <1>6, <2>1, <2>2
<1> HIDE DEF owned
<1>9. CASE k < la
  <2> DEFINE Foremost(i) == i \in owned /\ \A j \in owned : i <= j
  <2>1. \A i : Foremost(i) <=> i = k + 1
    BY <1>3, <1>4, <1>8, <1>9
  <2>2. (CHOOSE i : Foremost(i)) = k + 1
    <3> HIDE DEF Foremost
    <3> QED BY <2>1
  <2>3. (CHOOSE i \in owned : \A j \in owned : i <= j) = k + 1
    BY <2>2
  <2>4. k + 1 \in owned /\ k + 1 \in 1 .. la
    BY <1>3, <1>4, <1>8, <1>9
  <2>5. Ether!NextUsed = desc[active[k + 1]]
    BY <2>3, <2>4 DEF Ether!NextUsed, owned
  <2> QED BY <1>6, <1>7, <2>4, <2>5
<1>10. CASE k = la /\ lp > 0
  <2>1. owned = {}
    BY <1>3, <1>8, <1>10
  <2>2. pending # <<>> /\ Head(pending) = pending[1]
    BY <1>2, <1>3, <1>10 DEF EtherTypes
  <2>3. desc[pending[1]] = d[la + 1]
    BY <1>2, <1>3, <1>10 DEF Bounds, Bound
  <2>4. Ether!NextUsed = desc[Head(pending)]
    BY <2>1, <2>2 DEF Ether!NextUsed, owned
  <2> QED BY <1>7, <1>10, <2>2, <2>3, <2>4
<1>11. CASE k = la /\ lp = 0
  <2>1. owned = {}
    BY <1>3, <1>8, <1>11
  <2>2. pending = <<>>
    BY <1>2, <1>3, <1>11, EmptySeq DEF EtherTypes
  <2>3. descHead = d[la + lp + 1] /\ la + lp + 1 = k + 1
    BY <1>2, <1>3, <1>11 DEF Bounds
  <2>4. Ether!NextUsed = descHead
    BY <2>1, <2>2 DEF Ether!NextUsed, owned
  <2> QED BY <1>7, <2>3, <2>4
<1> QED BY <1>3, <1>4, <1>9, <1>10, <1>11

LEMMA NothingStays == EtherInv => Ether!NothingForgotten
<1> SUFFICES ASSUME EtherInv, Ether!Quiet PROVE own = {} /\ active = <<>> /\ Ether!NothingWaits
  BY DEF Ether!NothingForgotten
<1>1. PICK d, k : EtherAt(d, k)
  BY DEF EtherInv
<1>2. EtherTypes /\ Bounds(d) /\ Device(d, k) /\ EtherWakes(k)
  BY <1>1 DEF EtherInv, EtherAt, Chained
<1>3. call \in {"none", "head"} /\ isr = "off" /\ status = {} /\ dma = "suspended"
  BY DEF Ether!Quiet
<1>4. own = {} /\ ~(k > 0) /\ pending = <<>> /\ (queued = <<>> \/ ~(numAvail > 1))
  BY <1>2, <1>3 DEF EtherWakes, Unavailable
<1>5. PICK la, lp \in Nat : la = Len(active) /\ lp = Len(pending)
  BY <1>2, LenProperties DEF EtherTypes
<1>6. k = 0 /\ own = {d[i] : i \in 1 .. la}
  BY <1>2, <1>4, <1>5 DEF Device
<1>7. la = 0
  <2>1. la > 0 => d[1] \in own
    BY <1>5, <1>6
  <2> QED BY <1>4, <1>5, <2>1
<1>8. active = <<>>
  BY <1>2, <1>5, <1>7, EmptySeq DEF EtherTypes
<1>9. numAvail = NumDesc - la - lp
  BY <1>2, <1>5 DEF Bounds
<1>10. queued = <<>> \/ numAvail <= 1
  BY <1>4, <1>5, <1>9, EtherConstants
<1> QED BY <1>4, <1>8, <1>10 DEF Ether!NothingWaits

LEMMA EtherInvKeeps == EtherInv => FramesKept
<1> SUFFICES ASSUME EtherInv PROVE Ether!FramesKept
  BY DEF FramesKept
<1>1. Ether!OnePlace /\ cur = Ether!NextUsed /\ Ether!NothingForgotten
  BY PlacesAreOne, NextIsFound, NothingStays
<1>2. (list # <<>> => posted \/ etherAt = "take") /\ ~misplaced
  BY Zenon DEF EtherInv, Attended
<1> QED BY <1>1, <1>2, Zenon DEF Ether!FramesKept

\* Every Ethernet frame goes through, in order, in a buffer of its own: no
\* buffer is in two places, the controller looks at the next descriptor to be
\* used, and no wake-up is lost (adi_gemac.c, lwip_adi_ether_netif.c).
THEOREM FramesAreKept == PartsSpec => []FramesKept
<1>1. PartsInit => EtherInv
  BY EtherInvInit
<1>2. EtherInv /\ [PartsNext]_all => EtherInv'
  BY EtherInvStep
<1>3. EtherInv => FramesKept
  BY EtherInvKeeps
<1> QED BY <1>1, <1>2, <1>3, PTL DEF PartsSpec

-----------------------------------------------------------------------------
(* The types of the Ethernet interface's variables *)

EtherFlags == linkUp \in BOOLEAN /\ posted \in BOOLEAN /\ misplaced \in BOOLEAN

EtherPlaces ==
  /\ isr \in {"off", "process", "bind", "activate", "resume"}
  /\ call \in {"none", "bind", "activate", "resume", "head"}
  /\ etherAt \in {"wait", "take", "walk", "next", "call"}

EtherDevice ==
  /\ dma \in {"running", "moving", "suspended"} /\ fetched \in 0 .. NumDesc
  /\ status \subseteq {"done", "unavail"} /\ isrStatus \subseteq {"done", "unavail"}

EtherFields == EtherFlags /\ EtherPlaces /\ EtherDevice

LEMMA EtherFieldsInit == PartsInit => EtherFields
<1> SUFFICES ASSUME Ether!EtherInit PROVE EtherFields
  BY DEF PartsInit
<1>1. EtherFlags
  BY Zenon DEF Ether!EtherInit, EtherFlags
<1>2. EtherPlaces
  BY DEF Ether!EtherInit, Ether!GemacInit, EtherPlaces
<1>3. EtherDevice
  BY EtherConstants DEF Ether!EtherInit, Ether!GemacInit, EtherDevice
<1> QED BY <1>1, <1>2, <1>3 DEF EtherFields

LEMMA FlagsStayFlags ==
  ASSUME EtherFlags, Ether!EtherNext
  PROVE  EtherFlags'
<1>1. linkUp' \in BOOLEAN
  BY Zenon DEF EtherFlags, Ether!EtherNext, Ether!Driver, Ether!Worker, Ether!Interrupt, Ether!PhyInterrupt,
     Ether!Controller, Ether!FrameMoved, Ether!Bind, Ether!Activate, Ether!Resume, Ether!tx_frame,
     Ether!tx_frame_sent, Ether!pbuf_free, Ether!Unwritten, Ether!request, Ether!FetchEvent, Ether!TakeList,
     Ether!EndOfList, Ether!AdvanceTail, Ether!ReadLink, Ether!HandOver, Ether!HandBack, Ether!p1722_frame,
     Ether!ProcessInt
<1>2. posted' \in BOOLEAN
  BY Zenon DEF EtherFlags, Ether!EtherNext, Ether!Driver, Ether!Worker, Ether!Interrupt, Ether!PhyInterrupt,
     Ether!Controller, Ether!FrameMoved, Ether!Bind, Ether!Activate, Ether!Resume, Ether!Return, Ether!tx_frame,
     Ether!tx_frame_sent, Ether!pbuf_free, Ether!worker, Ether!FetchEvent, Ether!TakeList,
     Ether!EndOfList, Ether!AdvanceTail, Ether!ReadLink, Ether!HandOver, Ether!HandBack, Ether!p1722_frame,
     Ether!ProcessInt
<1>3. misplaced' \in BOOLEAN
  BY Zenon DEF EtherFlags, Ether!EtherNext, Ether!Driver, Ether!Worker, Ether!Interrupt, Ether!PhyInterrupt,
     Ether!Controller, Ether!FrameMoved, Ether!See, Ether!Bind, Ether!Activate, Ether!Resume, Ether!tx_frame,
     Ether!tx_frame_sent, Ether!pbuf_free, Ether!frames, Ether!FetchEvent, Ether!TakeList,
     Ether!EndOfList, Ether!AdvanceTail, Ether!ReadLink, Ether!HandOver, Ether!HandBack, Ether!p1722_frame,
     Ether!ProcessInt
<1> QED BY <1>1, <1>2, <1>3 DEF EtherFlags

\* What the order of the descriptors says of the driver's and the controller's.
LEMMA ChainTyped ==
  ASSUME EtherInv
  PROVE  /\ descHead \in 1 .. NumDesc /\ descTail \in 1 .. NumDesc /\ numAvail \in 1 .. NumDesc
         /\ own \subseteq 1 .. NumDesc /\ cur \in 1 .. NumDesc
<1>1. PICK d, k : EtherAt(d, k)
  BY DEF EtherInv
<1>2. EtherTypes /\ Listed(d) /\ Bounds(d) /\ Device(d, k)
  BY <1>1 DEF EtherInv, EtherAt, Chained
<1>3. PICK la, lp \in Nat : la = Len(active) /\ lp = Len(pending)
  BY <1>2, LenProperties DEF EtherTypes
<1>4. k \in Nat /\ k <= la /\ la + lp + 1 <= NumDesc /\ NumDesc \in Nat /\ numAvail = NumDesc - la - lp
      /\ numAvail >= 1
  BY <1>2, <1>3, EtherConstants DEF Device, Bounds
<1>5. \A i \in 1 .. NumDesc : d[i] \in 1 .. NumDesc
  BY <1>2 DEF Listed
<1>6. k + 1 \in 1 .. NumDesc /\ la + lp + 1 \in 1 .. NumDesc /\ NumDesc \in 1 .. NumDesc
      /\ \A i \in k + 1 .. la : i \in 1 .. NumDesc
  BY <1>4
<1>7. descHead = d[la + lp + 1] /\ descTail = d[NumDesc] /\ own = {d[i] : i \in k + 1 .. la} /\ cur = d[k + 1]
  BY <1>2, <1>3 DEF Bounds, Device
<1>8. numAvail \in 1 .. NumDesc
  BY <1>4
<1>9. own \subseteq 1 .. NumDesc
  BY <1>5, <1>6, <1>7
<1> QED BY <1>5, <1>6, <1>7, <1>8, <1>9

LEMMA TasksKeepEtherFields ==
  ASSUME EtherFields, EtherFlags', Ether!Driver \/ Ether!Worker \/ Ether!PhyInterrupt
  PROVE  EtherFields'
<1> USE DEF EtherFields, Ether!gemac, Ether!device
<1>1. CASE Ether!Bind
  BY <1>1 DEF Ether!Bind, Ether!worker, EtherPlaces, EtherDevice
<1>2. CASE Ether!Activate
  BY <1>2 DEF Ether!Activate, Ether!Return, Ether!worker, EtherPlaces, EtherDevice
<1>3. CASE Ether!Resume
  BY <1>3 DEF Ether!Resume, Ether!resume, Ether!Return, EtherPlaces, EtherDevice
<1>4. CASE Ether!tx_frame
  BY <1>4 DEF Ether!tx_frame, Ether!insert_queue, Ether!worker, EtherPlaces, EtherDevice
<1>5. CASE Ether!tx_frame_sent
  BY <1>5 DEF Ether!tx_frame_sent, Ether!worker, EtherPlaces, EtherDevice
<1>6. CASE Ether!pbuf_free
  BY <1>6 DEF Ether!pbuf_free, Ether!insert_queue, Ether!worker, EtherPlaces, EtherDevice
<1>7. CASE Ether!FetchEvent \/ Ether!TakeList \/ Ether!EndOfList \/ Ether!ReadLink
  BY <1>7 DEF Ether!FetchEvent, Ether!TakeList, Ether!EndOfList, Ether!ReadLink, Ether!request, EtherPlaces,
     EtherDevice
<1>8. CASE Ether!AdvanceTail
  BY <1>8 DEF Ether!AdvanceTail, EtherPlaces, EtherDevice
<1>9. CASE Ether!HandOver \/ Ether!p1722_frame
  BY <1>9 DEF Ether!HandOver, Ether!p1722_frame, Ether!request, EtherPlaces, EtherDevice
<1>10. CASE Ether!HandBack
  BY <1>10 DEF Ether!HandBack, Ether!insert_queue, EtherPlaces, EtherDevice
<1>11. CASE Ether!PhyInterrupt
  BY <1>11 DEF Ether!PhyInterrupt, Ether!worker, EtherPlaces, EtherDevice
<1> QED BY <1>1, <1>2, <1>3, <1>4, <1>5, <1>6, <1>7, <1>8, <1>9, <1>10, <1>11 DEF Ether!Driver, Ether!Worker

LEMMA DevicesKeepEtherFields ==
  ASSUME EtherInv, EtherFields, EtherFlags', Ether!Interrupt \/ Ether!Controller
  PROVE  EtherFields'
<1> USE DEF EtherFields, Ether!worker, Ether!request
<1>1. CASE Ether!EnterInterrupt /\ UNCHANGED <<Ether!worker, Ether!request>>
  BY <1>1 DEF Ether!EnterInterrupt, EtherPlaces, EtherDevice
<1>2. CASE Ether!ProcessInt
  BY <1>2 DEF Ether!ProcessInt, Ether!process_int, Ether!device, EtherPlaces, EtherDevice
<1>3. CASE (Ether!TransferBind \/ Ether!TransferActivate \/ Ether!TransferResume)
           /\ UNCHANGED <<Ether!worker, Ether!request>>
  BY <1>3 DEF Ether!TransferBind, Ether!TransferActivate, Ether!TransferResume, Ether!resume, Ether!device,
     EtherPlaces, EtherDevice
<1>4. CASE Ether!Fetch /\ UNCHANGED <<Ether!worker, Ether!request>>
  <2>1. fetched' \in 0 .. NumDesc
    <3>1. cur \in 0 .. NumDesc
      BY ChainTyped
    <3> QED BY <1>4, <3>1 DEF Ether!Fetch, EtherInv, EtherTypes
  <2> QED BY <1>4, <2>1 DEF Ether!Fetch, EtherPlaces, EtherDevice
<1>5. CASE Ether!Suspend /\ UNCHANGED <<Ether!worker, Ether!request>>
  BY <1>5 DEF Ether!Suspend, EtherPlaces, EtherDevice
<1>6. ASSUME NEW b \in Ether!Buffers, Ether!FrameMoved(b) PROVE EtherFields'
  BY <1>6, EtherConstants DEF Ether!FrameMoved, Ether!Moved, EtherPlaces, EtherDevice
<1> QED BY <1>1, <1>2, <1>3, <1>4, <1>5, <1>6 DEF Ether!Interrupt, Ether!Controller

LEMMA EtherFieldsStep == EtherInv /\ EtherFields /\ [PartsNext]_all => EtherFields'
<1> SUFFICES ASSUME EtherInv, EtherFields, [PartsNext]_all PROVE EtherFields'
  OBVIOUS
<1>1. CASE UNCHANGED etherVars
  BY <1>1 DEF etherVars, EtherFields, EtherFlags, EtherPlaces, EtherDevice
<1>2. CASE Ether!EtherNext
  <2>1. EtherFlags'
    BY <1>2, FlagsStayFlags DEF EtherFields
  <2> QED BY <1>2, <2>1, TasksKeepEtherFields, DevicesKeepEtherFields DEF Ether!EtherNext
<1> QED BY <1>1, <1>2 DEF PartsNext, StreamStep, FilesStep, LogStep, SerialStep, TwiStep,
                          UsbStep, EtherStep, Still, all

LEMMA EtherTyped == EtherInv /\ EtherFields => Ether!EtherTypeOK
<1> SUFFICES ASSUME EtherInv, EtherFields PROVE Ether!EtherTypeOK
  OBVIOUS
<1>1. EtherTypes /\ EtherFlags /\ EtherPlaces /\ EtherDevice
  BY DEF EtherInv, EtherFields
<1>2. {descHead, descTail} \subseteq Ether!Descs /\ numAvail \in Ether!Descs
      /\ own \subseteq Ether!Descs /\ {cur, fetched} \subseteq 0 .. NumDesc
  BY <1>1, ChainTyped, EtherConstants DEF EtherDevice
<1>3. {queued, pending, active, list, walk} \subseteq Seq(Ether!Buffers) /\ passing \in Seq(Ether!Buffers)
  BY <1>1 DEF EtherTypes
<1>4. {status, isrStatus} \subseteq SUBSET {"done", "unavail"} /\ {linkUp, posted, misplaced} \subseteq BOOLEAN
  BY <1>1 DEF EtherDevice, EtherFlags
<1>5. {txPktHead, txPktTail} \subseteq Ether!Buffers /\ held \cup lost \subseteq Ether!Buffers
  BY <1>1 DEF EtherTypes
<1> QED BY <1>1, <1>2, <1>3, <1>4, <1>5 DEF EtherTypes, EtherPlaces, EtherDevice, Ether!EtherTypeOK

==============================================================================
