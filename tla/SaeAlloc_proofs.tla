--------------------------- MODULE SaeAlloc_proofs ---------------------------
(***************************************************************************)
(* For a heap of any size, any requests and anything clients write in      *)
(* their blocks: the chain of blocks stays whole, free neighbours are      *)
(* merged, the shortcut names a block, and the heap is one of disjoint     *)
(* regions, as SaeHeap promises.                                           *)
(***************************************************************************)
EXTENDS SaeAlloc, TLAPS, WellFoundedInduction

Units == 0 .. Size

\* C is the chain of blocks in the words m, with its end marker: it starts at
\* 0, each block ends where the next begins, and its footer is its header.
Chain(C, m) ==
  /\ C \subseteq Units /\ 0 \in C /\ Size \in C
  /\ m[BLK_START(-1)] = [size |-> 1, alloc |-> TRUE]
  /\ m[BLK_PREV(0)] = [size |-> 1, alloc |-> TRUE]
  /\ m[BLK_START(Size)] = [size |-> 0, alloc |-> TRUE]
  /\ \A p \in C \ {Size} :
       /\ BLK_SIZE(m, p) > 0
       /\ NEXT(m, p) \in C
       /\ m[BLK_PREV(NEXT(m, p))] = m[BLK_START(p)]
       /\ \A q \in C : q <= p \/ NEXT(m, p) <= q

\* The words of the heap, the chain the walk meets, no two free neighbours,
\* and the shortcut.
Words   == mem \in [Cells -> Word]
HeapInv == Words /\ Chain(Walk(mem), mem) /\ Coalesced /\ LastFreeIsBlock

-----------------------------------------------------------------------------
(* Induction on the naturals, as a fact about sets                         *)

Less == {ss \in Nat \X Nat : ss[1] < ss[2]}

\* A set of naturals that is not empty has a least element.
LEMMA Least ==
  ASSUME NEW T, T \subseteq Nat, T # {}
  PROVE  \E x \in T : \A y \in T : x <= y
<1>1. IsWellFoundedOn(Less, Nat)
  BY NatLessThanWellFounded DEF OpToRel, Less
<1>2. \E x \in T : \A y \in T : ~(<<y, x>> \in Less)
  BY <1>1, WFMin
<1>3. \A x, y \in Nat : y < x => <<y, x>> \in Less
  BY DEF Less
<1>4. PICK x \in T : \A y \in T : ~(<<y, x>> \in Less)
  BY <1>2
<1>5. x \in Nat /\ \A y \in T : y \in Nat /\ ~(y < x)
  BY <1>3, <1>4
<1> QED BY <1>5

\* A set of units that is not empty has a greatest element.
LEMMA Greatest ==
  ASSUME NEW T, T \subseteq Units, T # {}
  PROVE  \E x \in T : \A y \in T : y <= x
<1> DEFINE D == {Size - x : x \in T}
<1>1. \A x \in T : x \in Int /\ Size - x \in Nat
  BY SizeAssumption DEF Units
<1>2. D \subseteq Nat /\ D # {}
  BY <1>1
<1>3. PICK d \in D : \A e \in D : d <= e
  BY <1>2, Least
<1>4. PICK x \in T : d = Size - x
  BY <1>3
<1>5. \A y \in T : Size - x <= Size - y
  BY <1>3, <1>4
<1> QED BY <1>1, <1>5, SizeAssumption

-----------------------------------------------------------------------------
(* The walk *)

\* The blocks that can be met from p on.
Steps(m, S)  == \A p \in S : BLK_SIZE(m, p) > 0 /\ NEXT(m, p) <= Size => NEXT(m, p) \in S
Reached(m, p) == {q \in Units : \A S \in SUBSET Units : p \in S /\ Steps(m, S) => q \in S}

\* The recursion of Walk has a solution.
LEMMA ReachedUnfolds ==
  ASSUME NEW m \in [Cells -> Word], NEW p \in Units
  PROVE  Reached(m, p) = {p} \cup IF BLK_SIZE(m, p) > 0 /\ NEXT(m, p) <= Size
                                  THEN Reached(m, NEXT(m, p)) ELSE {}
<1> DEFINE goes == BLK_SIZE(m, p) > 0 /\ NEXT(m, p) <= Size
           rest == IF goes THEN Reached(m, NEXT(m, p)) ELSE {}
<1>0. BLK_START(p) \in Cells /\ BLK_SIZE(m, p) \in Nat /\ (goes => NEXT(m, p) \in Units)
  BY SizeAssumption DEF Units, Cells, BLK_START, BLK_SIZE, NEXT, Word
<1>1. ASSUME NEW q \in {p} \cup rest PROVE q \in Reached(m, p)
  BY <1>0, <1>1 DEF Reached, Steps
<1>2. {p} \cup rest \in SUBSET Units
  BY DEF Reached
<1>3. Steps(m, {p} \cup rest)
  <2>1. ASSUME goes PROVE NEXT(m, p) \in rest
    BY <1>0, <2>1 DEF Reached
  <2>2. ASSUME NEW q \in rest, BLK_SIZE(m, q) > 0, NEXT(m, q) <= Size
        PROVE  NEXT(m, q) \in rest
    <3>1. q \in Units /\ NEXT(m, q) \in Units
      BY <2>2, SizeAssumption DEF Reached, Units, Cells, BLK_START, BLK_SIZE, NEXT, Word
    <3> QED BY <2>2, <3>1 DEF Reached, Steps
  <2> QED BY <2>1, <2>2 DEF Steps
<1>4. ASSUME NEW q \in Reached(m, p) PROVE q \in {p} \cup rest
  BY <1>2, <1>3, <1>4 DEF Reached
<1> QED BY <1>1, <1>4

\* The walk over a chain meets its blocks and its end marker, and nothing else.
THEOREM WalkIsChain ==
  ASSUME NEW m \in [Cells -> Word], NEW C, Chain(C, m)
  PROVE  Walk(m) = C
<1> DEFINE from == CHOOSE f : f = [p \in 0 .. Size |->
                     {p} \cup IF BLK_SIZE(m, p) > 0 /\ NEXT(m, p) <= Size
                              THEN f[NEXT(m, p)] ELSE {}]
           g == [p \in 0 .. Size |-> Reached(m, p)]
           Good == {p \in C : from[p] = {q \in C : p <= q}}
           Bad == {Size - p : p \in C \ Good}
<1>1. g = [p \in 0 .. Size |-> {p} \cup IF BLK_SIZE(m, p) > 0 /\ NEXT(m, p) <= Size
                                        THEN g[NEXT(m, p)] ELSE {}]
  <2>1. ASSUME NEW p \in Units, BLK_SIZE(m, p) > 0, NEXT(m, p) <= Size PROVE NEXT(m, p) \in Units
    BY <2>1, SizeAssumption DEF Units, Cells, BLK_START, BLK_SIZE, NEXT, Word
  <2> QED BY <2>1, ReachedUnfolds DEF Units
<1>2. from = [p \in 0 .. Size |-> {p} \cup IF BLK_SIZE(m, p) > 0 /\ NEXT(m, p) <= Size
                                           THEN from[NEXT(m, p)] ELSE {}]
  BY <1>1
<1>3. Walk(m) = from[0]
  BY DEF Walk
<1> HIDE DEF from, g
<1>4. C \subseteq Units /\ 0 \in C
  BY DEF Chain
<1>5. Bad = {}
  <2> SUFFICES ASSUME Bad # {} PROVE FALSE
    OBVIOUS
  <2>1. Bad \subseteq Nat
    BY <1>4, SizeAssumption DEF Units
  <2>2. PICK d \in Bad : \A e \in Bad : d <= e
    BY <2>1, Least
  <2>3. PICK p \in C \ Good : d = Size - p
    BY <2>2
  <2> HIDE DEF Bad, Good
  <2>4. \A q \in C : p < q => q \in Good
    <3>1. \A q \in C \ Good : d <= Size - q
      BY <2>2 DEF Bad
    <3> QED BY <1>4, <2>3, <3>1, SizeAssumption DEF Units
  <2>5. p \in Units /\ from[p] = {p} \cup IF BLK_SIZE(m, p) > 0 /\ NEXT(m, p) <= Size
                                          THEN from[NEXT(m, p)] ELSE {}
    BY <1>2, <1>4, <2>3 DEF Units
  <2>6. from[p] = {q \in C : p <= q}
    <3>1. CASE p = Size
      <4>1. BLK_SIZE(m, p) = 0
        BY <3>1 DEF Chain, BLK_SIZE
      <4>2. from[p] = {p} /\ \A q \in C : p <= q <=> q = p
        BY <1>4, <2>3, <2>5, <3>1, <4>1, SizeAssumption DEF Units
      <4> QED BY <2>3, <4>2
    <3>2. CASE p # Size
      <4> DEFINE n == NEXT(m, p)
      <4>1. BLK_SIZE(m, p) > 0 /\ n \in C /\ (\A q \in C : q <= p \/ n <= q)
        BY <2>3, <3>2 DEF Chain
      <4>2. n \in Units /\ p < n
        BY <1>4, <2>5, <4>1, SizeAssumption DEF NEXT, Units, BLK_SIZE, BLK_START, Cells, Word
      <4> HIDE DEF n
      <4>3. from[n] = {q \in C : n <= q}
        BY <2>4, <4>1, <4>2 DEF Good
      <4>4. from[p] = {p} \cup from[n]
        BY <2>5, <4>1, <4>2 DEF n, Units
      <4>5. \A q \in C : p <= q <=> q = p \/ n <= q
        BY <1>4, <2>3, <4>1, <4>2 DEF Units
      <4> QED BY <2>3, <4>3, <4>4, <4>5
    <3> QED BY <3>1, <3>2
  <2> QED BY <2>3, <2>6 DEF Good
<1>6. 0 \in Good
  BY <1>4, <1>5
<1> QED BY <1>3, <1>4, <1>6 DEF Units

-----------------------------------------------------------------------------
(* Chains *)

\* A block's header and footer are words of the heap; the next block starts
\* behind it.
LEMMA BlockInHeap ==
  ASSUME NEW m \in [Cells -> Word], NEW C, Chain(C, m), NEW p \in C, p # Size
  PROVE  /\ p \in Nat /\ p < Size
         /\ BLK_SIZE(m, p) \in Nat /\ BLK_SIZE(m, p) > 0
         /\ NEXT(m, p) = p + BLK_SIZE(m, p)
         /\ NEXT(m, p) \in C /\ NEXT(m, p) \in Nat /\ p < NEXT(m, p) /\ NEXT(m, p) <= Size
         /\ m[BLK_PREV(NEXT(m, p))] = m[BLK_START(p)]
         /\ \A q \in C : q \in Nat /\ (q <= p \/ NEXT(m, p) <= q)
<1>1. p \in Units /\ C \subseteq Units
  BY DEF Chain
<1>2. BLK_SIZE(m, p) \in Nat
  BY <1>1, SizeAssumption DEF Units, BLK_SIZE, BLK_START, Cells, Word
<1>3. /\ BLK_SIZE(m, p) > 0 /\ NEXT(m, p) \in C
      /\ m[BLK_PREV(NEXT(m, p))] = m[BLK_START(p)]
      /\ \A q \in C : q <= p \/ NEXT(m, p) <= q
  BY DEF Chain
<1>4. NEXT(m, p) = p + BLK_SIZE(m, p)
  BY DEF NEXT
<1> QED BY <1>1, <1>2, <1>3, <1>4, SizeAssumption DEF Units

\* Every block but the first has one before it, which its back link names.
LEMMA Predecessor ==
  ASSUME NEW m \in [Cells -> Word], NEW C, Chain(C, m), NEW p \in C, p # 0
  PROVE  /\ PREV(m, p) \in C /\ PREV(m, p) < p /\ PREV(m, p) # Size
         /\ NEXT(m, PREV(m, p)) = p
<1>1. C \subseteq Units /\ p \in Units /\ 0 \in C
  BY DEF Chain
<1>2. PICK q \in {r \in C : r < p} : \A r \in {s \in C : s < p} : r <= q
  <2> DEFINE T == {r \in C : r < p}
  <2>1. 0 < p
    BY <1>1 DEF Units
  <2>2. T \subseteq Units /\ T # {}
    BY <1>1, <2>1
  <2> HIDE DEF T
  <2>3. \E q \in T : \A r \in T : r <= q
    BY <2>2, Greatest
  <2> QED BY <2>3 DEF T
<1>3. q # Size
  BY <1>1, <1>2, SizeAssumption DEF Units
<1>4. NEXT(m, q) = p
  BY <1>1, <1>2, <1>3, BlockInHeap DEF Units
<1>5. m[BLK_PREV(p)].size = BLK_SIZE(m, q)
  BY <1>2, <1>3, <1>4, BlockInHeap DEF BLK_SIZE
<1>6. PREV(m, p) = q
  BY <1>2, <1>3, <1>4, <1>5, BlockInHeap DEF PREV
<1> QED BY <1>2, <1>3, <1>4, <1>6

\* The words a mark writes.
LEMMA Marked ==
  ASSUME NEW m \in [Cells -> Word], NEW p \in Nat, NEW n \in Nat, n > 0, p + n <= Size,
         NEW a \in BOOLEAN
  PROVE  /\ MARK_BLK(m, p, n, a) \in [Cells -> Word]
         /\ MARK_BLK(m, p, n, a)[BLK_START(p)] = [size |-> n, alloc |-> a]
         /\ MARK_BLK(m, p, n, a)[BLK_PREV(p + n)] = [size |-> n, alloc |-> a]
         /\ \A i \in Cells : i # BLK_START(p) /\ i # BLK_PREV(p + n) =>
              MARK_BLK(m, p, n, a)[i] = m[i]
<1>1. /\ BLK_START(p) \in Cells /\ BLK_PREV(p + n) \in Cells
      /\ BLK_START(p) # BLK_PREV(p + n)
      /\ [size |-> n, alloc |-> a] \in Word
  BY SizeAssumption DEF BLK_START, BLK_PREV, Cells, Word
<1> QED BY <1>1 DEF MARK_BLK

\* Marking from one block to the start of another makes one block of what is
\* between them, and leaves the other headers.
Joined(m, C, p, n, a, after, C2) ==
  /\ after \in [Cells -> Word] /\ Chain(C2, after)
  /\ after[BLK_START(p)] = [size |-> n, alloc |-> a]
  /\ \A q \in C \ {p} : after[BLK_START(q)] = m[BLK_START(q)]
  /\ \A i \in Cells : i # BLK_START(p) /\ i # BLK_PREV(p + n) => after[i] = m[i]

LEMMA Join ==
  ASSUME NEW m \in [Cells -> Word], NEW C, Chain(C, m),
         NEW p \in C, NEW n \in Nat, n > 0, p + n \in C, NEW a \in BOOLEAN,
         NEW after, after = MARK_BLK(m, p, n, a),
         NEW C2, \A q : q \in C2 <=> q \in C /\ (q <= p \/ p + n <= q)
  PROVE  Joined(m, C, p, n, a, after, C2)
<1> DEFINE m2 == MARK_BLK(m, p, n, a)
<1>1. C \subseteq Nat /\ p + n <= Size /\ p < Size /\ \A q \in C : q <= Size
  BY SizeAssumption DEF Chain, Units
<1>2. /\ m2 \in [Cells -> Word]
      /\ m2[BLK_START(p)] = [size |-> n, alloc |-> a]
      /\ m2[BLK_PREV(p + n)] = [size |-> n, alloc |-> a]
      /\ \A i \in Cells : i # BLK_START(p) /\ i # BLK_PREV(p + n) => m2[i] = m[i]
  BY <1>1, Marked
<1> HIDE DEF m2
<1>3. ASSUME NEW q \in C, q # p PROVE m2[BLK_START(q)] = m[BLK_START(q)]
  BY <1>1, <1>2, <1>3, SizeAssumption DEF BLK_START, BLK_PREV, Cells
<1>4. ASSUME NEW q \in C, q # p + n PROVE m2[BLK_PREV(q)] = m[BLK_PREV(q)]
  BY <1>1, <1>2, <1>4, SizeAssumption DEF BLK_START, BLK_PREV, Cells
<1>5. m2[BLK_START(-1)] = m[BLK_START(-1)]
  BY <1>1, <1>2, SizeAssumption DEF BLK_START, BLK_PREV, Cells
<1>6. ASSUME NEW q \in C2, q # Size
      PROVE  /\ BLK_SIZE(m2, q) > 0 /\ NEXT(m2, q) \in C2
             /\ m2[BLK_PREV(NEXT(m2, q))] = m2[BLK_START(q)]
             /\ \A r \in C2 : r <= q \/ NEXT(m2, q) <= r
  <2>1. CASE q = p
    BY <1>1, <1>2, <2>1 DEF BLK_SIZE, NEXT
  <2>2. CASE q # p
    <3>1. m2[BLK_START(q)] = m[BLK_START(q)]
      BY <1>3, <2>2
    <3>2. BLK_SIZE(m2, q) = BLK_SIZE(m, q) /\ NEXT(m2, q) = NEXT(m, q)
      BY <3>1 DEF BLK_SIZE, NEXT
    <3>3. /\ BLK_SIZE(m, q) > 0 /\ NEXT(m, q) \in C /\ q < NEXT(m, q)
          /\ m[BLK_PREV(NEXT(m, q))] = m[BLK_START(q)]
          /\ \A r \in C : r <= q \/ NEXT(m, q) <= r
      BY <1>6, BlockInHeap
    <3>4. NEXT(m, q) # p + n /\ (NEXT(m, q) <= p \/ p + n <= NEXT(m, q))
      <4>1. p <= q \/ NEXT(m, q) <= p
        BY <3>3
      <4>2. {p, q, NEXT(m, q)} \subseteq Nat /\ (q <= p \/ p + n <= q)
        BY <1>1, <1>6, <3>3
      <4> QED BY <2>2, <3>3, <4>1, <4>2
    <3> QED BY <1>4, <3>1, <3>2, <3>3, <3>4
  <2> QED BY <2>1, <2>2
<1>7. C2 \subseteq Units /\ 0 \in C2 /\ Size \in C2
  <2>1. C \subseteq Units /\ 0 \in C /\ Size \in C
    BY DEF Chain
  <2>2. 0 <= p /\ p + n <= Size
    BY <1>1
  <2>3. C2 \subseteq Units
    BY <2>1
  <2> QED BY <2>1, <2>2, <2>3
<1>8. /\ m2[BLK_PREV(0)] = m[BLK_PREV(0)]
      /\ m2[BLK_START(Size)] = m[BLK_START(Size)]
  <2>1. 0 # p + n /\ p # Size /\ 0 \in C /\ Size \in C
    BY <1>1 DEF Chain
  <2> QED BY <1>3, <1>4, <2>1
<1>9. Chain(C2, m2)
  BY <1>5, <1>6, <1>7, <1>8 DEF Chain
<1> QED BY <1>2, <1>3, <1>9 DEF m2, Joined

\* Two marks inside a block make two blocks of it.
SplitAt(m, C, p, n, after) ==
  /\ after \in [Cells -> Word] /\ Chain(C \cup {p + n}, after)
  /\ after[BLK_START(p)] = [size |-> n, alloc |-> TRUE]
  /\ after[BLK_START(p + n)] = [size |-> BLK_SIZE(m, p) - n, alloc |-> FALSE]
  /\ \A q \in C \ {p} : after[BLK_START(q)] = m[BLK_START(q)]
  /\ \A i \in Cells : i \notin {BLK_START(p), BLK_PREV(p + n), BLK_START(p + n),
                                BLK_PREV(NEXT(m, p))} => after[i] = m[i]

LEMMA SplitInTwo ==
  ASSUME NEW m \in [Cells -> Word], NEW C, Chain(C, m), NEW p \in C, p # Size,
         NEW n \in Nat, n > 0, n < BLK_SIZE(m, p), NEW after,
         after = MARK_BLK(MARK_BLK(m, p, n, TRUE), p + n, BLK_SIZE(m, p) - n, FALSE)
  PROVE  SplitAt(m, C, p, n, after)
<1> DEFINE s == BLK_SIZE(m, p)
           rest == s - n
           m1 == MARK_BLK(m, p, n, TRUE)
           m2 == MARK_BLK(m1, p + n, rest, FALSE)
           C2 == C \cup {p + n}
<1>1. /\ s \in Nat /\ s > 0 /\ NEXT(m, p) = p + s /\ p + s \in C /\ p + s <= Size
      /\ m[BLK_PREV(p + s)] = m[BLK_START(p)]
      /\ \A q \in C : q \in Nat /\ (q <= p \/ p + s <= q)
  BY BlockInHeap
<1>2. C \subseteq Units /\ 0 \in C /\ Size \in C
  BY DEF Chain
<1>3. \A q \in C : q \in Nat /\ q <= Size
  BY <1>2, SizeAssumption DEF Units
<1> HIDE DEF s
<1>4. /\ m1 \in [Cells -> Word]
      /\ m1[BLK_START(p)] = [size |-> n, alloc |-> TRUE]
      /\ m1[BLK_PREV(p + n)] = [size |-> n, alloc |-> TRUE]
      /\ \A i \in Cells : i # BLK_START(p) /\ i # BLK_PREV(p + n) => m1[i] = m[i]
  <2>1. p \in Nat /\ p + n <= Size /\ n < s
    BY <1>1, <1>3, SizeAssumption DEF s
  <2> QED BY <2>1, Marked
<1> HIDE DEF m1
<1>5. /\ m2 \in [Cells -> Word]
      /\ m2[BLK_START(p + n)] = [size |-> rest, alloc |-> FALSE]
      /\ m2[BLK_PREV(p + s)] = [size |-> rest, alloc |-> FALSE]
      /\ \A i \in Cells : i # BLK_START(p + n) /\ i # BLK_PREV(p + s) => m2[i] = m1[i]
  <2>1. /\ p + n \in Nat /\ rest \in Nat /\ rest > 0 /\ p + n + rest = p + s /\ p + s <= Size
    BY <1>1, <1>3, SizeAssumption DEF s
  <2> HIDE DEF rest
  <2>2. /\ m2 \in [Cells -> Word]
        /\ m2[BLK_START(p + n)] = [size |-> rest, alloc |-> FALSE]
        /\ m2[BLK_PREV(p + n + rest)] = [size |-> rest, alloc |-> FALSE]
        /\ \A i \in Cells : i # BLK_START(p + n) /\ i # BLK_PREV(p + n + rest) => m2[i] = m1[i]
    BY <1>4, <2>1, Marked
  <2> QED BY <2>1, <2>2
<1> HIDE DEF m2
<1>6. /\ p \in Nat /\ n < s
  BY <1>3 DEF s
<1>7. /\ m2[BLK_START(p)] = [size |-> n, alloc |-> TRUE]
      /\ m2[BLK_PREV(p + n)] = [size |-> n, alloc |-> TRUE]
      /\ \A i \in Cells : i \notin {BLK_START(p), BLK_PREV(p + n), BLK_START(p + n),
                                    BLK_PREV(p + s)} => m2[i] = m[i]
  <2>1. /\ BLK_START(p) \in Cells /\ BLK_PREV(p + n) \in Cells
        /\ BLK_START(p) # BLK_START(p + n) /\ BLK_START(p) # BLK_PREV(p + s)
        /\ BLK_PREV(p + n) # BLK_START(p + n) /\ BLK_PREV(p + n) # BLK_PREV(p + s)
    BY <1>1, <1>6, SizeAssumption DEF BLK_START, BLK_PREV, Cells
  <2> QED BY <1>4, <1>5, <2>1
<1>8. ASSUME NEW q \in C, q # p PROVE m2[BLK_START(q)] = m[BLK_START(q)]
  <2>1. /\ BLK_START(q) \in Cells
        /\ BLK_START(q) \notin {BLK_START(p), BLK_PREV(p + n), BLK_START(p + n), BLK_PREV(p + s)}
    BY <1>1, <1>3, <1>6, <1>8, SizeAssumption DEF BLK_START, BLK_PREV, Cells
  <2> QED BY <1>7, <2>1
<1>9. ASSUME NEW q \in C, q # p + s PROVE m2[BLK_PREV(q)] = m[BLK_PREV(q)]
  <2>1. /\ BLK_PREV(q) \in Cells
        /\ BLK_PREV(q) \notin {BLK_START(p), BLK_PREV(p + n), BLK_START(p + n), BLK_PREV(p + s)}
    BY <1>1, <1>3, <1>6, <1>9, SizeAssumption DEF BLK_START, BLK_PREV, Cells
  <2> QED BY <1>7, <2>1
<1>10. m2[BLK_START(-1)] = m[BLK_START(-1)]
  <2>1. /\ BLK_START(-1) \in Cells
        /\ BLK_START(-1) \notin {BLK_START(p), BLK_PREV(p + n), BLK_START(p + n), BLK_PREV(p + s)}
    BY <1>1, <1>6, SizeAssumption DEF BLK_START, BLK_PREV, Cells
  <2> QED BY <1>7, <2>1
<1>11. ASSUME NEW q \in C2, q # Size
       PROVE  /\ BLK_SIZE(m2, q) > 0 /\ NEXT(m2, q) \in C2
              /\ m2[BLK_PREV(NEXT(m2, q))] = m2[BLK_START(q)]
              /\ \A r \in C2 : r <= q \/ NEXT(m2, q) <= r
  <2>1. CASE q = p
    <3>1. BLK_SIZE(m2, p) = n /\ NEXT(m2, p) = p + n
      BY <1>7 DEF BLK_SIZE, NEXT
    <3>2. \A r \in C : r <= p \/ p + n <= r
      BY <1>1, <1>6
    <3>3. \A r \in C2 : r <= p \/ p + n <= r
      BY <1>6, <3>2
    <3>4. n > 0 /\ p + n \in C2
      OBVIOUS
    <3> QED BY <1>7, <2>1, <3>1, <3>3, <3>4
  <2>2. CASE q = p + n
    <3>1. BLK_SIZE(m2, q) = rest /\ NEXT(m2, q) = p + s
      BY <1>1, <1>5, <1>6, <2>2 DEF BLK_SIZE, NEXT
    <3>2. \A r \in C : r <= p + n \/ p + s <= r
      BY <1>1, <1>6
    <3> QED BY <1>1, <1>5, <1>6, <2>2, <3>1, <3>2
  <2>3. CASE q \in C /\ q # p
    <3>1. m2[BLK_START(q)] = m[BLK_START(q)]
      BY <1>8, <2>3
    <3>2. BLK_SIZE(m2, q) = BLK_SIZE(m, q) /\ NEXT(m2, q) = NEXT(m, q)
      BY <3>1 DEF BLK_SIZE, NEXT
    <3>3. /\ BLK_SIZE(m, q) > 0 /\ NEXT(m, q) \in C /\ q < NEXT(m, q)
          /\ m[BLK_PREV(NEXT(m, q))] = m[BLK_START(q)]
          /\ \A r \in C : r <= q \/ NEXT(m, q) <= r
      BY <1>11, <2>3, BlockInHeap
    <3>4. NEXT(m, q) # p + s /\ (p + n <= q \/ NEXT(m, q) <= p + n)
      <4>1. p <= q \/ NEXT(m, q) <= p
        BY <3>3
      <4>2. {p, q, NEXT(m, q), s} \subseteq Nat /\ (q <= p \/ p + s <= q)
        BY <1>1, <1>3, <2>3, <3>3
      <4> QED BY <1>6, <2>3, <3>3, <4>1, <4>2
    <3> QED BY <1>9, <3>1, <3>2, <3>3, <3>4
  <2> QED BY <2>1, <2>2, <2>3
<1>12. /\ m2[BLK_PREV(0)] = m[BLK_PREV(0)]
       /\ m2[BLK_START(Size)] = m[BLK_START(Size)]
  <2>1. 0 # p + s
    BY <1>1, <1>6
  <2> QED BY <1>2, <1>8, <1>9, <2>1
<1>13. Chain(C2, m2)
  <2>1. p + n \in Units
    BY <1>1, <1>6, SizeAssumption DEF Units
  <2> QED BY <1>2, <1>10, <1>11, <1>12, <2>1 DEF Chain
<1>14. after = m2
  BY DEF m2, m1, s
<1> QED BY <1>1, <1>5, <1>7, <1>8, <1>13, <1>14 DEF s, SplitAt

\* The blocks are what is on the chain before its end marker.
LEMMA BlocksOfChain ==
  ASSUME NEW m \in [Cells -> Word], NEW C, Chain(C, m)
  PROVE  \A p : p \in C /\ BLK_SIZE(m, p) > 0 <=> p \in C /\ p # Size
<1>1. BLK_SIZE(m, Size) = 0
  BY DEF Chain, BLK_SIZE
<1> QED BY <1>1, BlockInHeap

\* What the invariant says of the present heap.
LEMMA HeapChain ==
  ASSUME HeapInv
  PROVE  /\ mem \in [Cells -> Word] /\ Chain(Walk(mem), mem)
         /\ Blocks = Walk(mem) \ {Size}
         /\ Allocated = {p \in Walk(mem) \ {Size} : ~BLK_FREE(mem, p)}
         /\ \A p \in Walk(mem) : p # Size /\ BLK_FREE(mem, p) => ~BLK_FREE(mem, NEXT(mem, p))
         /\ lastFree \in Blocks \cup {Nil}
<1>1. mem \in [Cells -> Word] /\ Chain(Walk(mem), mem)
  BY DEF HeapInv, Words
<1>2. Blocks = Walk(mem) \ {Size}
  BY <1>1, BlocksOfChain DEF Blocks
<1> QED BY <1>1, <1>2 DEF HeapInv, Allocated, Coalesced, LastFreeIsBlock

\* What it takes to establish the invariant after a step.
LEMMA HeapInvAfter ==
  ASSUME NEW C, mem' \in [Cells -> Word], Chain(C, mem'), lastFree' \in (C \ {Size}) \cup {Nil},
         \A p \in C : p # Size /\ BLK_FREE(mem', p) => ~BLK_FREE(mem', NEXT(mem', p))
  PROVE  /\ HeapInv' /\ Walk(mem)' = C /\ Blocks' = C \ {Size}
         /\ Allocated' = {p \in C \ {Size} : ~BLK_FREE(mem', p)}
<1>1. Walk(mem') = C
  BY WalkIsChain
<1>2. Blocks' = C \ {Size}
  BY <1>1, BlocksOfChain DEF Blocks
<1> QED BY <1>1, <1>2 DEF HeapInv, Words, Coalesced, LastFreeIsBlock, Allocated

\* The words at a block's edge belong to no payload.
LEMMA EdgesAreNotPayload ==
  ASSUME HeapInv, NEW q \in Blocks, NEW r \in Nat, r <= q \/ NEXT(mem, q) <= r
  PROVE  BLK_START(r) \notin Payload(q) /\ BLK_PREV(r) \notin Payload(q)
<1>1. q \in Nat /\ NEXT(mem, q) \in Nat
  BY HeapChain, BlockInHeap
<1> QED BY <1>1 DEF Payload, BLK_START, BLK_PREV

LEMMA PayloadInHeap ==
  ASSUME HeapInv, NEW q \in Blocks
  PROVE  Payload(q) \subseteq Cells
<1>1. q \in Nat /\ NEXT(mem, q) \in Nat /\ NEXT(mem, q) <= Size
  BY HeapChain, BlockInHeap
<1> QED BY <1>1, SizeAssumption DEF Payload, BLK_START, BLK_PREV, Cells

-----------------------------------------------------------------------------
(* What each call does                                                     *)

\* The blocks a step keeps are allocated with the size they had, and their
\* payload as it was.
Keeps(S) == \A q \in S : /\ BLK_SIZE(mem', q) = BLK_SIZE(mem, q)
                         /\ \A i \in Payload(q) : mem'[i] = mem[i]

\* malloc makes a free block an allocated one, of the size asked for or less
\* than MinSplit more, and touches no other.
LEMMA TakeEffect ==
  ASSUME HeapInv, NEW p \in Blocks, BLK_FREE(mem, p),
         NEW n \in Nat, n > 0, n <= BLK_SIZE(mem, p), Take(p, n)
  PROVE  /\ HeapInv' /\ Allocated' = Allocated \cup {p} /\ p \notin Allocated
         /\ n <= BLK_SIZE(mem', p) /\ BLK_SIZE(mem', p) < n + MinSplit
         /\ Keeps(Allocated)
<1> DEFINE C == Walk(mem)
           s == BLK_SIZE(mem, p)
<1>1. /\ mem \in [Cells -> Word] /\ Chain(C, mem)
      /\ Blocks = C \ {Size} /\ Allocated = {q \in C \ {Size} : ~BLK_FREE(mem, q)}
      /\ \A q \in C : q # Size /\ BLK_FREE(mem, q) => ~BLK_FREE(mem, NEXT(mem, q))
  BY HeapChain
<1> HIDE DEF C
<1>2. p \in C /\ p # Size
  BY <1>1
<1>3. /\ p \in Nat /\ s \in Nat /\ s > 0 /\ NEXT(mem, p) = p + s /\ p + s \in C /\ p + s <= Size
      /\ \A q \in C : q \in Nat /\ (q <= p \/ p + s <= q)
  BY <1>1, <1>2, BlockInHeap
<1>4. p \notin Allocated /\ Allocated \subseteq Blocks
  BY <1>1
<1>5. \A q \in Allocated : q \in C /\ q # p /\ (p + s <= q \/ (q < p /\ NEXT(mem, q) <= p))
  <2> SUFFICES ASSUME NEW q \in Allocated
               PROVE  q \in C /\ q # p /\ (p + s <= q \/ (q < p /\ NEXT(mem, q) <= p))
    OBVIOUS
  <2>1. q \in C /\ q # Size /\ q # p
    BY <1>1, <1>4
  <2>2. p <= q \/ NEXT(mem, q) <= p
    BY <1>1, <1>2, <2>1, BlockInHeap
  <2>3. q \in Nat /\ (q <= p \/ p + s <= q)
    BY <1>3, <2>1
  <2> QED BY <1>3, <2>1, <2>2, <2>3
<1>6. CASE Split(p, n)
  <2> DEFINE C2 == C \cup {p + n}
  <2>1. n < s /\ s >= n + 2
    BY <1>3, <1>6 DEF Split, MinSplit
  <2>2. /\ mem' = MARK_BLK(MARK_BLK(mem, p, n, TRUE), p + n, s - n, FALSE)
        /\ lastFree' = p + n
    BY <1>6 DEF Take
  <2>3. /\ mem' \in [Cells -> Word] /\ Chain(C2, mem')
        /\ mem'[BLK_START(p)] = [size |-> n, alloc |-> TRUE]
        /\ mem'[BLK_START(p + n)] = [size |-> s - n, alloc |-> FALSE]
        /\ \A q \in C \ {p} : mem'[BLK_START(q)] = mem[BLK_START(q)]
        /\ \A i \in Cells : i \notin {BLK_START(p), BLK_PREV(p + n), BLK_START(p + n),
                                      BLK_PREV(NEXT(mem, p))} => mem'[i] = mem[i]
    <3>1. n < BLK_SIZE(mem, p) /\ n > 0
      BY <2>1
    <3> DEFINE m2 == MARK_BLK(MARK_BLK(mem, p, n, TRUE), p + n, s - n, FALSE)
    <3> HIDE DEF m2
    <3>2. m2 = MARK_BLK(MARK_BLK(mem, p, n, TRUE), p + n, BLK_SIZE(mem, p) - n, FALSE)
      BY DEF m2
    <3>3. SplitAt(mem, C, p, n, m2)
      BY <1>1, <1>2, <3>1, <3>2, SplitInTwo
    <3>4. mem' = m2
      BY <2>2 DEF m2
    <3> QED BY <3>3, <3>4 DEF SplitAt
  <2> HIDE DEF C2
  <2>4. /\ BLK_SIZE(mem', p) = n /\ ~BLK_FREE(mem', p) /\ NEXT(mem', p) = p + n
        /\ BLK_FREE(mem', p + n) /\ NEXT(mem', p + n) = p + s
        /\ \A q \in C \ {p} : /\ BLK_SIZE(mem', q) = BLK_SIZE(mem, q)
                              /\ BLK_FREE(mem', q) = BLK_FREE(mem, q)
                              /\ NEXT(mem', q) = NEXT(mem, q)
    BY <1>3, <2>3 DEF BLK_SIZE, BLK_FREE, NEXT
  <2>5. p + n \in Nat /\ p + n \notin C /\ p + n # Size /\ p + n # p
    BY <1>3, <2>1, SizeAssumption
  <2>6. \A q \in C2 : q # Size /\ BLK_FREE(mem', q) => ~BLK_FREE(mem', NEXT(mem', q))
    <3> SUFFICES ASSUME NEW q \in C2, q # Size, BLK_FREE(mem', q)
                 PROVE  ~BLK_FREE(mem', NEXT(mem', q))
      OBVIOUS
    <3>1. CASE q = p + n
      <4>1. ~BLK_FREE(mem, p + s) /\ p + s # p
        BY <1>1, <1>2, <1>3
      <4> QED BY <1>3, <2>4, <3>1, <4>1
    <3>2. CASE q # p + n
      <4>1. q \in C /\ q # p /\ BLK_FREE(mem, q) /\ NEXT(mem', q) = NEXT(mem, q)
        BY <2>4, <3>2 DEF C2
      <4>2. ~BLK_FREE(mem, NEXT(mem, q)) /\ NEXT(mem, q) \in C
        BY <1>1, <4>1, BlockInHeap
      <4> QED BY <2>4, <4>1, <4>2
    <3> QED BY <3>1, <3>2
  <2>7. lastFree' \in (C2 \ {Size}) \cup {Nil}
    BY <2>2, <2>5 DEF C2
  <2>8. HeapInv' /\ Allocated' = {q \in C2 \ {Size} : ~BLK_FREE(mem', q)}
    BY <2>3, <2>6, <2>7, HeapInvAfter
  <2>9. Allocated' = Allocated \cup {p}
    BY <1>1, <1>2, <2>4, <2>5, <2>8 DEF C2
  <2>10. Keeps(Allocated)
    <3> SUFFICES ASSUME NEW q \in Allocated
                 PROVE  /\ BLK_SIZE(mem', q) = BLK_SIZE(mem, q)
                        /\ \A i \in Payload(q) : mem'[i] = mem[i]
      BY DEF Keeps
    <3>1. q \in Blocks /\ q \in C \ {p} /\ NEXT(mem, q) \in Nat /\ q \in Nat
      BY <1>1, <1>4, <1>5, BlockInHeap
    <3>2. \A r \in {p, p + n, p + s} : r \in Nat /\ (r <= q \/ NEXT(mem, q) <= r)
      BY <1>3, <1>5, <2>1, <3>1
    <3>3. \A r \in {p, p + n, p + s} : BLK_START(r) \notin Payload(q) /\ BLK_PREV(r) \notin Payload(q)
      BY <3>1, <3>2, EdgesAreNotPayload
    <3>4. Payload(q) \subseteq Cells
      BY <3>1, PayloadInHeap
    <3> QED BY <1>3, <2>3, <2>4, <3>1, <3>3, <3>4
  <2> QED BY <1>3, <1>4, <2>4, <2>8, <2>9, <2>10 DEF MinSplit
<1>7. CASE ~Split(p, n)
  <2>1. s < n + MinSplit
    BY <1>3, <1>7 DEF Split, MinSplit
  <2>2. mem' = MARK_BLK(mem, p, s, TRUE) /\ lastFree' = Nil
    BY <1>7 DEF Take
  <2>3. \A q : q \in C <=> q \in C /\ (q <= p \/ p + s <= q)
    BY <1>3
  <2>4. /\ mem' \in [Cells -> Word] /\ Chain(C, mem')
        /\ mem'[BLK_START(p)] = [size |-> s, alloc |-> TRUE]
        /\ \A q \in C \ {p} : mem'[BLK_START(q)] = mem[BLK_START(q)]
        /\ \A i \in Cells : i # BLK_START(p) /\ i # BLK_PREV(p + s) => mem'[i] = mem[i]
    <3> HIDE DEF s
    <3>1. TRUE \in BOOLEAN /\ s \in Nat /\ s > 0 /\ p + s \in C /\ p \in C
      BY <1>2, <1>3
    <3> DEFINE m2 == MARK_BLK(mem, p, s, TRUE)
    <3> HIDE DEF m2
    <3>2. m2 = MARK_BLK(mem, p, s, TRUE)
      BY DEF m2
    <3>3. Joined(mem, C, p, s, TRUE, m2, C)
      BY <1>1, <2>3, <3>1, <3>2, Join
    <3>4. mem' = m2
      BY <2>2 DEF m2
    <3> QED BY <3>3, <3>4 DEF Joined
  <2>6. /\ BLK_SIZE(mem', p) = s /\ ~BLK_FREE(mem', p)
        /\ \A q \in C : BLK_SIZE(mem', q) = BLK_SIZE(mem, q) /\ NEXT(mem', q) = NEXT(mem, q)
        /\ \A q \in C \ {p} : BLK_FREE(mem', q) = BLK_FREE(mem, q)
    BY <1>3, <2>4 DEF BLK_SIZE, BLK_FREE, NEXT
  <2>7. \A q \in C : q # Size /\ BLK_FREE(mem', q) => ~BLK_FREE(mem', NEXT(mem', q))
    <3> SUFFICES ASSUME NEW q \in C, q # Size, BLK_FREE(mem', q)
                 PROVE  ~BLK_FREE(mem', NEXT(mem', q))
      OBVIOUS
    <3>1. q # p /\ BLK_FREE(mem, q) /\ NEXT(mem', q) = NEXT(mem, q)
      BY <2>6
    <3>2. ~BLK_FREE(mem, NEXT(mem, q)) /\ NEXT(mem, q) \in C
      BY <1>1, <3>1, BlockInHeap
    <3> QED BY <2>6, <3>1, <3>2
  <2>8. HeapInv' /\ Allocated' = {q \in C \ {Size} : ~BLK_FREE(mem', q)}
    BY <2>2, <2>4, <2>7, HeapInvAfter
  <2>9. Allocated' = Allocated \cup {p}
    BY <1>1, <1>2, <2>6, <2>8
  <2>10. Keeps(Allocated)
    <3> SUFFICES ASSUME NEW q \in Allocated
                 PROVE  /\ BLK_SIZE(mem', q) = BLK_SIZE(mem, q)
                        /\ \A i \in Payload(q) : mem'[i] = mem[i]
      BY DEF Keeps
    <3>1. q \in Blocks /\ q \in C \ {p} /\ NEXT(mem, q) \in Nat /\ q \in Nat
      BY <1>1, <1>4, <1>5, BlockInHeap
    <3>2. \A r \in {p, p + s} : r \in Nat /\ (r <= q \/ NEXT(mem, q) <= r)
      BY <1>3, <1>5, <3>1
    <3>3. \A r \in {p, p + s} : BLK_START(r) \notin Payload(q) /\ BLK_PREV(r) \notin Payload(q)
      BY <3>1, <3>2, EdgesAreNotPayload
    <3>4. Payload(q) \subseteq Cells
      BY <3>1, PayloadInHeap
    <3> QED BY <2>4, <2>6, <3>1, <3>3, <3>4
  <2> QED BY <1>3, <1>4, <2>1, <2>6, <2>8, <2>9, <2>10
<1> QED BY <1>6, <1>7

\* The block that a free one makes with its free neighbours: from the start of
\* a block to the start of another, with allocated blocks on both sides.
Whole(m, C, p, b, n) ==
  /\ b \in C /\ b # Size /\ n \in Nat /\ n > 0 /\ b + n \in C
  /\ b <= p /\ p < b + n
  /\ ~BLK_FREE(m, b + n)
  /\ \A q \in C : b <= q /\ q < b + n => q # Size /\ BLK_FREE(m, q)
  /\ \A q \in C : q # Size /\ NEXT(m, q) = b => ~BLK_FREE(m, q)

\* Only p and a neighbour of it may be two free blocks in a row.
FreedIn(m, C, p) ==
  \A q \in C : q # Size /\ q # p /\ NEXT(m, q) # p /\ BLK_FREE(m, q) => ~BLK_FREE(m, NEXT(m, q))

LEMMA MergeIsWhole ==
  ASSUME NEW m \in [Cells -> Word], NEW C, Chain(C, m), NEW p \in C, p # Size,
         BLK_FREE(m, p), FreedIn(m, C, p)
  PROVE  Whole(m, C, p, Merge(m, p).start, Merge(m, p).size)
<1> DEFINE prev == PREV(m, p)
           next == NEXT(m, p)
           s == BLK_SIZE(m, p)
           b == IF BLK_FREE(m, prev) THEN prev ELSE p
           after == IF BLK_FREE(m, next) THEN BLK_SIZE(m, next) ELSE 0
           before == IF BLK_FREE(m, prev) THEN BLK_SIZE(m, prev) ELSE 0
           n == s + before + after
<1>1. Merge(m, p).start = b /\ Merge(m, p).size = n
  BY DEF Merge
<1>2. /\ p \in Nat /\ p < Size /\ s \in Nat /\ s > 0 /\ next = p + s /\ next \in C
      /\ next \in Nat
      /\ \A q \in C : q \in Nat /\ (q <= p \/ next <= q)
  BY BlockInHeap
<1>3. ~BLK_FREE(m, Size) /\ ~BLK_FREE(m, -1) /\ (p = 0 => prev = -1)
  BY DEF Chain, BLK_FREE, PREV
<1>4. /\ after \in Nat /\ next + after \in C /\ ~BLK_FREE(m, next + after)
      /\ \A q \in C : next <= q /\ q < next + after => q = next
      /\ BLK_FREE(m, next) => after > 0
  <2>1. CASE BLK_FREE(m, next)
    <3>1. next # Size /\ next # p
      BY <1>2, <1>3, <2>1
    <3>2. /\ after \in Nat /\ after > 0 /\ NEXT(m, next) = next + after /\ NEXT(m, next) \in C
          /\ \A q \in C : q \in Nat /\ (q <= next \/ next + after <= q)
      BY <1>2, <2>1, <3>1, BlockInHeap
    <3>3. next + after # p
      BY <1>2, <3>2
    <3>4. ~BLK_FREE(m, next + after)
      BY <1>2, <2>1, <3>1, <3>2, <3>3 DEF FreedIn
    <3>5. \A q \in C : next <= q /\ q < next + after => q = next
      BY <1>2, <3>2
    <3> QED BY <3>2, <3>4, <3>5
  <2>2. CASE ~BLK_FREE(m, next)
    BY <1>2, <2>2
  <2> QED BY <2>1, <2>2
<1>5. /\ before \in Nat /\ b \in C /\ b \in Nat /\ b + before = p
      /\ \A q \in C : b <= q /\ q < p => q = b
      /\ b # Size /\ BLK_FREE(m, b)
  <2>1. CASE p = 0
    <3>1. b = p /\ before = 0
      BY <1>3, <2>1
    <3> QED BY <1>2, <3>1
  <2>2. CASE p # 0
    <3>1. prev \in C /\ prev # Size /\ prev < p /\ NEXT(m, prev) = p
      BY <2>2, Predecessor
    <3>2. /\ BLK_SIZE(m, prev) \in Nat /\ prev \in Nat /\ prev + BLK_SIZE(m, prev) = p
          /\ \A q \in C : q \in Nat /\ (q <= prev \/ p <= q)
      BY <3>1, BlockInHeap
    <3>3. CASE BLK_FREE(m, prev)
      <4>1. b = prev /\ before = BLK_SIZE(m, prev)
        BY <3>3
      <4>2. \A q \in C : prev <= q /\ q < p => q = prev
        BY <1>2, <3>2
      <4> QED BY <3>1, <3>2, <3>3, <4>1, <4>2
    <3>4. CASE ~BLK_FREE(m, prev)
      <4>1. b = p /\ before = 0
        BY <3>4
      <4> QED BY <1>2, <4>1
    <3> QED BY <3>3, <3>4
  <2> QED BY <2>1, <2>2
<1>6. \A q \in C : q # Size /\ NEXT(m, q) = b => ~BLK_FREE(m, q)
  <2> SUFFICES ASSUME NEW q \in C, q # Size, NEXT(m, q) = b PROVE ~BLK_FREE(m, q)
    OBVIOUS
  <2>1. q < b
    BY BlockInHeap
  <2>2. CASE b = p
    <3>1. p # 0 /\ q \in Nat
      BY <1>2, <2>1, <2>2
    <3>2. prev \in C /\ prev # Size /\ prev < p /\ NEXT(m, prev) = p
      BY <3>1, Predecessor
    <3>3. \A r \in C : r \in Nat /\ (r <= prev \/ p <= r)
      BY <3>2, BlockInHeap
    <3>6. \A r \in C : r \in Nat /\ (r <= q \/ p <= r)
      BY <2>2, BlockInHeap
    <3>7. q \in Nat /\ prev \in Nat /\ (q <= prev \/ p <= q) /\ (prev <= q \/ p <= prev)
      BY <3>2, <3>3, <3>6
    <3>4. q = prev
      BY <1>2, <2>1, <2>2, <3>2, <3>7
    <3>5. ~BLK_FREE(m, prev)
      BY <2>2, <3>2, <1>2
    <3> QED BY <3>4, <3>5
  <2>3. CASE b # p
    <3>1. NEXT(m, q) # p /\ q # p /\ BLK_FREE(m, NEXT(m, q))
      BY <1>2, <1>5, <2>1, <2>3
    <3> QED BY <3>1 DEF FreedIn
  <2> QED BY <2>2, <2>3
<1> HIDE DEF b, after, before, s, prev, next
<1>7. n \in Nat /\ n > 0 /\ b + n = next + after /\ b <= p /\ p < b + n
  BY <1>2, <1>4, <1>5
<1>8. \A q \in C : b <= q /\ q < b + n => q # Size /\ BLK_FREE(m, q)
  <2> SUFFICES ASSUME NEW q \in C, b <= q, q < b + n PROVE q # Size /\ BLK_FREE(m, q)
    OBVIOUS
  <2>1. q \in Nat /\ (q <= p \/ next <= q)
    BY <1>2
  <2>2. q = b \/ q = p \/ q = next
    BY <1>2, <1>4, <1>5, <1>7, <2>1
  <2>3. ASSUME q = next PROVE BLK_FREE(m, next)
    <3>1. after # 0
      BY <1>2, <1>7, <2>3
    <3> QED BY <3>1 DEF after
  <2> QED BY <1>3, <1>5, <2>2, <2>3
<1> QED BY <1>1, <1>4, <1>5, <1>6, <1>7, <1>8 DEF Whole

\* free takes the block out of the allocated ones, whatever it merges with,
\* and touches no other.
LEMMA FreeEffect ==
  ASSUME HeapInv, NEW p \in Allocated, Free(p)
  PROVE  HeapInv' /\ Allocated' = Allocated \ {p} /\ Keeps(Allocated \ {p})
<1> DEFINE C == Walk(mem)
           s == BLK_SIZE(mem, p)
           m1 == MARK_BLK(mem, p, s, FALSE)
           b == Merge(m1, p).start
           n == Merge(m1, p).size
           C2 == {q \in C : q <= b \/ b + n <= q}
<1>1. /\ mem \in [Cells -> Word] /\ Chain(C, mem)
      /\ Blocks = C \ {Size} /\ Allocated = {q \in C \ {Size} : ~BLK_FREE(mem, q)}
      /\ \A q \in C : q # Size /\ BLK_FREE(mem, q) => ~BLK_FREE(mem, NEXT(mem, q))
      /\ lastFree \in (C \ {Size}) \cup {Nil}
  BY HeapChain
<1>2. /\ mem' = MARK_BLK(m1, b, n, FALSE)
      /\ \E w \in IF lastFree = Nil THEN NullWords ELSE {mem'[BLK_START(lastFree)]} :
           lastFree' = IF n > w.size \/ w.alloc THEN b ELSE lastFree
  BY DEF Free
<1> HIDE DEF C
<1>3. p \in C /\ p # Size /\ ~BLK_FREE(mem, p)
  BY <1>1
<1>4. /\ p \in Nat /\ s \in Nat /\ s > 0 /\ NEXT(mem, p) = p + s /\ p + s \in C
      /\ \A q \in C : q \in Nat /\ (q <= p \/ p + s <= q)
  BY <1>1, <1>3, BlockInHeap
<1> HIDE DEF s
<1>5. Joined(mem, C, p, s, FALSE, m1, C)
  <2>1. \A q : q \in C <=> q \in C /\ (q <= p \/ p + s <= q)
    BY <1>4
  <2>2. FALSE \in BOOLEAN /\ p \in C /\ s \in Nat /\ s > 0 /\ p + s \in C
    BY <1>3, <1>4
  <2>3. m1 = MARK_BLK(mem, p, s, FALSE)
    OBVIOUS
  <2> HIDE DEF m1
  <2> QED BY <1>1, <2>1, <2>2, <2>3, Join
<1> HIDE DEF m1
<1>6. /\ m1 \in [Cells -> Word] /\ Chain(C, m1)
      /\ m1[BLK_START(p)] = [size |-> s, alloc |-> FALSE]
      /\ \A q \in C \ {p} : m1[BLK_START(q)] = mem[BLK_START(q)]
      /\ \A i \in Cells : i # BLK_START(p) /\ i # BLK_PREV(p + s) => m1[i] = mem[i]
  BY <1>5 DEF Joined
<1>7. /\ BLK_FREE(m1, p)
      /\ \A q \in C : BLK_SIZE(m1, q) = BLK_SIZE(mem, q) /\ NEXT(m1, q) = NEXT(mem, q)
      /\ \A q \in C \ {p} : BLK_FREE(m1, q) = BLK_FREE(mem, q)
  BY <1>6 DEF BLK_SIZE, BLK_FREE, NEXT, s
<1>8. FreedIn(m1, C, p)
  <2> SUFFICES ASSUME NEW q \in C, q # Size, q # p, NEXT(m1, q) # p, BLK_FREE(m1, q)
               PROVE  ~BLK_FREE(m1, NEXT(m1, q))
    BY DEF FreedIn
  <2>1. ~BLK_FREE(mem, NEXT(mem, q)) /\ NEXT(mem, q) \in C
    BY <1>1, <1>7, BlockInHeap
  <2> QED BY <1>7, <2>1
<1>9. Whole(m1, C, p, b, n)
  BY <1>3, <1>6, <1>7, <1>8, MergeIsWhole
<1> HIDE DEF b, n
<1>10. /\ b \in C /\ b # Size /\ n \in Nat /\ n > 0 /\ b + n \in C
       /\ b <= p /\ p < b + n /\ b \in Nat
       /\ ~BLK_FREE(m1, b + n)
       /\ \A q \in C : b <= q /\ q < b + n => q # Size /\ BLK_FREE(m1, q)
       /\ \A q \in C : q # Size /\ NEXT(m1, q) = b => ~BLK_FREE(m1, q)
  BY <1>4, <1>9 DEF Whole
<1>11. Joined(m1, C, b, n, FALSE, mem', C2)
  <2>1. \A q : q \in C2 <=> q \in C /\ (q <= b \/ b + n <= q)
    OBVIOUS
  <2>2. FALSE \in BOOLEAN
    OBVIOUS
  <2> DEFINE m2 == MARK_BLK(m1, b, n, FALSE)
  <2>3. m2 = MARK_BLK(m1, b, n, FALSE)
    OBVIOUS
  <2> HIDE DEF m2, C2
  <2>4. Joined(m1, C, b, n, FALSE, m2, C2)
    BY <1>6, <1>10, <2>1, <2>2, <2>3, Join
  <2> QED BY <1>2, <2>4 DEF m2
<1>12. /\ mem' \in [Cells -> Word] /\ Chain(C2, mem')
       /\ mem'[BLK_START(b)] = [size |-> n, alloc |-> FALSE]
       /\ \A q \in C \ {b} : mem'[BLK_START(q)] = m1[BLK_START(q)]
       /\ \A i \in Cells : i # BLK_START(b) /\ i # BLK_PREV(b + n) => mem'[i] = m1[i]
  BY <1>11 DEF Joined
<1>13. /\ BLK_FREE(mem', b) /\ NEXT(mem', b) = b + n
       /\ \A q \in C \ {b} : /\ BLK_SIZE(mem', q) = BLK_SIZE(m1, q)
                             /\ BLK_FREE(mem', q) = BLK_FREE(m1, q)
                             /\ NEXT(mem', q) = NEXT(m1, q)
  BY <1>12 DEF BLK_SIZE, BLK_FREE, NEXT
<1>14. \A q \in C2 : q # Size /\ BLK_FREE(mem', q) => ~BLK_FREE(mem', NEXT(mem', q))
  <2> SUFFICES ASSUME NEW q \in C2, q # Size, BLK_FREE(mem', q)
               PROVE  ~BLK_FREE(mem', NEXT(mem', q))
    OBVIOUS
  <2>1. CASE q = b
    <3>1. b + n # b
      BY <1>10
    <3> QED BY <1>10, <1>13, <2>1, <3>1
  <2>2. CASE q # b
    <3>1. q \in C /\ q # p /\ BLK_FREE(m1, q) /\ NEXT(mem', q) = NEXT(m1, q)
      BY <1>4, <1>10, <1>13, <2>2
    <3>2. NEXT(m1, q) \in C2 /\ NEXT(m1, q) \in C
      BY <1>12, <3>1, BlockInHeap
    <3>3. NEXT(m1, q) # b
      BY <1>10, <3>1
    <3>4. NEXT(m1, q) # p
      BY <1>4, <1>10, <3>2, <3>3
    <3>5. ~BLK_FREE(m1, NEXT(m1, q))
      BY <1>8, <3>1, <3>4 DEF FreedIn
    <3> QED BY <1>13, <3>1, <3>2, <3>3, <3>5
  <2> QED BY <2>1, <2>2
<1>15. lastFree' \in (C2 \ {Size}) \cup {Nil}
  <2>1. b \in C2
    BY <1>10
  <2>2. CASE lastFree = Nil
    BY <1>2, <1>10, <2>1, <2>2
  <2>3. CASE lastFree # Nil
    <3>1. lastFree \in C /\ lastFree # Size
      BY <1>1, <2>3
    <3>2. lastFree' = IF n > BLK_SIZE(mem', lastFree) \/ ~BLK_FREE(mem', lastFree)
                      THEN b ELSE lastFree
      BY <1>2, <2>3 DEF BLK_SIZE, BLK_FREE
    <3>3. CASE lastFree \in C2
      BY <1>10, <2>1, <3>1, <3>2, <3>3
    <3>4. CASE lastFree \notin C2
      <4>1. lastFree \in Nat /\ b < lastFree /\ lastFree < b + n
        BY <1>4, <1>10, <3>1, <3>4
      <4>2. /\ BLK_SIZE(m1, lastFree) \in Nat
            /\ b + n <= lastFree \/ lastFree + BLK_SIZE(m1, lastFree) <= b + n
        BY <1>6, <1>10, <3>1, BlockInHeap
      <4>3. BLK_SIZE(mem', lastFree) = BLK_SIZE(m1, lastFree)
        BY <1>13, <3>1, <4>1
      <4>4. n > BLK_SIZE(mem', lastFree)
        BY <1>10, <4>1, <4>2, <4>3
      <4> QED BY <1>10, <2>1, <3>2, <4>4
    <3> QED BY <3>3, <3>4
  <2> QED BY <2>2, <2>3
<1> HIDE DEF C2
<1>16. HeapInv' /\ Allocated' = {q \in C2 \ {Size} : ~BLK_FREE(mem', q)}
  BY <1>12, <1>14, <1>15, HeapInvAfter
<1> USE DEF C2
<1>17. Allocated' = Allocated \ {p}
  <2>1. ASSUME NEW q \in C2, q # Size, ~BLK_FREE(mem', q) PROVE q \in Allocated \ {p}
    <3>1. q \in C /\ q # b
      BY <1>13, <2>1
    <3>2. ~BLK_FREE(m1, q)
      BY <1>13, <2>1, <3>1
    <3>3. q # p
      BY <1>7, <3>2
    <3> QED BY <1>1, <1>7, <2>1, <3>1, <3>2, <3>3
  <2>2. ASSUME NEW q \in Allocated \ {p} PROVE q \in C2 /\ q # Size /\ ~BLK_FREE(mem', q)
    <3>1. q \in C /\ q # Size /\ ~BLK_FREE(m1, q)
      BY <1>1, <1>7
    <3>2. q \in Nat /\ ~(b <= q /\ q < b + n)
      BY <1>4, <1>10, <3>1
    <3>3. q # b /\ (q <= b \/ b + n <= q)
      BY <1>10, <3>2
    <3> QED BY <1>13, <3>1, <3>3
  <2> QED BY <1>16, <2>1, <2>2
<1>18. Keeps(Allocated \ {p})
  <2> SUFFICES ASSUME NEW q \in Allocated, q # p
               PROVE  /\ BLK_SIZE(mem', q) = BLK_SIZE(mem, q)
                      /\ \A i \in Payload(q) : mem'[i] = mem[i]
    BY DEF Keeps
  <2>1. q \in Blocks /\ q \in C /\ q # Size /\ ~BLK_FREE(m1, q)
    BY <1>1, <1>7
  <2>2. q # b
    BY <1>10, <2>1
  <2>3. \A r \in C : r \in Nat /\ (r <= q \/ NEXT(mem, q) <= r)
    BY <1>1, <2>1, BlockInHeap
  <2>4. \A r \in {p, p + s, b, b + n} :
          BLK_START(r) \notin Payload(q) /\ BLK_PREV(r) \notin Payload(q)
    BY <1>3, <1>4, <1>10, <2>1, <2>3, EdgesAreNotPayload
  <2>5. Payload(q) \subseteq Cells
    BY <2>1, PayloadInHeap
  <2> QED BY <1>6, <1>7, <1>12, <1>13, <2>1, <2>2, <2>4, <2>5
<1> QED BY <1>16, <1>17, <1>18

\* An owner that writes in its block changes no header, footer or shortcut.
LEMMA WriteEffect ==
  ASSUME HeapInv, NEW p \in Allocated, Write(p)
  PROVE  /\ HeapInv' /\ Allocated' = Allocated
         /\ \A q \in Allocated : BLK_SIZE(mem', q) = BLK_SIZE(mem, q)
<1> DEFINE C == Walk(mem)
<1>1. /\ mem \in [Cells -> Word] /\ Chain(C, mem)
      /\ Blocks = C \ {Size} /\ Allocated = {q \in C \ {Size} : ~BLK_FREE(mem, q)}
      /\ \A q \in C : q # Size /\ BLK_FREE(mem, q) => ~BLK_FREE(mem, NEXT(mem, q))
      /\ lastFree \in (C \ {Size}) \cup {Nil}
  BY HeapChain
<1> HIDE DEF C
<1>2. /\ mem' \in [Cells -> Word] /\ lastFree' = lastFree
      /\ \A i \in Cells : i \notin Payload(p) => mem'[i] = mem[i]
  <2>1. PICK w \in Junk : mem' = [i \in Cells |-> IF i \in Payload(p) THEN w ELSE mem[i]]
    BY DEF Write
  <2>2. w \in Word
    BY JunkAssumption
  <2>3. lastFree' = lastFree
    BY DEF Write
  <2> QED BY <1>1, <2>1, <2>2, <2>3
<1>3. p \in C /\ p # Size /\ p \in Blocks
  BY <1>1
<1>4. \A q \in C : q \in Nat /\ q <= Size /\ (q <= p \/ NEXT(mem, p) <= q)
  <2>1. \A q \in C : q \in Nat /\ (q <= p \/ NEXT(mem, p) <= q)
    BY <1>1, <1>3, BlockInHeap
  <2> QED BY <1>1, <2>1, SizeAssumption DEF Chain, Units
<1>5. \A q \in C : /\ mem'[BLK_START(q)] = mem[BLK_START(q)]
                   /\ mem'[BLK_PREV(q)] = mem[BLK_PREV(q)]
  <2> SUFFICES ASSUME NEW q \in C
               PROVE  /\ mem'[BLK_START(q)] = mem[BLK_START(q)]
                      /\ mem'[BLK_PREV(q)] = mem[BLK_PREV(q)]
    OBVIOUS
  <2>1. BLK_START(q) \in Cells
    BY <1>4, SizeAssumption DEF BLK_START, Cells
  <2>2. BLK_PREV(q) \in Cells
    BY <1>4, SizeAssumption DEF BLK_PREV, Cells
  <2>3. BLK_START(q) \notin Payload(p) /\ BLK_PREV(q) \notin Payload(p)
    BY <1>3, <1>4, EdgesAreNotPayload
  <2> QED BY <1>2, <2>1, <2>2, <2>3
<1>6. mem'[BLK_START(-1)] = mem[BLK_START(-1)]
  <2>1. p \in Nat
    BY <1>3, <1>4
  <2>2. BLK_START(-1) \in Cells /\ BLK_START(-1) \notin Payload(p)
    BY <2>1, SizeAssumption DEF BLK_START, Cells, Payload
  <2> QED BY <1>2, <2>2
<1>7. \A q \in C : /\ BLK_SIZE(mem', q) = BLK_SIZE(mem, q) /\ NEXT(mem', q) = NEXT(mem, q)
                   /\ BLK_FREE(mem', q) = BLK_FREE(mem, q)
  BY <1>5 DEF BLK_SIZE, NEXT, BLK_FREE
<1>8. Chain(C, mem')
  <2>1. /\ C \subseteq Units /\ 0 \in C /\ Size \in C
        /\ mem'[BLK_START(-1)] = [size |-> 1, alloc |-> TRUE]
        /\ mem'[BLK_PREV(0)] = [size |-> 1, alloc |-> TRUE]
        /\ mem'[BLK_START(Size)] = [size |-> 0, alloc |-> TRUE]
    BY <1>1, <1>5, <1>6 DEF Chain
  <2>2. ASSUME NEW q \in C \ {Size}
        PROVE  /\ BLK_SIZE(mem', q) > 0
               /\ NEXT(mem', q) \in C
               /\ mem'[BLK_PREV(NEXT(mem', q))] = mem'[BLK_START(q)]
               /\ \A r \in C : r <= q \/ NEXT(mem', q) <= r
    BY <1>1, <1>5, <1>7, BlockInHeap
  <2> QED BY <2>1, <2>2 DEF Chain
<1>9. \A q \in C : q # Size /\ BLK_FREE(mem', q) => ~BLK_FREE(mem', NEXT(mem', q))
  BY <1>1, <1>7, BlockInHeap
<1>10. HeapInv' /\ Allocated' = {q \in C \ {Size} : ~BLK_FREE(mem', q)}
  BY <1>1, <1>2, <1>8, <1>9, HeapInvAfter
<1> QED BY <1>1, <1>7, <1>10

\* malloc takes a free block that is large enough, or there is none.
LEMMA Candidate ==
  ASSUME HeapInv, NEW n \in Nat, n > 0, NEW w \in LastHeaders
  PROVE  /\ \A p \in Candidates(w, n) : p \in Blocks /\ BLK_FREE(mem, p) /\ n <= BLK_SIZE(mem, p)
         /\ Candidates(w, n) = {} =>
              \A p \in Blocks : BLK_FREE(mem, p) => BLK_SIZE(mem, p) < n
<1> DEFINE fits == {p \in Blocks : BLK_FREE(mem, p) /\ BLK_SIZE(mem, p) >= n}
<1>1. \A p \in Blocks : p \in Nat /\ BLK_SIZE(mem, p) \in Nat
  BY HeapChain, BlockInHeap
<1>2. lastFree \in Blocks \cup {Nil}
  BY HeapChain
<1>3. CASE ~w.alloc /\ w.size >= n
  <2>1. lastFree # Nil
    BY <1>3, NullAssumption DEF LastHeaders
  <2>2. w = mem[BLK_START(lastFree)]
    BY <2>1 DEF LastHeaders
  <2>3. Candidates(w, n) = {lastFree}
    BY <1>3 DEF Candidates
  <2> QED BY <1>1, <1>2, <1>3, <2>1, <2>2, <2>3 DEF BLK_FREE, BLK_SIZE
<1>4. CASE ~(~w.alloc /\ w.size >= n)
  <2>1. Candidates(w, n) = IF fits = {} THEN {} ELSE {Min(fits)}
    BY <1>4 DEF Candidates
  <2>2. CASE fits = {}
    BY <1>1, <2>1, <2>2
  <2>3. CASE fits # {}
    <3>1. fits \subseteq Nat
      BY <1>1
    <3> HIDE DEF fits
    <3>2. \E x \in fits : \A y \in fits : x <= y
      BY <2>3, <3>1, Least
    <3>3. Min(fits) \in fits
      BY <3>2 DEF Min
    <3> QED BY <1>1, <2>1, <2>3, <3>3 DEF fits
  <2> QED BY <2>2, <2>3
<1> QED BY <1>3, <1>4

-----------------------------------------------------------------------------
(* The invariant                                                           *)

LEMMA HeapInvInit == Init => HeapInv /\ Allocated = {}
<1> SUFFICES ASSUME Init PROVE HeapInv /\ Allocated = {}
  OBVIOUS
<1> DEFINE C == {0, Size}
           base(w) == [i \in Cells |->
                         CASE i \in {BLK_PREV(0), BLK_START(-1)} -> [size |-> 1, alloc |-> TRUE]
                           [] i = BLK_START(Size)               -> [size |-> 0, alloc |-> TRUE]
                           [] OTHER -> w]
<1>1. PICK w \in Junk : mem = MARK_BLK(base(w), 0, Size, FALSE)
  BY DEF Init
<1> DEFINE m == base(w)
<1>2. {BLK_PREV(0), BLK_START(-1), BLK_START(Size)} \subseteq Cells
  BY SizeAssumption DEF BLK_PREV, BLK_START, Cells
<1>3. /\ BLK_START(Size) # BLK_PREV(0) /\ BLK_START(Size) # BLK_START(-1)
      /\ {BLK_PREV(0), BLK_START(-1), BLK_START(Size)} \cap {BLK_START(0), BLK_PREV(Size)} = {}
  BY SizeAssumption DEF BLK_PREV, BLK_START
<1>4. w \in Word /\ [size |-> 1, alloc |-> TRUE] \in Word /\ [size |-> 0, alloc |-> TRUE] \in Word
  BY JunkAssumption, SizeAssumption DEF Word
<1>5. m \in [Cells -> Word]
  BY <1>4
<1>6. /\ m[BLK_PREV(0)] = [size |-> 1, alloc |-> TRUE]
      /\ m[BLK_START(-1)] = [size |-> 1, alloc |-> TRUE]
      /\ m[BLK_START(Size)] = [size |-> 0, alloc |-> TRUE]
  BY <1>2, <1>3
<1> HIDE DEF m
<1>7. mem = MARK_BLK(m, 0, Size, FALSE)
  BY <1>1 DEF m
<1>8. /\ mem \in [Cells -> Word]
      /\ mem[BLK_START(0)] = [size |-> Size, alloc |-> FALSE]
      /\ mem[BLK_PREV(Size)] = [size |-> Size, alloc |-> FALSE]
      /\ \A i \in Cells : i # BLK_START(0) /\ i # BLK_PREV(Size) => mem[i] = m[i]
  <2> DEFINE m2 == MARK_BLK(m, 0, Size, FALSE)
  <2>1. 0 \in Nat /\ Size \in Nat /\ Size > 0 /\ 0 + Size <= Size /\ 0 + Size = Size
    BY SizeAssumption
  <2>2. /\ m2 \in [Cells -> Word]
        /\ m2[BLK_START(0)] = [size |-> Size, alloc |-> FALSE]
        /\ m2[BLK_PREV(0 + Size)] = [size |-> Size, alloc |-> FALSE]
        /\ \A i \in Cells : i # BLK_START(0) /\ i # BLK_PREV(0 + Size) => m2[i] = m[i]
    BY <1>5, <2>1, Marked
  <2> HIDE DEF m2
  <2>3. mem = m2
    BY <1>7 DEF m2
  <2> QED BY <2>1, <2>2, <2>3
<1>9. BLK_SIZE(mem, 0) = Size /\ NEXT(mem, 0) = Size /\ BLK_FREE(mem, 0)
  BY <1>8, SizeAssumption DEF BLK_SIZE, NEXT, BLK_FREE
<1>10. /\ mem[BLK_PREV(0)] = [size |-> 1, alloc |-> TRUE]
       /\ mem[BLK_START(-1)] = [size |-> 1, alloc |-> TRUE]
       /\ mem[BLK_START(Size)] = [size |-> 0, alloc |-> TRUE]
  BY <1>2, <1>3, <1>6, <1>8
<1>11. Chain(C, mem)
  <2>1. C \subseteq Units /\ C \ {Size} = {0}
    BY SizeAssumption DEF Units
  <2>2. \A q \in C : q <= 0 \/ Size <= q
    BY SizeAssumption
  <2> QED BY <1>8, <1>9, <1>10, <2>1, <2>2, SizeAssumption DEF Chain
<1>12. Walk(mem) = C
  BY <1>8, <1>11, WalkIsChain
<1>13. Blocks = {0}
  <2>1. \A p : p \in C /\ BLK_SIZE(mem, p) > 0 <=> p \in C /\ p # Size
    BY <1>8, <1>11, BlocksOfChain
  <2> QED BY <1>12, <2>1, SizeAssumption DEF Blocks
<1>14. ~BLK_FREE(mem, NEXT(mem, 0))
  BY <1>9, <1>10 DEF BLK_FREE
<1>15. Allocated = {}
  BY <1>9, <1>13 DEF Allocated
<1> QED BY <1>8, <1>11, <1>12, <1>13, <1>14, <1>15
       DEF HeapInv, Words, Coalesced, LastFreeIsBlock, Init

LEMMA HeapInvStep == HeapInv /\ [Next]_vars => HeapInv'
<1> SUFFICES ASSUME HeapInv, [Next]_vars PROVE HeapInv'
  OBVIOUS
<1>1. ASSUME NEW n \in Requests, Malloc(n) PROVE HeapInv'
  <2>1. n \in Nat /\ n > 0
    BY RequestAssumption
  <2>2. PICK w \in LastHeaders :
          \/ \E p \in Candidates(w, n) : Take(p, n)
          \/ UNCHANGED <<mem, lastFree>>
    BY <1>1 DEF Malloc
  <2>3. ASSUME NEW p \in Candidates(w, n), Take(p, n) PROVE HeapInv'
    BY <2>1, <2>3, Candidate, TakeEffect
  <2>4. CASE UNCHANGED <<mem, lastFree>>
    BY <2>4 DEF HeapInv, Words, Coalesced, LastFreeIsBlock, Blocks
  <2> QED BY <2>2, <2>3, <2>4
<1>2. ASSUME NEW p \in Allocated, Free(p) PROVE HeapInv'
  BY <1>2, FreeEffect
<1>3. ASSUME NEW p \in Allocated, Write(p) PROVE HeapInv'
  BY <1>3, WriteEffect
<1>4. CASE UNCHANGED vars
  BY <1>4 DEF vars, HeapInv, Words, Coalesced, LastFreeIsBlock, Blocks
<1> QED BY <1>1, <1>2, <1>3, <1>4 DEF Next

LEMMA HeapIsWhole == Spec => []HeapInv
BY HeapInvInit, HeapInvStep, PTL DEF Spec

\* sae_alloc_checkheap finds nothing wrong after any calls of any cores.
THEOREM HeapChecks == Spec => []checkheap
<1>1. ASSUME HeapInv PROVE checkheap
  <2>1. /\ Chain(Walk(mem), mem) /\ mem \in [Cells -> Word]
        /\ Blocks = Walk(mem) \ {Size}
    BY <1>1, HeapChain
  <2>2. \A p \in Blocks : mem[BLK_START(p)] = mem[BLK_PREV(NEXT(mem, p))]
    BY <2>1, BlockInHeap
  <2> QED BY <2>1, <2>2 DEF checkheap, Chain
<1> QED BY <1>1, HeapIsWhole, PTL

\* No order of frees leaves two neighbouring free blocks.
THEOREM HeapCoalesced == Spec => []Coalesced
<1>1. HeapInv => Coalesced
  BY DEF HeapInv
<1> QED BY <1>1, HeapIsWhole, PTL

\* The shortcut of malloc never points into a block that absorbed it.
THEOREM ShortcutIsBlock == Spec => []LastFreeIsBlock
<1>1. HeapInv => LastFreeIsBlock
  BY DEF HeapInv
<1> QED BY <1>1, HeapIsWhole, PTL

\* No call writes in the payload of a block that stays allocated.
THEOREM PayloadIsKept == Spec => PayloadKept
<1> DEFINE Kept == answer' # answer =>
                     \A p \in Allocated : p # answer'.ptr =>
                       \A i \in Payload(p) : mem'[i] = mem[i]
<1>1. HeapInv /\ [Next]_vars => [Kept]_vars
  <2> SUFFICES ASSUME HeapInv, Next PROVE Kept
    OBVIOUS
  <2>1. ASSUME NEW n \in Requests, Malloc(n) PROVE Kept
    <3>1. n \in Nat /\ n > 0
      BY RequestAssumption
    <3>2. PICK w \in LastHeaders :
            (\E p \in Candidates(w, n) : Take(p, n)) \/ UNCHANGED mem
      BY <2>1 DEF Malloc
    <3>3. ASSUME NEW p \in Candidates(w, n), Take(p, n) PROVE Keeps(Allocated)
      BY <3>1, <3>3, Candidate, TakeEffect
    <3> QED BY <3>2, <3>3 DEF Keeps
  <2>2. ASSUME NEW p \in Allocated, Free(p) PROVE Kept
    <3>1. answer'.ptr = p
      BY <2>2 DEF Free
    <3> QED BY <2>2, <3>1, FreeEffect DEF Keeps
  <2>3. ASSUME NEW p \in Allocated, Write(p) PROVE Kept
    BY <2>3 DEF Write
  <2> QED BY <2>1, <2>2, <2>3 DEF Next
<1> QED BY <1>1, HeapIsWhole, PTL DEF Spec, PayloadKept

-----------------------------------------------------------------------------
(* The chain of blocks implements a heap of regions                        *)

\* A block of the chain lies in the heap and overlaps no other.
LEMMA BlockFits ==
  ASSUME NEW m \in [Cells -> Word], NEW C, Chain(C, m), NEW p \in C, p # Size
  PROVE  /\ p \in Nat /\ BLK_SIZE(m, p) \in Nat /\ p + BLK_SIZE(m, p) <= Size
         /\ \A q \in C : q # Size /\ q # p =>
              ~Heap!Overlap(p, BLK_SIZE(m, p), q, BLK_SIZE(m, q))
<1>1. /\ p \in Nat /\ BLK_SIZE(m, p) \in Nat /\ p + BLK_SIZE(m, p) <= Size
      /\ \A q \in C : q \in Nat /\ (q <= p \/ p + BLK_SIZE(m, p) <= q)
  BY BlockInHeap
<1>2. ASSUME NEW q \in C, q # Size, q # p
      PROVE  ~Heap!Overlap(p, BLK_SIZE(m, p), q, BLK_SIZE(m, q))
  <2>1. /\ q \in Nat /\ BLK_SIZE(m, q) \in Nat
        /\ p <= q \/ q + BLK_SIZE(m, q) <= p
    BY <1>2, BlockInHeap
  <2> QED BY <1>1, <1>2, <2>1 DEF Heap!Overlap
<1> QED BY <1>1, <1>2

\* When every free block is too small, there is no gap: a gap would lie in
\* one free block, since its neighbours are allocated.
LEMMA NoGap ==
  ASSUME HeapInv, NEW n \in Nat, n > 0,
         \A p \in Blocks : BLK_FREE(mem, p) => BLK_SIZE(mem, p) < n
  PROVE  \A p \in 0 .. Size : ~Heap!Fits(p, n)
<1> SUFFICES ASSUME NEW p \in 0 .. Size, p + n <= Size,
                    \A q \in Allocated : ~Heap!Overlap(p, n, q, BLK_SIZE(mem, q))
             PROVE  FALSE
  BY DEF Heap!Fits
<1> DEFINE C == Walk(mem)
           T == {q \in C : q <= p}
<1>1. /\ mem \in [Cells -> Word] /\ Chain(C, mem)
      /\ Blocks = C \ {Size} /\ Allocated = {q \in C \ {Size} : ~BLK_FREE(mem, q)}
      /\ \A q \in C : q # Size /\ BLK_FREE(mem, q) => ~BLK_FREE(mem, NEXT(mem, q))
  BY HeapChain
<1> HIDE DEF C
<1>2. p \in Nat /\ p < Size
  BY SizeAssumption
<1>3. T \subseteq Units /\ T # {}
  BY <1>1, <1>2 DEF Chain
<1> HIDE DEF T
<1>4. PICK b \in T : \A q \in T : q <= b
  BY <1>3, Greatest
<1>5. b \in C /\ b <= p /\ b # Size /\ \A q \in C : q <= p => q <= b
  BY <1>2, <1>3, <1>4, SizeAssumption DEF T, Units
<1>6. /\ b \in Nat /\ BLK_SIZE(mem, b) \in Nat /\ NEXT(mem, b) = b + BLK_SIZE(mem, b)
      /\ NEXT(mem, b) \in C /\ NEXT(mem, b) \in Nat /\ b < NEXT(mem, b)
  BY <1>1, <1>5, BlockInHeap
<1>7. p < NEXT(mem, b)
  BY <1>2, <1>5, <1>6
<1>8. BLK_FREE(mem, b)
  <2>1. Heap!Overlap(p, n, b, BLK_SIZE(mem, b))
    BY <1>2, <1>5, <1>6, <1>7 DEF Heap!Overlap
  <2> QED BY <1>1, <1>5, <2>1
<1> DEFINE x == NEXT(mem, b)
<1>9. x < p + n /\ x # Size
  BY <1>1, <1>2, <1>5, <1>6, <1>8, SizeAssumption
<1>10. x \in Allocated
  BY <1>1, <1>5, <1>6, <1>8, <1>9
<1>11. x \in Nat /\ BLK_SIZE(mem, x) \in Nat
  BY <1>1, <1>6, <1>9, BlockInHeap
<1> HIDE DEF x
<1>12. Heap!Overlap(p, n, x, BLK_SIZE(mem, x))
  BY <1>2, <1>7, <1>9, <1>11 DEF Heap!Overlap, x
<1> QED BY <1>10, <1>12

Regions == [p \in Allocated |-> BLK_SIZE(mem, p)]

\* Each call is a call of the abstract heap; a client's write is no call.
LEMMA CallsRefine ==
  ASSUME HeapInv, Next
  PROVE  Heap!Next \/ UNCHANGED <<Regions, answer>>
<1>1. ASSUME NEW n \in Requests, Malloc(n) PROVE Heap!Malloc(n)
  <2>1. n \in Nat /\ n > 0
    BY RequestAssumption
  <2>2. PICK w \in LastHeaders :
          \/ \E p \in Candidates(w, n) :
               Take(p, n) /\ answer' = [op |-> "malloc", size |-> n, ptr |-> p]
          \/ /\ Candidates(w, n) = {}
             /\ answer' = [op |-> "malloc", size |-> n, ptr |-> Nil]
             /\ UNCHANGED <<mem, lastFree>>
    BY <1>1 DEF Malloc
  <2>3. ASSUME NEW p \in Candidates(w, n), Take(p, n),
               answer' = [op |-> "malloc", size |-> n, ptr |-> p]
        PROVE  Heap!Malloc(n)
    <3>1. /\ HeapInv' /\ Allocated' = Allocated \cup {p} /\ p \notin Allocated
          /\ n <= BLK_SIZE(mem', p) /\ BLK_SIZE(mem', p) < n + MinSplit
          /\ Keeps(Allocated)
      BY <2>1, <2>3, Candidate, TakeEffect
    <3> DEFINE k == BLK_SIZE(mem', p)
               extra == k - n
    <3>2. /\ p \in Nat /\ k \in Nat /\ p + k <= Size
          /\ \A q \in Allocated : ~Heap!Overlap(p, k, q, BLK_SIZE(mem', q))
      <4>1. mem' \in [Cells -> Word] /\ Chain(Walk(mem'), mem')
        BY <3>1 DEF HeapInv, Words
      <4>2. Blocks' = Walk(mem') \ {Size}
        BY <4>1, BlocksOfChain DEF Blocks
      <4>3. Allocated' \subseteq Walk(mem') \ {Size}
        BY <4>2 DEF Allocated
      <4>4. p \in Walk(mem') /\ p # Size /\ \A q \in Allocated : q \in Walk(mem') /\ q # Size /\ q # p
        BY <3>1, <4>3
      <4> QED BY <4>1, <4>4, BlockFits
    <3>3. extra \in 0 .. MinSplit - 1 /\ n + extra = k /\ p \in 0 .. Size
      BY <2>1, <3>1, <3>2, SizeAssumption DEF MinSplit
    <3>4. \A q \in Allocated : BLK_SIZE(mem', q) = BLK_SIZE(mem, q)
      BY <3>1 DEF Keeps
    <3>5. Heap!Fits(p, n + extra)
      BY <3>2, <3>3, <3>4 DEF Heap!Fits
    <3>6. Regions' = [q \in DOMAIN Regions \cup {p} |-> IF q = p THEN n + extra ELSE Regions[q]]
      BY <3>1, <3>3, <3>4 DEF Regions
    <3> HIDE DEF k, extra
    <3> QED BY <2>3, <3>3, <3>5, <3>6 DEF Heap!Malloc, Regions
  <2>4. ASSUME Candidates(w, n) = {}, UNCHANGED <<mem, lastFree>>,
               answer' = [op |-> "malloc", size |-> n, ptr |-> Nil]
        PROVE  Heap!Malloc(n)
    <3>1. \A p \in 0 .. Size : ~Heap!Fits(p, n)
      BY <2>1, <2>4, Candidate, NoGap
    <3>2. Allocated' = Allocated /\ mem' = mem
      BY <2>4 DEF Allocated, Blocks
    <3> QED BY <2>4, <3>1, <3>2 DEF Heap!Malloc
  <2> QED BY <2>2, <2>3, <2>4
<1>2. ASSUME NEW p \in Allocated, Free(p) PROVE Heap!Free(p)
  <2>1. Allocated' = Allocated \ {p} /\ Keeps(Allocated \ {p})
    BY <1>2, FreeEffect
  <2>2. answer' = [op |-> "free", size |-> 0, ptr |-> p]
    BY <1>2 DEF Free
  <2>3. \A q \in Allocated' : q \in Allocated /\ BLK_SIZE(mem', q) = BLK_SIZE(mem, q)
    BY <2>1 DEF Keeps
  <2>4. Regions' = [q \in Allocated \ {p} |-> Regions[q]]
    BY <2>1, <2>3 DEF Regions
  <2> QED BY <2>2, <2>4 DEF Heap!Free, Heap!Restrict, Regions
<1>3. ASSUME NEW p \in Allocated, Write(p) PROVE UNCHANGED <<Regions, answer>>
  BY <1>3, WriteEffect DEF Write, Regions
<1> QED BY <1>1, <1>2, <1>3 DEF Next, Heap!Next

\* The heap gives out disjoint regions inside it, at most one unit larger than
\* asked for, and refuses only what no gap can hold.
THEOREM HeapImplemented == Spec => ImplementsHeap
<1>1. Init => Heap!Init
  <2> SUFFICES ASSUME Init PROVE Heap!Init
    OBVIOUS
  <2>1. Allocated = {}
    BY HeapInvInit
  <2> QED BY <2>1 DEF Init, Heap!Init
<1>2. HeapInv /\ [Next]_vars => [Heap!Next]_<<Regions, answer>>
  <2>1. ASSUME UNCHANGED vars PROVE UNCHANGED <<Regions, answer>>
    BY <2>1 DEF vars, Regions, Allocated, Blocks
  <2> QED BY <2>1, CallsRefine
<1> QED BY <1>1, <1>2, HeapIsWhole, PTL DEF Spec, ImplementsHeap, Heap!Spec, Regions

=============================================================================
