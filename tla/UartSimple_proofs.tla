-------------------------- MODULE UartSimple_proofs --------------------------
(***************************************************************************)
(* The UART driver for any number of tasks, any rings, bursts and FIFO:    *)
(* the variables keep their types in both builds, and where the byte is    *)
(* stored before the index, bytes leave and are read in order.             *)
(***************************************************************************)
EXTENDS UartSimple, TLAPS, WellFoundedInduction

-----------------------------------------------------------------------------
(* Rings                                                                   *)

Slots == 0 .. BufSize - 1

\* The bytes from index t of a ring up to index h, and the k-th slot after t.
Dist(h, t) == IF t <= h THEN h - t ELSE h + BufSize - t
Row(t, k)  == IF t + k < BufSize THEN t + k ELSE t + k - BufSize

LEMMA Modulus ==
  ASSUME NEW x \in Nat, x < BufSize + BufSize
  PROVE  x % BufSize = IF x < BufSize THEN x ELSE x - BufSize
BY SizeAssumption

LEMMA RingIndex ==
  ASSUME NEW h \in Slots, NEW t \in Slots
  PROVE  /\ (h + 1) % BufSize \in Slots
         /\ Dist(h, t) \in Slots
         /\ Dist(h, t) = 0 <=> t = h
         /\ Full(t, h) <=> Dist(h, t) = BufSize - 1
         /\ (h + BufSize - t) % BufSize = Dist(h, t)
         /\ \A k \in Slots : (t + k) % BufSize = Row(t, k) /\ Row(t, k) \in Slots
         /\ \A k \in Slots : Dist(Row(t, k), t) = k
<1>1. BufSize \in Nat /\ BufSize >= 2 /\ h \in Nat /\ t \in Nat /\ h < BufSize /\ t < BufSize
  BY SizeAssumption DEF Slots
<1>2. (h + 1) % BufSize = IF h + 1 < BufSize THEN h + 1 ELSE 0
  <2>1. (h + 1) % BufSize = IF h + 1 < BufSize THEN h + 1 ELSE h + 1 - BufSize
    BY <1>1, Modulus
  <2> QED BY <1>1, <2>1
<1>3. (h + BufSize - t) % BufSize = Dist(h, t)
  <2>1. h + BufSize - t \in Nat /\ h + BufSize - t < BufSize + BufSize
    BY <1>1
  <2>2. (h + BufSize - t) % BufSize =
          IF h + BufSize - t < BufSize THEN h + BufSize - t ELSE h + BufSize - t - BufSize
    BY <1>1, <2>1, Modulus DEF Slots
  <2> QED BY <1>1, <2>2 DEF Dist
<1>4. ASSUME NEW k \in Slots PROVE (t + k) % BufSize = Row(t, k) /\ Row(t, k) \in Slots
  <2>1. t + k \in Nat /\ t + k < BufSize + BufSize
    BY <1>1 DEF Slots
  <2>2. (t + k) % BufSize = IF t + k < BufSize THEN t + k ELSE t + k - BufSize
    BY <1>1, <2>1, Modulus DEF Slots
  <2> QED BY <1>1, <2>2 DEF Row, Slots
<1>5. \A k \in Slots : Dist(Row(t, k), t) = k
  BY <1>1 DEF Dist, Row, Slots
<1>6. Dist(h, t) \in Slots /\ (Dist(h, t) = 0 <=> t = h)
  BY <1>1 DEF Dist, Slots
<1>7. Full(t, h) <=> Dist(h, t) = BufSize - 1
  BY <1>1, <1>2 DEF Dist, Full
<1>8. (h + 1) % BufSize \in Slots
  BY <1>1, <1>2 DEF Slots
<1> QED BY <1>3, <1>4, <1>5, <1>6, <1>7, <1>8

\* An index goes one slot on.
LEMMA RingAdvances ==
  ASSUME NEW h \in Slots, NEW t \in Slots
  PROVE  /\ Dist((h + 1) % BufSize, t) = IF Full(t, h) THEN 0 ELSE Dist(h, t) + 1
         /\ \A s \in Slots : Dist(s, (t + 1) % BufSize) =
                               IF s = t THEN BufSize - 1 ELSE Dist(s, t) - 1
         /\ \A s \in Slots : Dist(s, t) = Dist(h, t) => s = h
<1>1. BufSize \in Nat /\ BufSize >= 2 /\ h \in Nat /\ t \in Nat /\ h < BufSize /\ t < BufSize
  BY SizeAssumption DEF Slots
<1>2. ASSUME NEW i \in Slots PROVE (i + 1) % BufSize = IF i + 1 < BufSize THEN i + 1 ELSE 0
  <2>1. i + 1 \in Nat /\ i + 1 < BufSize + BufSize
    BY <1>1 DEF Slots
  <2>2. (i + 1) % BufSize = IF i + 1 < BufSize THEN i + 1 ELSE i + 1 - BufSize
    BY <1>1, <2>1, Modulus DEF Slots
  <2> QED BY <1>1, <2>2 DEF Slots
<1>3. Full(t, h) <=> Dist(h, t) = BufSize - 1
  BY RingIndex
<1>4. Dist((h + 1) % BufSize, t) = IF Full(t, h) THEN 0 ELSE Dist(h, t) + 1
  BY <1>1, <1>2, <1>3 DEF Dist
<1>5. ASSUME NEW s \in Slots
      PROVE  Dist(s, (t + 1) % BufSize) = IF s = t THEN BufSize - 1 ELSE Dist(s, t) - 1
  <2>1. (t + 1) % BufSize = IF t + 1 < BufSize THEN t + 1 ELSE 0
    BY <1>2
  <2> QED BY <1>1, <2>1 DEF Dist, Slots
<1>6. \A s \in Slots : Dist(s, t) = Dist(h, t) => s = h
  BY <1>1 DEF Dist, Slots
<1> QED BY <1>4, <1>5, <1>6

-----------------------------------------------------------------------------
(* Numbers of bytes                                                        *)

LEMMA ByteNumbers ==
  /\ \A w \in 1 .. MaxWrites : \A i \in 0 .. Burst : Byte(w - 1, i) \in 0 .. MaxWrites * Burst
  /\ \A w \in Nat : \A i \in Nat : /\ Byte(w, i) \in Nat
                                   /\ Byte(w, i + 1) = Byte(w, i) + 1
  /\ \A w \in Nat : w > 0 => Byte(w - 1, Burst) = Byte(w, 0)
  /\ Byte(0, 0) = 0
<1>1. Burst \in Nat /\ MaxWrites \in Nat
  BY BurstAssumption, BoundAssumption, SizeAssumption
<1>2. ASSUME NEW w \in 1 .. MaxWrites, NEW i \in 0 .. Burst
      PROVE  Byte(w - 1, i) \in 0 .. MaxWrites * Burst
  <2>1. (w - 1) * Burst \in Nat /\ (w - 1) * Burst + Burst = w * Burst
    BY <1>1
  <2>2. w * Burst <= MaxWrites * Burst /\ MaxWrites * Burst \in Nat
    BY <1>1
  <2>3. w * Burst \in Nat
    BY <1>1
  <2> QED BY <1>1, <2>1, <2>2, <2>3 DEF Byte
<1>3. ASSUME NEW w \in Nat, NEW i \in Nat
      PROVE  Byte(w, i) \in Nat /\ Byte(w, i + 1) = Byte(w, i) + 1
  BY <1>1 DEF Byte
<1>4. ASSUME NEW w \in Nat, w > 0 PROVE Byte(w - 1, Burst) = Byte(w, 0)
  BY <1>1, <1>4 DEF Byte
<1>5. Byte(0, 0) = 0
  BY <1>1 DEF Byte
<1> QED BY <1>2, <1>3, <1>4, <1>5

-----------------------------------------------------------------------------
(* The invariants                                                          *)

Task        == Writer \cup Reader
WritePlaces == {"full?", "txBlock", "byte", "index", "wrap", "kick"}
ReadPlaces  == {"empty?", "rxBlock", "timedout", "drain", "byte", "index", "wrap", "return"}

\* A task in a call holds its lock, and has as many bytes behind it as the
\* place it is at says.
WriteAt(t) ==
  /\ pc[t] \in {"idle"} \cup WritePlaces
  /\ txLock = t <=> pc[t] # "idle"
  /\ pc[t] = "idle" => done[t] = 0
  /\ pc[t] # "idle" => writes > 0
  /\ pc[t] \in WritePlaces \ {"kick"} => done[t] < Burst
  /\ pc[t] = "kick" => done[t] = Burst
ReadAt(t) ==
  /\ pc[t] \in {"idle"} \cup ReadPlaces
  /\ rxLock = t <=> pc[t] # "idle"
Calls ==
  /\ pc \in [Task -> {"idle"} \cup WritePlaces \cup ReadPlaces]
  /\ done \in [Task -> Nat] /\ writes \in 0 .. MaxWrites
  /\ txLock \in Writer \cup {NoTask} /\ rxLock \in Reader \cup {NoTask}
  /\ \A t \in Writer : WriteAt(t)
  /\ \A t \in Reader : ReadAt(t)

\* Where the index is stored first it is past the buffer until it is wrapped.
TxTypes ==
  /\ txRead \in Slots /\ txWrite \in Index
  /\ txWrite \notin Slots => \E t \in Writer : pc[t] \in {"byte", "wrap"}
  /\ \A t \in Writer : IndexFirst /\ pc[t] = "byte" => txWrite > 0
  /\ txBuffer \in [Slots -> 0 .. MaxWrites * Burst]
  /\ sent \in 0 .. MaxWrites * Burst
  /\ transmitting \in BOOLEAN /\ etbei \in BOOLEAN /\ thre \in BOOLEAN
  /\ txSleeping \in BOOLEAN /\ broken \in BOOLEAN
  /\ txBlock \in {0, 1}
RxTypes ==
  /\ rxRead \in Index /\ rxWrite \in Slots
  /\ rxRead \notin Slots => \E t \in Reader : pc[t] \in {"byte", "wrap"}
  /\ \A t \in Reader : IndexFirst /\ pc[t] = "byte" => rxRead > 0
  /\ arrived \in 0 .. MaxBytes /\ fifo \in 0 .. FifoSize
  /\ dropped \in Nat /\ taken \in Nat
  /\ fifo + dropped <= arrived /\ fifo + taken <= arrived
  /\ rxBuffer \in [Slots -> 0 .. arrived - fifo]
  /\ rxSleeping \in BOOLEAN /\ rxBlock \in {0, 1}

Types == Calls /\ TxTypes /\ RxTypes

\* The bytes written so far, and what the ring's slots hold: a byte that is
\* not sent yet is in its slot, and the task that is about to advance the
\* index has put the next one there.
Written ==
  IF txLock = NoTask THEN Byte(writes, 0)
  ELSE Byte(writes - 1, IF pc[txLock] = "wrap" THEN done[txLock] + 1 ELSE done[txLock])
Unsent == Dist(txWrite, txRead)
TxHolds ==
  /\ ~broken
  /\ sent + Unsent = Written
  /\ \A s \in Slots : Dist(s, txRead) < Unsent => txBuffer[s] = sent + 1 + Dist(s, txRead)
\* A token is for the writer that sleeps, and there is room when it comes.
TxRoom ==
  /\ \A t \in Writer : pc[t] \in {"byte", "index"} => Unsent < BufSize - 1
  /\ \A t \in Writer : pc[t] = "index" => txBuffer[txWrite] = Written + 1
  /\ txSleeping => txLock # NoTask /\ pc[txLock] = "txBlock"
  /\ txBlock = 1 => /\ ~txSleeping
                    /\ txLock # NoTask /\ pc[txLock] = "txBlock"
                    /\ Unsent < BufSize - 1

TxInv == TxHolds /\ TxRoom

-----------------------------------------------------------------------------
(* Types                                                                   *)

LEMMA TypesImply == Types => TypeOK
<1> SUFFICES ASSUME Types PROVE TypeOK
  OBVIOUS
<1>1. rxBuffer \in [Slots -> 0 .. MaxBytes]
  <2>1. 0 .. arrived - fifo \subseteq 0 .. MaxBytes
    BY BoundAssumption DEF Types, RxTypes
  <2> QED BY <2>1 DEF Types, RxTypes
<1>2. dropped <= arrived /\ taken <= arrived
  BY BoundAssumption, FifoAssumption DEF Types, RxTypes
<1> QED BY <1>1, <1>2 DEF Types, Calls, TxTypes, RxTypes, TypeOK, Slots

LEMMA TypesStart == Init => Types
<1> SUFFICES ASSUME Init PROVE Types
  OBVIOUS
<1>1. Calls
  BY TaskAssumption, BoundAssumption DEF Init, Calls, WriteAt, ReadAt, Task, WritePlaces, ReadPlaces
<1>2. 0 \in Slots /\ 0 \in Index /\ 0 \in 0 .. MaxWrites * Burst /\ 0 \in 0 .. MaxBytes /\ 0 \in 0 .. FifoSize
  <2>1. MaxWrites * Burst \in Nat
    BY BoundAssumption, BurstAssumption, SizeAssumption
  <2> QED BY <2>1, SizeAssumption, BoundAssumption, FifoAssumption DEF Slots, Index
<1>3. TxTypes
  BY <1>2 DEF Init, TxTypes, Slots
<1>4. RxTypes
  <2>1. rxBuffer \in [Slots -> 0 .. arrived - fifo]
    BY DEF Init, Slots
  <2>2. \A t \in Reader : pc[t] # "byte"
    BY DEF Init
  <2>3. arrived = 0 /\ fifo = 0 /\ dropped = 0 /\ taken = 0 /\ rxRead = 0 /\ rxWrite = 0
    BY DEF Init
  <2>4. fifo + dropped <= arrived /\ fifo + taken <= arrived
    BY <2>3
  <2>5. rxSleeping \in BOOLEAN /\ rxBlock \in {0, 1}
    BY DEF Init
  <2> QED BY <1>2, <2>1, <2>2, <2>3, <2>4, <2>5 DEF RxTypes
<1> QED BY <1>1, <1>3, <1>4 DEF Types

\* Where the indices are when the next store is made.
LEMMA Stores ==
  /\ FirstStore \in {"index", "byte"} /\ AfterByte \in {"wrap", "index"}
  /\ AfterIndex \in {"byte", "wrap"}
  /\ IndexFirst => FirstStore = "index" /\ AfterByte = "wrap" /\ AfterIndex = "byte"
  /\ ~IndexFirst => FirstStore = "byte" /\ AfterByte = "index" /\ AfterIndex = "wrap"
BY OrderAssumption DEF FirstStore, AfterByte, AfterIndex

LEMMA WriterStepCalls ==
  ASSUME Calls, NEW t \in Writer, StartWrite(t) \/ WriteStep(t)
  PROVE  Calls'
<1> USE DEF Calls
<1>0. t \in Task /\ Writer \subseteq Task /\ Reader \subseteq Task /\ t \notin Reader /\ t # NoTask
  BY TaskAssumption DEF Task
<1>1. UNCHANGED rxLock /\ \A u \in Task \ {t} : pc'[u] = pc[u] /\ done'[u] = done[u]
  BY <1>0 DEF StartWrite, WriteStep, TestFull, TakeTxBlock, Put, AdvanceWrite, WrapWrite, Kick, Goto, rxVars, txVars, histVars
<1>2. \A u \in Reader : ReadAt(u)'
  BY <1>0, <1>1 DEF ReadAt
<1>3. \A u \in Writer \ {t} : pc[u] = "idle"
  <2>1. txLock \in {t, NoTask}
    BY DEF StartWrite, WriteStep, TestFull, TakeTxBlock, Put, AdvanceWrite, WrapWrite, Kick, WriteAt
  <2> QED BY <2>1, TaskAssumption DEF WriteAt
<1>a. Burst \in Nat /\ Burst > 0 /\ MaxWrites \in Nat
  BY BurstAssumption, SizeAssumption, BoundAssumption
<1>4. /\ pc' \in [Task -> {"idle"} \cup WritePlaces \cup ReadPlaces]
      /\ done' \in [Task -> Nat] /\ writes' \in 0 .. MaxWrites
      /\ txLock' \in {t, NoTask}
      /\ WriteAt(t)'
      /\ txLock' = NoTask \/ txLock' = t
  <2>1. CASE StartWrite(t)
    BY <1>0, <1>a, <2>1 DEF StartWrite, Goto, WriteAt, WritePlaces
  <2>2. CASE TestFull(t)
    BY <1>0, <2>2, Stores DEF TestFull, Goto, WriteAt, WritePlaces, histVars
  <2>3. CASE TakeTxBlock(t)
    BY <1>0, <2>3, Stores DEF TakeTxBlock, Goto, WriteAt, WritePlaces, histVars
  <2>4. CASE Put(t)
    BY <1>0, <2>4, Stores DEF Put, Goto, WriteAt, WritePlaces, histVars
  <2>5. CASE AdvanceWrite(t)
    BY <1>0, <2>5, Stores DEF AdvanceWrite, Goto, WriteAt, WritePlaces, histVars
  <2>6. CASE WrapWrite(t)
    BY <1>0, <1>a, <2>6 DEF WrapWrite, Goto, WriteAt, WritePlaces, histVars
  <2>7. CASE Kick(t)
    BY <1>0, <2>7 DEF Kick, Goto, WriteAt, WritePlaces, histVars
  <2> QED BY <2>1, <2>2, <2>3, <2>4, <2>5, <2>6, <2>7 DEF WriteStep
<1>5. \A u \in Writer \ {t} : WriteAt(u)'
  <2> SUFFICES ASSUME NEW u \in Writer \ {t} PROVE WriteAt(u)'
    OBVIOUS
  <2>1. pc'[u] = "idle" /\ done'[u] = done[u] /\ txLock' # u
    BY <1>0, <1>1, <1>3, <1>4, TaskAssumption
  <2> QED BY <1>3, <2>1 DEF WriteAt, WritePlaces
<1> QED BY <1>0, <1>1, <1>2, <1>4, <1>5

LEMMA ReaderStepCalls ==
  ASSUME Calls, NEW t \in Reader, StartRead(t) \/ ReadStep(t) \/ TimedOut(t)
  PROVE  Calls'
<1> USE DEF Calls
<1>0. t \in Task /\ Writer \subseteq Task /\ Reader \subseteq Task /\ t \notin Writer /\ t # NoTask
  BY TaskAssumption DEF Task
<1>1. UNCHANGED <<txLock, writes>> /\ \A u \in Task \ {t} : pc'[u] = pc[u] /\ done'[u] = done[u]
  BY <1>0 DEF StartRead, ReadStep, TestEmpty, TakeRxBlock, TimedOut, AfterTimeout, Drain, Get,
              AdvanceRead, WrapRead, FinishRead, Goto, histVars
<1>2. \A u \in Writer : WriteAt(u)'
  BY <1>0, <1>1 DEF WriteAt
<1>3. \A u \in Reader \ {t} : pc[u] = "idle"
  <2>1. rxLock \in {t, NoTask}
    BY DEF StartRead, ReadStep, TestEmpty, TakeRxBlock, TimedOut, AfterTimeout, Drain, Get,
           AdvanceRead, WrapRead, FinishRead, ReadAt
  <2> QED BY <2>1, TaskAssumption DEF ReadAt
<1>4. /\ pc' \in [Task -> {"idle"} \cup WritePlaces \cup ReadPlaces]
      /\ done' \in [Task -> Nat]
      /\ txLock' = txLock
      /\ ReadAt(t)'
      /\ rxLock' = NoTask \/ rxLock' = t
  <2>1. CASE StartRead(t)
    BY <1>0, <2>1 DEF StartRead, Goto, ReadAt, ReadPlaces
  <2>2. CASE TestEmpty(t)
    BY <1>0, <2>2 DEF TestEmpty, Goto, ReadAt, ReadPlaces
  <2>3. CASE TakeRxBlock(t)
    BY <1>0, <2>3 DEF TakeRxBlock, Goto, ReadAt, ReadPlaces
  <2>4. CASE TimedOut(t)
    BY <1>0, <2>4 DEF TimedOut, Goto, ReadAt, ReadPlaces
  <2>5. CASE AfterTimeout(t)
    BY <1>0, <2>5 DEF AfterTimeout, Goto, ReadAt, ReadPlaces
  <2>6. CASE Drain(t)
    BY <1>0, <2>6, Stores DEF Drain, Goto, ReadAt, ReadPlaces
  <2>7. CASE Get(t)
    BY <1>0, <2>7, Stores DEF Get, Goto, ReadAt, ReadPlaces
  <2>8. CASE AdvanceRead(t)
    BY <1>0, <2>8, Stores DEF AdvanceRead, Goto, ReadAt, ReadPlaces
  <2>9. CASE WrapRead(t)
    BY <1>0, <2>9 DEF WrapRead, Goto, ReadAt, ReadPlaces
  <2>10. CASE FinishRead(t)
    BY <1>0, <2>10 DEF FinishRead, Goto, ReadAt, ReadPlaces
  <2> QED BY <2>1, <2>2, <2>3, <2>4, <2>5, <2>6, <2>7, <2>8, <2>9, <2>10 DEF ReadStep
<1>5. \A u \in Reader \ {t} : ReadAt(u)'
  <2> SUFFICES ASSUME NEW u \in Reader \ {t} PROVE ReadAt(u)'
    OBVIOUS
  <2>1. pc'[u] = "idle" /\ rxLock' # u
    BY <1>0, <1>1, <1>3, <1>4, TaskAssumption
  <2> QED BY <2>1 DEF ReadAt
<1> QED BY <1>0, <1>1, <1>2, <1>4, <1>5

-----------------------------------------------------------------------------
(* The interrupt fills the receive ring, byte by byte                      *)

\* Induction up to a bound, as a fact about sets.
LEMMA Counting ==
  ASSUME NEW N \in Nat, NEW S, 0 \in S, \A n \in 1 .. N : n - 1 \in S => n \in S
  PROVE  \A n \in 0 .. N : n \in S
<1> DEFINE Less == {ss \in Nat \X Nat : ss[1] < ss[2]}
           T == (0 .. N) \ S
<1>1. IsWellFoundedOn(Less, Nat)
  BY NatLessThanWellFounded DEF OpToRel
<1>2. T \subseteq Nat
  OBVIOUS
<1> HIDE DEF Less, T
<1>3. SUFFICES ASSUME T # {} PROVE FALSE
  BY DEF T
<1>4. PICK x \in T : \A y \in T : ~(<<y, x>> \in Less)
  BY <1>1, <1>2, <1>3, WFMin
<1>5. x \in 1 .. N /\ x - 1 \notin S
  BY <1>4 DEF T
<1>6. x - 1 \in T /\ <<x - 1, x>> \in Less
  BY <1>5 DEF T, Less
<1> QED BY <1>4, <1>6

\* g is defined by recursion on 0 .. N.
ByRecursion(g, N, base, step) ==
  g[0] = base /\ \A n \in 1 .. N : g[n] = step[<<g[n - 1], n>>]

\* Such a function exists.
LEMMA Recursion ==
  ASSUME NEW N \in Nat, NEW V, NEW base \in V, NEW step \in [V \X (1 .. N) -> V]
  PROVE  \E g \in [0 .. N -> V] : ByRecursion(g, N, base, step)
<1> USE DEF ByRecursion
<1> DEFINE Good(g, m) == ByRecursion(g, m, base, step)
           S == {m \in 0 .. N : \E g \in [0 .. m -> V] : Good(g, m)}
<1>1. 0 \in S
  <2>1. [i \in 0 .. 0 |-> base] \in [0 .. 0 -> V] /\ Good([i \in 0 .. 0 |-> base], 0)
    OBVIOUS
  <2> HIDE DEF Good
  <2>2. \E g \in [0 .. 0 -> V] : Good(g, 0)
    BY <2>1
  <2>3. 0 \in 0 .. N
    OBVIOUS
  <2> QED BY <2>2, <2>3
<1>2. ASSUME NEW m \in 1 .. N, m - 1 \in S PROVE m \in S
  <2>1. PICK g \in [0 .. m - 1 -> V] : Good(g, m - 1)
    BY <1>2
  <2> DEFINE h == [i \in 0 .. m |-> IF i = m THEN step[<<g[m - 1], m>>] ELSE g[i]]
  <2>2. g[m - 1] \in V /\ step[<<g[m - 1], m>>] \in V
    BY <2>1
  <2>3. h \in [0 .. m -> V]
    <3>1. ASSUME NEW i \in 0 .. m, i # m PROVE i \in 0 .. m - 1
      BY <3>1
    <3> QED BY <2>1, <2>2, <3>1
  <2>4. \A i \in 0 .. m - 1 : h[i] = g[i]
    OBVIOUS
  <2>5. h[m] = step[<<h[m - 1], m>>]
    <3>1. m - 1 \in 0 .. m - 1
      OBVIOUS
    <3>2. h[m] = step[<<g[m - 1], m>>]
      OBVIOUS
    <3> HIDE DEF h
    <3> QED BY <2>4, <3>1, <3>2
  <2>6. h[0] = base
    BY <2>1, <2>4
  <2>7. ASSUME NEW n \in 1 .. m PROVE h[n] = step[<<h[n - 1], n>>]
    <3>1. CASE n = m
      BY <2>5, <3>1
    <3>2. CASE n # m
      <4>1. n \in 1 .. m - 1 /\ n - 1 \in 0 .. m - 1 /\ n \in 0 .. m - 1
        BY <3>2
      <4> HIDE DEF h
      <4> QED BY <2>1, <2>4, <4>1
    <3> QED BY <3>1, <3>2
  <2> HIDE DEF h
  <2> QED BY <2>3, <2>6, <2>7
<1> HIDE DEF S
<1>3. N \in S
  BY <1>1, <1>2, Counting
<1> QED BY <1>3 DEF S

\* One byte more, the n-th of the FIFO.
FillNext(was, n) ==
  IF Full(rxRead, was.write) THEN [was EXCEPT !.lost = @ + 1]
  ELSE [buffer |-> [was.buffer EXCEPT ![was.write] = arrived - fifo + n],
        write  |-> (was.write + 1) % BufSize,
        lost   |-> was.lost]

LEMMA FillUnfolds ==
  ASSUME RxTypes
  PROVE  /\ Fill[0] = [buffer |-> rxBuffer, write |-> rxWrite, lost |-> 0]
         /\ \A n \in 1 .. FifoSize : Fill[n] = FillNext(Fill[n - 1], n)
<1> DEFINE V == [buffer : [Slots -> Nat], write : Slots, lost : Nat]
           base == [buffer |-> rxBuffer, write |-> rxWrite, lost |-> 0]
           step == [vn \in V \X (1 .. FifoSize) |-> FillNext(vn[1], vn[2])]
<1>1. FifoSize \in Nat /\ arrived - fifo \in Nat
  BY FifoAssumption, BoundAssumption DEF RxTypes
<1>2. base \in V
  <2>1. rxBuffer \in [Slots -> Nat] /\ rxWrite \in Slots
    BY <1>1 DEF RxTypes
  <2> QED BY <2>1
<1>3. step \in [V \X (1 .. FifoSize) -> V]
  <2>1. ASSUME NEW v \in V, NEW n \in 1 .. FifoSize PROVE FillNext(v, n) \in V
    <3>1. (v.write + 1) % BufSize \in Slots
      BY RingIndex
    <3>2. [v.buffer EXCEPT ![v.write] = arrived - fifo + n] \in [Slots -> Nat]
      BY <1>1
    <3> QED BY <3>1, <3>2 DEF FillNext
  <2> HIDE DEF V
  <2> QED BY <2>1
<1> HIDE DEF V, base, step
<1>4. PICK g \in [0 .. FifoSize -> V] : ByRecursion(g, FifoSize, base, step)
  BY <1>1, <1>2, <1>3, Recursion
<1> DEFINE Solves(f) == f = [n \in 0 .. FifoSize |-> IF n = 0 THEN base ELSE FillNext(f[n - 1], n)]
<1>5. Solves(g)
  <2>1. ASSUME NEW n \in 1 .. FifoSize PROVE g[n] = FillNext(g[n - 1], n)
    <3>1. g[n - 1] \in V
      BY <1>1, <1>4
    <3> QED BY <1>4, <3>1 DEF step, ByRecursion
  <2>2. ASSUME NEW n \in 0 .. FifoSize PROVE g[n] = IF n = 0 THEN base ELSE FillNext(g[n - 1], n)
    BY <1>1, <1>4, <2>1 DEF ByRecursion
  <2>3. g \in [0 .. FifoSize -> V]
    BY <1>4
  <2> QED BY <2>2, <2>3
<1>6. Fill = CHOOSE f : Solves(f)
  BY DEF Fill, FillNext, base
<1> HIDE DEF Solves
<1>7. Solves(Fill)
  BY <1>5, <1>6
<1>8. Fill = [n \in 0 .. FifoSize |-> IF n = 0 THEN base ELSE FillNext(Fill[n - 1], n)]
  BY <1>7 DEF Solves
<1> HIDE DEF Fill
<1>9. Fill[0] = base
  BY <1>1, <1>8
<1>10. ASSUME NEW n \in 1 .. FifoSize PROVE Fill[n] = FillNext(Fill[n - 1], n)
  <2>1. n \in 0 .. FifoSize /\ n # 0
    BY <1>1
  <2> QED BY <1>8, <2>1
<1> QED BY <1>9, <1>10 DEF base

\* The ring, the index and the count of refused bytes after n bytes.
FillTypes(f, n) ==
  /\ f = [buffer |-> f.buffer, write |-> f.write, lost |-> f.lost]
  /\ f.buffer \in [Slots -> 0 .. arrived - fifo + n]
  /\ f.write \in Slots /\ f.lost \in 0 .. n

LEMMA FilledTypes ==
  ASSUME RxTypes
  PROVE  \A n \in 0 .. FifoSize : FillTypes(Fill[n], n)
<1>1. FifoSize \in Nat /\ arrived - fifo \in Nat
  BY FifoAssumption, BoundAssumption DEF RxTypes
<1>2. FillTypes(Fill[0], 0)
  <2>1. arrived - fifo + 0 = arrived - fifo
    BY <1>1
  <2> QED BY <2>1, FillUnfolds DEF FillTypes, RxTypes
<1>3. ASSUME NEW n \in 1 .. FifoSize, FillTypes(Fill[n - 1], n - 1) PROVE FillTypes(Fill[n], n)
  <2> DEFINE was == Fill[n - 1]
  <2>1. Fill[n] = FillNext(was, n)
    BY FillUnfolds
  <2>2. /\ was = [buffer |-> was.buffer, write |-> was.write, lost |-> was.lost]
        /\ was.buffer \in [Slots -> 0 .. arrived - fifo + n]
        /\ was.write \in Slots /\ was.lost \in 0 .. n - 1
    <3>1. 0 .. arrived - fifo + (n - 1) \subseteq 0 .. arrived - fifo + n
      BY <1>1
    <3> QED BY <1>3, <3>1 DEF FillTypes
  <2> HIDE DEF was
  <2>3. CASE Full(rxRead, was.write)
    <3>1. Fill[n] = [buffer |-> was.buffer, write |-> was.write, lost |-> was.lost + 1]
      BY <2>1, <2>2, <2>3 DEF FillNext
    <3> QED BY <1>1, <2>2, <3>1 DEF FillTypes
  <2>4. CASE ~Full(rxRead, was.write)
    <3>1. Fill[n] = [buffer |-> [was.buffer EXCEPT ![was.write] = arrived - fifo + n],
                     write |-> (was.write + 1) % BufSize, lost |-> was.lost]
      BY <2>1, <2>4 DEF FillNext
    <3>2. [was.buffer EXCEPT ![was.write] = arrived - fifo + n] \in [Slots -> 0 .. arrived - fifo + n]
      BY <1>1, <2>2
    <3>3. (was.write + 1) % BufSize \in Slots
      BY <2>2, RingIndex
    <3> QED BY <1>1, <2>2, <3>1, <3>2, <3>3 DEF FillTypes
  <2> QED BY <2>3, <2>4
<1> DEFINE S == {n \in 0 .. FifoSize : FillTypes(Fill[n], n)}
<1>4. 0 \in S /\ \A n \in 1 .. FifoSize : n - 1 \in S => n \in S
  BY <1>1, <1>2, <1>3
<1> HIDE DEF S
<1>5. \A n \in 0 .. FifoSize : n \in S
  BY <1>1, <1>4, Counting
<1> QED BY <1>5 DEF S

\* At the places of the stores the index is in the buffer where it must be.
LEMMA WriterStepTypes ==
  ASSUME Types, NEW t \in Writer, StartWrite(t) \/ WriteStep(t)
  PROVE  TxTypes' /\ RxTypes'
<1>0. t \in Task /\ t \notin Reader /\ pc \in [Task -> {"idle"} \cup WritePlaces \cup ReadPlaces]
  BY TaskAssumption DEF Task, Types, Calls
<1>1. UNCHANGED <<rxVars, arrived, taken, dropped>> /\ \A u \in Task \ {t} : pc'[u] = pc[u]
  BY <1>0 DEF StartWrite, WriteStep, TestFull, TakeTxBlock, Put, AdvanceWrite, WrapWrite, Kick, Goto, histVars
<1>2. RxTypes'
  <2>1. \A u \in Reader : pc'[u] = pc[u]
    BY <1>0, <1>1 DEF Task
  <2> QED BY <1>1, <2>1 DEF RxTypes, rxVars, Types
<1>3. \A u \in Writer \ {t} : pc[u] = "idle" /\ pc'[u] = "idle"
  <2>1. txLock \in {t, NoTask}
    BY DEF StartWrite, WriteStep, TestFull, TakeTxBlock, Put, AdvanceWrite, WrapWrite, Kick, WriteAt, Types, Calls
  <2> QED BY <1>1, <2>1, TaskAssumption DEF WriteAt, Types, Calls, Task
<1>4. /\ txWrite \in Index
      /\ txWrite \notin Slots => pc[t] \in {"byte", "wrap"}
      /\ IndexFirst /\ pc[t] = "byte" => txWrite > 0
  BY <1>3 DEF Types, TxTypes
<1>a. BufSize \in Nat /\ BufSize >= 2
  BY SizeAssumption
<1>5. /\ txWrite' \in Index
      /\ txWrite' \notin Slots => pc'[t] \in {"byte", "wrap"}
      /\ IndexFirst /\ pc'[t] = "byte" => txWrite' > 0
  <2>1. CASE StartWrite(t)
    BY <1>0, <1>4, <2>1 DEF StartWrite, Goto, txVars
  <2>2. CASE TestFull(t)
    BY <1>0, <1>4, <2>2, Stores DEF TestFull, Goto
  <2>3. CASE TakeTxBlock(t)
    BY <1>0, <1>4, <2>3, Stores DEF TakeTxBlock, Goto
  <2>4. CASE Put(t)
    BY <1>0, <1>a, <1>4, <2>4, Stores DEF Put, Goto, Index, Slots
  <2>5. CASE AdvanceWrite(t)
    <3>1. txWrite \in Slots
      BY <1>4, <2>5 DEF AdvanceWrite
    <3>2. (txWrite + 1) % BufSize \in Slots
      BY <3>1, RingIndex
    <3> QED BY <1>0, <1>a, <2>5, <3>1, <3>2, Stores DEF AdvanceWrite, Advance, Goto, Index, Slots
  <2>6. CASE WrapWrite(t)
    BY <1>0, <1>a, <1>4, <2>6 DEF WrapWrite, Wrapped, Goto, Index, Slots
  <2>7. CASE Kick(t)
    BY <1>0, <1>4, <2>7 DEF Kick, Goto
  <2> QED BY <2>1, <2>2, <2>3, <2>4, <2>5, <2>6, <2>7 DEF WriteStep
<1>6. txBuffer' \in [Slots -> 0 .. MaxWrites * Burst]
  <2>1. CASE Put(t)
    <3>1. writes \in 1 .. MaxWrites /\ done[t] + 1 \in 0 .. Burst
      BY <1>0, <2>1, BoundAssumption, BurstAssumption, SizeAssumption
         DEF Put, Types, Calls, WriteAt, WritePlaces
    <3>2. Byte(writes - 1, done[t] + 1) \in 0 .. MaxWrites * Burst
      BY <3>1, ByteNumbers
    <3>3. Slot(txWrite) \in Slots
      BY <1>a, <1>4, <2>1, OrderAssumption DEF Put, Slot, Slots, Index
    <3> QED BY <2>1, <3>2 DEF Put, Types, TxTypes
  <2>2. CASE ~Put(t)
    <3>1. UNCHANGED txBuffer
      BY <2>2 DEF StartWrite, WriteStep, TestFull, TakeTxBlock, Put, AdvanceWrite, WrapWrite, Kick, txVars
    <3> QED BY <3>1 DEF Types, TxTypes
  <2> QED BY <2>1, <2>2
<1>7. txSleeping' \in BOOLEAN
  <2>1. CASE TestFull(t)
    BY <2>1 DEF TestFull, Types, TxTypes
  <2>2. CASE ~TestFull(t)
    BY <2>2 DEF StartWrite, WriteStep, TestFull, TakeTxBlock, Put, AdvanceWrite, WrapWrite, Kick, txVars, Types, TxTypes
  <2> QED BY <2>1, <2>2
<1>8. transmitting' \in BOOLEAN /\ etbei' \in BOOLEAN
  <2>1. CASE Kick(t)
    BY <2>1 DEF Kick, Types, TxTypes
  <2>2. CASE ~Kick(t)
    BY <2>2 DEF StartWrite, WriteStep, TestFull, TakeTxBlock, Put, AdvanceWrite, WrapWrite, Kick, txVars, Types, TxTypes
  <2> QED BY <2>1, <2>2
<1>9. txBlock' \in {0, 1}
  BY DEF StartWrite, WriteStep, TestFull, TakeTxBlock, Put, AdvanceWrite, WrapWrite, Kick, txVars, Types, TxTypes
<1>10. UNCHANGED <<txRead, thre, sent, broken>>
  BY DEF StartWrite, WriteStep, TestFull, TakeTxBlock, Put, AdvanceWrite, WrapWrite, Kick, txVars, histVars
<1>11. /\ txWrite' \notin Slots => \E u \in Writer : pc'[u] \in {"byte", "wrap"}
       /\ \A u \in Writer : IndexFirst /\ pc'[u] = "byte" => txWrite' > 0
  BY <1>3, <1>5
<1>12. TxTypes'
  BY <1>5, <1>6, <1>7, <1>8, <1>9, <1>10, <1>11 DEF TxTypes, Types
<1> QED BY <1>2, <1>12

LEMMA ReaderStepTypes ==
  ASSUME Types, NEW t \in Reader, StartRead(t) \/ ReadStep(t) \/ TimedOut(t)
  PROVE  TxTypes' /\ RxTypes'
<1>0. t \in Task /\ t \notin Writer /\ pc \in [Task -> {"idle"} \cup WritePlaces \cup ReadPlaces]
  BY TaskAssumption DEF Task, Types, Calls
<1>1. /\ UNCHANGED <<txVars, writes, sent, broken, arrived, dropped, fifo, rxBuffer, rxWrite>>
      /\ \A u \in Task \ {t} : pc'[u] = pc[u]
  BY <1>0 DEF StartRead, ReadStep, TestEmpty, TakeRxBlock, TimedOut, AfterTimeout, Drain, Get,
              AdvanceRead, WrapRead, FinishRead, Goto, histVars, rxVars
<1>2. TxTypes'
  <2>1. \A u \in Writer : pc'[u] = pc[u]
    BY <1>0, <1>1 DEF Task
  <2> QED BY <1>1, <2>1 DEF TxTypes, txVars, Types
<1>3. \A u \in Reader \ {t} : pc[u] = "idle" /\ pc'[u] = "idle"
  <2>1. rxLock \in {t, NoTask}
    BY DEF StartRead, ReadStep, TestEmpty, TakeRxBlock, TimedOut, AfterTimeout, Drain, Get,
           AdvanceRead, WrapRead, FinishRead, ReadAt, Types, Calls
  <2> QED BY <1>1, <2>1, TaskAssumption DEF ReadAt, Types, Calls, Task
<1>4. /\ rxRead \in Index
      /\ rxRead \notin Slots => pc[t] \in {"byte", "wrap"}
      /\ IndexFirst /\ pc[t] = "byte" => rxRead > 0
  BY <1>3 DEF Types, RxTypes
<1>a. BufSize \in Nat /\ BufSize >= 2 /\ arrived - fifo \in Nat /\ arrived \in Nat /\ fifo \in Nat
  BY SizeAssumption, BoundAssumption, FifoAssumption DEF Types, RxTypes
<1>5. /\ rxRead' \in Index
      /\ rxRead' \notin Slots => pc'[t] \in {"byte", "wrap"}
      /\ IndexFirst /\ pc'[t] = "byte" => rxRead' > 0
  <2>1. CASE AdvanceRead(t)
    <3>1. rxRead \in Slots
      BY <1>4, <2>1 DEF AdvanceRead
    <3>2. (rxRead + 1) % BufSize \in Slots
      BY <3>1, RingIndex
    <3> QED BY <1>0, <1>a, <2>1, <3>1, <3>2, Stores DEF AdvanceRead, Advance, Goto, Index, Slots
  <2>2. CASE WrapRead(t)
    BY <1>0, <1>a, <1>4, <2>2 DEF WrapRead, Wrapped, Goto, Index, Slots
  <2>3. CASE Get(t)
    BY <1>0, <1>a, <1>4, <2>3, Stores DEF Get, Goto, Index, Slots, rxVars
  <2>4. CASE Drain(t)
    BY <1>0, <1>4, <2>4, Stores DEF Drain, Goto, rxVars
  <2>5. CASE TestEmpty(t) \/ TakeRxBlock(t) \/ AfterTimeout(t) \/ FinishRead(t) \/ StartRead(t) \/ TimedOut(t)
    <3>1. UNCHANGED rxRead /\ pc[t] \notin {"byte", "wrap"} /\ pc'[t] \notin {"byte", "wrap"}
      BY <1>0, <2>5 DEF TestEmpty, TakeRxBlock, AfterTimeout, FinishRead, StartRead, TimedOut, Goto, rxVars
    <3> QED BY <1>4, <3>1
  <2> QED BY <2>1, <2>2, <2>3, <2>4, <2>5 DEF ReadStep
<1>6. taken' \in Nat /\ fifo + taken' <= arrived
  <2>1. CASE Get(t)
    <3>1. Slot(rxRead) \in Slots
      BY <1>a, <1>4, <2>1, OrderAssumption DEF Get, Slot, Slots, Index
    <3>2. taken' \in 0 .. arrived - fifo
      BY <2>1, <3>1 DEF Get, Types, RxTypes
    <3>3. fifo \in Nat /\ arrived \in Nat /\ taken' \in Nat /\ taken' <= arrived - fifo
      BY <1>a, <3>2
    <3>4. \A a, b, c \in Nat : c <= a - b => b + c <= a
      OBVIOUS
    <3>5. fifo + taken' <= arrived
      BY <3>3, <3>4
    <3> QED BY <3>3, <3>5
  <2>2. CASE ~Get(t)
    <3>1. UNCHANGED taken
      BY <2>2 DEF StartRead, ReadStep, TestEmpty, TakeRxBlock, TimedOut, AfterTimeout, Drain, Get,
                  AdvanceRead, WrapRead, FinishRead, histVars
    <3> QED BY <3>1 DEF Types, RxTypes
  <2> QED BY <2>1, <2>2
<1>7. rxSleeping' \in BOOLEAN
  <2>1. CASE TestEmpty(t) \/ AfterTimeout(t)
    BY <2>1 DEF TestEmpty, AfterTimeout, Sleeping, Types, RxTypes
  <2>2. CASE ~(TestEmpty(t) \/ AfterTimeout(t))
    BY <2>2 DEF StartRead, ReadStep, TestEmpty, TakeRxBlock, TimedOut, AfterTimeout, Drain, Get,
                  AdvanceRead, WrapRead, FinishRead, rxVars, Types, RxTypes
  <2> QED BY <2>1, <2>2
<1>8. rxBlock' \in {0, 1}
  BY DEF StartRead, ReadStep, TestEmpty, TakeRxBlock, TimedOut, AfterTimeout, Drain, Get,
         AdvanceRead, WrapRead, FinishRead, rxVars, Types, RxTypes
<1>9. /\ rxRead' \notin Slots => \E u \in Reader : pc'[u] \in {"byte", "wrap"}
      /\ \A u \in Reader : IndexFirst /\ pc'[u] = "byte" => rxRead' > 0
  BY <1>3, <1>5
<1>10. RxTypes'
  BY <1>1, <1>5, <1>6, <1>7, <1>8, <1>9 DEF RxTypes, Types
<1> QED BY <1>2, <1>10

LEMMA IrqTypes ==
  ASSUME Types, uart_status_irq
  PROVE  Types'
<1>1. UNCHANGED <<txBuffer, txWrite, rxRead, callVars, writes, arrived, taken>>
  BY DEF uart_status_irq
<1>2. Calls'
  BY <1>1 DEF Types, Calls, WriteAt, ReadAt, callVars
<1>3. TxTypes'
  <2>1. IrqTransmit /\ TxTypes /\ (txRead + 1) % BufSize \in Slots
    BY RingIndex DEF uart_status_irq, Types, TxTypes
  <2>2. txRead' \in Slots /\ thre' \in BOOLEAN /\ sent' \in 0 .. MaxWrites * Burst
    BY <2>1 DEF IrqTransmit, SendByte, TxTypes
  <2>3. txBlock' \in {0, 1}
    BY <2>1 DEF IrqTransmit, TxTypes
  <2>4. txSleeping' \in BOOLEAN /\ transmitting' \in BOOLEAN /\ etbei' \in BOOLEAN
    BY <2>1 DEF IrqTransmit, Stop, TxTypes
  <2>5. broken' \in BOOLEAN
    BY <2>1 DEF IrqTransmit, SendByte, TxTypes
  <2> QED BY <1>1, <2>1, <2>2, <2>3, <2>4, <2>5 DEF TxTypes, callVars
<1>4. RxTypes'
  <2> DEFINE f == Fill[fifo]
  <2>1. FillTypes(f, fifo) /\ fifo \in Nat /\ arrived \in Nat /\ dropped \in Nat /\ fifo + dropped <= arrived
        /\ fifo + taken <= arrived /\ taken \in Nat
    BY FilledTypes, FifoAssumption, BoundAssumption DEF Types, RxTypes
  <2>2. /\ rxBuffer' = f.buffer /\ rxWrite' = f.write /\ dropped' = dropped + f.lost /\ fifo' = 0
        /\ rxBlock' \in {1, rxBlock} /\ rxSleeping' \in BOOLEAN
    BY DEF uart_status_irq, IrqReceive, Types, RxTypes
  <2> HIDE DEF f
  <2>3. rxBuffer' \in [Slots -> 0 .. arrived' - fifo']
    <3>1. arrived - fifo + fifo = arrived' - fifo'
      BY <1>1, <2>1, <2>2
    <3> QED BY <2>1, <2>2, <3>1 DEF FillTypes
  <2>4. dropped' \in Nat /\ fifo' + dropped' <= arrived' /\ fifo' + taken' <= arrived' /\ fifo' \in 0 .. FifoSize
    BY <1>1, <2>1, <2>2, FifoAssumption DEF FillTypes
  <2> QED BY <1>1, <2>1, <2>2, <2>3, <2>4 DEF FillTypes, RxTypes, Types, callVars
<1> QED BY <1>2, <1>3, <1>4 DEF Types

LEMMA UartTypes ==
  ASSUME Types, ByteArrives \/ ByteLeaves
  PROVE  Types'
<1>1. UNCHANGED <<callVars, writes, txBuffer, txRead, txWrite, transmitting, etbei, txSleeping, txBlock,
                  rxBuffer, rxRead, rxWrite, rxSleeping, rxBlock, sent, broken, taken, dropped>>
  BY DEF ByteArrives, ByteLeaves, txVars, rxVars, histVars
<1>2. Calls'
  BY <1>1 DEF Types, Calls, WriteAt, ReadAt, callVars
<1>3. TxTypes'
  <2>1. thre' \in BOOLEAN
    BY DEF ByteArrives, ByteLeaves, txVars, Types, TxTypes
  <2> QED BY <1>1, <2>1 DEF TxTypes, Types, callVars
<1>4. RxTypes'
  <2>1. /\ arrived' \in 0 .. MaxBytes /\ fifo' \in 0 .. FifoSize
        /\ fifo' + dropped <= arrived' /\ fifo' + taken <= arrived'
        /\ arrived' - fifo' = arrived - fifo
    BY FifoAssumption, BoundAssumption DEF ByteArrives, ByteLeaves, rxVars, histVars, Types, RxTypes
  <2> QED BY <1>1, <2>1 DEF RxTypes, Types, callVars
<1> QED BY <1>2, <1>3, <1>4 DEF Types

LEMMA TypesKept == Types /\ [Next]_vars => Types'
<1> SUFFICES ASSUME Types, [Next]_vars PROVE Types'
  OBVIOUS
<1>1. ASSUME NEW t \in Writer, StartWrite(t) \/ WriteStep(t) PROVE Types'
  BY <1>1, WriterStepCalls, WriterStepTypes DEF Types
<1>2. ASSUME NEW t \in Reader, StartRead(t) \/ ReadStep(t) \/ TimedOut(t) PROVE Types'
  BY <1>2, ReaderStepCalls, ReaderStepTypes DEF Types
<1>3. CASE UNCHANGED vars
  BY <1>3 DEF vars, txVars, rxVars, callVars, histVars, Types, Calls, WriteAt, ReadAt, TxTypes, RxTypes
<1> QED BY <1>1, <1>2, <1>3, IrqTypes, UartTypes DEF Next

\* The variables of the driver, and the counts of bytes, keep their types in
\* either build, for any rings and any number of tasks (uart_simple.c).
THEOREM TypeCorrect == Spec => []TypeOK
<1>1. Spec => []Types
  BY TypesStart, TypesKept, PTL DEF Spec
<1> QED BY <1>1, TypesImply, PTL

-----------------------------------------------------------------------------
(* The transmit ring, where the byte is stored before the index            *)

LEMMA TxStart == ~IndexFirst /\ Init => TxInv
<1> SUFFICES ASSUME ~IndexFirst, Init PROVE TxInv
  OBVIOUS
<1>1. 0 \in Slots /\ Dist(0, 0) = 0
  BY SizeAssumption DEF Slots, Dist
<1>2. Unsent = 0 /\ Written = 0
  BY <1>1, ByteNumbers DEF Init, Unsent, Written
<1>3. \A s \in Slots : Dist(s, 0) \in Slots
  BY <1>1, RingIndex
<1>4. TxHolds
  BY <1>2, <1>3, SizeAssumption DEF Init, TxHolds, Slots
<1>5. TxRoom
  BY DEF Init, TxRoom
<1> QED BY <1>4, <1>5 DEF TxInv

\* What holds while t is in its write.
LEMMA WriterAlone ==
  ASSUME Types, NEW t \in Writer, txLock = t
  PROVE  /\ t # NoTask /\ t \in Task
         /\ writes - 1 \in Nat /\ done[t] \in Nat /\ pc[t] \in WritePlaces
         /\ Written = Byte(writes - 1, IF pc[t] = "wrap" THEN done[t] + 1 ELSE done[t])
         /\ \A u \in Writer \ {t} : pc[u] = "idle"
<1>1. t # NoTask /\ t \in Task
  BY TaskAssumption DEF Task
<1>2. writes - 1 \in Nat /\ done[t] \in Nat /\ pc[t] \in WritePlaces
  BY <1>1, BoundAssumption DEF Types, Calls, WriteAt
<1>3. \A u \in Writer \ {t} : pc[u] = "idle"
  BY DEF Types, Calls, WriteAt
<1> QED BY <1>1, <1>2, <1>3 DEF Written

LEMMA WriterStepTx ==
  ASSUME ~IndexFirst, Types, Types', TxInv, NEW t \in Writer, StartWrite(t) \/ WriteStep(t)
  PROVE  TxInv'
<1>0. t \in Task /\ t # NoTask /\ pc \in [Task -> {"idle"} \cup WritePlaces \cup ReadPlaces] /\ done \in [Task -> Nat]
  BY TaskAssumption DEF Task, Types, Calls
<1>1. /\ UNCHANGED <<txRead, sent, broken>>
      /\ \A u \in Writer \ {t} : pc[u] = "idle" /\ pc'[u] = "idle"
  <2>1. /\ txLock \in {t, NoTask}
        /\ \A u \in Task \ {t} : pc'[u] = pc[u]
    BY <1>0 DEF StartWrite, WriteStep, TestFull, TakeTxBlock, Put, AdvanceWrite, WrapWrite, Kick, Goto, WriteAt, Types, Calls
  <2>2. UNCHANGED <<txRead, sent, broken>>
    BY DEF StartWrite, WriteStep, TestFull, TakeTxBlock, Put, AdvanceWrite, WrapWrite, Kick, txVars, histVars
  <2> QED BY <2>1, <2>2, TaskAssumption DEF WriteAt, Types, Calls, Task
<1>2. /\ txRead \in Slots /\ txWrite \in Slots /\ txWrite' \in Slots
      /\ sent \in Nat /\ BufSize \in Nat /\ BufSize >= 2
      /\ txBuffer \in [Slots -> 0 .. MaxWrites * Burst]
  <2>1. MaxWrites * Burst \in Nat
    BY BoundAssumption, BurstAssumption, SizeAssumption
  <2> QED BY <2>1, SizeAssumption DEF Types, TxTypes, Index, Slots
<1>3. Unsent \in Slots /\ Unsent \in Nat /\ Unsent' \in Slots
  <2>1. Dist(txWrite, txRead) \in Slots /\ Dist(txWrite', txRead) \in Slots
    BY <1>2, RingIndex
  <2>2. Slots \subseteq Nat
    BY DEF Slots
  <2> QED BY <1>1, <2>1, <2>2 DEF Unsent
<1>4. CASE StartWrite(t)
  <2>1. /\ UNCHANGED <<txBuffer, txWrite, txSleeping, txBlock, done>>
        /\ txLock = NoTask /\ txLock' = t /\ pc'[t] = "full?"
        /\ writes' = writes + 1 /\ writes \in Nat /\ done[t] = 0
    BY <1>0, <1>4, BoundAssumption DEF StartWrite, Goto, txVars, Types, Calls, WriteAt
  <2>2. Written' = Written
    BY <1>0, <2>1 DEF Written
  <2>3. TxHolds'
    BY <1>1, <2>1, <2>2 DEF TxInv, TxHolds, Unsent
  <2>4. TxRoom'
    BY <1>1, <2>1 DEF TxInv, TxRoom
  <2> QED BY <2>3, <2>4 DEF TxInv
<1>5. CASE WriteStep(t)
  <2>0. txLock = t /\ pc[t] # "idle"
    BY <1>5 DEF WriteStep, TestFull, TakeTxBlock, Put, AdvanceWrite, WrapWrite, Kick, Types, Calls, WriteAt
  <2>1. /\ writes - 1 \in Nat /\ done[t] \in Nat
        /\ Written = Byte(writes - 1, IF pc[t] = "wrap" THEN done[t] + 1 ELSE done[t])
    BY <2>0, WriterAlone
  <2>a. FirstStore = "byte" /\ AfterByte = "index" /\ AfterIndex = "wrap"
    BY Stores
  <2>2. CASE TestFull(t)
    <3>1. /\ UNCHANGED <<txBuffer, txWrite, txBlock, done, txLock, writes>>
          /\ pc[t] = "full?" /\ pc'[t] = IF Full(txRead, txWrite) THEN "txBlock" ELSE "byte"
          /\ txSleeping' = (txSleeping \/ Full(txRead, txWrite))
      BY <1>0, <2>2, <2>a DEF TestFull, Goto, histVars
    <3>2. Written' = Written
      BY <2>0, <3>1 DEF Written
    <3>3. ~Full(txRead, txWrite) => Unsent < BufSize - 1
      <4>1. Full(txRead, txWrite) <=> Unsent = BufSize - 1
        BY <1>2, RingIndex DEF Unsent
      <4> QED BY <1>2, <1>3, <4>1 DEF Slots
    <3>4. TxHolds'
      BY <1>1, <3>1, <3>2 DEF TxInv, TxHolds, Unsent
    <3>5. Unsent' = Unsent
      BY <1>1, <3>1 DEF Unsent
    <3>6. ~txSleeping /\ txBlock # 1
      BY <2>0, <3>1 DEF TxInv, TxRoom
    <3>7. TxRoom'
      BY <1>0, <1>1, <2>0, <3>1, <3>3, <3>5, <3>6 DEF TxRoom
    <3> QED BY <3>4, <3>7 DEF TxInv
  <2>3. CASE TakeTxBlock(t)
    <3>1. /\ UNCHANGED <<txBuffer, txWrite, txSleeping, done, txLock, writes>>
          /\ pc[t] = "txBlock" /\ pc'[t] = "byte" /\ txBlock = 1 /\ txBlock' = 0
      BY <1>0, <2>3, <2>a DEF TakeTxBlock, Goto, histVars
    <3>2. Written' = Written /\ Unsent' = Unsent
      BY <1>1, <2>0, <3>1 DEF Written, Unsent
    <3>3. TxHolds'
      BY <1>1, <3>1, <3>2 DEF TxInv, TxHolds
    <3>4. TxRoom'
      BY <1>0, <1>1, <2>0, <3>1, <3>2 DEF TxInv, TxRoom
    <3> QED BY <3>3, <3>4 DEF TxInv
  <2>4. CASE Put(t)
    <3>1. /\ UNCHANGED <<txWrite, txSleeping, txBlock, done, txLock, writes>>
          /\ pc[t] = "byte" /\ pc'[t] = "index"
          /\ txBuffer' = [txBuffer EXCEPT ![txWrite] = Byte(writes - 1, done[t] + 1)]
      BY <1>0, <2>4, <2>a DEF Put, Goto, Slot, histVars
    <3>2. Written' = Written /\ Unsent' = Unsent
      BY <1>1, <2>0, <3>1 DEF Written, Unsent
    <3>3. txBuffer'[txWrite] = Written + 1
      BY <1>2, <2>1, <3>1, ByteNumbers
    <3>4. \A s \in Slots : Dist(s, txRead) < Unsent => txBuffer'[s] = txBuffer[s]
      <4>1. \A s \in Slots : Dist(s, txRead) \in Slots
        BY <1>2, RingIndex
      <4> QED BY <1>2, <1>3, <3>1, <4>1 DEF Unsent, Slots
    <3>5. TxHolds'
      BY <1>1, <3>1, <3>2, <3>4 DEF TxInv, TxHolds
    <3>6. TxRoom'
      BY <1>0, <1>1, <2>0, <3>1, <3>2, <3>3 DEF TxInv, TxRoom
    <3> QED BY <3>5, <3>6 DEF TxInv
  <2>5. CASE AdvanceWrite(t)
    <3>1. /\ UNCHANGED <<txBuffer, txSleeping, txBlock, done, txLock, writes>>
          /\ pc[t] = "index" /\ pc'[t] = "wrap"
          /\ txWrite' = (txWrite + 1) % BufSize
      BY <1>0, <2>5, <2>a DEF AdvanceWrite, Advance, Goto, histVars
    <3>2. Unsent < BufSize - 1 /\ txBuffer[txWrite] = Written + 1
      BY <3>1 DEF TxInv, TxRoom
    <3>3. Unsent' = Unsent + 1
      <4>1. ~Full(txRead, txWrite)
        BY <1>2, <1>3, <3>2, RingIndex DEF Unsent, Slots
      <4> QED BY <1>1, <1>2, <3>1, <4>1, RingAdvances DEF Unsent
    <3>4. Written' = Written + 1
      <4>1. Written' = Byte(writes - 1, done[t] + 1) /\ Written = Byte(writes - 1, done[t])
        BY <1>0, <2>0, <2>1, <3>1 DEF Written
      <4> QED BY <2>1, <4>1, ByteNumbers
    <3>5. \A s \in Slots : Dist(s, txRead) < Unsent + 1 => Dist(s, txRead) < Unsent \/ s = txWrite
      <4>1. \A s \in Slots : Dist(s, txRead) \in Slots /\ (Dist(s, txRead) = Unsent => s = txWrite)
        BY <1>2, RingIndex, RingAdvances DEF Unsent
      <4> QED BY <1>3, <4>1 DEF Slots
    <3>6. \A s \in Slots : Dist(s, txRead) < Unsent + 1 => txBuffer[s] = sent + 1 + Dist(s, txRead)
      <4>1. txBuffer[txWrite] = sent + 1 + Dist(txWrite, txRead)
        BY <1>2, <1>3, <3>2 DEF TxInv, TxHolds, Unsent
      <4> QED BY <3>5, <4>1 DEF TxInv, TxHolds
    <3>7. sent + (Unsent + 1) = Written + 1
      BY <1>2, <1>3 DEF TxInv, TxHolds
    <3>8. TxHolds'
      BY <1>1, <3>1, <3>3, <3>4, <3>6, <3>7 DEF TxInv, TxHolds
    <3>9. TxRoom'
      BY <1>0, <1>1, <2>0, <3>1 DEF TxInv, TxRoom
    <3> QED BY <3>8, <3>9 DEF TxInv
  <2>6. CASE WrapWrite(t)
    <3>1. /\ UNCHANGED <<txBuffer, txSleeping, txBlock, txLock, writes>>
          /\ pc[t] = "wrap" /\ pc'[t] \in {"full?", "kick"}
          /\ done'[t] = done[t] + 1
      BY <1>0, <2>6 DEF WrapWrite, Goto, histVars
    <3>2. txWrite' = txWrite
      BY <1>2, <2>6 DEF WrapWrite, Wrapped, Slots
    <3>3. Written' = Written /\ Unsent' = Unsent
      BY <1>1, <1>0, <2>0, <3>1, <3>2 DEF Written, Unsent
    <3>4. TxHolds'
      BY <1>1, <3>1, <3>3 DEF TxInv, TxHolds
    <3>5. TxRoom'
      BY <1>0, <1>1, <2>0, <3>1 DEF TxInv, TxRoom
    <3> QED BY <3>4, <3>5 DEF TxInv
  <2>7. CASE Kick(t)
    <3>1. /\ UNCHANGED <<txBuffer, txWrite, txSleeping, txBlock, writes>>
          /\ pc[t] = "kick" /\ pc'[t] = "idle" /\ txLock' = NoTask
      BY <1>0, <2>7 DEF Kick, Goto, histVars
    <3>2. Written' = Byte(writes, 0)
      BY <3>1 DEF Written
    <3>3. Written = Byte(writes - 1, Burst)
      BY <2>1, <3>1 DEF Types, Calls, WriteAt
    <3>4. Written' = Written /\ Unsent' = Unsent
      <4>1. writes \in Nat /\ writes > 0
        BY <2>1, BoundAssumption DEF Types, Calls
      <4> QED BY <1>1, <3>1, <3>2, <3>3, <4>1, ByteNumbers DEF Unsent
    <3>5. TxHolds'
      BY <1>1, <3>1, <3>4 DEF TxInv, TxHolds
    <3>6. TxRoom'
      BY <1>0, <1>1, <2>0, <3>1 DEF TxInv, TxRoom
    <3> QED BY <3>5, <3>6 DEF TxInv
  <2> QED BY <1>5, <2>2, <2>3, <2>4, <2>5, <2>6, <2>7 DEF WriteStep
<1> QED BY <1>4, <1>5

LEMMA IrqTx ==
  ASSUME ~IndexFirst, Types, TxInv, uart_status_irq
  PROVE  TxInv'
<1>1. UNCHANGED <<txBuffer, txWrite, callVars, writes>>
  BY DEF uart_status_irq
<1>2. Written' = Written
  BY <1>1 DEF Written, callVars
<1>3. /\ txRead \in Slots /\ txWrite \in Slots
      /\ sent \in Nat /\ BufSize \in Nat /\ BufSize >= 2
      /\ txBuffer \in [Slots -> 0 .. MaxWrites * Burst]
      /\ (txRead + 1) % BufSize \in Slots
  <2>1. MaxWrites * Burst \in Nat
    BY BoundAssumption, BurstAssumption, SizeAssumption
  <2>2. txRead \in Slots /\ txWrite \in Slots
    BY SizeAssumption DEF Types, TxTypes, Index, Slots
  <2>3. (txRead + 1) % BufSize \in Slots
    BY <2>2, RingIndex
  <2>4. sent \in Nat /\ txBuffer \in [Slots -> 0 .. MaxWrites * Burst]
    BY <2>1 DEF Types, TxTypes
  <2> QED BY <2>2, <2>3, <2>4, SizeAssumption
<1>4. Unsent \in Slots /\ (Unsent = 0 <=> txRead = txWrite)
  BY <1>3, RingIndex DEF Unsent
<1>5. CASE thre /\ txRead # txWrite
  <2>1. /\ sent' = txBuffer[txRead] /\ broken' = (broken \/ txBuffer[txRead] # sent + 1)
        /\ txRead' = (txRead + 1) % BufSize
        /\ txBlock' = IF txSleeping THEN 1 ELSE txBlock
        /\ txSleeping' = FALSE
    BY <1>5 DEF uart_status_irq, IrqTransmit, SendByte
  <2>2. \A s \in Slots : Dist(s, txRead') = IF s = txRead THEN BufSize - 1 ELSE Dist(s, txRead) - 1
    BY <1>3, <2>1, RingAdvances
  <2>3. Unsent' = Unsent - 1
    BY <1>1, <1>3, <1>5, <2>2 DEF Unsent
  <2>4. txBuffer[txRead] = sent + 1
    <3>1. Dist(txRead, txRead) = 0
      BY <1>3, RingIndex
    <3>2. 0 < Unsent
      BY <1>3, <1>4, <1>5 DEF Slots
    <3> QED BY <1>3, <3>1, <3>2 DEF TxInv, TxHolds
  <2>5. sent' + Unsent' = Written
    BY <1>3, <1>4, <2>1, <2>3, <2>4 DEF TxInv, TxHolds, Slots
  <2>6. ASSUME NEW s \in Slots, Dist(s, txRead') < Unsent'
        PROVE  txBuffer[s] = sent' + 1 + Dist(s, txRead')
    <3>1. Dist(s, txRead) \in Slots
      BY <1>3, RingIndex
    <3>2. s # txRead
      BY <1>3, <1>4, <2>2, <2>3, <2>6 DEF Slots
    <3>3. Dist(s, txRead') = Dist(s, txRead) - 1 /\ Dist(s, txRead) < Unsent
      BY <1>3, <1>4, <2>2, <2>3, <2>6, <3>1, <3>2 DEF Slots
    <3>4. txBuffer[s] = sent + 1 + Dist(s, txRead)
      BY <3>3 DEF TxInv, TxHolds
    <3> QED BY <1>3, <2>1, <2>4, <3>1, <3>3, <3>4 DEF Slots
  <2>7. TxHolds'
    BY <1>1, <1>2, <2>1, <2>4, <2>5, <2>6 DEF TxInv, TxHolds
  <2>8. Unsent' < BufSize - 1
    BY <1>3, <1>4, <2>3 DEF Slots
  <2>9. TxRoom'
    BY <1>1, <1>2, <2>1, <2>8 DEF TxInv, TxRoom, callVars
  <2> QED BY <2>7, <2>9 DEF TxInv
<1>6. CASE ~(thre /\ txRead # txWrite)
  <2>1. UNCHANGED <<txRead, sent, broken, txBlock, txSleeping>>
    BY <1>6 DEF uart_status_irq, IrqTransmit
  <2>2. TxHolds'
    BY <1>1, <1>2, <2>1 DEF TxInv, TxHolds, Unsent
  <2>3. TxRoom'
    BY <1>1, <1>2, <2>1 DEF TxInv, TxRoom, Unsent, callVars
  <2> QED BY <2>2, <2>3 DEF TxInv
<1> QED BY <1>5, <1>6

LEMMA OthersTx ==
  ASSUME ~IndexFirst, Types, TxInv,
         \/ \E t \in Reader : StartRead(t) \/ ReadStep(t) \/ TimedOut(t)
         \/ ByteArrives \/ ByteLeaves \/ UNCHANGED vars
  PROVE  TxInv'
<1>1. /\ UNCHANGED <<txBuffer, txRead, txWrite, txSleeping, txBlock, txLock, writes, sent, broken>>
      /\ \A u \in Writer : pc'[u] = pc[u] /\ done'[u] = done[u]
  <2>1. CASE ByteArrives \/ ByteLeaves \/ UNCHANGED vars
    BY <2>1 DEF ByteArrives, ByteLeaves, vars, txVars, rxVars, callVars, histVars
  <2>2. ASSUME NEW t \in Reader, StartRead(t) \/ ReadStep(t) \/ TimedOut(t)
        PROVE  /\ UNCHANGED <<txVars, txLock, writes, sent, broken>>
               /\ \A u \in Task \ {t} : pc'[u] = pc[u] /\ done'[u] = done[u]
    BY <2>2 DEF Task, Types, Calls, StartRead, ReadStep, TestEmpty, TakeRxBlock, TimedOut, AfterTimeout,
                Drain, Get, AdvanceRead, WrapRead, FinishRead, Goto, histVars
  <2> QED BY <2>1, <2>2, TaskAssumption DEF Task, txVars
<1>2. txLock \in Writer \/ txLock = NoTask
  BY DEF Types, Calls
<1>3. Written' = Written
  BY <1>1, <1>2 DEF Written
<1>4. TxHolds'
  BY <1>1, <1>3 DEF TxInv, TxHolds, Unsent
<1>5. TxRoom'
  BY <1>1, <1>2, <1>3 DEF TxInv, TxRoom, Unsent
<1> QED BY <1>4, <1>5 DEF TxInv

\* Where the byte is stored before the index, the bytes of all writes leave in
\* order, whatever the interrupt does between the stores of uart_write and
\* however often the ring is full (uart_simple.c:349 and :158).
THEOREM BytesLeaveInOrder == IndexFirst = FALSE => (Spec => []TxInOrder)
<1> SUFFICES ASSUME ~IndexFirst PROVE Spec => []TxInOrder
  OBVIOUS
<1>1. Init => Types /\ TxInv
  BY TypesStart, TxStart
<1>2. Types /\ TxInv /\ [Next]_vars => Types' /\ TxInv'
  <2>1. Types /\ [Next]_vars => Types'
    BY TypesKept
  <2>2. ASSUME Types, Types', TxInv, [Next]_vars PROVE TxInv'
    BY <2>2, WriterStepTx, IrqTx, OthersTx DEF Next
  <2> QED BY <2>1, <2>2
<1>3. Types /\ TxInv => TxInOrder
  BY DEF TxInv, TxHolds, TxInOrder
<1> QED BY <1>1, <1>2, <1>3, PTL DEF Spec

-----------------------------------------------------------------------------
(* The receive ring, where the byte is read before the index is advanced   *)

\* Ring b between r and w holds bytes that arrived after "from" and up to
\* "upto", oldest first, beyond the n (0 or 1) that are read already; if none
\* were lost it holds all of them.
Holding(b, w, r, from, n, upto) ==
  \A s \in Slots : n <= Dist(s, r) /\ Dist(s, r) < Dist(w, r) => from < b[s] /\ b[s] <= upto
Sorted(b, w, r, n) ==
  \A s, u \in Slots : n <= Dist(s, r) /\ Dist(s, r) < Dist(u, r) /\ Dist(u, r) < Dist(w, r) => b[s] < b[u]
Complete(b, w, r, from, n, upto) ==
  /\ upto = from + (Dist(w, r) - n)
  /\ \A s \in Slots : n <= Dist(s, r) /\ Dist(s, r) < Dist(w, r) => b[s] = from + 1 + (Dist(s, r) - n)
RingOf(b, w, r, from, n, upto, lost) ==
  /\ n <= Dist(w, r)
  /\ Holding(b, w, r, from, n, upto)
  /\ Sorted(b, w, r, n)
  /\ lost = 0 => Complete(b, w, r, from, n, upto)

\* A byte is refused, stored, read, and its slot given back.
LEMMA RingRefuses ==
  ASSUME NEW b \in [Slots -> Nat], NEW w \in Slots, NEW r \in Slots, NEW from \in Nat, NEW n \in {0, 1},
         NEW upto \in Nat, NEW lost \in Nat, RingOf(b, w, r, from, n, upto, lost)
  PROVE  RingOf(b, w, r, from, n, upto + 1, lost + 1)
<1>1. Holding(b, w, r, from, n, upto + 1)
  BY DEF RingOf, Holding
<1> QED BY <1>1 DEF RingOf

LEMMA RingStores ==
  ASSUME NEW b \in [Slots -> Nat], NEW w \in Slots, NEW r \in Slots, NEW from \in Nat, NEW n \in {0, 1},
         NEW upto \in Nat, NEW lost \in Nat, RingOf(b, w, r, from, n, upto, lost),
         from <= upto, ~Full(r, w)
  PROVE  RingOf([b EXCEPT ![w] = upto + 1], (w + 1) % BufSize, r, from, n, upto + 1, lost)
<1> DEFINE v == (w + 1) % BufSize
           c == [b EXCEPT ![w] = upto + 1]
<1>1. Dist(v, r) = Dist(w, r) + 1 /\ Dist(w, r) \in Nat
  BY RingIndex, RingAdvances DEF Slots
<1>2. \A s \in Slots : Dist(s, r) \in Nat /\ (Dist(s, r) < Dist(w, r) + 1 => Dist(s, r) < Dist(w, r) \/ s = w)
  <2>1. \A s \in Slots : Dist(s, r) \in Nat /\ (Dist(s, r) = Dist(w, r) => s = w)
    BY RingIndex, RingAdvances DEF Slots
  <2> QED BY <1>1, <2>1
<1>3. c[w] = upto + 1 /\ \A s \in Slots : Dist(s, r) < Dist(w, r) => c[s] = b[s]
  BY <1>1, <1>2
<1>4. \A s \in Slots : b[s] \in Nat
  OBVIOUS
<1> HIDE DEF v, c
<1>5. Holding(c, v, r, from, n, upto + 1)
  BY <1>1, <1>2, <1>3, <1>4 DEF RingOf, Holding
<1>6. Sorted(c, v, r, n)
  <2> SUFFICES ASSUME NEW s \in Slots, NEW u \in Slots,
                      n <= Dist(s, r), Dist(s, r) < Dist(u, r), Dist(u, r) < Dist(v, r)
               PROVE  c[s] < c[u]
    BY DEF Sorted
  <2>1. Dist(s, r) < Dist(w, r) /\ c[s] = b[s] /\ b[s] <= upto
    BY <1>1, <1>2, <1>3 DEF RingOf, Holding
  <2>2. CASE u = w
    BY <1>3, <1>4, <2>1, <2>2
  <2>3. CASE u # w
    BY <1>1, <1>2, <1>3, <2>1, <2>3 DEF RingOf, Sorted
  <2> QED BY <2>2, <2>3
<1>7. ASSUME lost = 0 PROVE Complete(c, v, r, from, n, upto + 1)
  <2>1. Complete(b, w, r, from, n, upto)
    BY <1>7 DEF RingOf
  <2>2. upto + 1 = from + (Dist(v, r) - n)
    BY <1>1, <2>1 DEF Complete
  <2>3. ASSUME NEW s \in Slots, n <= Dist(s, r), Dist(s, r) < Dist(v, r)
        PROVE  c[s] = from + 1 + (Dist(s, r) - n)
    BY <1>1, <1>2, <1>3, <2>1, <2>3 DEF Complete
  <2> QED BY <2>2, <2>3 DEF Complete
<1>8. n <= Dist(v, r)
  BY <1>1 DEF RingOf
<1>9. RingOf(c, v, r, from, n, upto + 1, lost)
  BY <1>5, <1>6, <1>7, <1>8 DEF RingOf
<1> QED BY <1>9 DEF c, v

LEMMA RingPeeks ==
  ASSUME NEW b \in [Slots -> Nat], NEW w \in Slots, NEW r \in Slots, NEW from \in Nat,
         NEW upto \in Nat, NEW lost \in Nat, RingOf(b, w, r, from, 0, upto, lost), r # w
  PROVE  RingOf(b, w, r, b[r], 1, upto, lost)
<1>1. Dist(r, r) = 0 /\ Dist(w, r) \in Nat /\ Dist(w, r) # 0 /\ \A s \in Slots : Dist(s, r) \in Nat
  BY RingIndex DEF Slots
<1>2. Holding(b, w, r, b[r], 1, upto)
  BY <1>1 DEF RingOf, Holding, Sorted
<1>3. Sorted(b, w, r, 1)
  BY <1>1 DEF RingOf, Sorted
<1>4. ASSUME lost = 0 PROVE Complete(b, w, r, b[r], 1, upto)
  <2>1. Complete(b, w, r, from, 0, upto)
    BY <1>4 DEF RingOf
  <2>2. b[r] = from + 1
    BY <1>1, <2>1 DEF Complete
  <2> QED BY <1>1, <2>1, <2>2 DEF Complete
<1> QED BY <1>1, <1>2, <1>3, <1>4 DEF RingOf

LEMMA RingTakes ==
  ASSUME NEW b \in [Slots -> Nat], NEW w \in Slots, NEW r \in Slots, NEW from \in Nat,
         NEW upto \in Nat, NEW lost \in Nat, RingOf(b, w, r, from, 1, upto, lost)
  PROVE  RingOf(b, w, (r + 1) % BufSize, from, 0, upto, lost)
<1> DEFINE q == (r + 1) % BufSize
<1>1. /\ BufSize \in Nat /\ Dist(w, r) \in 1 .. BufSize - 1
      /\ \A s \in Slots : Dist(s, r) \in 0 .. BufSize - 1
      /\ r \in Slots /\ Dist(r, r) = 0
  <2>1. Dist(w, r) \in Slots /\ 1 <= Dist(w, r) /\ Dist(r, r) = 0
    BY RingIndex DEF RingOf
  <2>2. \A s \in Slots : Dist(s, r) \in 0 .. BufSize - 1
    BY RingIndex DEF Slots
  <2> QED BY <2>1, <2>2, SizeAssumption DEF Slots
<1>2. \A s \in Slots : Dist(s, q) = IF s = r THEN BufSize - 1 ELSE Dist(s, r) - 1
  BY RingAdvances
<1>3. Dist(w, q) = Dist(w, r) - 1
  BY <1>1, <1>2
<1> HIDE DEF q
<1>4. \A s \in Slots : 0 <= Dist(s, q) /\ Dist(s, q) < Dist(w, q) =>
        1 <= Dist(s, r) /\ Dist(s, r) < Dist(w, r) /\ Dist(s, q) = Dist(s, r) - 1
  <2> SUFFICES ASSUME NEW s \in Slots, 0 <= Dist(s, q), Dist(s, q) < Dist(w, q)
               PROVE  1 <= Dist(s, r) /\ Dist(s, r) < Dist(w, r) /\ Dist(s, q) = Dist(s, r) - 1
    OBVIOUS
  <2>1. s # r
    BY <1>1, <1>2, <1>3
  <2>2. Dist(s, r) \in 0 .. BufSize - 1 /\ Dist(s, q) = Dist(s, r) - 1
    BY <1>1, <1>2, <2>1
  <2> QED BY <1>1, <1>3, <2>2
<1>5. Holding(b, w, q, from, 0, upto)
  BY <1>4 DEF RingOf, Holding
<1>6. Sorted(b, w, q, 0)
  <2> SUFFICES ASSUME NEW s \in Slots, NEW u \in Slots,
                      0 <= Dist(s, q), Dist(s, q) < Dist(u, q), Dist(u, q) < Dist(w, q)
               PROVE  b[s] < b[u]
    BY DEF Sorted
  <2>1. Dist(s, q) \in Int /\ Dist(u, q) \in Int /\ Dist(w, q) \in Int
    BY <1>1, <1>2, <1>3
  <2>2. 0 <= Dist(u, q) /\ Dist(s, q) < Dist(w, q)
    BY <2>1
  <2>3. /\ 1 <= Dist(s, r) /\ Dist(s, r) < Dist(w, r) /\ Dist(s, q) = Dist(s, r) - 1
        /\ 1 <= Dist(u, r) /\ Dist(u, r) < Dist(w, r) /\ Dist(u, q) = Dist(u, r) - 1
    BY <1>4, <2>2
  <2>4. Dist(s, r) < Dist(u, r)
    BY <1>1, <2>3
  <2> QED BY <2>3, <2>4 DEF RingOf, Sorted
<1>7. ASSUME lost = 0 PROVE Complete(b, w, q, from, 0, upto)
  <2>1. Complete(b, w, r, from, 1, upto)
    BY <1>7 DEF RingOf
  <2>2. upto = from + (Dist(w, q) - 0)
    BY <1>1, <1>3, <2>1 DEF Complete
  <2>3. ASSUME NEW s \in Slots, 0 <= Dist(s, q), Dist(s, q) < Dist(w, q)
        PROVE  b[s] = from + 1 + (Dist(s, q) - 0)
    <3>1. 1 <= Dist(s, r) /\ Dist(s, r) < Dist(w, r) /\ Dist(s, q) = Dist(s, r) - 1
      BY <1>4, <2>3
    <3> QED BY <1>1, <2>1, <3>1 DEF Complete
  <2> QED BY <2>2, <2>3 DEF Complete
<1>8. 0 <= Dist(w, q)
  BY <1>1, <1>3
<1>9. RingOf(b, w, q, from, 0, upto, lost)
  BY <1>5, <1>6, <1>7, <1>8 DEF RingOf
<1> QED BY <1>9 DEF q

\* The byte at the index is read and the index not advanced yet.
Peeked == IF \E t \in Reader : pc[t] = "index" THEN 1 ELSE 0

RxHolds == RingOf(rxBuffer, rxWrite, rxRead, taken, Peeked, arrived - fifo, dropped)
RxInv   == RxHolds /\ \A t \in Reader : pc[t] = "byte" => rxRead # rxWrite

LEMMA RxTypesHere ==
  ASSUME ~IndexFirst, Types
  PROVE  /\ rxRead \in Slots /\ rxWrite \in Slots /\ rxBuffer \in [Slots -> Nat]
         /\ taken \in Nat /\ dropped \in Nat /\ arrived \in Nat /\ fifo \in Nat /\ arrived - fifo \in Nat
         /\ taken <= arrived - fifo
         /\ Peeked \in {0, 1}
<1>1. rxRead \in Slots /\ rxWrite \in Slots
  BY SizeAssumption DEF Types, RxTypes, Index, Slots
<1>2. taken \in Nat /\ dropped \in Nat /\ arrived \in Nat /\ fifo \in Nat /\ fifo + taken <= arrived
  BY FifoAssumption, BoundAssumption DEF Types, RxTypes
<1>3. \A a, b, c \in Nat : b + c <= a => a - b \in Nat /\ c <= a - b
  OBVIOUS
<1>4. arrived - fifo \in Nat /\ taken <= arrived - fifo
  BY <1>2, <1>3
<1>5. rxBuffer \in [Slots -> Nat]
  BY <1>4 DEF Types, RxTypes
<1>6. Peeked \in {0, 1}
  BY DEF Peeked
<1> QED BY <1>1, <1>2, <1>4, <1>5, <1>6

LEMMA RxStart == ~IndexFirst /\ Init => RxInv
<1> SUFFICES ASSUME ~IndexFirst, Init PROVE RxInv
  OBVIOUS
<1>1. 0 \in Slots /\ Dist(0, 0) = 0 /\ \A s \in Slots : Dist(s, 0) >= 0
  BY SizeAssumption DEF Slots, Dist
<1>2. rxRead = 0 /\ rxWrite = 0 /\ taken = 0 /\ arrived = 0 /\ fifo = 0 /\ Peeked = 0
  BY DEF Init, Peeked
<1>3. RingOf(rxBuffer, 0, 0, 0, 0, 0 - 0, dropped)
  <2>1. \A s \in Slots : Dist(s, 0) \in Int
    BY <1>1, RingIndex DEF Slots
  <2> QED BY <1>1, <2>1 DEF RingOf, Holding, Sorted, Complete
<1>4. \A t \in Reader : pc[t] # "byte"
  BY DEF Init
<1> QED BY <1>2, <1>3, <1>4 DEF RxInv, RxHolds

\* What the interrupt leaves after n bytes.
FillHolds(f, n) ==
  /\ RingOf(f.buffer, f.write, rxRead, taken, Peeked, arrived - fifo + n, dropped + f.lost)
  /\ rxWrite # rxRead => f.write # rxRead

LEMMA FilledHolds ==
  ASSUME ~IndexFirst, Types, RxInv
  PROVE  FillHolds(Fill[fifo], fifo)
<1>1. FifoSize \in Nat /\ fifo \in 0 .. FifoSize /\ RxTypes
  BY FifoAssumption DEF Types, RxTypes
<1> DEFINE had == arrived - fifo
<1>2. had \in Nat /\ taken \in Nat /\ dropped \in Nat /\ taken <= had /\ rxRead \in Slots /\ Peeked \in {0, 1}
  BY RxTypesHere
<1>3. FillHolds(Fill[0], 0)
  <2>1. had + 0 = had /\ dropped + 0 = dropped
    BY <1>2
  <2>2. Fill[0] = [buffer |-> rxBuffer, write |-> rxWrite, lost |-> 0]
    BY <1>1, FillUnfolds
  <2>3. RingOf(rxBuffer, rxWrite, rxRead, taken, Peeked, had + 0, dropped + 0)
    BY <2>1 DEF RxInv, RxHolds
  <2> HIDE DEF Fill
  <2> QED BY <2>2, <2>3 DEF FillHolds
<1>4. ASSUME NEW n \in 1 .. FifoSize, FillHolds(Fill[n - 1], n - 1) PROVE FillHolds(Fill[n], n)
  <2> DEFINE was == Fill[n - 1]
  <2>0. n - 1 \in 0 .. FifoSize /\ n - 1 \in Nat /\ had + (n - 1) + 1 = had + n
    BY <1>1, <1>2
  <2>1. Fill[n] = FillNext(was, n)
    BY <1>1, FillUnfolds
  <2>2. FillTypes(was, n - 1)
    BY <1>1, <2>0, FilledTypes
  <2>3. FillHolds(was, n - 1)
    BY <1>4
  <2> HIDE DEF was
  <2>4. /\ was = [buffer |-> was.buffer, write |-> was.write, lost |-> was.lost]
        /\ was.buffer \in [Slots -> Nat] /\ was.write \in Slots /\ was.lost \in Nat
        /\ had + (n - 1) \in Nat /\ dropped + was.lost \in Nat
        /\ taken <= had + (n - 1)
    <3>1. had + (n - 1) \in Nat /\ taken <= had + (n - 1)
      BY <1>2, <2>0
    <3>2. was.buffer \in [Slots -> 0 .. had + (n - 1)] /\ was.lost \in 0 .. n - 1
      BY <2>2 DEF FillTypes
    <3>3. was.buffer \in [Slots -> Nat] /\ was.lost \in Nat
      BY <2>0, <3>1, <3>2
    <3> QED BY <1>2, <2>2, <3>1, <3>3 DEF FillTypes
  <2>5. RingOf(was.buffer, was.write, rxRead, taken, Peeked, had + (n - 1), dropped + was.lost)
    BY <2>3 DEF FillHolds
  <2>6. CASE Full(rxRead, was.write)
    <3>1. Fill[n] = [buffer |-> was.buffer, write |-> was.write, lost |-> was.lost + 1]
      BY <2>1, <2>4, <2>6 DEF FillNext
    <3>2. dropped + was.lost + 1 = dropped + (was.lost + 1)
      BY <1>2, <2>4
    <3> HIDE DEF had
    <3>3. RingOf(was.buffer, was.write, rxRead, taken, Peeked, had + n, dropped + (was.lost + 1))
      BY <1>2, <2>0, <2>4, <2>5, <3>2, RingRefuses
    <3> HIDE DEF Fill
    <3> QED BY <2>3, <3>1, <3>3 DEF FillHolds, had
  <2>7. CASE ~Full(rxRead, was.write)
    <3>1. Fill[n] = [buffer |-> [was.buffer EXCEPT ![was.write] = had + n],
                     write |-> (was.write + 1) % BufSize, lost |-> was.lost]
      BY <2>1, <2>7 DEF FillNext
    <3>2. (was.write + 1) % BufSize # rxRead
      BY <2>7 DEF Full
    <3> HIDE DEF had
    <3>3. RingOf([was.buffer EXCEPT ![was.write] = had + (n - 1) + 1], (was.write + 1) % BufSize, rxRead,
                 taken, Peeked, had + (n - 1) + 1, dropped + was.lost)
      BY <1>2, <2>4, <2>5, <2>7, RingStores
    <3> HIDE DEF Fill
    <3>4. RingOf([was.buffer EXCEPT ![was.write] = had + n], (was.write + 1) % BufSize, rxRead,
                 taken, Peeked, had + n, dropped + was.lost)
      BY <2>0, <3>3
    <3> QED BY <3>1, <3>2, <3>4 DEF FillHolds, had
  <2> QED BY <2>6, <2>7
<1> DEFINE S == {n \in 0 .. FifoSize : FillHolds(Fill[n], n)}
<1>5. 0 \in S /\ \A n \in 1 .. FifoSize : n - 1 \in S => n \in S
  BY <1>1, <1>3, <1>4
<1> HIDE DEF S
<1>6. fifo \in S
  BY <1>1, <1>5, Counting
<1> QED BY <1>6 DEF S

LEMMA IrqRx ==
  ASSUME ~IndexFirst, Types, RxInv, uart_status_irq
  PROVE  RxInv'
<1> DEFINE f == Fill[fifo]
<1>1. /\ UNCHANGED <<rxRead, callVars, arrived, taken>>
      /\ rxBuffer' = f.buffer /\ rxWrite' = f.write /\ dropped' = dropped + f.lost /\ fifo' = 0
  BY DEF uart_status_irq, IrqReceive
<1>2. FillHolds(f, fifo)
  BY FilledHolds
<1> HIDE DEF f
<1>3. arrived' - fifo' = arrived - fifo + fifo
  BY <1>1, RxTypesHere
<1>4. Peeked' = Peeked
  BY <1>1 DEF Peeked, callVars
<1>5. RxHolds'
  BY <1>1, <1>2, <1>3, <1>4 DEF FillHolds, RxHolds
<1> QED BY <1>1, <1>2, <1>5 DEF FillHolds, RxInv, callVars

LEMMA ReaderStepRx ==
  ASSUME ~IndexFirst, Types, RxInv, NEW t \in Reader, StartRead(t) \/ ReadStep(t) \/ TimedOut(t)
  PROVE  RxInv'
<1>0. /\ t \in Task /\ t # NoTask /\ pc \in [Task -> {"idle"} \cup WritePlaces \cup ReadPlaces]
      /\ FirstStore = "byte" /\ AfterByte = "index" /\ AfterIndex = "wrap"
  BY TaskAssumption, Stores DEF Task, Types, Calls
<1>1. /\ UNCHANGED <<rxBuffer, rxWrite, arrived, dropped, fifo>>
      /\ \A u \in Reader \ {t} : pc[u] = "idle" /\ pc'[u] = "idle"
  <2>1. /\ rxLock \in {t, NoTask}
        /\ \A u \in Task \ {t} : pc'[u] = pc[u]
    BY <1>0 DEF StartRead, ReadStep, TestEmpty, TakeRxBlock, TimedOut, AfterTimeout, Drain, Get,
                AdvanceRead, WrapRead, FinishRead, Goto, ReadAt, Types, Calls
  <2>2. UNCHANGED <<rxBuffer, rxWrite, arrived, dropped, fifo>>
    BY DEF StartRead, ReadStep, TestEmpty, TakeRxBlock, TimedOut, AfterTimeout, Drain, Get,
           AdvanceRead, WrapRead, FinishRead, rxVars, histVars
  <2> QED BY <2>1, <2>2, TaskAssumption DEF ReadAt, Types, Calls, Task
<1>2. Peeked = (IF pc[t] = "index" THEN 1 ELSE 0) /\ Peeked' = (IF pc'[t] = "index" THEN 1 ELSE 0)
  BY <1>1 DEF Peeked
<1>3. /\ rxRead \in Slots /\ rxWrite \in Slots /\ rxBuffer \in [Slots -> Nat]
      /\ taken \in Nat /\ dropped \in Nat /\ arrived - fifo \in Nat
  BY RxTypesHere
<1>4. CASE Get(t)
  <2>1. /\ pc[t] = "byte" /\ pc'[t] = "index" /\ UNCHANGED rxRead /\ taken' = rxBuffer[rxRead]
    BY <1>0, <1>4 DEF Get, Slot, Goto, rxVars
  <2>2. RingOf(rxBuffer, rxWrite, rxRead, rxBuffer[rxRead], 1, arrived - fifo, dropped)
    BY <1>2, <1>3, <2>1, RingPeeks DEF RxInv, RxHolds
  <2> QED BY <1>1, <1>2, <2>1, <2>2 DEF RxInv, RxHolds
<1>5. CASE AdvanceRead(t)
  <2>1. pc[t] = "index" /\ pc'[t] = "wrap" /\ rxRead' = (rxRead + 1) % BufSize /\ UNCHANGED taken
    BY <1>0, <1>5 DEF AdvanceRead, Advance, Goto, histVars
  <2>2. RingOf(rxBuffer, rxWrite, (rxRead + 1) % BufSize, taken, 0, arrived - fifo, dropped)
    BY <1>2, <1>3, <2>1, RingTakes DEF RxInv, RxHolds
  <2> QED BY <1>1, <1>2, <2>1, <2>2 DEF RxInv, RxHolds
<1>6. CASE ~Get(t) /\ ~AdvanceRead(t)
  <2>1. UNCHANGED <<rxRead, taken>>
    <3>1. CASE WrapRead(t)
      BY <1>3, <3>1, SizeAssumption DEF WrapRead, Wrapped, Slots, histVars
    <3>2. CASE ~WrapRead(t)
      BY <1>6, <3>2 DEF StartRead, ReadStep, TestEmpty, TakeRxBlock, TimedOut, AfterTimeout, Drain,
                        FinishRead, rxVars, histVars
    <3> QED BY <3>1, <3>2
  <2>2. pc[t] # "index" /\ pc'[t] # "index" /\ (pc'[t] = "byte" => rxRead # rxWrite)
    BY <1>0, <1>6 DEF StartRead, ReadStep, TestEmpty, TakeRxBlock, TimedOut, AfterTimeout, Drain, WrapRead,
                      FinishRead, Goto, Empty
  <2>3. RxHolds'
    BY <1>1, <1>2, <2>1, <2>2 DEF RxInv, RxHolds
  <2> QED BY <1>1, <2>1, <2>2, <2>3 DEF RxInv
<1> QED BY <1>4, <1>5, <1>6

LEMMA OthersRx ==
  ASSUME ~IndexFirst, Types, RxInv,
         \/ \E t \in Writer : StartWrite(t) \/ WriteStep(t)
         \/ ByteArrives \/ ByteLeaves \/ UNCHANGED vars
  PROVE  RxInv'
<1>1. /\ UNCHANGED <<rxBuffer, rxRead, rxWrite, taken, dropped>>
      /\ \A u \in Reader : pc'[u] = pc[u]
      /\ UNCHANGED <<arrived, fifo>> \/ (arrived' = arrived + 1 /\ fifo' = fifo + 1)
  <2>1. CASE ByteArrives \/ ByteLeaves \/ UNCHANGED vars
    BY <2>1 DEF ByteArrives, ByteLeaves, vars, txVars, rxVars, callVars, histVars
  <2>2. ASSUME NEW t \in Writer, StartWrite(t) \/ WriteStep(t)
        PROVE  /\ UNCHANGED <<rxVars, taken, dropped, arrived>>
               /\ \A u \in Task \ {t} : pc'[u] = pc[u]
    BY <2>2 DEF Task, Types, Calls, StartWrite, WriteStep, TestFull, TakeTxBlock, Put, AdvanceWrite,
                WrapWrite, Kick, Goto, histVars
  <2> QED BY <2>1, <2>2, TaskAssumption DEF Task, rxVars
<1>2. arrived' - fifo' = arrived - fifo
  <2>1. \A a, b \in Nat : (a + 1) - (b + 1) = a - b
    OBVIOUS
  <2> QED BY <1>1, <2>1, RxTypesHere
<1>3. Peeked' = Peeked
  BY <1>1 DEF Peeked
<1> QED BY <1>1, <1>2, <1>3 DEF RxInv, RxHolds

\* What a ring in order looks like by its offsets, as RxInOrder says it.
LEMMA RxOrdered == ~IndexFirst /\ Types /\ RxInv => RxInOrder
<1> SUFFICES ASSUME ~IndexFirst, Types, RxInv PROVE RxInOrder
  OBVIOUS
<1> DEFINE at(i) == rxBuffer[(rxRead + i) % BufSize]
<1>1. /\ rxRead \in Slots /\ rxWrite \in Slots /\ rxBuffer \in [Slots -> Nat]
      /\ taken \in Nat /\ arrived \in Nat /\ fifo \in Nat /\ Peeked \in {0, 1}
  BY RxTypesHere
<1>2. Held = Dist(rxWrite, rxRead) /\ Held \in 0 .. BufSize - 1 /\ BufSize \in Nat
  <2>1. Held = Dist(rxWrite, rxRead) /\ Dist(rxWrite, rxRead) \in Slots
    BY <1>1, RingIndex DEF Held
  <2> QED BY <2>1, SizeAssumption DEF Slots
<1>3. \A i \in 0 .. BufSize - 1 : /\ at(i) = rxBuffer[Row(rxRead, i)]
                                  /\ Row(rxRead, i) \in Slots /\ Dist(Row(rxRead, i), rxRead) = i
  BY <1>1, RingIndex DEF Slots
<1> HIDE DEF at
<1>4. ASSUME NEW i \in Peeked .. Held - 1
      PROVE  at(i) > (IF i = Peeked THEN taken ELSE at(i - 1))
  <2>1. i \in 0 .. BufSize - 1 /\ Peeked <= i /\ i < Held
    BY <1>1, <1>2
  <2>2. rxBuffer[Row(rxRead, i)] > taken
    BY <1>1, <1>2, <1>3, <2>1 DEF RxInv, RxHolds, RingOf, Holding
  <2>3. CASE i # Peeked
    <3>1. i - 1 \in 0 .. BufSize - 1 /\ Peeked <= i - 1 /\ i - 1 < i
      BY <1>1, <1>2, <2>1, <2>3
    <3>2. rxBuffer[Row(rxRead, i - 1)] < rxBuffer[Row(rxRead, i)]
      BY <1>2, <1>3, <2>1, <3>1 DEF RxInv, RxHolds, RingOf, Sorted
    <3>3. at(i) = rxBuffer[Row(rxRead, i)] /\ at(i - 1) = rxBuffer[Row(rxRead, i - 1)]
      BY <1>3, <2>1, <3>1
    <3>4. rxBuffer[Row(rxRead, i - 1)] \in Nat /\ rxBuffer[Row(rxRead, i)] \in Nat
      BY <1>1, <1>3, <2>1, <3>1
    <3> QED BY <2>3, <3>2, <3>3, <3>4
  <2> QED BY <1>3, <2>1, <2>2, <2>3
<1>5. dropped = 0 => taken + (Held - Peeked) + fifo = arrived
  <2> SUFFICES ASSUME dropped = 0 PROVE taken + (Held - Peeked) + fifo = arrived
    OBVIOUS
  <2>1. arrived - fifo = taken + (Held - Peeked)
    BY <1>2 DEF RxInv, RxHolds, RingOf, Complete
  <2>2. Held - Peeked \in Int
    BY <1>1, <1>2
  <2>3. \A a, f, h \in Int : a - f = h => h + f = a
    OBVIOUS
  <2>4. taken + (Held - Peeked) \in Int
    BY <1>1, <2>2
  <2> QED BY <1>1, <2>1, <2>3, <2>4
<1> QED BY <1>4, <1>5 DEF RxInOrder, Peeked, at

\* Bytes are read in the order they came, each once, and those that are in
\* neither the ring nor the FIFO were refused, whatever the interrupt does
\* between the loads and stores of uart_read (uart_simple.c:311 and :138).
THEOREM BytesAreReadInOrder == IndexFirst = FALSE => (Spec => []RxInOrder)
<1> SUFFICES ASSUME ~IndexFirst PROVE Spec => []RxInOrder
  OBVIOUS
<1>1. Init => Types /\ RxInv
  BY TypesStart, RxStart
<1>2. Types /\ RxInv /\ [Next]_vars => Types' /\ RxInv'
  <2>1. Types /\ [Next]_vars => Types'
    BY TypesKept
  <2>2. ASSUME Types, RxInv, [Next]_vars PROVE RxInv'
    BY <2>2, ReaderStepRx, IrqRx, OthersRx DEF Next
  <2> QED BY <2>1, <2>2
<1> QED BY <1>1, <1>2, RxOrdered, PTL DEF Spec

=============================================================================
