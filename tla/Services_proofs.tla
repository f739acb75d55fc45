--------------------------- MODULE Services_proofs ---------------------------
(***************************************************************************)
(* The services of MCServices, for any number of tasks, descriptors, lines *)
(* and devices: the log loses no line uncounted and shows none twice, a    *)
(* descriptor reaches the file it was opened for, the USB serial port      *)
(* keeps its bytes in order, the I2C driver counts them right, and the     *)
(* rings of audio streams are queues; every part keeps its types.          *)
(* The parts share no state, so each invariant holds whichever part runs.  *)
(***************************************************************************)
EXTENDS EtherNetif_proofs

-----------------------------------------------------------------------------
(* The log's ring (syslog.c)                                               *)

Rows == 0 .. MaxLines - 1

\* The lines between two indices of the ring, and the k-th after an index.
Dist(h, t) == IF t <= h THEN h - t ELSE h + MaxLines - t
Row(t, k)  == IF t + k < MaxLines THEN t + k ELSE t + k - MaxLines

LEMMA RowsOfRing ==
  ASSUME NEW h \in Rows, NEW t \in Rows
  PROVE  /\ Dist(h, t) \in Rows /\ (Dist(h, t) = 0 <=> t = h)
         /\ Row(t, Dist(h, t)) = h
         /\ \A k \in Rows : Row(t, k) \in Rows
         /\ \A j, k \in Rows : Row(t, j) = Row(t, k) => j = k
BY LogAssumption DEF Rows, Dist, Row

\* The head or the tail goes one row on.
LEMMA RingAdvances ==
  ASSUME NEW h \in Rows, NEW t \in Rows
  PROVE  /\ Log!Wrap(h + 1) \in Rows
         /\ Dist(Log!Wrap(h + 1), t) = IF Dist(h, t) = MaxLines - 1 THEN 0 ELSE Dist(h, t) + 1
         /\ Dist(h, Log!Wrap(t + 1)) = IF Dist(h, t) = 0 THEN MaxLines - 1 ELSE Dist(h, t) - 1
         /\ \A k \in 0 .. MaxLines - 2 : Row(Log!Wrap(t + 1), k) = Row(t, k + 1)
BY LogAssumption DEF Rows, Dist, Row, Log!Wrap

LEMMA RowsByModulus ==
  ASSUME NEW h \in Rows, NEW t \in Rows
  PROVE  /\ (h + MaxLines - t) % MaxLines = Dist(h, t)
         /\ \A k \in Rows : (t + k) % MaxLines = Row(t, k)
<1>1. MaxLines \in Nat /\ MaxLines > 0 /\ h \in Nat /\ t \in Nat
  BY LogAssumption DEF Rows
<1>2. h + MaxLines - t \in Nat /\ h + MaxLines - t < MaxLines + MaxLines
  BY <1>1 DEF Rows
<1>3. ASSUME NEW k \in Rows PROVE t + k \in Nat /\ t + k < MaxLines + MaxLines
  BY <1>1 DEF Rows
<1>4. (h + MaxLines - t) % MaxLines = Dist(h, t)
  <2>1. (h + MaxLines - t) % MaxLines =
          IF h + MaxLines - t < MaxLines THEN h + MaxLines - t ELSE h + MaxLines - t - MaxLines
    BY <1>1, <1>2, ModulusOnce
  <2> QED BY <1>1, <2>1 DEF Dist
<1>5. ASSUME NEW k \in Rows PROVE (t + k) % MaxLines = Row(t, k)
  BY <1>1, <1>3, ModulusOnce DEF Row
<1> QED BY <1>4, <1>5

-----------------------------------------------------------------------------
(* The log's invariant                                                     *)

\* The places of a task that holds the mutex.
Locked == {"head", "drop", "store", "more?", "tail", "copy"}

\* Where the holder of the mutex is.
Stage == IF logLock = Nobody THEN "free" ELSE logAt[logLock]

Waiting == Dist(headIdx, tailIdx)

\* n lines wait behind the tail, the latest in their order, and c have been
\* taken from the ring since the last was counted as taken.
Books(n, c) ==
  /\ taken + c + logDropped + n = seq
  /\ \A k \in 1 - c .. n : logData[Row(tailIdx, k)] = seq - n + k
  /\ last <= seq - n - c

\* Between the halves of a print the head is one row ahead of the lines.
LogBooks ==
  /\ Stage \in {"free", "head", "more?", "tail"} => Books(Waiting, 0)
  /\ Stage = "tail" => Waiting > 0
  /\ Stage = "drop" => Books(IF Waiting = 0 THEN MaxLines - 1 ELSE Waiting - 1, 0)
  /\ Stage = "store" => Waiting > 0 /\ Books(Waiting - 1, 0)
  /\ Stage = "copy" => Waiting < MaxLines - 1 /\ Books(Waiting, 1)

LogTypes ==
  /\ headIdx \in Rows /\ tailIdx \in Rows
  /\ {seq, logDropped, taken, last} \subseteq Nat
  /\ logData \in [Rows -> Nat]

\* Whoever is in the locked part holds the mutex, and only then.
LogMutex ==
  /\ DOMAIN logAt = Writers \cup Dumpers
  /\ \A t \in Writers \cup Dumpers : logAt[t] \in Locked <=> logLock = t
  /\ logLock \in Writers \cup Dumpers \cup {Nobody}

LogInv == LogTypes /\ LogMutex /\ LogBooks

LEMMA LogInvInit == PartsInit => LogInv
<1> SUFFICES ASSUME PartsInit PROVE LogInv
  OBVIOUS
<1>1. /\ headIdx = 0 /\ tailIdx = 0 /\ seq = 0 /\ logDropped = 0
      /\ logData = [i \in Rows |-> 0]
      /\ logLock = Nobody
      /\ logAt = [t \in Writers \cup Dumpers |-> "idle"]
      /\ taken = 0 /\ last = 0
  BY DEF PartsInit, Log!Init, Rows
<1>2. LogTypes
  BY <1>1, LogAssumption DEF LogTypes, Rows
<1>3. LogMutex
  BY <1>1, LogAssumption DEF LogMutex, Locked
<1>4. Stage = "free" /\ Waiting = 0
  BY <1>1 DEF Stage, Waiting, Dist
<1>5. Books(0, 0)
  BY <1>1 DEF Books
<1> QED BY <1>2, <1>3, <1>4, <1>5 DEF LogInv, LogBooks

\* A task moves inside the locked part.
LEMMA HolderMoves ==
  ASSUME LogInv, NEW t \in Writers \cup Dumpers, logAt[t] \in Locked,
         NEW place2 \in Locked, Log!Goto(t, place2), logLock' = logLock
  PROVE  LogMutex' /\ Stage = logAt[t] /\ Stage' = place2
BY LogAssumption DEF LogInv, LogMutex, Stage, Log!Goto

\* A task takes the mutex, or gives it back.
LEMMA HolderEnters ==
  ASSUME LogInv, NEW t \in Writers \cup Dumpers, logAt[t] \notin Locked, Log!Free,
         NEW place2 \in Locked, Log!Goto(t, place2), logLock' = t
  PROVE  LogMutex' /\ Stage = "free" /\ Stage' = place2
BY LogAssumption DEF LogInv, LogMutex, Stage, Log!Goto, Log!Free

LEMMA HolderLeaves ==
  ASSUME LogInv, NEW t \in Writers \cup Dumpers, logAt[t] \in Locked,
         NEW place2, place2 \notin Locked, Log!Goto(t, place2), logLock' = Nobody
  PROVE  LogMutex' /\ Stage = logAt[t] /\ Stage' = "free"
BY LogAssumption DEF LogInv, LogMutex, Stage, Log!Goto

LEMMA PrintKeepsBooks ==
  ASSUME LogInv, NEW w \in Writers, Log!PrintLine(w)
  PROVE  LogInv'
<1>1. /\ headIdx \in Rows /\ tailIdx \in Rows /\ {seq, logDropped, taken, last} \subseteq Nat
      /\ logData \in [Rows -> Nat] /\ Waiting \in Rows
  BY RowsOfRing DEF LogInv, LogTypes, Waiting
<1>2. w \in Writers \cup Dumpers /\ "idle" \notin Locked /\ {"head", "drop", "store"} \subseteq Locked
  BY DEF Locked
<1>3. CASE Log!StartPrint(w)
  <2>1. LogMutex' /\ Stage = "free" /\ Stage' = "head"
    BY <1>2, <1>3, HolderEnters DEF Log!StartPrint
  <2>2. UNCHANGED <<headIdx, tailIdx, seq, logDropped, logData, taken, last>>
    BY <1>3 DEF Log!StartPrint, Log!log, Log!dumps
  <2> QED BY <2>1, <2>2 DEF LogInv, LogTypes, LogBooks, Books, Waiting
<1>4. CASE Log!AdvanceHead(w)
  <2>1. LogMutex' /\ Stage = "head" /\ Stage' = "drop"
    BY <1>2, <1>4, HolderMoves DEF Log!AdvanceHead
  <2>2. /\ headIdx' = Log!Wrap(headIdx + 1)
        /\ UNCHANGED <<tailIdx, seq, logDropped, logData, taken, last>>
    BY <1>4 DEF Log!AdvanceHead, Log!dumps
  <2> DEFINE before == IF Waiting' = 0 THEN MaxLines - 1 ELSE Waiting' - 1
  <2>3. headIdx' \in Rows /\ before = Waiting
    <3>1. /\ headIdx' \in Rows
          /\ Waiting' = IF Waiting = MaxLines - 1 THEN 0 ELSE Waiting + 1
      BY <1>1, <2>2, RingAdvances DEF Waiting
    <3> QED BY <1>1, <3>1, LogAssumption DEF Rows
  <2>4. Books(Waiting, 0)
    BY <2>1 DEF LogInv, LogBooks
  <2>5. LogTypes'
    BY <1>1, <1>4, <2>2, <2>3 DEF LogTypes, Log!AdvanceHead
  <2>6. Books(IF Waiting = 0 THEN MaxLines - 1 ELSE Waiting - 1, 0)'
    BY <1>4, <2>2, <2>3, <2>4 DEF Books, Log!AdvanceHead
  <2> QED BY <2>1, <2>5, <2>6 DEF LogInv, LogBooks
<1>5. CASE Log!Drop(w)
  <2>1. LogMutex' /\ Stage = "drop" /\ Stage' = "store"
    BY <1>2, <1>5, HolderMoves DEF Log!Drop
  <2>2. UNCHANGED <<headIdx, seq, logData, taken, last>>
    BY <1>5 DEF Log!Drop, Log!dumps
  <2>3. CASE Waiting = 0
    <3>1. tailIdx' = Log!Wrap(tailIdx + 1) /\ logDropped' = logDropped + 1
      BY <1>1, <1>5, <2>3, RowsOfRing DEF Log!Drop, Log!Empty, Waiting
    <3>2. /\ tailIdx' \in Rows /\ Waiting' = MaxLines - 1
          /\ \A k \in 0 .. MaxLines - 2 : Row(tailIdx', k) = Row(tailIdx, k + 1)
      BY <1>1, <2>2, <2>3, <3>1, RingAdvances DEF Waiting
    <3>3. Books(MaxLines - 1, 0)
      BY <2>1, <2>3 DEF LogInv, LogBooks
    <3>4. Books(MaxLines - 2, 0)'
      <4>1. ASSUME NEW k \in 1 .. MaxLines - 2
            PROVE  logData[Row(tailIdx', k)] = seq - (MaxLines - 2) + k
        <5>1. k + 1 \in 1 .. MaxLines - 1 /\ k \in 0 .. MaxLines - 2
          BY LogAssumption
        <5>2. logData[Row(tailIdx, k + 1)] = seq - (MaxLines - 1) + (k + 1)
          BY <3>3, <5>1 DEF Books
        <5> QED BY <1>1, <3>2, <5>1, <5>2, LogAssumption
      <4> QED BY <1>1, <2>2, <3>1, <3>3, <4>1, LogAssumption DEF Books
    <3>5. Waiting' > 0 /\ Waiting' - 1 = MaxLines - 2
      BY <3>2, LogAssumption
    <3> QED BY <1>1, <2>1, <2>2, <3>1, <3>2, <3>4, <3>5 DEF LogInv, LogTypes, LogBooks
  <2>4. CASE Waiting # 0
    <3>1. UNCHANGED <<tailIdx, logDropped>>
      BY <1>1, <1>5, <2>4, RowsOfRing DEF Log!Drop, Log!Empty, Waiting
    <3>2. Waiting' = Waiting /\ Waiting > 0
      BY <1>1, <2>2, <2>4, <3>1 DEF Waiting, Rows
    <3>3. Books(Waiting - 1, 0)
      BY <2>1, <2>4 DEF LogInv, LogBooks
    <3>4. Books(Waiting - 1, 0)'
      BY <2>2, <3>1, <3>2, <3>3 DEF Books
    <3> QED BY <1>1, <2>1, <2>2, <3>1, <3>2, <3>4 DEF LogInv, LogTypes, LogBooks
  <2> QED BY <2>3, <2>4
<1>6. CASE Log!Store(w)
  <2>1. LogMutex' /\ Stage = "store" /\ Stage' = "free"
    BY <1>2, <1>6, HolderLeaves DEF Log!Store
  <2>2. /\ logData' = [logData EXCEPT ![headIdx] = seq + 1] /\ seq' = seq + 1
        /\ UNCHANGED <<headIdx, tailIdx, logDropped, taken, last>>
    BY <1>6 DEF Log!Store, Log!dumps
  <2>3. Waiting > 0 /\ Books(Waiting - 1, 0) /\ Waiting' = Waiting
    BY <2>1, <2>2 DEF LogInv, LogBooks, Waiting
  <2>4. Books(Waiting, 0)'
    <3>1. ASSUME NEW k \in 1 .. Waiting
          PROVE  logData'[Row(tailIdx, k)] = seq + 1 - Waiting + k
      <4>1. /\ Row(tailIdx, k) \in Rows /\ Row(tailIdx, Waiting) = headIdx
            /\ k # Waiting => Row(tailIdx, k) # headIdx
        <5>1. k \in Rows
          BY <1>1, LogAssumption DEF Rows
        <5> QED BY <1>1, <5>1, RowsOfRing DEF Waiting
      <4>2. CASE k = Waiting
        BY <1>1, <2>2, <4>1, <4>2 DEF Rows
      <4>3. CASE k # Waiting
        <5>1. k \in 1 .. Waiting - 1
          BY <1>1, <4>3 DEF Rows
        <5>2. logData[Row(tailIdx, k)] = seq - (Waiting - 1) + k
          BY <2>3, <5>1 DEF Books
        <5> QED BY <1>1, <2>2, <4>1, <4>3, <5>1, <5>2 DEF Rows
      <4> QED BY <4>2, <4>3
    <3>2. taken + 0 + logDropped + Waiting = seq + 1 /\ last <= seq + 1 - Waiting - 0
      BY <1>1, <2>3 DEF Books, Rows
    <3>3. \A k \in 1 - 0 .. Waiting' : logData'[Row(tailIdx', k)] = seq' - Waiting' + k
      BY <1>1, <2>2, <2>3, <3>1 DEF Rows
    <3>4. taken' + 0 + logDropped' + Waiting' = seq' /\ last' <= seq' - Waiting' - 0
      BY <1>1, <2>2, <2>3, <3>2 DEF Rows
    <3> QED BY <3>3, <3>4 DEF Books
  <2>5. LogTypes'
    BY <1>1, <2>2 DEF LogTypes
  <2> QED BY <2>1, <2>3, <2>4, <2>5 DEF LogInv, LogBooks
<1> QED BY <1>3, <1>4, <1>5, <1>6 DEF Log!PrintLine

LEMMA DumpKeepsBooks ==
  ASSUME LogInv, NEW d \in Dumpers, Log!Dump(d)
  PROVE  LogInv'
<1>1. /\ headIdx \in Rows /\ tailIdx \in Rows /\ {seq, logDropped, taken, last} \subseteq Nat
      /\ logData \in [Rows -> Nat] /\ Waiting \in Rows
  BY RowsOfRing DEF LogInv, LogTypes, Waiting
<1>2. /\ d \in Writers \cup Dumpers /\ {"idle", "print"} \cap Locked = {}
      /\ {"more?", "tail", "copy"} \subseteq Locked
  BY DEF Locked
<1>3. CASE Log!StartDump(d) \/ Log!Again(d)
  <2>1. LogMutex' /\ Stage = "free" /\ Stage' = "more?"
    BY <1>2, <1>3, HolderEnters DEF Log!StartDump, Log!Again
  <2>2. UNCHANGED <<headIdx, tailIdx, seq, logDropped, logData, taken, last>>
    BY <1>3 DEF Log!StartDump, Log!Again, Log!log
  <2> QED BY <2>1, <2>2 DEF LogInv, LogTypes, LogBooks, Books, Waiting
<1>4. CASE Log!More(d)
  <2>1. UNCHANGED <<headIdx, tailIdx, seq, logDropped, logData, taken, last>>
    BY <1>4 DEF Log!More, Log!log, Log!dumps
  <2>2. Stage = "more?" /\ Waiting' = Waiting /\ Books(Waiting, 0)' /\ LogTypes'
    <3>1. Stage = "more?"
      BY <1>2, <1>4, LogAssumption DEF Log!More, LogInv, LogMutex, Stage
    <3> QED BY <2>1, <3>1 DEF LogInv, LogTypes, LogBooks, Books, Waiting
  <2>3. CASE logLock' = Nobody /\ Log!Goto(d, "idle")
    <3>1. LogMutex' /\ Stage' = "free"
      BY <1>2, <1>4, <2>3, HolderLeaves DEF Log!More
    <3> QED BY <2>2, <3>1 DEF LogInv, LogBooks
  <2>4. CASE logLock' = logLock /\ Log!Goto(d, "tail") /\ ~Log!Empty
    <3>1. LogMutex' /\ Stage' = "tail"
      BY <1>2, <1>4, <2>4, HolderMoves DEF Log!More
    <3>2. Waiting > 0
      BY <1>1, <2>4, RowsOfRing DEF Log!Empty, Waiting, Rows
    <3> QED BY <2>2, <3>1, <3>2 DEF LogInv, LogBooks
  <2> QED BY <1>4, <2>3, <2>4 DEF Log!More
<1>5. CASE Log!AdvanceTail(d)
  <2>1. LogMutex' /\ Stage = "tail" /\ Stage' = "copy"
    BY <1>2, <1>5, HolderMoves DEF Log!AdvanceTail
  <2>2. /\ tailIdx' = Log!Wrap(tailIdx + 1)
        /\ UNCHANGED <<headIdx, seq, logDropped, logData, taken, last>>
    BY <1>5 DEF Log!AdvanceTail, Log!dumps
  <2>3. Waiting > 0 /\ Books(Waiting, 0)
    BY <2>1 DEF LogInv, LogBooks
  <2>4. /\ tailIdx' \in Rows /\ Waiting' = Waiting - 1
        /\ \A k \in 0 .. MaxLines - 2 : Row(tailIdx', k) = Row(tailIdx, k + 1)
    BY <1>1, <2>2, <2>3, RingAdvances DEF Waiting
  <2>5. Books(Waiting, 1)'
    <3>1. ASSUME NEW k \in 1 - 1 .. Waiting'
          PROVE  logData'[Row(tailIdx', k)] = seq' - Waiting' + k
      <4>1. k + 1 \in 1 - 0 .. Waiting /\ k \in 0 .. MaxLines - 2
        BY <1>1, <2>4, LogAssumption DEF Rows
      <4>2. logData[Row(tailIdx, k + 1)] = seq - Waiting + (k + 1)
        BY <2>3, <4>1 DEF Books
      <4>3. Row(tailIdx', k) = Row(tailIdx, k + 1) /\ logData' = logData /\ seq' = seq
        BY <2>2, <2>4, <4>1
      <4>4. seq - Waiting + (k + 1) = seq - (Waiting - 1) + k
        BY <1>1, <4>1 DEF Rows
      <4> QED BY <2>4, <4>2, <4>3, <4>4
    <3>2. taken' + 1 + logDropped' + Waiting' = seq' /\ last' <= seq' - Waiting' - 1
      <4>1. taken + 0 + logDropped + Waiting = seq /\ last <= seq - Waiting - 0
        BY <2>3 DEF Books
      <4>2. taken' = taken /\ logDropped' = logDropped /\ seq' = seq /\ last' = last
        BY <2>2
      <4>3. {taken, logDropped, seq, last, Waiting} \subseteq Nat /\ Waiting' = Waiting - 1
        BY <1>1, <2>4 DEF Rows
      <4> QED BY <4>1, <4>2, <4>3
    <3> QED BY <3>1, <3>2 DEF Books
  <2>6. Waiting' < MaxLines - 1
    BY <1>1, <2>4, LogAssumption DEF Rows
  <2>7. LogTypes'
    BY <1>1, <2>2, <2>4 DEF LogTypes
  <2> QED BY <2>1, <2>5, <2>6, <2>7 DEF LogInv, LogBooks
<1>6. CASE Log!Copy(d)
  <2>1. LogMutex' /\ Stage = "copy" /\ Stage' = "free"
    BY <1>2, <1>6, HolderLeaves DEF Log!Copy
  <2>2. /\ taken' = taken + 1 /\ last' = logData[tailIdx]
        /\ UNCHANGED <<headIdx, tailIdx, seq, logDropped, logData>>
    BY <1>6 DEF Log!Copy, Log!log
  <2>3. Books(Waiting, 1) /\ Waiting' = Waiting
    BY <2>1, <2>2 DEF LogInv, LogBooks, Waiting
  <2>4. last' = seq - Waiting
    <3>1. Row(tailIdx, 0) = tailIdx /\ 0 \in 1 - 1 .. Waiting
      BY <1>1, LogAssumption DEF Row, Rows
    <3>2. logData[Row(tailIdx, 0)] = seq - Waiting + 0
      BY <2>3, <3>1 DEF Books
    <3>3. seq \in Nat /\ Waiting \in Nat
      BY <1>1 DEF Rows
    <3> QED BY <2>2, <3>1, <3>2, <3>3
  <2>5. Books(Waiting, 0)'
    <3>1. \A k \in 1 - 0 .. Waiting' : logData'[Row(tailIdx', k)] = seq' - Waiting' + k
      BY <2>2, <2>3 DEF Books
    <3>2. taken' + 0 + logDropped' + Waiting' = seq' /\ last' <= seq' - Waiting' - 0
      <4>1. taken + 1 + logDropped + Waiting = seq
        BY <2>3 DEF Books
      <4>2. {seq, logDropped, taken, Waiting, Waiting'} \subseteq Nat
        BY <1>1, <2>3 DEF Rows
      <4> QED BY <2>2, <2>3, <2>4, <4>1, <4>2
    <3> QED BY <3>1, <3>2 DEF Books
  <2>6. LogTypes'
    BY <1>1, <2>2 DEF LogTypes
  <2> QED BY <2>1, <2>5, <2>6 DEF LogInv, LogBooks
<1> QED BY <1>3, <1>4, <1>5, <1>6 DEF Log!Dump

LEMMA LogInvStep == LogInv /\ [PartsNext]_all => LogInv'
<1> SUFFICES ASSUME LogInv, [PartsNext]_all PROVE LogInv'
  OBVIOUS
<1>1. CASE LogStep
  BY <1>1, PrintKeepsBooks, DumpKeepsBooks DEF LogStep, Log!Next
<1>2. CASE UNCHANGED logVars
  BY <1>2 DEF logVars, LogInv, LogTypes, LogMutex, LogBooks, Stage, Books, Waiting
<1> QED BY <1>1, <1>2 DEF PartsNext, Still, StreamStep, FilesStep, SerialStep, TwiStep,
                          UsbStep, EtherStep, all

\* However prints and dumps of any number of tasks interleave, and however
\* small the ring: no line is lost uncounted, none is shown twice.
THEOREM LogIsAccounted == PartsSpec => []LogAccounted
<1>1. LogInv => LogAccounted
  <2> SUFFICES ASSUME LogInv, Log!Free PROVE LogAccounted
    BY DEF LogAccounted, Log!LogAccounted
  <2>1. headIdx \in Rows /\ tailIdx \in Rows /\ Waiting \in Rows /\ {seq, taken, last, logDropped} \subseteq Nat
    BY RowsOfRing DEF LogInv, LogTypes, Waiting
  <2>2. Log!Queued = Waiting
    BY <2>1, RowsByModulus DEF Log!Queued, Waiting
  <2>3. Books(Waiting, 0)
    BY DEF LogInv, LogBooks, Stage, Log!Free
  <2>4. taken + logDropped + Waiting = seq /\ last <= seq - Waiting
    BY <2>1, <2>3 DEF Books, Rows
  <2>5. ASSUME NEW k \in 1 .. Waiting PROVE logData[(tailIdx + k) % MaxLines] = seq - Waiting + k
    <3>1. k \in Rows /\ k \in 1 - 0 .. Waiting
      BY <2>1, LogAssumption DEF Rows
    <3> QED BY <2>1, <2>3, <3>1, RowsByModulus DEF Books
  <2> QED BY <2>2, <2>4, <2>5 DEF LogAccounted, Log!LogAccounted
<1> QED BY <1>1, LogInvInit, LogInvStep, PTL DEF PartsSpec

-----------------------------------------------------------------------------
(* Descriptors (fs_devio.c, fs_dev_fatfs.c)                                *)

\* A task in the locked part of an open; one that has a descriptor; one that
\* has an entry of FatFs's table, and the entry.
Opening(t)  == place[t] \in {"search", "fsd_open", "f_open", "mark", "unlock"}
HasFd(t)    == \/ place[t] \in {"using", "fsd_close", "f_free", "free"}
               \/ place[t] = "unlock" /\ fd[t] \in Files!Fds
OwnsSlot(t) == \/ place[t] \in {"f_open", "mark", "using", "fsd_close", "f_free"}
               \/ place[t] = "unlock" /\ fd[t] \in Files!Fds
SlotOf(t)   == IF place[t] \in {"f_open", "mark", "f_free"} THEN base[t] ELSE DEVIO_FD[fd[t]].baseFd

FdTypes ==
  /\ DEVIO_FD \in [Files!Fds -> [open : BOOLEAN, baseFd : Files!Slots]]
  /\ fatfsFd \in [Files!Slots -> [open : BOOLEAN, f : Tasks \cup {Nothing}]]
  /\ DOMAIN place = Tasks \cup {"shell"}
  /\ fd \in [Tasks -> 0 .. MaxFds] /\ base \in [Tasks -> Files!Slots]

\* Opens exclude each other.
FdMutex == \A t \in Tasks : Opening(t) <=> FD_LOCK = t

\* A descriptor found free is still free when it is marked; one in use is open
\* and nobody else's.
FdsOwned ==
  /\ \A t \in Tasks : place[t] \in {"fsd_open", "f_open", "mark"} =>
       fd[t] \in Files!Fds /\ ~DEVIO_FD[fd[t]].open
  /\ \A t \in Tasks : HasFd(t) => fd[t] \in Files!Fds /\ DEVIO_FD[fd[t]].open
  /\ \A t, u \in Tasks : t # u /\ HasFd(t) /\ HasFd(u) => fd[t] # fd[u]

\* So are the entries of the table below, which hold the task's file.
SlotsOwned ==
  /\ \A t \in Tasks : OwnsSlot(t) => fatfsFd[SlotOf(t)].open
  /\ \A t \in Tasks : place[t] \in {"mark", "using", "fsd_close"} => fatfsFd[SlotOf(t)].f = t
  /\ \A t \in Tasks : place[t] = "unlock" /\ fd[t] \in Files!Fds => fatfsFd[SlotOf(t)].f = t
  /\ \A t, u \in Tasks : t # u /\ OwnsSlot(t) /\ OwnsSlot(u) => SlotOf(t) # SlotOf(u)

FdInv == FdTypes /\ FdMutex /\ FdsOwned /\ SlotsOwned

LEMMA FdInvInit == PartsInit => FdInv
<1> SUFFICES ASSUME PartsInit PROVE FdInv
  OBVIOUS
<1>1. /\ DEVIO_FD = [i \in Files!Fds |-> [open |-> FALSE, baseFd |-> 0]]
      /\ fatfsFd = [i \in Files!Slots |-> [open |-> FALSE, f |-> Nothing]]
      /\ FD_LOCK = Nothing
      /\ place = [t \in Tasks \cup {"shell"} |-> "idle"]
      /\ fd = [t \in Tasks |-> MaxFds]
      /\ base = [t \in Tasks |-> 0]
  BY DEF PartsInit, Files!Init
<1>2. 0 \in Files!Slots /\ MaxFds \in 0 .. MaxFds /\ Nothing \notin Tasks
  BY FilesAssumption DEF Files!Slots
<1>3. FdTypes
  BY <1>1, <1>2 DEF FdTypes
<1>4. \A t \in Tasks : place[t] = "idle" /\ FD_LOCK # t
  BY <1>1, <1>2
<1> QED BY <1>3, <1>4 DEF FdInv, FdMutex, FdsOwned, SlotsOwned, Opening, HasFd, OwnsSlot

\* Storing in an entry of the table keeps its type.
LEMMA TableTyped ==
  ASSUME NEW table \in [Files!Slots -> [open : BOOLEAN, f : Tasks \cup {Nothing}]],
         NEW i \in Files!Slots, NEW o \in BOOLEAN, NEW x \in Tasks \cup {Nothing}
  PROVE  /\ [table EXCEPT ![i].open = o] \in [Files!Slots -> [open : BOOLEAN, f : Tasks \cup {Nothing}]]
         /\ [table EXCEPT ![i].f = x] \in [Files!Slots -> [open : BOOLEAN, f : Tasks \cup {Nothing}]]
OBVIOUS

\* So does giving a descriptor back, which leaves the others and its entry.
LEMMA FdFreed ==
  ASSUME NEW table \in [Files!Fds -> [open : BOOLEAN, baseFd : Files!Slots]], NEW i \in Files!Fds
  PROVE  /\ [table EXCEPT ![i].open = FALSE] \in [Files!Fds -> [open : BOOLEAN, baseFd : Files!Slots]]
         /\ \A j \in Files!Fds : [table EXCEPT ![i].open = FALSE][j].baseFd = table[j].baseFd
         /\ \A j \in Files!Fds : j # i => [table EXCEPT ![i].open = FALSE][j] = table[j]
         /\ ~[table EXCEPT ![i].open = FALSE][i].open
OBVIOUS

\* The other tasks keep what they have.
Others(t) == Tasks \ {t}

LEMMA SlotsKept ==
  ASSUME FdInv, NEW t \in Tasks,
         \A u \in Others(t) : place'[u] = place[u] /\ fd'[u] = fd[u] /\ SlotOf(u)' = SlotOf(u),
         \A u \in Others(t) : OwnsSlot(u) => fatfsFd'[SlotOf(u)] = fatfsFd[SlotOf(u)],
         OwnsSlot(t)' => /\ fatfsFd'[SlotOf(t)'].open
                         /\ \A u \in Others(t) : OwnsSlot(u) => SlotOf(u) # SlotOf(t)',
         place'[t] \in {"mark", "using", "fsd_close"} => fatfsFd'[SlotOf(t)'].f = t,
         place'[t] = "unlock" /\ fd'[t] \in Files!Fds => fatfsFd'[SlotOf(t)'].f = t
  PROVE  SlotsOwned'
<1>1. \A u \in Others(t) : OwnsSlot(u)' <=> OwnsSlot(u)
  BY DEF OwnsSlot
<1>2. \A u \in Others(t) : place[u] \in {"mark", "using", "fsd_close"} => OwnsSlot(u)
  BY DEF OwnsSlot
<1>3. \A u \in Others(t) : place[u] = "unlock" /\ fd[u] \in Files!Fds => OwnsSlot(u)
  BY DEF OwnsSlot
<1>4. \A u \in Tasks : u = t \/ u \in Others(t)
  BY DEF Others
<1>5. \A u \in Tasks : OwnsSlot(u)' => fatfsFd'[SlotOf(u)'].open
  BY <1>1, <1>4 DEF FdInv, SlotsOwned, Others
<1>6. \A u \in Tasks : place'[u] \in {"mark", "using", "fsd_close"} => fatfsFd'[SlotOf(u)'].f = u
  BY <1>2, <1>4 DEF FdInv, SlotsOwned, Others
<1>7. \A u \in Tasks : place'[u] = "unlock" /\ fd'[u] \in Files!Fds => fatfsFd'[SlotOf(u)'].f = u
  BY <1>3, <1>4 DEF FdInv, SlotsOwned, Others
<1>8. \A u, v \in Tasks : u # v /\ OwnsSlot(u)' /\ OwnsSlot(v)' => SlotOf(u)' # SlotOf(v)'
  BY <1>1, <1>4 DEF FdInv, SlotsOwned, Others
<1> QED BY <1>5, <1>6, <1>7, <1>8 DEF SlotsOwned

LEMMA OpenKeepsFdInv ==
  ASSUME FdInv, NEW t \in Tasks,
         \/ Files!StartOpen(t) \/ Files!SearchFd(t) \/ Files!dev_fatfs_open(t)
         \/ Files!f_open(t) \/ Files!Mark(t) \/ Files!EndOpen(t)
  PROVE  FdInv'
<1> USE DEF FdInv, FdTypes, FdMutex, FdsOwned, SlotsOwned, Opening, HasFd, OwnsSlot, SlotOf
<1>1. MaxFds \notin Files!Fds /\ MaxFds \in 0 .. MaxFds /\ Files!Fds \subseteq 0 .. MaxFds
  BY FilesAssumption DEF Files!Fds
<1>2. CASE Files!StartOpen(t)
  BY <1>2, FilesAssumption DEF Files!StartOpen, Files!Goto
<1>3. CASE Files!SearchFd(t)
  <2>1. /\ place[t] = "search"
        /\ UNCHANGED <<DEVIO_FD, fatfsFd, FD_LOCK, base>>
    BY <1>3 DEF Files!SearchFd
  <2>2. CASE fd' = [fd EXCEPT ![t] = MaxFds] /\ Files!Goto(t, "unlock")
    BY <1>1, <2>1, <2>2 DEF Files!Goto
  <2>3. ASSUME NEW i \in Files!Fds, ~DEVIO_FD[i].open,
               fd' = [fd EXCEPT ![t] = i], Files!Goto(t, "fsd_open")
        PROVE  FdInv'
    BY <1>1, <2>1, <2>3 DEF Files!Goto
  <2> QED BY <1>3, <2>2, <2>3 DEF Files!SearchFd, Files!First
<1>4. CASE Files!dev_fatfs_open(t)
  <2>1. /\ place[t] = "fsd_open"
        /\ UNCHANGED <<DEVIO_FD, FD_LOCK>>
    BY <1>4 DEF Files!dev_fatfs_open
  <2>2. CASE /\ fd' = [fd EXCEPT ![t] = MaxFds] /\ Files!Goto(t, "unlock")
             /\ UNCHANGED <<fatfsFd, base>>
    BY <1>1, <2>1, <2>2 DEF Files!Goto
  <2>3. ASSUME NEW i \in Files!Slots, ~fatfsFd[i].open,
               fatfsFd' = [fatfsFd EXCEPT ![i].open = TRUE], base' = [base EXCEPT ![t] = i],
               \/ Files!Goto(t, "f_open") /\ UNCHANGED fd
               \/ fd' = [fd EXCEPT ![t] = MaxFds] /\ Files!Goto(t, "unlock")
        PROVE  FdInv'
    <3>1. FdTypes'
      <4>1. fatfsFd' \in [Files!Slots -> [open : BOOLEAN, f : Tasks \cup {Nothing}]]
        BY <2>3, TableTyped
      <4>2. fd' \in [Tasks -> 0 .. MaxFds] /\ base' \in [Tasks -> Files!Slots]
        BY <1>1, <2>3
      <4>3. DOMAIN place' = Tasks \cup {"shell"}
        BY <2>3 DEF Files!Goto
      <4> QED BY <2>1, <4>1, <4>2, <4>3
    <3>2. FdMutex'
      BY <1>1, <2>1, <2>3 DEF Files!Goto
    <3>3. FdsOwned'
      <4>1. CASE Files!Goto(t, "f_open") /\ UNCHANGED fd
        BY <2>1, <4>1 DEF Files!Goto
      <4>2. CASE fd' = [fd EXCEPT ![t] = MaxFds] /\ Files!Goto(t, "unlock")
        BY <1>1, <2>1, <4>2 DEF Files!Goto
      <4> QED BY <2>3, <4>1, <4>2
    <3>4. \A u \in Others(t) : place'[u] = place[u] /\ fd'[u] = fd[u] /\ SlotOf(u)' = SlotOf(u)
      BY <2>1, <2>3 DEF Files!Goto, Others
    <3>5. \A u \in Others(t) : OwnsSlot(u) => SlotOf(u) # i /\ fatfsFd'[SlotOf(u)] = fatfsFd[SlotOf(u)]
      <4>1. \A j \in Files!Slots : j # i => fatfsFd'[j] = fatfsFd[j]
        BY <2>3
      <4>2. \A u \in Others(t) : OwnsSlot(u) => SlotOf(u) \in Files!Slots /\ fatfsFd[SlotOf(u)].open
        BY DEF Others
      <4> HIDE DEF OwnsSlot, SlotOf
      <4> QED BY <2>3, <4>1, <4>2
    <3>6. OwnsSlot(t)' => SlotOf(t)' = i /\ place'[t] = "f_open" /\ fatfsFd'[i].open
      BY <1>1, <2>1, <2>3 DEF Files!Goto
    <3>7. ~(place'[t] = "unlock" /\ fd'[t] \in Files!Fds) /\ place'[t] \notin {"mark", "using", "fsd_close"}
      BY <1>1, <2>1, <2>3 DEF Files!Goto
    <3> HIDE DEF FdInv, SlotsOwned, FdsOwned, FdTypes, FdMutex, OwnsSlot, SlotOf
    <3>8. SlotsOwned'
      BY <3>4, <3>5, <3>6, <3>7, SlotsKept
    <3> QED BY <3>1, <3>2, <3>3, <3>8 DEF FdInv
  <2> QED BY <1>4, <2>2, <2>3 DEF Files!dev_fatfs_open, Files!First
<1>5. CASE Files!f_open(t)
  <2>1. /\ place[t] = "f_open"
        /\ UNCHANGED <<DEVIO_FD, FD_LOCK, base>>
    BY <1>5 DEF Files!f_open
  <2>2. CASE /\ fatfsFd' = [fatfsFd EXCEPT ![base[t]].f = t]
             /\ Files!Goto(t, "mark") /\ UNCHANGED fd
    BY <1>1, <2>1, <2>2 DEF Files!Goto
  <2>3. CASE /\ fatfsFd' = [fatfsFd EXCEPT ![base[t]].open = FALSE]
             /\ fd' = [fd EXCEPT ![t] = MaxFds] /\ Files!Goto(t, "unlock")
    <3>1. FdTypes'
      <4>1. fatfsFd' \in [Files!Slots -> [open : BOOLEAN, f : Tasks \cup {Nothing}]]
        <5>1. /\ fatfsFd \in [Files!Slots -> [open : BOOLEAN, f : Tasks \cup {Nothing}]]
              /\ base[t] \in Files!Slots /\ FALSE \in BOOLEAN /\ Nothing \in Tasks \cup {Nothing}
          OBVIOUS
        <5> HIDE DEF FdInv, FdTypes, FdMutex, FdsOwned, SlotsOwned
        <5> QED BY <2>3, <5>1, TableTyped
      <4>2. fd' \in [Tasks -> 0 .. MaxFds] /\ DOMAIN place' = Tasks \cup {"shell"}
        BY <1>1, <2>3 DEF Files!Goto
      <4> QED BY <2>1, <4>1, <4>2
    <3>2. FdMutex'
      BY <1>1, <2>1, <2>3 DEF Files!Goto
    <3>3. FdsOwned'
      BY <1>1, <2>1, <2>3 DEF Files!Goto
    <3>4. \A u \in Others(t) : place'[u] = place[u] /\ fd'[u] = fd[u] /\ SlotOf(u)' = SlotOf(u)
      BY <2>1, <2>3 DEF Files!Goto, Others
    <3>5. \A u \in Others(t) : OwnsSlot(u) => fatfsFd'[SlotOf(u)] = fatfsFd[SlotOf(u)]
      <4>1. \A j \in Files!Slots : j # base[t] => fatfsFd'[j] = fatfsFd[j]
        BY <2>3
      <4>2. \A u \in Others(t) : OwnsSlot(u) => SlotOf(u) \in Files!Slots /\ SlotOf(u) # SlotOf(t)
        BY <2>1 DEF Others
      <4>3. SlotOf(t) = base[t]
        BY <2>1
      <4> HIDE DEF OwnsSlot, SlotOf
      <4> QED BY <4>1, <4>2, <4>3
    <3>6. ~OwnsSlot(t)'
      BY <1>1, <2>1, <2>3 DEF Files!Goto
    <3>7. ~(place'[t] = "unlock" /\ fd'[t] \in Files!Fds) /\ place'[t] \notin {"mark", "using", "fsd_close"}
      BY <1>1, <2>1, <2>3 DEF Files!Goto
    <3> HIDE DEF FdInv, SlotsOwned, FdsOwned, FdTypes, FdMutex, OwnsSlot, SlotOf
    <3>8. SlotsOwned'
      BY <3>4, <3>5, <3>6, <3>7, SlotsKept
    <3> QED BY <3>1, <3>2, <3>3, <3>8 DEF FdInv
  <2> QED BY <1>5, <2>2, <2>3 DEF Files!f_open
<1>6. CASE Files!Mark(t)
  BY <1>1, <1>6 DEF Files!Mark, Files!Goto
<1>7. CASE Files!EndOpen(t)
  BY <1>1, <1>7, FilesAssumption DEF Files!EndOpen, Files!Goto
<1> QED BY <1>2, <1>3, <1>4, <1>5, <1>6, <1>7

\* The mutex is not held while a file is closed: what keeps the entries apart
\* is that each is given back before its descriptor is.
LEMMA CloseKeepsFdInv ==
  ASSUME FdInv, NEW t \in Tasks,
         Files!StartClose(t) \/ Files!f_close(t) \/ Files!FreeFatFs(t) \/ Files!FreeFd(t)
  PROVE  FdInv'
<1> USE DEF FdInv, FdTypes, FdMutex, FdsOwned, SlotsOwned, Opening, HasFd, OwnsSlot, SlotOf
<1>1. /\ Files!Then.using = "fsd_close" /\ Files!Then.closed = "free" /\ Files!Then.free = "idle"
  BY DEF Files!Then
<1>2. CASE Files!StartClose(t)
  BY <1>1, <1>2 DEF Files!StartClose, Files!Goto
<1>3. CASE Files!f_close(t)
  <2> DEFINE b == DEVIO_FD[fd[t]].baseFd
  <2>1. /\ place[t] = "fsd_close" /\ base' = [base EXCEPT ![t] = b]
        /\ UNCHANGED <<DEVIO_FD, FD_LOCK, fd>>
    BY <1>3 DEF Files!f_close
  <2>2. OwnsSlot(t) /\ SlotOf(t) = b /\ b \in Files!Slots /\ fatfsFd[b].open
    BY <2>1
  <2>3. fatfsFd' = [fatfsFd EXCEPT ![b].f = Nothing] /\ Files!Goto(t, "f_free")
    BY <1>3, <2>2 DEF Files!f_close
  <2> HIDE DEF b
  <2>4. FdTypes'
    <3>1. fatfsFd' \in [Files!Slots -> [open : BOOLEAN, f : Tasks \cup {Nothing}]]
      BY <2>2, <2>3, TableTyped
    <3>2. base' \in [Tasks -> Files!Slots] /\ DOMAIN place' = Tasks \cup {"shell"}
      BY <2>1, <2>2, <2>3 DEF Files!Goto
    <3> QED BY <2>1, <3>1, <3>2
  <2>5. FdMutex'
    BY <2>1, <2>3 DEF Files!Goto
  <2>6. FdsOwned'
    BY <2>1, <2>3 DEF Files!Goto
  <2>7. \A u \in Others(t) : place'[u] = place[u] /\ fd'[u] = fd[u] /\ SlotOf(u)' = SlotOf(u)
    BY <2>1, <2>3 DEF Files!Goto, Others
  <2>8. \A u \in Others(t) : OwnsSlot(u) => SlotOf(u) # b /\ SlotOf(u) \in Files!Slots
    BY <2>2 DEF Others
  <2>9. SlotOf(t)' = b /\ place'[t] = "f_free" /\ fatfsFd'[b].open
    BY <2>1, <2>2, <2>3 DEF Files!Goto
  <2> HIDE DEF FdInv, SlotsOwned, FdsOwned, FdTypes, FdMutex, OwnsSlot, SlotOf
  <2>10. \A u \in Others(t) : OwnsSlot(u) => fatfsFd'[SlotOf(u)] = fatfsFd[SlotOf(u)]
    BY <2>3, <2>8 DEF FdInv, FdTypes
  <2>11. SlotsOwned'
    BY <2>7, <2>8, <2>9, <2>10, SlotsKept
  <2> QED BY <2>4, <2>5, <2>6, <2>11 DEF FdInv
<1>4. CASE Files!FreeFatFs(t)
  <2>1. /\ place[t] = "f_free" /\ fatfsFd' = [fatfsFd EXCEPT ![base[t]].open = FALSE]
        /\ UNCHANGED <<DEVIO_FD, FD_LOCK, fd, base>> /\ Files!Goto(t, "free")
    BY <1>1, <1>4 DEF Files!FreeFatFs
  <2>2. OwnsSlot(t) /\ SlotOf(t) = base[t] /\ base[t] \in Files!Slots
    BY <2>1
  <2>3. FdTypes'
    <3>1. fatfsFd' \in [Files!Slots -> [open : BOOLEAN, f : Tasks \cup {Nothing}]]
      BY <2>1, <2>2, TableTyped
    <3>2. DOMAIN place' = Tasks \cup {"shell"}
      BY <2>1 DEF Files!Goto
    <3> QED BY <2>1, <3>1, <3>2
  <2>4. FdMutex'
    BY <2>1 DEF Files!Goto
  <2>5. FdsOwned'
    BY <2>1 DEF Files!Goto
  <2>6. \A u \in Others(t) : place'[u] = place[u] /\ fd'[u] = fd[u] /\ SlotOf(u)' = SlotOf(u)
    BY <2>1 DEF Files!Goto, Others
  <2>7. \A u \in Others(t) : OwnsSlot(u) => SlotOf(u) # base[t] /\ SlotOf(u) \in Files!Slots
    BY <2>2 DEF Others
  <2>8. ~OwnsSlot(t)' /\ place'[t] = "free"
    BY <2>1 DEF Files!Goto
  <2> HIDE DEF FdInv, SlotsOwned, FdsOwned, FdTypes, FdMutex, OwnsSlot, SlotOf
  <2>9. \A u \in Others(t) : OwnsSlot(u) => fatfsFd'[SlotOf(u)] = fatfsFd[SlotOf(u)]
    BY <2>1, <2>7 DEF FdInv, FdTypes
  <2>10. SlotsOwned'
    BY <2>6, <2>8, <2>9, SlotsKept
  <2> QED BY <2>3, <2>4, <2>5, <2>10 DEF FdInv
<1>5. CASE Files!FreeFd(t)
  <2>1. /\ place[t] = "free" /\ FD_LOCK = Nothing
        /\ DEVIO_FD' = [DEVIO_FD EXCEPT ![fd[t]].open = FALSE]
        /\ UNCHANGED <<fatfsFd, FD_LOCK, fd, base>> /\ Files!Goto(t, "idle")
    BY <1>1, <1>5 DEF Files!FreeFd
  <2>2. fd[t] \in Files!Fds /\ Nothing \notin Tasks
    BY <2>1, FilesAssumption
  <2>3. /\ DEVIO_FD' \in [Files!Fds -> [open : BOOLEAN, baseFd : Files!Slots]]
        /\ \A i \in Files!Fds : DEVIO_FD'[i].baseFd = DEVIO_FD[i].baseFd
        /\ \A i \in Files!Fds : i # fd[t] => DEVIO_FD'[i] = DEVIO_FD[i]
        /\ ~DEVIO_FD'[fd[t]].open
    <3>1. DEVIO_FD \in [Files!Fds -> [open : BOOLEAN, baseFd : Files!Slots]]
      OBVIOUS
    <3> HIDE DEF FdInv, FdTypes, FdsOwned, SlotsOwned, FdMutex
    <3> QED BY <2>1, <2>2, <3>1, FdFreed
  <2>4. FdTypes' /\ FdMutex'
    BY <2>1, <2>2, <2>3 DEF Files!Goto
  <2>5. FdsOwned'
    <3>1. \A u \in Tasks : u = t \/ place'[u] = place[u]
      BY <2>1 DEF Files!Goto
    <3>2. \A u \in Tasks : place[u] \notin {"fsd_open", "f_open", "mark"}
      BY <2>1, <2>2
    <3>3. place'[t] = "idle" /\ fd' = fd
      BY <2>1 DEF Files!Goto
    <3>4. \A u \in Tasks : u # t /\ HasFd(u) => fd[u] # fd[t] /\ fd[u] \in Files!Fds
      BY <2>1
    <3>5. \A u \in Tasks : HasFd(u)' <=> u # t /\ HasFd(u)
      BY <3>1, <3>3
    <3> HIDE DEF HasFd
    <3> QED BY <2>3, <3>1, <3>2, <3>3, <3>4, <3>5
  <2>6. \A u \in Others(t) : place'[u] = place[u] /\ fd'[u] = fd[u]
    BY <2>1 DEF Files!Goto, Others
  <2>7. \A u \in Tasks : fd[u] \in Files!Fds => DEVIO_FD'[fd[u]].baseFd = DEVIO_FD[fd[u]].baseFd
    BY <2>3
  <2>8. SlotsOwned'
    <3>1. \A u \in Tasks : OwnsSlot(u)' <=> u # t /\ OwnsSlot(u)
      BY <2>1, <2>6 DEF Files!Goto, Others
    <3>2. \A u \in Tasks : u # t /\ OwnsSlot(u) => SlotOf(u)' = SlotOf(u)
      BY <2>1, <2>6, <2>7 DEF Others
    <3>3. \A u \in Tasks : /\ place[u] \in {"mark", "using", "fsd_close"} => OwnsSlot(u)
                           /\ place[u] = "unlock" /\ fd[u] \in Files!Fds => OwnsSlot(u)
      OBVIOUS
    <3>4. place'[t] = "idle"
      BY <2>1 DEF Files!Goto
    <3> HIDE DEF OwnsSlot, SlotOf
    <3>5. /\ \A u \in Tasks : OwnsSlot(u)' => fatfsFd'[SlotOf(u)'].open
          /\ \A u, v \in Tasks : u # v /\ OwnsSlot(u)' /\ OwnsSlot(v)' => SlotOf(u)' # SlotOf(v)'
      BY <2>1, <3>1, <3>2
    <3>6. \A u \in Tasks : place'[u] \in {"mark", "using", "fsd_close"} => fatfsFd'[SlotOf(u)'].f = u
      BY <2>1, <2>6, <3>2, <3>3, <3>4 DEF Others
    <3>7. \A u \in Tasks : place'[u] = "unlock" /\ fd'[u] \in Files!Fds => fatfsFd'[SlotOf(u)'].f = u
      BY <2>1, <2>6, <3>2, <3>3, <3>4 DEF Others
    <3> QED BY <3>5, <3>6, <3>7
  <2> QED BY <2>4, <2>5, <2>8
<1> QED BY <1>2, <1>3, <1>4, <1>5

-----------------------------------------------------------------------------
(* Devices (fs_devman.c, the shell's format and device)                    *)

LEMMA TwoDevices ==
  /\ Devices = {Card, Files!Flash} /\ Files!Flash # Card /\ Nothing \notin Devices
  /\ Files!Entries = {1, 2}
<1>1. IsFiniteSet(Devices \ {Card}) /\ Cardinality(Devices \ {Card}) = 1
  BY FilesAssumption, FS_RemoveElement
<1>2. PICK d : Devices \ {Card} = {d}
  BY <1>1, FS_Singleton
<1>3. Files!Flash = d
  BY <1>2 DEF Files!Flash
<1>4. Files!Entries = {1, 2}
  <2>1. 1 .. 2 = {1, 2}
    OBVIOUS
  <2>2. Files!Cardinality(Devices) = Cardinality(Devices)
    BY DEF Files!Cardinality, Cardinality
  <2> QED BY <2>1, <2>2, FilesAssumption DEF Files!Entries
<1> QED BY <1>2, <1>3, <1>4, FilesAssumption

\* The table holds the card, and the flash unless it is being formatted or
\* was never mounted; each once.
Named(e, name) == deviceEntries[e].name = name
DevTypes ==
  /\ deviceEntries \in [Files!Entries -> [name : Devices \cup {Nothing}, isDefault : BOOLEAN]]
  /\ \E e \in Files!Entries : Named(e, Card)
  /\ \A e, x \in Files!Entries : e # x /\ ~Named(e, Nothing) => deviceEntries[e].name # deviceEntries[x].name
  /\ numDevices = IF \E e \in Files!Entries : Named(e, Files!Flash) THEN 2 ELSE 1

\* The default device, where the format of the flash is.
Only(names) == IF names = {Card} THEN Card ELSE Files!Flash
DefaultName(name) == \A e \in Files!Entries : deviceEntries[e].isDefault <=> Named(e, name)
DevDefault ==
  /\ place["shell"] \in {"idle", "register", "default"}
  /\ wasDefault \in {{Card}, {Files!Flash}}
  /\ place["shell"] = "idle" =>
       \E e \in Files!Entries : Named(e, Only(wasDefault))
  /\ place["shell"] \in {"idle", "register"} =>
       DefaultName(Only(wasDefault))
  /\ place["shell"] = "register" =>
       /\ \A e \in Files!Entries : ~Named(e, Files!Flash)
       /\ dd <=> wasDefault = {Files!Flash}
  /\ place["shell"] = "default" =>
       /\ \E e \in Files!Entries : Named(e, Files!Flash)
       /\ wasDefault = {Files!Flash}

DevInv == DevTypes /\ DevDefault

LEMMA DevInvInit == PartsInit => DevInv
<1> SUFFICES ASSUME PartsInit PROVE DevInv
  OBVIOUS
<1>1. PICK mounted \in BOOLEAN :
        deviceEntries = [e \in Files!Entries |->
          IF mounted /\ e = 1 THEN [name |-> Files!Flash, isDefault |-> FALSE]
          ELSE IF e = (IF mounted THEN 2 ELSE 1) THEN [name |-> Card, isDefault |-> TRUE]
          ELSE Files!Erased]
  BY DEF PartsInit, Files!Init
<1>2. /\ numDevices = Cardinality(Files!Registered) /\ wasDefault = {Card}
      /\ place["shell"] = "idle"
  <2>1. numDevices = Files!Cardinality(Files!Registered) /\ wasDefault = {Card}
    BY DEF PartsInit, Files!Init
  <2>3. Files!Cardinality(Files!Registered) = Cardinality(Files!Registered)
    BY DEF Files!Cardinality, Cardinality
  <2>2. place = [t \in Tasks \cup {"shell"} |-> "idle"]
    BY DEF PartsInit, Files!Init
  <2> QED BY <2>1, <2>2, <2>3
<1>3. CASE mounted
  <2>1. /\ deviceEntries[1] = [name |-> Files!Flash, isDefault |-> FALSE]
        /\ deviceEntries[2] = [name |-> Card, isDefault |-> TRUE]
    BY <1>1, <1>3, TwoDevices
  <2>2. Files!Registered = {1, 2}
    BY <2>1, TwoDevices DEF Files!Registered
  <2>3. numDevices = 2
    <3>1. IsFiniteSet({1}) /\ Cardinality({1}) = 1
      BY FS_Singleton
    <3>2. Cardinality({1} \cup {2}) = 2
      BY <3>1, FS_AddElement
    <3>3. {1} \cup {2} = {1, 2}
      OBVIOUS
    <3> QED BY <1>2, <2>2, <3>2, <3>3
  <2>4. DevTypes
    BY <1>1, <2>1, <2>3, TwoDevices DEF DevTypes, Named, Files!Erased
  <2>5. DefaultName(Card)
    BY <2>1, TwoDevices DEF DefaultName, Named
  <2> QED BY <1>2, <2>1, <2>4, <2>5, TwoDevices DEF DevInv, DevDefault, Named, Only
<1>4. CASE ~mounted
  <2>1. /\ deviceEntries[1] = [name |-> Card, isDefault |-> TRUE]
        /\ deviceEntries[2] = [name |-> Nothing, isDefault |-> FALSE]
    BY <1>1, <1>4, TwoDevices DEF Files!Erased
  <2>2. Files!Registered = {1}
    BY <2>1, TwoDevices DEF Files!Registered
  <2>3. numDevices = 1
    BY <1>2, <2>2, FS_Singleton
  <2>4. DevTypes
    BY <1>1, <2>1, <2>3, TwoDevices DEF DevTypes, Named, Files!Erased
  <2>5. DefaultName(Card)
    BY <2>1, TwoDevices DEF DefaultName, Named
  <2> QED BY <1>2, <2>1, <2>4, <2>5, TwoDevices DEF DevInv, DevDefault, Named, Only
<1> QED BY <1>3, <1>4

LEMMA ShellKeepsDevInv ==
  ASSUME DevInv, DOMAIN place = Tasks \cup {"shell"},
         Files!Format \/ \E name \in Devices : Files!SetDefault(name)
  PROVE  DevInv'
<1> DEFINE Entry == [name : Devices \cup {Nothing}, isDefault : BOOLEAN]
           default == Only(wasDefault)
<1>0. /\ default \in Devices /\ wasDefault = {default}
      /\ \A name \in Devices : Only({name}) = name
  BY TwoDevices DEF DevInv, DevDefault, Only
<1> HIDE DEF default
<1>1. /\ deviceEntries \in [Files!Entries -> Entry]
      /\ \A e \in Files!Entries : deviceEntries[e] \in Entry
  BY DEF DevInv, DevTypes
<1>2. \A e \in Files!Entries : e \in Files!Registered <=> ~Named(e, Nothing)
  BY DEF Files!Registered, Named
<1>3. \A name \in Devices : Files!Find(name) = {e \in Files!Entries : Named(e, name)}
  BY TwoDevices DEF Files!Find, Files!Registered, Named
<1>4. CASE Files!StartFormat
  <2>1. place["shell"] = "idle" /\ place'["shell"] = "register"
    BY <1>4 DEF Files!StartFormat, Files!Goto
  <2>2. DefaultName(default) /\ (\E e \in Files!Entries : Named(e, default))
    BY <2>1 DEF DevInv, DevDefault, default
  <2>3. wasDefault' = {default}
    <3>1. wasDefault' = {deviceEntries[e].name : e \in Files!Default}
      BY <1>4 DEF Files!StartFormat
    <3>2. Files!Default = {e \in Files!Entries : Named(e, default)}
      BY <1>0, <1>2, <2>2, TwoDevices DEF DefaultName, Files!Default, Named, Files!Registered
    <3> QED BY <2>2, <3>1, <3>2 DEF Named
  <2>4. dd' <=> default = Files!Flash
    BY <1>0, <1>3, <1>4, <2>2, TwoDevices DEF Files!StartFormat, DefaultName, Named
  <2>5. CASE Files!Find(Files!Flash) = {}
    <3>1. UNCHANGED <<deviceEntries, numDevices>>
      BY <1>4, <2>5 DEF Files!StartFormat
    <3>2. \A e \in Files!Entries : ~Named(e, Files!Flash)
      BY <1>3, <2>5, TwoDevices
    <3>3. DevTypes'
      BY <3>1 DEF DevInv, DevTypes, Named
    <3> QED BY <1>0, <2>1, <2>2, <2>3, <2>4, <3>1, <3>2, <3>3, TwoDevices
            DEF DevInv, DevDefault, DefaultName, Named
  <2>6. CASE Files!Find(Files!Flash) # {}
    <3>1. PICK e \in Files!Entries :
            Named(e, Files!Flash) /\ deviceEntries' = [deviceEntries EXCEPT ![e] = Files!Erased]
      BY <1>3, <1>4, <2>6, TwoDevices DEF Files!StartFormat, Files!Unregister
    <3>2. numDevices' = numDevices - 1 /\ numDevices = 2
      BY <1>4, <2>6, <3>1 DEF Files!StartFormat, DevInv, DevTypes
    <3>3. /\ deviceEntries'[e] = [name |-> Nothing, isDefault |-> FALSE]
          /\ \A x \in Files!Entries : x # e => deviceEntries'[x] = deviceEntries[x] /\ ~Named(x, Files!Flash)
      BY <1>1, <3>1, TwoDevices DEF Files!Erased, DevInv, DevTypes, Named
    <3>4. deviceEntries' \in [Files!Entries -> Entry]
      BY <1>1, <3>1, <3>3 DEF Files!Erased
    <3>5. DevTypes'
      BY <3>2, <3>3, <3>4, <3>1, TwoDevices DEF DevInv, DevTypes, Named
    <3>6. \A x \in Files!Entries : deviceEntries'[x].isDefault <=> deviceEntries'[x].name = default
      BY <1>0, <2>2, <3>3, TwoDevices DEF DefaultName, Named
    <3>7. \A x \in Files!Entries : deviceEntries'[x].name # Files!Flash
      BY <3>3, TwoDevices DEF Named
    <3> QED BY <1>0, <2>1, <2>3, <2>4, <3>5, <3>6, <3>7, TwoDevices
            DEF DevInv, DevDefault, DefaultName, Named
  <2> QED BY <2>5, <2>6
<1>5. CASE Files!Register
  <2>1. place["shell"] = "register" /\ dd' = dd /\ wasDefault' = wasDefault
    BY <1>5 DEF Files!Register
  <2>2. /\ DefaultName(default) /\ (dd <=> default = Files!Flash)
        /\ \A e \in Files!Entries : ~Named(e, Files!Flash)
    BY <1>0, <2>1, TwoDevices DEF DevInv, DevDefault, default
  <2>3. numDevices = 1 /\ numDevices' = 2
    BY <1>5, <2>2 DEF Files!Register, DevInv, DevTypes
  <2>4. PICK e \in Files!Entries :
          /\ Named(e, Nothing)
          /\ deviceEntries' = [deviceEntries EXCEPT ![e].name = Files!Flash,
                                                    ![e].isDefault = (@ \/ numDevices = 0)]
    BY <1>2, <1>5 DEF Files!Register, Files!First
  <2>5. /\ deviceEntries'[e] = [name |-> Files!Flash, isDefault |-> FALSE]
        /\ \A x \in Files!Entries : x # e => deviceEntries'[x] = deviceEntries[x]
        /\ deviceEntries' \in [Files!Entries -> Entry]
    <3>1. ~deviceEntries[e].isDefault
      BY <1>0, <2>2, <2>4, TwoDevices DEF DefaultName, Named
    <3>2. (deviceEntries[e].isDefault \/ numDevices = 0) = FALSE
      BY <2>3, <3>1
    <3> QED BY <1>1, <2>4, <3>1, <3>2, TwoDevices
  <2>6. DevTypes'
    BY <2>2, <2>3, <2>4, <2>5, TwoDevices DEF DevInv, DevTypes, Named
  <2>7. \E x \in Files!Entries : deviceEntries'[x].name = Files!Flash
    BY <2>5
  <2>8. CASE dd
    <3>1. place'["shell"] = "default"
      BY <1>5, <2>8 DEF Files!Register, Files!Goto
    <3> QED BY <1>0, <2>1, <2>2, <2>6, <2>7, <2>8, <3>1 DEF DevInv, DevDefault, Named
  <2>9. CASE ~dd
    <3>1. place'["shell"] = "idle"
      BY <1>5, <2>9 DEF Files!Register, Files!Goto
    <3>2. default = Card
      BY <1>0, <2>2, <2>9, TwoDevices
    <3>3. \A x \in Files!Entries : deviceEntries'[x].isDefault <=> deviceEntries'[x].name = Card
      BY <2>2, <2>5, <3>2, TwoDevices DEF DefaultName, Named
    <3>4. \E x \in Files!Entries : deviceEntries'[x].name = Card
      BY <2>4, <2>5, TwoDevices DEF DevInv, DevTypes, Named
    <3> QED BY <1>0, <2>1, <2>6, <3>1, <3>2, <3>3, <3>4 DEF DevInv, DevDefault, DefaultName, Named
  <2> QED BY <2>8, <2>9
<1>6. ASSUME NEW name \in Devices, Files!set_default(name), Files!Find(name) # {},
             numDevices' = numDevices, wasDefault' = {name}, place'["shell"] = "idle"
      PROVE  DevInv'
  <2>1. \A e \in Files!Entries : /\ deviceEntries'[e].name = deviceEntries[e].name
                                 /\ deviceEntries'[e].isDefault <=> Named(e, name)
    BY <1>1, <1>3, <1>6 DEF Files!set_default
  <2>2. deviceEntries' \in [Files!Entries -> Entry]
    <3>1. \A r \in Entry, b \in BOOLEAN : [r EXCEPT !.isDefault = b] \in Entry
      OBVIOUS
    <3>2. \A e \in Files!Entries : (e \in Files!Find(name)) \in BOOLEAN
      OBVIOUS
    <3> HIDE DEF Entry
    <3> QED BY <1>1, <1>6, <3>1, <3>2 DEF Files!set_default
  <2>3. DevTypes'
    BY <1>6, <2>1, <2>2 DEF DevInv, DevTypes, Named
  <2>4. \E e \in Files!Entries : Named(e, name)
    BY <1>3, <1>6
  <2> QED BY <1>0, <1>6, <2>1, <2>3, <2>4, TwoDevices DEF DevInv, DevDefault, DefaultName, Named
<1>7. CASE Files!EndFormat
  <2>1. /\ Files!set_default(Files!Flash) /\ place'["shell"] = "idle"
        /\ numDevices' = numDevices /\ wasDefault' = wasDefault /\ place["shell"] = "default"
    BY <1>7 DEF Files!EndFormat, Files!Goto
  <2>2. wasDefault = {Files!Flash} /\ \E e \in Files!Entries : Named(e, Files!Flash)
    BY <2>1 DEF DevInv, DevDefault
  <2>3. Files!Find(Files!Flash) # {}
    BY <1>3, <2>2, TwoDevices
  <2> QED BY <1>6, <2>1, <2>2, <2>3, TwoDevices
<1>8. ASSUME NEW name \in Devices, Files!SetDefault(name) PROVE DevInv'
  <2>1. /\ Files!set_default(name) /\ Files!Find(name) # {} /\ wasDefault' = {name}
        /\ numDevices' = numDevices /\ place'["shell"] = "idle"
    BY <1>8 DEF Files!SetDefault, Files!tables
  <2> QED BY <1>6, <2>1
<1> QED BY <1>4, <1>5, <1>7, <1>8 DEF Files!Format

-----------------------------------------------------------------------------
(* The files' invariant                                                    *)

FilesInv == FdInv /\ DevInv

LEMMA FilesInvStep == FilesInv /\ [PartsNext]_all => FilesInv'
<1> SUFFICES ASSUME FilesInv, [PartsNext]_all PROVE FilesInv'
  OBVIOUS
<1>1. ASSUME NEW t \in Tasks, Files!TaskStep(t) PROVE FilesInv'
  <2>1. FdInv'
    BY <1>1, OpenKeepsFdInv, CloseKeepsFdInv DEF FilesInv, Files!TaskStep
  <2>2. UNCHANGED Files!devices
    BY <1>1 DEF Files!TaskStep, Files!StartOpen, Files!SearchFd, Files!dev_fatfs_open, Files!f_open,
                Files!Mark, Files!EndOpen, Files!StartClose, Files!f_close, Files!FreeFatFs, Files!FreeFd
  <2>3. \E p : Files!Goto(t, p)
    BY <1>1 DEF Files!TaskStep, Files!StartOpen, Files!SearchFd, Files!dev_fatfs_open, Files!f_open,
                Files!Mark, Files!EndOpen, Files!StartClose, Files!f_close, Files!FreeFatFs, Files!FreeFd
  <2>4. place'["shell"] = place["shell"]
    BY <2>3, FilesAssumption DEF Files!Goto, FilesInv, FdInv, FdTypes
  <2> QED BY <2>1, <2>2, <2>4 DEF FilesInv, DevInv, DevTypes, DevDefault, DefaultName, Named, Files!devices
<1>2. CASE Files!Format \/ \E name \in Devices : Files!SetDefault(name)
  <2>1. DevInv'
    BY <1>2, ShellKeepsDevInv DEF FilesInv, FdInv, FdTypes
  <2>2. UNCHANGED <<DEVIO_FD, fatfsFd, FD_LOCK, fd, base>>
    BY <1>2 DEF Files!Format, Files!StartFormat, Files!Register, Files!EndFormat, Files!SetDefault, Files!tables
  <2>3. UNCHANGED place \/ \E p : Files!Goto("shell", p)
    BY <1>2 DEF Files!Format, Files!StartFormat, Files!Register, Files!EndFormat, Files!SetDefault, Files!tables
  <2>4. DOMAIN place' = DOMAIN place /\ \A t \in Tasks : place'[t] = place[t]
    BY <2>3, FilesAssumption DEF Files!Goto, FilesInv, FdInv, FdTypes
  <2>5. \A t \in Tasks : /\ Opening(t)' <=> Opening(t)
                         /\ HasFd(t)' <=> HasFd(t)
                         /\ OwnsSlot(t)' <=> OwnsSlot(t)
                         /\ SlotOf(t)' = SlotOf(t)
    BY <2>2, <2>4 DEF Opening, HasFd, OwnsSlot, SlotOf
  <2>6. FdInv'
    BY <2>2, <2>4, <2>5 DEF FilesInv, FdInv, FdTypes, FdMutex, FdsOwned, SlotsOwned
  <2> QED BY <2>1, <2>6 DEF FilesInv
<1>3. CASE UNCHANGED fileVars
  BY <1>3 DEF fileVars, FilesInv, FdInv, FdTypes, FdMutex, FdsOwned, SlotsOwned, Opening, HasFd,
              OwnsSlot, SlotOf, DevInv, DevTypes, DevDefault, DefaultName, Named
<1> QED BY <1>1, <1>2, <1>3 DEF PartsNext, Still, StreamStep, FilesStep, Files!Next, LogStep,
             SerialStep, TwiStep, UsbStep, EtherStep, all

\* Whoever opens and closes at the same time, for any number of tasks and
\* descriptors: a descriptor in use is open, and its entry of FatFs's table
\* holds the file it was opened for.  A format leaves the default device what
\* it was.
THEOREM FilesAreReached == PartsSpec => []FilesReached
<1>1. FilesInv => FilesReached
  <2> SUFFICES ASSUME FilesInv PROVE FilesReached
    OBVIOUS
  <2>1. ASSUME NEW t \in Tasks, place[t] \in {"using", "fsd_close"}
        PROVE  /\ DEVIO_FD[fd[t]].open
               /\ fatfsFd[DEVIO_FD[fd[t]].baseFd] = [open |-> TRUE, f |-> t]
    <3>1. /\ HasFd(t) /\ OwnsSlot(t) /\ SlotOf(t) = DEVIO_FD[fd[t]].baseFd
      BY <2>1 DEF HasFd, OwnsSlot, SlotOf
    <3>2. /\ fd[t] \in Files!Fds /\ DEVIO_FD[fd[t]].open
          /\ fatfsFd[DEVIO_FD[fd[t]].baseFd].open /\ fatfsFd[DEVIO_FD[fd[t]].baseFd].f = t
      BY <2>1, <3>1 DEF FilesInv, FdInv, FdsOwned, SlotsOwned
    <3>3. fatfsFd[DEVIO_FD[fd[t]].baseFd] \in [open : BOOLEAN, f : Tasks \cup {Nothing}]
      BY <3>2 DEF FilesInv, FdInv, FdTypes
    <3> QED BY <3>2, <3>3
  <2>2. ASSUME place["shell"] = "idle"
        PROVE  {deviceEntries[e].name : e \in Files!Default} = wasDefault
    <3> DEFINE default == Only(wasDefault)
    <3>1. /\ wasDefault = {default} /\ default \in Devices
          /\ DefaultName(default) /\ \E e \in Files!Entries : Named(e, default)
      BY <2>2, TwoDevices DEF FilesInv, DevInv, DevDefault, Only
    <3> HIDE DEF default
    <3>2. Files!Default = {e \in Files!Entries : Named(e, default)}
      BY <3>1, TwoDevices DEF DefaultName, Files!Default, Named, Files!Registered
    <3> QED BY <3>1, <3>2 DEF Named
  <2> QED BY <2>1, <2>2 DEF FilesReached, Files!FilesReached, Files!ReachesOwnFile, Files!DefaultKept
<1>2. PartsInit => FilesInv
  BY FdInvInit, DevInvInit DEF FilesInv
<1> QED BY <1>1, <1>2, FilesInvStep, PTL DEF PartsSpec

-----------------------------------------------------------------------------
(* The rings of the serial port (uart_simple_cdc.c)                        *)

Places  == 0 .. BufSize - 1
Numbers == 0 .. Bytes - 1

\* The bytes between the indices of a ring that is not full to the brim.
Filled(w, r) == IF r <= w THEN w - r ELSE w + BufSize - r

\* The number k after or before x, as bytes are numbered.
Ahead(x, k)  == IF x + k < Bytes THEN x + k ELSE x + k - Bytes
Behind(x, k) == IF k <= x THEN x - k ELSE x - k + Bytes

\* The number of the first byte in the ring, when x is the next to come.
First(r, w, x) == Behind(x, Filled(w, r))

\* The ring b holds the bytes up to x, in order.
Stored(b, r, w, x) ==
  \A s \in Places : Filled(s, r) < Filled(w, r) => b[s] = Ahead(First(r, w, x), Filled(s, r))

\* n bytes can be taken from the ring in one stretch.
Reaches(r, w, n) == n <= Filled(w, r) /\ r + n <= BufSize

LEMMA SerialConstants ==
  /\ BufSize \in Nat /\ BufSize >= 2 /\ Bytes \in Nat /\ Bytes > BufSize
  /\ DmaSize \in Nat /\ DmaSize > 0 /\ DmaSize < BufSize
  /\ \A n \in Lengths : n \in Nat /\ n > 0 /\ n < BufSize
BY SerialAssumption

LEMMA FilledType ==
  ASSUME NEW r \in Places, NEW w \in Places, NEW x \in Numbers
  PROVE  /\ Filled(w, r) \in Places /\ (Filled(w, r) = 0 <=> w = r)
         /\ First(r, w, x) \in Numbers
BY SerialConstants DEF Places, Numbers, Filled, First, Behind

LEMMA NumberOf ==
  ASSUME NEW x \in Nat, x < Bytes + Bytes
  PROVE  /\ x % Bytes = (IF x < Bytes THEN x ELSE x - Bytes)
         /\ x % Bytes \in Numbers
<1>1. x % Bytes = IF x < Bytes THEN x ELSE x - Bytes
  BY SerialConstants, ModulusOnce
<1> QED BY <1>1, SerialConstants DEF Numbers

\* n bytes more in a stretch that neither passes the end nor meets the reader.
LEMMA StretchPutIn ==
  ASSUME NEW b, DOMAIN b = Places, NEW r \in Places, NEW w \in Places, NEW n \in Nat,
         NEW from \in Nat, from + n < Bytes + Bytes,
         w + n <= BufSize, w < r => w + n <= r, n > 0 => Serial!Wrapped(w + n) # r,
         Stored(b, r, w, from % Bytes)
  PROVE  LET w2 == Serial!Wrapped(w + n)
             x2 == (from + n) % Bytes
             b2 == Serial!With(b, w, n, from)
         IN /\ w2 \in Places /\ x2 \in Numbers /\ DOMAIN b2 = Places
            /\ Filled(w2, r) = Filled(w, r) + n
            /\ First(r, w2, x2) = First(r, w, from % Bytes)
            /\ Stored(b2, r, w2, x2)
<1> DEFINE w2 == Serial!Wrapped(w + n)
           x == from % Bytes
           x2 == (from + n) % Bytes
           b2 == Serial!With(b, w, n, from)
<1>1. /\ x = (IF from < Bytes THEN from ELSE from - Bytes)
      /\ x2 = (IF from + n < Bytes THEN from + n ELSE from + n - Bytes)
      /\ x \in Numbers /\ x2 \in Numbers
  <2>1. from < Bytes + Bytes /\ from + n \in Nat
    BY SerialConstants
  <2>2. /\ x = (IF from < Bytes THEN from ELSE from - Bytes) /\ x \in Numbers
    <3> HIDE DEF x2
    <3> QED BY <2>1, NumberOf
  <2>3. /\ x2 = (IF from + n < Bytes THEN from + n ELSE from + n - Bytes) /\ x2 \in Numbers
    <3>0. PICK y : y = from + n
      OBVIOUS
    <3>1. y \in Nat /\ y < Bytes + Bytes
      BY <2>1, <3>0
    <3>2. y % Bytes = (IF y < Bytes THEN y ELSE y - Bytes) /\ y % Bytes \in Numbers
      BY <3>1, NumberOf
    <3> QED BY <3>0, <3>1, <3>2, SerialConstants
  <2> QED BY <2>2, <2>3
<1>2. /\ r \in Nat /\ w \in Nat /\ r < BufSize /\ w < BufSize
      /\ x \in Nat /\ x2 \in Nat /\ x < Bytes /\ x2 < Bytes
  BY <1>1, SerialConstants DEF Places, Numbers
<1>3. w2 = (IF w + n = BufSize THEN 0 ELSE w + n) /\ w2 \in Places
  BY <1>2, SerialConstants DEF Serial!Wrapped, Places
<1>4. DOMAIN b2 = Places /\ \A i \in Places :
        b2[i] = IF i \in w .. w + n - 1 THEN (from + i - w) % Bytes ELSE b[i]
  BY DEF Serial!With
<1> HIDE DEF x, x2, b2, w2
<1>5. Filled(w2, r) = Filled(w, r) + n /\ Filled(w2, r) < BufSize /\ Filled(w, r) \in Nat
  BY <1>2, <1>3, SerialConstants DEF Filled, w2
<1>6. First(r, w2, x2) = First(r, w, x)
  BY <1>1, <1>2, <1>5, SerialConstants DEF First, Behind
<1>7. ASSUME NEW s \in Places, Filled(s, r) < Filled(w2, r)
      PROVE  b2[s] = Ahead(First(r, w2, x2), Filled(s, r))
  <2>1. CASE s \in w .. w + n - 1
    <3>1. s \in Nat /\ w <= s /\ s < w + n
      BY <2>1, <1>2
    <3>2. b2[s] = (from + s - w) % Bytes /\ from + s - w \in Nat /\ from + s - w < Bytes + Bytes
      <4>1. b2[s] = (from + s - w) % Bytes
        BY <1>4, <2>1
      <4> QED BY <1>2, <3>1, <4>1, SerialConstants
    <3>3. b2[s] = IF from + s - w < Bytes THEN from + s - w ELSE from + s - w - Bytes
      <4>0. PICK y : y = from + s - w
        OBVIOUS
      <4>1. y \in Nat /\ y < Bytes + Bytes /\ b2[s] = y % Bytes
        BY <3>2, <4>0
      <4>2. b2[s] = IF y < Bytes THEN y ELSE y - Bytes
        BY <4>1, NumberOf
      <4> QED BY <1>2, <3>1, <4>0, <4>1, <4>2, SerialConstants
    <3>4. Filled(s, r) = Filled(w, r) + s - w
      BY <1>2, <1>7, <3>1, SerialConstants DEF Filled, Places
    <3> QED BY <1>1, <1>2, <1>5, <1>6, <3>1, <3>3, <3>4, SerialConstants DEF First, Behind, Ahead
  <2>2. CASE s \notin w .. w + n - 1
    <3>1. Filled(s, r) < Filled(w, r)
      BY <1>2, <1>3, <1>5, <1>7, <2>2, SerialConstants DEF Filled, Places
    <3>2. b[s] = Ahead(First(r, w, x), Filled(s, r))
      BY <3>1 DEF Stored, x
    <3> QED BY <1>4, <1>6, <2>2, <3>2
  <2> QED BY <2>1, <2>2
<1> QED BY <1>1, <1>3, <1>4, <1>5, <1>6, <1>7 DEF Stored, x, x2, b2, w2

\* The reader goes on by t bytes, as far as a stretch reaches.
LEMMA StretchPassed ==
  ASSUME NEW b, NEW r \in Places, NEW w \in Places, NEW x \in Numbers, Stored(b, r, w, x),
         NEW t \in Nat, Reaches(r, w, t)
  PROVE  LET r2 == Serial!Wrapped(r + t)
         IN /\ r2 \in Places
            /\ First(r2, w, x) = Ahead(First(r, w, x), t)
            /\ Stored(b, r2, w, x)
<1> DEFINE r2 == Serial!Wrapped(r + t)
<1>1. r2 = (IF r + t = BufSize THEN 0 ELSE r + t) /\ r2 \in Places
  BY SerialConstants DEF Serial!Wrapped, Places, Reaches
<1> HIDE DEF r2
<1>2. /\ r \in Nat /\ w \in Nat /\ r < BufSize /\ w < BufSize /\ x \in Nat /\ x < Bytes
  BY SerialConstants DEF Places, Numbers
<1>3. /\ t <= Filled(w, r) /\ r + t <= BufSize
      /\ Filled(w, r2) = Filled(w, r) - t /\ Filled(w, r) \in Nat /\ Filled(w, r) < BufSize
  BY <1>1, <1>2, SerialConstants DEF Filled, Reaches
<1>4. First(r2, w, x) = Ahead(First(r, w, x), t)
  BY <1>2, <1>3, SerialConstants DEF First, Behind, Ahead
<1>5. ASSUME NEW s \in Places, Filled(s, r2) < Filled(w, r2)
      PROVE  b[s] = Ahead(First(r2, w, x), Filled(s, r2))
  <2>1. s \in Nat /\ s < BufSize
    BY SerialConstants DEF Places
  <2>2. Filled(s, r) = Filled(s, r2) + t /\ Filled(s, r) < Filled(w, r) /\ Filled(s, r2) \in Nat
    BY <1>1, <1>2, <1>3, <1>5, <2>1, SerialConstants DEF Filled
  <2>3. b[s] = Ahead(First(r, w, x), Filled(s, r))
    BY <2>2 DEF Stored
  <2> QED BY <1>2, <1>3, <1>4, <2>2, <2>3, SerialConstants DEF First, Behind, Ahead
<1> QED BY <1>1, <1>4, <1>5 DEF Stored, r2

\* The n bytes of b from r on are those numbered from e on.
Takes(b, r, n, e) ==
  /\ \A k \in 0 .. n - 1 : b[r + k] = (e + k) % Bytes
  /\ (e + n) % Bytes = Ahead(e, n) /\ (e + n) % Bytes \in Numbers

\* What is taken out in a stretch from the first byte on is what was put in.
LEMMA StretchTaken ==
  ASSUME NEW b, NEW r \in Places, NEW w \in Places, NEW x \in Numbers, Stored(b, r, w, x),
         NEW n \in Nat, Reaches(r, w, n), NEW e, e = First(r, w, x)
  PROVE  Takes(b, r, n, e)
<1>1. /\ r \in Nat /\ w \in Nat /\ r < BufSize /\ w < BufSize
  BY SerialConstants DEF Places
<1>2. n <= Filled(w, r) /\ r + n <= BufSize /\ Filled(w, r) < BufSize /\ Filled(w, r) \in Nat
  BY <1>1, SerialConstants DEF Filled, Reaches
<1>3. e \in Nat /\ e < Bytes
  <2>1. e \in Numbers
    BY FilledType
  <2> QED BY <2>1, SerialConstants DEF Numbers
<1>4. ASSUME NEW k \in 0 .. n - 1 PROVE b[r + k] = (e + k) % Bytes
  <2>1. k \in Nat /\ k < n /\ k + 1 <= n
    OBVIOUS
  <2>2. r + k \in Places
    BY <1>1, <1>2, <2>1, SerialConstants DEF Places
  <2>3. Filled(r + k, r) = k /\ k < Filled(w, r)
    BY <1>1, <1>2, <2>1, SerialConstants DEF Filled
  <2>4. b[r + k] = Ahead(e, k)
    BY <2>2, <2>3 DEF Stored
  <2>5. (e + k) % Bytes = IF e + k < Bytes THEN e + k ELSE e + k - Bytes
    <3>1. e + k \in Nat /\ e + k < Bytes + Bytes
      BY <1>2, <1>3, <2>1, SerialConstants
    <3>0. PICK y : y = e + k
      OBVIOUS
    <3>2. y \in Nat /\ y < Bytes + Bytes
      BY <3>0, <3>1
    <3>3. y % Bytes = IF y < Bytes THEN y ELSE y - Bytes
      BY <3>2, NumberOf
    <3> QED BY <1>3, <2>1, <3>0, <3>2, <3>3, SerialConstants
  <2> QED BY <2>4, <2>5 DEF Ahead
<1>5. (e + n) % Bytes = Ahead(e, n) /\ (e + n) % Bytes \in Numbers
  <2>1. e + n \in Nat /\ e + n < Bytes + Bytes
    BY <1>2, <1>3, SerialConstants
  <2>0. PICK y : y = e + n
    OBVIOUS
  <2>2. y \in Nat /\ y < Bytes + Bytes
    BY <2>0, <2>1
  <2>3. y % Bytes = (IF y < Bytes THEN y ELSE y - Bytes) /\ y % Bytes \in Numbers
    BY <2>2, NumberOf
  <2> QED BY <1>3, <2>0, <2>2, <2>3, SerialConstants DEF Ahead
<1> QED BY <1>4, <1>5 DEF Takes

LEMMA NoneGone ==
  ASSUME NEW r \in Places, NEW w \in Places, NEW x \in Numbers
  PROVE  Ahead(First(r, w, x), 0) = First(r, w, x) /\ Reaches(r, w, 0)
<1>1. First(r, w, x) \in Numbers /\ Filled(w, r) \in Places
  BY FilledType
<1>2. Ahead(First(r, w, x), 0) = First(r, w, x)
  BY <1>1, SerialConstants DEF Numbers, Ahead
<1>3. Reaches(r, w, 0)
  BY <1>1, SerialConstants DEF Places, Reaches
<1> QED BY <1>2, <1>3

LEMMA StretchReaches ==
  ASSUME NEW r \in Places, NEW w \in Places, NEW n \in Nat
  PROVE  Reaches(r, w, n) <=> n <= Serial!Stretch(r, w)
BY SerialConstants DEF Places, Filled, Reaches, Serial!Stretch

-----------------------------------------------------------------------------
(* The serial port's invariant                                             *)

SerialTypes ==
  /\ side \in {"tx", "rx"} /\ DOMAIN buf = Places /\ readptr \in Places /\ writeptr \in Places
  /\ cdcNext \in Numbers /\ expected \in Numbers
  /\ tx_size \in Nat /\ size \in Nat /\ remaining \in 0 .. BufSize

\* Where a caller may be, and that it holds the lock there.
SerialAt == IF side = "tx" THEN {"idle", "full?", "block", "copy", "kick"}
            ELSE {"idle", "empty?", "block", "awake", "size", "copy", "advance"}
SerialCalls ==
  /\ DOMAIN cdcAt = Callers
  /\ \A c \in Callers : cdcAt[c] \in SerialAt /\ (cdcAt[c] # "idle" <=> cdcLock = c)

\* The bytes at the head of the ring that have been taken out: those of the
\* chunk in flight, or those a read has copied.
Gone == IF side = "tx" THEN IF inFlight THEN tx_size ELSE 0
        ELSE IF \E c \in Callers : cdcAt[c] = "advance" THEN size ELSE 0

SerialRing ==
  /\ Stored(buf, readptr, writeptr, cdcNext)
  /\ expected = Ahead(First(readptr, writeptr, cdcNext), Gone)
  /\ Reaches(readptr, writeptr, Gone)
SerialStages ==
  /\ inFlight => side = "tx" /\ transmitting
  /\ side = "rx" => \A c \in Callers : cdcAt[c] = "copy" => Reaches(readptr, writeptr, size)

\* Once a ring was full to the brim only the types are left.
SerialInv == SerialTypes /\ SerialCalls /\ (~brim => ~broken /\ SerialRing /\ SerialStages)

LEMMA SerialInvInit == PartsInit => SerialInv
<1> SUFFICES ASSUME Serial!Init PROVE SerialInv
  BY DEF PartsInit
<1>1. 0 \in Places /\ 0 \in Numbers /\ 0 \in 0 .. BufSize /\ 0 \in Nat
  BY SerialConstants DEF Places, Numbers
<1>2. SerialTypes /\ SerialCalls /\ ~broken
  BY <1>1, SerialAssumption DEF Serial!Init, SerialTypes, SerialCalls, SerialAt, Places
<1>3. Gone = 0 /\ Filled(0, 0) = 0
  BY SerialConstants DEF Serial!Init, Gone, Filled
<1>4. SerialRing
  <2>1. Stored(buf, 0, 0, 0)
    <3>1. \A s \in Places : ~(Filled(s, 0) < 0)
      BY SerialConstants DEF Filled, Places
    <3> QED BY <1>3, <3>1 DEF Stored
  <2>2. First(0, 0, 0) = 0 /\ Ahead(0, 0) = 0 /\ Reaches(0, 0, 0)
    BY <1>3, SerialConstants DEF First, Behind, Ahead, Reaches
  <2> QED BY <1>3, <2>1, <2>2 DEF SerialRing, Serial!Init
<1>5. SerialStages
  BY DEF Serial!Init, SerialStages
<1> QED BY <1>2, <1>4, <1>5 DEF SerialInv

\* Another place for the caller that holds the lock; the others are idle.
LEMMA SerialGoes ==
  ASSUME SerialCalls, NEW c \in Callers, NEW p, Serial!Goto(c, p), side' = side,
         p \in SerialAt, p # "idle", cdcLock' = c, cdcAt[c] # "idle" \/ cdcLock = None
  PROVE  /\ SerialCalls'
         /\ cdcAt'[c] = p /\ \A d \in Callers \ {c} : cdcAt[d] = "idle" /\ cdcAt'[d] = "idle"
BY SerialAssumption DEF SerialCalls, SerialAt, Serial!Goto

LEMMA SerialReturns ==
  ASSUME SerialCalls, NEW c \in Callers, Serial!Goto(c, "idle"), side' = side,
         cdcAt[c] # "idle", cdcLock' = None
  PROVE  SerialCalls' /\ \A d \in Callers : cdcAt'[d] = "idle"
BY SerialAssumption DEF SerialCalls, SerialAt, Serial!Goto

\* A step of a call that moves no byte.
SerialMoves(c) == \/ Serial!StartWrite(c) \/ Serial!TestFull(c) \/ Serial!TakeTxBlock(c)
                  \/ Serial!StartRead(c) \/ Serial!TestEmpty(c) \/ Serial!TakeRxBlock(c)
                  \/ Serial!Awake(c)

LEMMA MovesKeepSerial ==
  ASSUME SerialInv, NEW c \in Callers, SerialMoves(c)
  PROVE  SerialInv'
<1>1. /\ UNCHANGED <<side, buf, readptr, writeptr, transmitting, tx_size, inFlight, size,
                     cdcNext, expected, broken, brim>>
      /\ remaining' \in 0 .. BufSize
      /\ cdcLock' = c /\ (cdcAt[c] # "idle" \/ cdcLock = None)
      /\ \E p \in SerialAt : Serial!Goto(c, p) /\ p # "idle" /\ p # "advance"
                             /\ (side = "rx" => p # "copy")
      /\ side = "rx" => cdcAt[c] # "advance"
  BY SerialConstants
     DEF SerialMoves, SerialInv, SerialTypes, SerialCalls, SerialAt, Serial!StartWrite,
         Serial!TestFull, Serial!TakeTxBlock, Serial!StartRead, Serial!TestEmpty,
         Serial!TakeRxBlock, Serial!Awake, Serial!tx, Serial!ring, Serial!local, Serial!hist
<1>2. PICK p \in SerialAt : /\ Serial!Goto(c, p) /\ p # "idle" /\ p # "advance"
                            /\ side = "rx" => p # "copy"
  BY <1>1
<1>3. /\ SerialCalls'
      /\ cdcAt'[c] = p /\ \A d \in Callers \ {c} : cdcAt[d] = "idle" /\ cdcAt'[d] = "idle"
  BY <1>1, <1>2, SerialGoes DEF SerialInv
<1>4. Gone' = Gone
  <2>1. side = "rx" => ~\E d \in Callers : cdcAt[d] = "advance"
    BY <1>1, <1>3
  <2>2. ~\E d \in Callers : cdcAt'[d] = "advance"
    BY <1>2, <1>3
  <2>3. side \in {"tx", "rx"}
    BY DEF SerialInv, SerialTypes
  <2> QED BY <1>1, <2>1, <2>2, <2>3 DEF Gone
<1>5. SerialTypes'
  BY <1>1 DEF SerialInv, SerialTypes
<1>6. ASSUME ~brim PROVE SerialRing'
  BY <1>1, <1>4, <1>6 DEF SerialInv, SerialRing
<1>7. ASSUME ~brim PROVE SerialStages'
  BY <1>1, <1>2, <1>3, <1>7 DEF SerialInv, SerialStages
<1> QED BY <1>1, <1>3, <1>5, <1>6, <1>7 DEF SerialInv

\* The index that moves on stays in the ring.
LEMMA WrappedType ==
  ASSUME NEW r \in Places, NEW n \in Nat PROVE Serial!Wrapped(r + n) \in Places
BY SerialConstants DEF Serial!Wrapped, Places

LEMMA CopyInKeepsSerial ==
  ASSUME SerialInv, NEW c \in Callers, Serial!CopyIn(c)
  PROVE  SerialInv'
<1> PICK n : n = Serial!Lesser(Serial!WriteRoom, remaining)
  OBVIOUS
<1>1. /\ side = "tx" /\ cdcAt[c] = "copy" /\ buf' = Serial!With(buf, writeptr, n, cdcNext)
      /\ writeptr' = Serial!Wrapped(writeptr + n) /\ cdcNext' = (cdcNext + n) % Bytes
      /\ (brim' <=> brim \/ writeptr' = readptr) /\ remaining' = remaining - n
      /\ Serial!Goto(c, IF remaining = n THEN "kick" ELSE "full?")
      /\ UNCHANGED <<side, readptr, transmitting, tx_size, inFlight, cdcLock, size,
                     expected, broken>>
  BY DEF Serial!CopyIn, Serial!tx
<1>2. /\ readptr \in Places /\ writeptr \in Places /\ cdcNext \in Numbers /\ expected \in Numbers
      /\ tx_size \in Nat /\ size \in Nat /\ remaining \in 0 .. BufSize /\ DOMAIN buf = Places
  BY DEF SerialInv, SerialTypes
<1>3. /\ n \in Nat /\ n <= remaining /\ writeptr + n <= BufSize
      /\ writeptr < readptr => writeptr + n <= readptr
  BY <1>2, SerialConstants DEF Serial!Lesser, Serial!WriteRoom, Places
<1>4. /\ cdcNext \in Nat /\ cdcNext < Bytes /\ cdcNext + n < Bytes + Bytes /\ cdcNext % Bytes = cdcNext
  <2>1. cdcNext \in Nat /\ cdcNext < Bytes /\ cdcNext + n < Bytes + Bytes
    BY <1>2, <1>3, SerialConstants DEF Numbers
  <2> QED BY <2>1, NumberOf, SerialConstants
<1>5. /\ SerialCalls'
      /\ \A d \in Callers \ {c} : cdcAt[d] = "idle" /\ cdcAt'[d] = "idle"
  BY <1>1, SerialGoes DEF SerialInv, SerialCalls, SerialAt
<1>6. SerialTypes'
  <2>1. writeptr' \in Places
    BY <1>1, <1>2, <1>3, WrappedType
  <2>2. cdcNext' \in Numbers
    <3>1. PICK y : y = cdcNext + n
      OBVIOUS
    <3>2. y \in Nat /\ y < Bytes + Bytes
      BY <1>3, <1>4, <3>1
    <3>3. cdcNext' = y % Bytes
      BY <1>1, <3>1
    <3> QED BY <3>2, <3>3, NumberOf
  <2>3. remaining' \in 0 .. BufSize
    BY <1>1, <1>2, <1>3, SerialConstants
  <2>4. DOMAIN buf' = Places
    BY <1>1, <1>2 DEF Serial!With
  <2> QED BY <1>1, <2>1, <2>2, <2>3, <2>4 DEF SerialInv, SerialTypes
<1>7. ASSUME ~brim' PROVE ~broken' /\ SerialRing' /\ SerialStages'
  <2>1. Serial!Wrapped(writeptr + n) # readptr
    BY <1>1, <1>7
  <2>2. Stored(buf, readptr, writeptr, cdcNext % Bytes) /\ SerialRing /\ SerialStages
    BY <1>1, <1>4, <1>7 DEF SerialInv, SerialRing
  <2>3. /\ Filled(writeptr', readptr) = Filled(writeptr, readptr) + n
        /\ First(readptr, writeptr', cdcNext') = First(readptr, writeptr, cdcNext)
        /\ Stored(buf', readptr, writeptr', cdcNext')
    BY <1>1, <1>2, <1>3, <1>4, <2>1, <2>2, StretchPutIn
  <2>4. Gone' = Gone /\ Gone \in Nat
    BY <1>1, <1>2 DEF Gone
  <2>5. Filled(writeptr, readptr) \in Nat
    <3>1. Filled(writeptr, readptr) \in Places
      BY <1>2, FilledType
    <3> QED BY <3>1, SerialConstants DEF Places
  <2>6. Reaches(readptr', writeptr', Gone')
    BY <1>1, <1>3, <2>2, <2>3, <2>4, <2>5 DEF SerialRing, Reaches
  <2>7. ~broken'
    BY <1>1, <1>7 DEF SerialInv
  <2> QED BY <1>1, <2>2, <2>3, <2>4, <2>6, <2>7 DEF SerialRing, SerialStages
<1> QED BY <1>1, <1>5, <1>6, <1>7 DEF SerialInv

LEMMA NumberType == ASSUME NEW x \in Nat PROVE x % Bytes \in Numbers
BY SerialConstants DEF Numbers

\* What leaves is counted, whether the ring is in order or not.
LEMMA TakeOutType ==
  ASSUME NEW r, NEW n \in Nat, expected \in Numbers, Serial!TakeOut(r, n)
  PROVE  expected' \in Numbers
<1> PICK x : x = expected + n
  OBVIOUS
<1>1. x \in Nat /\ expected' = x % Bytes
  BY SerialConstants DEF Numbers, Serial!TakeOut
<1> QED BY <1>1, NumberType

LEMMA SendType ==
  ASSUME SerialTypes, NEW r \in Places, Serial!Send(r)
  PROVE  tx_size' \in Nat /\ expected' \in Numbers
<1> PICK n : n = Serial!Chunk(r)
  OBVIOUS
<1>1. writeptr \in Places /\ expected \in Numbers
  BY DEF SerialTypes
<1>2. n \in Nat
  BY <1>1, SerialConstants DEF Serial!Chunk, Serial!Lesser, Serial!Stretch, Places
<1>3. tx_size' = n /\ (Serial!TakeOut(r, n) \/ expected' = expected)
  BY DEF Serial!Send
<1> QED BY <1>1, <1>2, <1>3, TakeOutType

\* A chunk of the bytes from r on leaves, or is refused.
LEMMA SendTakes ==
  ASSUME SerialTypes, ~broken, NEW r \in Places, Stored(buf, r, writeptr, cdcNext),
         expected = First(r, writeptr, cdcNext), Serial!Send(r)
  PROVE  /\ tx_size' \in Nat /\ Reaches(r, writeptr, tx_size') /\ Reaches(r, writeptr, 0)
         /\ ~broken' /\ expected' \in Numbers /\ inFlight' \in BOOLEAN
         /\ expected' = Ahead(First(r, writeptr, cdcNext), IF inFlight' THEN tx_size' ELSE 0)
<1>1. writeptr \in Places /\ cdcNext \in Numbers /\ expected \in Numbers
  BY DEF SerialTypes
<1> PICK n : n = Serial!Chunk(r)
  OBVIOUS
<1>2. tx_size' = n /\ \/ Serial!TakeOut(r, n) /\ inFlight' = TRUE
                      \/ UNCHANGED <<broken, expected>> /\ inFlight' = FALSE
  BY DEF Serial!Send
<1>3. n \in Nat /\ n <= Serial!Stretch(r, writeptr)
  BY <1>1, SerialConstants DEF Serial!Chunk, Serial!Lesser, Serial!Stretch, Places
<1>4. Reaches(r, writeptr, n) /\ Reaches(r, writeptr, 0)
  <2>1. 0 <= Serial!Stretch(r, writeptr)
    BY <1>1, <1>3, SerialConstants DEF Serial!Stretch, Places
  <2> QED BY <1>1, <1>3, <2>1, StretchReaches
<1>5. Takes(buf, r, n, expected)
  BY <1>1, <1>3, <1>4, StretchTaken
<1>6. CASE Serial!TakeOut(r, n) /\ inFlight' = TRUE
  <2>1. ~broken' /\ expected' = (expected + n) % Bytes
    BY <1>5, <1>6 DEF Serial!TakeOut, Takes
  <2> QED BY <1>2, <1>3, <1>4, <1>5, <1>6, <2>1 DEF Takes
<1>7. CASE UNCHANGED <<broken, expected>> /\ inFlight' = FALSE
  <2>1. Ahead(expected, 0) = expected
    BY <1>1, SerialConstants DEF Numbers, Ahead
  <2> QED BY <1>1, <1>2, <1>3, <1>4, <1>7, <2>1
<1> QED BY <1>2, <1>6, <1>7

LEMMA KickKeepsSerial ==
  ASSUME SerialInv, NEW c \in Callers, Serial!Kick(c)
  PROVE  SerialInv'
<1>1. /\ cdcAt[c] = "kick" /\ Serial!Goto(c, "idle") /\ cdcLock' = None /\ remaining' = 0
      /\ \/ UNCHANGED <<transmitting, inFlight, tx_size, broken, expected>>
         \/ ~transmitting /\ Serial!Send(readptr) /\ transmitting' = inFlight'
      /\ UNCHANGED <<side, buf, readptr, writeptr, size, cdcNext, brim>>
  BY DEF Serial!Kick, Serial!ring
<1>2. side = "tx" /\ SerialTypes
  BY <1>1 DEF SerialInv, SerialCalls, SerialAt, SerialTypes
<1>3. SerialCalls'
  BY <1>1, SerialReturns DEF SerialInv
<1>4. 0 \in 0 .. BufSize
  BY SerialConstants
<1>5. CASE UNCHANGED <<transmitting, inFlight, tx_size, broken, expected>>
  <2>1. Gone' = Gone
    BY <1>1, <1>2, <1>5 DEF Gone
  <2> QED BY <1>1, <1>2, <1>3, <1>4, <1>5, <2>1
             DEF SerialInv, SerialTypes, SerialRing, SerialStages
<1>6. CASE ~transmitting /\ Serial!Send(readptr) /\ transmitting' = inFlight'
  <2>1. SerialTypes'
    BY <1>1, <1>2, <1>4, <1>6, SendType DEF SerialTypes
  <2>2. ASSUME ~brim PROVE ~broken' /\ SerialRing' /\ SerialStages'
    <3>0. ~broken /\ SerialRing /\ SerialStages
      BY <2>2 DEF SerialInv
    <3>1. Gone = 0
      BY <1>2, <1>6, <3>0 DEF SerialStages, Gone
    <3>2. expected = First(readptr, writeptr, cdcNext)
      <4>1. First(readptr, writeptr, cdcNext) \in Numbers
        BY <1>2, FilledType DEF SerialTypes
      <4> QED BY <3>0, <3>1, <4>1, SerialConstants DEF SerialRing, Ahead, Numbers
    <3>3. /\ tx_size' \in Nat /\ Reaches(readptr, writeptr, tx_size') /\ Reaches(readptr, writeptr, 0)
          /\ ~broken' /\ expected' \in Numbers /\ inFlight' \in BOOLEAN
          /\ expected' = Ahead(First(readptr, writeptr, cdcNext), IF inFlight' THEN tx_size' ELSE 0)
      BY <1>2, <1>6, <3>0, <3>2, SendTakes DEF SerialTypes, SerialRing
    <3>4. Gone' = IF inFlight' THEN tx_size' ELSE 0
      BY <1>1, <1>2 DEF Gone
    <3> QED BY <1>1, <1>2, <1>6, <3>0, <3>3, <3>4 DEF SerialRing, SerialStages
  <2> QED BY <1>1, <1>3, <2>1, <2>2 DEF SerialInv
<1> QED BY <1>1, <1>5, <1>6

LEMMA TxCompleteKeepsSerial ==
  ASSUME SerialInv, Serial!_uart_cdc_tx_complete
  PROVE  SerialInv'
<1>1. /\ side = "tx" /\ inFlight /\ readptr' = Serial!Wrapped(readptr + tx_size)
      /\ IF writeptr = readptr'
         THEN inFlight' = FALSE /\ UNCHANGED <<tx_size, broken, expected>>
         ELSE Serial!Send(readptr') /\ UNCHANGED transmitting
      /\ UNCHANGED <<side, buf, writeptr, cdcLock, cdcAt, size, remaining, cdcNext, brim>>
  BY DEF Serial!_uart_cdc_tx_complete, Serial!local
<1> PICK r : r = readptr'
  OBVIOUS
<1>2. r \in Places /\ SerialTypes /\ SerialCalls'
  BY <1>1, WrappedType DEF SerialInv, SerialTypes, SerialCalls, SerialAt
<1>3. SerialTypes'
  <2>1. CASE writeptr = readptr'
    BY <1>1, <1>2, <2>1 DEF SerialTypes
  <2>2. CASE writeptr # readptr'
    BY <1>1, <1>2, <2>2, SendType DEF SerialTypes
  <2> QED BY <2>1, <2>2
<1>4. ASSUME ~brim PROVE ~broken' /\ SerialRing' /\ SerialStages'
  <2>1. /\ ~broken /\ SerialRing /\ SerialStages /\ Gone = tx_size /\ transmitting
    BY <1>1, <1>4 DEF SerialInv, SerialStages, Gone
  <2>2. /\ readptr \in Places /\ writeptr \in Places /\ cdcNext \in Numbers
        /\ Stored(buf, readptr, writeptr, cdcNext) /\ Reaches(readptr, writeptr, tx_size)
        /\ expected = Ahead(First(readptr, writeptr, cdcNext), tx_size) /\ tx_size \in Nat
    BY <1>2, <2>1 DEF SerialTypes, SerialRing
  <2>3. expected = First(r, writeptr, cdcNext) /\ Stored(buf, r, writeptr, cdcNext)
    BY <1>1, <2>2, StretchPassed
  <2>4. CASE writeptr = readptr'
    <3>1. Gone' = 0
      BY <1>1, <2>4 DEF Gone
    <3>2. expected = Ahead(First(r, writeptr, cdcNext), 0) /\ Reaches(r, writeptr, 0)
      BY <1>2, <2>2, <2>3, NoneGone
    <3> QED BY <1>1, <2>1, <2>3, <2>4, <3>1, <3>2 DEF SerialRing, SerialStages
  <2>5. CASE writeptr # readptr'
    <3>1. Serial!Send(r) /\ UNCHANGED transmitting
      BY <1>1, <2>5
    <3>2. /\ tx_size' \in Nat /\ Reaches(r, writeptr, tx_size') /\ Reaches(r, writeptr, 0)
          /\ ~broken' /\ expected' \in Numbers /\ inFlight' \in BOOLEAN
          /\ expected' = Ahead(First(r, writeptr, cdcNext), IF inFlight' THEN tx_size' ELSE 0)
      BY <1>2, <2>1, <2>3, <3>1, SendTakes
    <3>3. Gone' = IF inFlight' THEN tx_size' ELSE 0
      BY <1>1 DEF Gone
    <3> QED BY <1>1, <2>1, <2>3, <3>1, <3>2, <3>3 DEF SerialRing, SerialStages
  <2> QED BY <2>4, <2>5
<1> QED BY <1>1, <1>2, <1>3, <1>4 DEF SerialInv

\* A read takes a stretch of what is there, copies it and advances.
LEMMA ReadKeepsSerial ==
  ASSUME SerialInv, NEW c \in Callers,
         Serial!Measure(c) \/ Serial!CopyOut(c) \/ Serial!AdvanceRead(c)
  PROVE  SerialInv'
<1>1. /\ readptr \in Places /\ writeptr \in Places /\ cdcNext \in Numbers /\ size \in Nat
      /\ side \in {"tx", "rx"} /\ SerialTypes
      /\ ~brim => /\ ~broken /\ SerialRing /\ SerialStages
                  /\ Stored(buf, readptr, writeptr, cdcNext)
  BY DEF SerialInv, SerialTypes, SerialRing
<1>2. \A d \in Callers \ {c} : cdcAt[c] # "idle" => cdcAt[d] = "idle"
  BY DEF SerialInv, SerialCalls
<1>3. cdcAt[c] \in {"size", "advance"} => side = "rx"
  BY <1>1 DEF SerialInv, SerialCalls, SerialAt
<1>4. CASE Serial!Measure(c)
  <2>1. /\ cdcAt[c] = "size" /\ Serial!Goto(c, "copy") /\ side = "rx"
        /\ UNCHANGED <<side, buf, readptr, writeptr, transmitting, tx_size, inFlight, cdcLock,
                       remaining, cdcNext, expected, broken, brim>>
        /\ \E n \in Lengths : size' = Serial!Lesser(n, Serial!Stretch(readptr, writeptr))
    BY <1>3, <1>4 DEF Serial!Measure, Serial!ring, Serial!tx, Serial!hist
  <2>2. /\ SerialCalls' /\ cdcAt'[c] = "copy"
        /\ \A d \in Callers \ {c} : cdcAt[d] = "idle" /\ cdcAt'[d] = "idle"
    BY <2>1, SerialGoes DEF SerialInv, SerialCalls, SerialAt
  <2>3. size' \in Nat /\ size' <= Serial!Stretch(readptr, writeptr)
    BY <1>1, <2>1, SerialConstants DEF Serial!Lesser, Serial!Stretch, Places
  <2>4. Reaches(readptr, writeptr, size')
    BY <1>1, <2>3, StretchReaches
  <2>5. Gone' = Gone
    BY <2>1, <2>2 DEF Gone
  <2>6. ASSUME ~brim PROVE ~broken' /\ SerialRing' /\ SerialStages'
    BY <1>1, <2>1, <2>4, <2>5, <2>6 DEF SerialRing, SerialStages
  <2> QED BY <1>1, <2>1, <2>2, <2>3, <2>6 DEF SerialInv, SerialTypes
<1>5. CASE Serial!CopyOut(c)
  <2>1. /\ cdcAt[c] = "copy" /\ Serial!Goto(c, "advance") /\ side = "rx"
        /\ UNCHANGED <<side, buf, readptr, writeptr, transmitting, tx_size, inFlight, cdcLock,
                       remaining, size, cdcNext, brim>>
        /\ Serial!TakeOut(readptr, size)
    BY <1>5 DEF Serial!CopyOut, Serial!ring, Serial!tx, Serial!local
  <2>2. /\ SerialCalls' /\ cdcAt'[c] = "advance"
        /\ \A d \in Callers \ {c} : cdcAt[d] = "idle" /\ cdcAt'[d] = "idle"
    BY <2>1, SerialGoes DEF SerialInv, SerialCalls, SerialAt
  <2>3. SerialTypes'
    <3>1. expected' \in Numbers
      BY <1>1, <2>1, TakeOutType DEF SerialTypes
    <3> QED BY <1>1, <2>1, <3>1 DEF SerialTypes
  <2>4. ASSUME ~brim PROVE ~broken' /\ SerialRing' /\ SerialStages'
    <3>1. Gone = 0 /\ Gone' = size /\ Reaches(readptr, writeptr, size)
      BY <1>1, <2>1, <2>2, <2>4 DEF Gone, SerialStages
    <3>2. First(readptr, writeptr, cdcNext) \in Numbers
      BY <1>1, FilledType
    <3>3. expected = First(readptr, writeptr, cdcNext)
      BY <1>1, <2>4, <3>1, <3>2, SerialConstants DEF SerialRing, Ahead, Numbers
    <3>4. Takes(buf, readptr, size, expected)
      BY <1>1, <2>4, <3>1, <3>3, StretchTaken
    <3>5. ~broken' /\ expected' = Ahead(First(readptr, writeptr, cdcNext), size)
      BY <1>1, <2>1, <2>4, <3>3, <3>4 DEF Serial!TakeOut, Takes
    <3> QED BY <1>1, <2>1, <2>2, <2>4, <3>1, <3>5 DEF SerialRing, SerialStages
  <2> QED BY <2>1, <2>2, <2>3, <2>4 DEF SerialInv
<1>6. CASE Serial!AdvanceRead(c)
  <2>1. /\ cdcAt[c] = "advance" /\ Serial!Goto(c, "idle") /\ side = "rx" /\ cdcLock' = None
        /\ readptr' = Serial!Wrapped(readptr + size) /\ size' = 0
        /\ UNCHANGED <<side, buf, writeptr, transmitting, tx_size, inFlight,
                       remaining, cdcNext, expected, broken, brim>>
    BY <1>3, <1>6 DEF Serial!AdvanceRead, Serial!tx, Serial!hist
  <2>2. SerialCalls' /\ \A d \in Callers : cdcAt'[d] = "idle"
    BY <2>1, SerialReturns DEF SerialInv
  <2> PICK r : r = readptr'
    OBVIOUS
  <2>3. SerialTypes'
    BY <1>1, <2>1, WrappedType DEF SerialTypes
  <2>4. ASSUME ~brim PROVE ~broken' /\ SerialRing' /\ SerialStages'
    <3>1. Gone = size /\ Gone' = 0
      BY <2>1, <2>2 DEF Gone
    <3>2. Reaches(readptr, writeptr, size) /\ expected = Ahead(First(readptr, writeptr, cdcNext), size)
      BY <1>1, <2>4, <3>1 DEF SerialRing
    <3>3. r \in Places /\ expected = First(r, writeptr, cdcNext) /\ Stored(buf, r, writeptr, cdcNext)
      BY <1>1, <2>1, <2>4, <3>2, StretchPassed
    <3>4. expected = Ahead(First(r, writeptr, cdcNext), 0) /\ Reaches(r, writeptr, 0)
      BY <1>1, <3>3, NoneGone
    <3> QED BY <1>1, <2>1, <2>2, <2>4, <3>1, <3>3, <3>4 DEF SerialRing, SerialStages
  <2> QED BY <2>1, <2>2, <2>3, <2>4 DEF SerialInv
<1> QED BY <1>4, <1>5, <1>6

\* What arrives is put in one stretch or in two, unless the ring fills.
LEMMA RxCompleteKeepsSerial ==
  ASSUME SerialInv, Serial!_uart_cdc_rx_complete
  PROVE  SerialInv'
<1>1. PICK length \in Lengths :
        LET n  == IF Serial!FullAt(writeptr) THEN 0 ELSE Serial!Lesser(Serial!RxRoom(writeptr), length)
            w  == Serial!Wrapped(writeptr + n)
            n2 == IF Serial!FullAt(w) THEN 0 ELSE Serial!Lesser(Serial!RxRoom(w), length - n)
        IN /\ buf' = Serial!With(Serial!With(buf, writeptr, n, cdcNext), w, n2, cdcNext + n)
           /\ writeptr' = Serial!Wrapped(w + n2)
           /\ cdcNext' = (cdcNext + n + n2) % Bytes
           /\ brim' = (brim \/ (n > 0 /\ w = readptr) \/ (n2 > 0 /\ writeptr' = readptr))
  BY DEF Serial!_uart_cdc_rx_complete
<1> PICK n : n = IF Serial!FullAt(writeptr) THEN 0 ELSE Serial!Lesser(Serial!RxRoom(writeptr), length)
  OBVIOUS
<1> PICK w : w = Serial!Wrapped(writeptr + n)
  OBVIOUS
<1> PICK n2 : n2 = IF Serial!FullAt(w) THEN 0 ELSE Serial!Lesser(Serial!RxRoom(w), length - n)
  OBVIOUS
<1> PICK b : b = Serial!With(buf, writeptr, n, cdcNext)
  OBVIOUS
<1>2. /\ buf' = Serial!With(b, w, n2, cdcNext + n) /\ writeptr' = Serial!Wrapped(w + n2)
      /\ cdcNext' = (cdcNext + n + n2) % Bytes
      /\ brim' <=> brim \/ (n > 0 /\ w = readptr) \/ (n2 > 0 /\ writeptr' = readptr)
  BY <1>1
<1>3. /\ side = "rx"
      /\ UNCHANGED <<side, readptr, transmitting, tx_size, inFlight, cdcLock, cdcAt, remaining,
                     size, expected, broken>>
  BY DEF Serial!_uart_cdc_rx_complete, Serial!tx, Serial!local
<1>4. /\ readptr \in Places /\ writeptr \in Places /\ cdcNext \in Numbers
      /\ DOMAIN buf = Places /\ size \in Nat /\ SerialTypes
      /\ length \in Nat /\ length < BufSize
  BY SerialConstants DEF SerialInv, SerialTypes
<1>5. /\ n \in Nat /\ n <= length /\ writeptr + n <= BufSize
      /\ writeptr < readptr => writeptr + n <= readptr
  <2>1. Serial!RxRoom(writeptr) \in Nat /\ writeptr + Serial!RxRoom(writeptr) <= BufSize
        /\ (writeptr < readptr => writeptr + Serial!RxRoom(writeptr) <= readptr)
    BY <1>4, SerialConstants DEF Serial!RxRoom, Places
  <2> QED BY <1>4, <2>1, SerialConstants DEF Serial!Lesser, Places
<1>6. w \in Places
  BY <1>4, <1>5, SerialConstants DEF Serial!Wrapped, Places
<1>7. /\ n2 \in Nat /\ n + n2 <= length /\ w + n2 <= BufSize
      /\ w < readptr => w + n2 <= readptr
  <2>1. Serial!RxRoom(w) \in Nat /\ w + Serial!RxRoom(w) <= BufSize
        /\ (w < readptr => w + Serial!RxRoom(w) <= readptr)
    BY <1>4, <1>6, SerialConstants DEF Serial!RxRoom, Places
  <2>2. w \in Nat /\ w <= BufSize /\ length - n \in Nat
    BY <1>4, <1>5, <1>6, SerialConstants DEF Places
  <2>3. n2 \in Nat /\ n2 <= length - n /\ n2 <= Serial!RxRoom(w)
    BY <2>1, <2>2 DEF Serial!Lesser
  <2>4. n + n2 <= length /\ w + n2 <= BufSize
    BY <1>4, <1>5, <2>1, <2>2, <2>3, SerialConstants
  <2>5. w < readptr => w + n2 <= readptr
    BY <1>4, <2>1, <2>2, <2>3, SerialConstants DEF Places
  <2> QED BY <2>3, <2>4, <2>5
<1>8. /\ cdcNext \in Nat /\ cdcNext < Bytes /\ cdcNext % Bytes = cdcNext
      /\ cdcNext + n \in Nat /\ cdcNext + n + n2 < Bytes + Bytes /\ cdcNext + n < Bytes + Bytes
  <2>1. cdcNext \in Nat /\ cdcNext < Bytes
    BY <1>4, SerialConstants DEF Numbers
  <2> QED BY <1>4, <1>5, <1>7, <2>1, NumberOf, SerialConstants
<1>9. SerialTypes'
  <2>1. writeptr' \in Places
    BY <1>2, <1>6, <1>7, SerialConstants DEF Serial!Wrapped, Places
  <2>2. cdcNext' \in Numbers
    <3>1. PICK y : y = cdcNext + n + n2
      OBVIOUS
    <3>2. y \in Nat /\ y < Bytes + Bytes
      BY <1>7, <1>8, <3>1
    <3>3. cdcNext' = y % Bytes
      BY <1>2, <3>1
    <3> QED BY <3>2, <3>3, NumberOf
  <2>3. DOMAIN buf' = Places
    BY <1>2, <1>4 DEF Serial!With
  <2> QED BY <1>3, <1>4, <2>1, <2>2, <2>3 DEF SerialTypes
<1>10. SerialCalls'
  BY <1>3 DEF SerialInv, SerialCalls, SerialAt
<1>11. ASSUME ~brim' PROVE ~broken' /\ SerialRing' /\ SerialStages'
  <2>1. /\ ~broken' /\ SerialRing /\ SerialStages
        /\ Stored(buf, readptr, writeptr, cdcNext % Bytes)
    BY <1>2, <1>3, <1>8, <1>11 DEF SerialInv, SerialRing
  <2> PICK x : x = (cdcNext + n) % Bytes
    OBVIOUS
  <2>2. n > 0 => w # readptr
    BY <1>2, <1>11
  <2>3. /\ x \in Numbers /\ DOMAIN b = Places
        /\ Filled(w, readptr) = Filled(writeptr, readptr) + n
        /\ First(readptr, w, x) = First(readptr, writeptr, cdcNext)
        /\ Stored(b, readptr, w, x)
    BY <1>4, <1>5, <1>8, <2>1, <2>2, StretchPutIn
  <2>4. n2 > 0 => Serial!Wrapped(w + n2) # readptr
    BY <1>2, <1>11
  <2>5. /\ Filled(writeptr', readptr) = Filled(w, readptr) + n2
        /\ First(readptr, writeptr', cdcNext') = First(readptr, w, x)
        /\ Stored(buf', readptr, writeptr', cdcNext')
    <3> PICK f : f = cdcNext + n
      OBVIOUS
    <3>1. /\ f \in Nat /\ f + n2 < Bytes + Bytes /\ x = f % Bytes
          /\ cdcNext' = (f + n2) % Bytes /\ buf' = Serial!With(b, w, n2, f)
      BY <1>2, <1>8
    <3> QED BY <1>2, <1>4, <1>6, <1>7, <2>3, <2>4, <3>1, StretchPutIn
  <2>6. Gone' = Gone /\ Gone \in Nat
    BY <1>3, <1>4 DEF Gone
  <2>7. Filled(writeptr, readptr) \in Nat /\ Filled(writeptr', readptr) >= Filled(writeptr, readptr)
    <3>1. Filled(writeptr, readptr) \in Places
      BY <1>4, FilledType
    <3>2. Filled(writeptr, readptr) \in Nat
      BY <3>1, SerialConstants DEF Places
    <3> QED BY <1>5, <1>7, <2>3, <2>5, <3>2
  <2>8. \A k \in Nat : Reaches(readptr, writeptr, k) => Reaches(readptr', writeptr', k)
    <3>1. Filled(writeptr', readptr) \in Int
      BY <1>5, <1>7, <2>3, <2>5, <2>7
    <3> QED BY <1>3, <2>7, <3>1 DEF Reaches
  <2>9. SerialRing'
    BY <1>3, <2>1, <2>3, <2>5, <2>6, <2>8 DEF SerialRing
  <2>10. SerialStages'
    BY <1>3, <1>4, <2>1, <2>8 DEF SerialStages
  <2> QED BY <2>1, <2>9, <2>10
<1> QED BY <1>3, <1>9, <1>10, <1>11 DEF SerialInv

LEMMA SerialInvStep == SerialInv /\ [PartsNext]_all => SerialInv'
<1> SUFFICES ASSUME SerialInv, [PartsNext]_all PROVE SerialInv'
  OBVIOUS
<1>1. CASE SerialStep
  <2>1. \/ \E c \in Callers : Serial!uart_cdc_write(c) \/ Serial!uart_cdc_read(c)
        \/ Serial!_uart_cdc_tx_complete \/ Serial!_uart_cdc_rx_complete
    BY <1>1 DEF SerialStep, Serial!Next
  <2>2. ASSUME NEW c \in Callers, Serial!uart_cdc_write(c) \/ Serial!uart_cdc_read(c)
        PROVE  SerialInv'
    <3>1. \/ SerialMoves(c) \/ Serial!CopyIn(c) \/ Serial!Kick(c)
          \/ Serial!Measure(c) \/ Serial!CopyOut(c) \/ Serial!AdvanceRead(c)
      BY <2>2 DEF Serial!uart_cdc_write, Serial!uart_cdc_read, SerialMoves
    <3> QED BY <3>1, MovesKeepSerial, CopyInKeepsSerial, KickKeepsSerial, ReadKeepsSerial
  <2> QED BY <2>1, <2>2, TxCompleteKeepsSerial, RxCompleteKeepsSerial
<1>2. CASE UNCHANGED serialVars
  BY <1>2 DEF serialVars, SerialInv, SerialTypes, SerialCalls, SerialAt, SerialRing,
              SerialStages, Gone
<1> QED BY <1>1, <1>2 DEF PartsNext, Still, StreamStep, FilesStep, LogStep, TwiStep,
                          UsbStep, EtherStep, all

\* In a behaviour of the USB serial port, for any callers, ring, chunk and
\* lengths: until a ring is filled to its last byte, every byte leaves it once
\* and in order, though copies are made outside the critical sections, chunks
\* are refused and reads time out.
THEOREM SerialIsInOrder == PartsSpec => []SerialInOrder
<1>1. SerialInv => SerialInOrder
  <2> SUFFICES ASSUME SerialInv, writeptr = readptr, ~brim
               PROVE  cdcNext = expected \/ inFlight \/ size > 0
    BY DEF SerialInOrder, Serial!SerialInOrder, Serial!Empty, SerialInv
  <2>1. /\ readptr \in Places /\ cdcNext \in Numbers /\ size \in Nat
        /\ expected = Ahead(First(readptr, writeptr, cdcNext), Gone)
    BY DEF SerialInv, SerialTypes, SerialRing
  <2>2. First(readptr, writeptr, cdcNext) = cdcNext
    <3>1. Filled(writeptr, readptr) = 0
      BY <2>1, FilledType
    <3> QED BY <2>1, <3>1, SerialConstants DEF First, Behind, Numbers
  <2>3. CASE ~inFlight /\ ~(size > 0)
    <3>1. Gone = 0
      BY <2>1, <2>3 DEF Gone
    <3> QED BY <2>1, <2>2, <3>1, NoneGone
  <2> QED BY <2>3
<1> QED BY <1>1, SerialInvInit, SerialInvStep, PTL DEF PartsSpec

-----------------------------------------------------------------------------
(* The I2C driver (twi_simple.c)                                           *)

TwiTypes ==
  /\ doing \in [Users -> {"idle", "wait", "give"}]
  /\ wire \in {"off", "tx", "rx"} /\ xferType \in {"READ", "WRITE", "WRITEREAD", "WRITEWRITE"}
  /\ {slen, rlen, dcnt, sent, received} \subseteq Nat
  /\ fifo \in 0 .. 2 /\ longXfer \in BOOLEAN /\ errors \in BOOLEAN
  /\ asked \in Twi!Requests \cup {Twi!NoRequest}
  /\ portBlock \in {0, 1} /\ istat \subseteq {"TXSERV", "RXSERV", "MCOMP"}

\* A user is in a call exactly while it has the lock.
TwiLock ==
  /\ portLock \in Users \cup {Unlocked}
  /\ \A u \in Users : doing[u] # "idle" <=> portLock = u

\* Between calls the controller is quiet.
Quiet == wire = "off" /\ istat = {} /\ ~errors /\ portBlock = 0

\* The bytes still to be sent, and to be received.
ToGo     == fifo + slen + (IF xferType = "WRITEWRITE" THEN rlen ELSE 0)
ToCome   == rlen - fifo
Counts(n) == dcnt = IF longXfer THEN Twi!Unlimited ELSE n

\* The FIFO is empty when the controller asks for bytes, and full when it has
\* some; what it counts is what is left, or it does not count.
SendingBytes ==
  /\ xferType # "READ" /\ sent + ToGo = Twi!ToSend /\ received = 0
  /\ xferType = "WRITEREAD" => rlen = Twi!ToReceive /\ ~longXfer
  /\ xferType # "WRITEREAD" => Twi!ToReceive = 0
  /\ xferType = "WRITEWRITE" => slen > 0
  /\ "TXSERV" \in istat => fifo = 0
ReceivingBytes ==
  /\ xferType = "READ" /\ sent = Twi!ToSend /\ received + ToCome = Twi!ToReceive /\ ToCome \in Nat
  /\ longXfer => rlen >= TWI_MAX_DCNT - 2
  /\ "RXSERV" \in istat => fifo = 2

\* What the holder of the lock waits for.
InTransfer ==
  /\ portBlock = 0 /\ ~errors
  /\ ~longXfer => dcnt <= TWI_MAX_DCNT
  /\ \/ /\ wire = "tx" /\ istat \subseteq {"TXSERV"} /\ SendingBytes /\ Counts(ToGo)
     \/ /\ wire = "rx" /\ istat \subseteq {"RXSERV"} /\ ReceivingBytes /\ Counts(ToCome)
     \/ /\ wire = "off" /\ dcnt = 0 /\ ~longXfer /\ "MCOMP" \in istat
        /\ \/ SendingBytes /\ ToGo = 0 /\ "RXSERV" \notin istat
           \/ ReceivingBytes /\ ToCome = 0 /\ "TXSERV" \notin istat
Moved ==
  /\ sent = Twi!ToSend /\ received = Twi!ToReceive /\ fifo = 0
  /\ received > 0 => rlen = 0
Within == sent <= Twi!ToSend /\ received <= Twi!ToReceive
Waits ==
  \/ InTransfer
  \/ /\ wire = "off" /\ errors /\ Within /\ (IF portBlock = 0 THEN "MCOMP" \in istat ELSE istat = {})
     /\ "RXSERV" \in istat /\ longXfer => rlen >= TWI_MAX_DCNT - 2
  \/ wire = "off" /\ ~errors /\ Moved /\ portBlock = 1 /\ istat = {}

TwiCalls ==
  /\ portLock = Unlocked => Quiet /\ sent = 0 /\ received = 0
  /\ \A u \in Users :
       /\ doing[u] = "wait" => Waits
       /\ doing[u] = "give" => Quiet /\ (result = "SUCCESS" => Moved)

TwiInv == TwiTypes /\ TwiLock /\ TwiCalls

LEMMA TwiConstants ==
  /\ Unlocked \notin Users /\ TWI_MAX_DCNT \in Nat /\ TWI_MAX_DCNT >= 4
  /\ Twi!Unlimited = TWI_MAX_DCNT + 1 /\ Twi!FifoSize = 2
BY TwiAssumption DEF Twi!Unlimited, Twi!FifoSize

\* A refill moves bytes and loses none; the second buffer of a writeWrite
\* comes when the first is empty.
Refills(f, n, type, second, r) ==
  /\ r.fifo \in 0 .. 2 /\ r.slen \in Nat /\ f <= r.fifo
  /\ \/ /\ r.xferType = type /\ r.fifo + r.slen = f + n
        /\ type = "WRITEWRITE" /\ n > 0 => r.slen > 0
     \/ type = "WRITEWRITE" /\ r.xferType = "WRITE" /\ r.fifo + r.slen = f + n + second

LEMMA FillMoves ==
  ASSUME NEW f \in 0 .. 2, NEW n \in Nat, NEW type, NEW second \in Nat,
         NEW r, r = Twi!Fill(f, n, type, second)
  PROVE  Refills(f, n, type, second, r)
<1> USE DEF Refills
<1> DEFINE one == Twi!Shorter(2 - f, n)
           two == Twi!Shorter(2 - f - one, second)
<1>1. one \in 0 .. 2 - f /\ one <= n /\ one \in Nat
  BY DEF Twi!Shorter
<1>2. two \in 0 .. 2 - f - one /\ two <= second /\ two \in Nat
  BY <1>1 DEF Twi!Shorter
<1>3. one < 2 - f => one = n
  BY DEF Twi!Shorter
<1> HIDE DEF one, two
<1>4. r = IF type = "WRITEWRITE" /\ n > 0 /\ one = n
          THEN [fifo |-> f + one + two, slen |-> second - two, xferType |-> "WRITE"]
          ELSE [fifo |-> f + one, slen |-> n - one, xferType |-> type]
  BY DEF Twi!Fill, Twi!FifoSize, one, two
<1>5. CASE type = "WRITEWRITE" /\ n > 0 /\ one = n
  <2>1. r.fifo = f + one + two /\ r.slen = second - two /\ r.xferType = "WRITE"
    BY <1>4, <1>5
  <2> QED BY <1>1, <1>2, <1>5, <2>1
<1>6. CASE ~(type = "WRITEWRITE" /\ n > 0 /\ one = n)
  <2>1. r.fifo = f + one /\ r.slen = n - one /\ r.xferType = type
    BY <1>4, <1>6
  <2> QED BY <1>1, <1>6, <2>1
<1> QED BY <1>5, <1>6

\* Whoever waits has the lock, and no other user is in a call.
LEMMA OneWaits ==
  ASSUME TwiInv, ~Quiet
  PROVE  \E u \in Users : /\ portLock = u /\ doing[u] = "wait" /\ Waits
                          /\ \A v \in Users : v # u => doing[v] = "idle"
<1>1. portLock \in Users
  BY DEF TwiInv, TwiLock, TwiCalls
<1>2. doing[portLock] # "idle" /\ \A v \in Users : v # portLock => doing[v] = "idle"
  BY <1>1 DEF TwiInv, TwiLock
<1>3. doing[portLock] = "wait" /\ Waits
  BY <1>1, <1>2 DEF TwiInv, TwiCalls, TwiTypes
<1> QED BY <1>1, <1>2, <1>3

LEMMA WaitGoesOn ==
  ASSUME TwiInv, ~Quiet, UNCHANGED <<portLock, doing>>, TwiTypes', Waits'
  PROVE  TwiInv'
<1>1. PICK u \in Users : /\ portLock = u /\ doing[u] = "wait"
                         /\ \A v \in Users : v # u => doing[v] = "idle"
  BY OneWaits
<1>2. TwiCalls'
  BY <1>1, TwiConstants DEF TwiCalls
<1> QED BY <1>2 DEF TwiInv, TwiLock

LEMMA BusKeepsTwi ==
  ASSUME TwiInv, Twi!Bus PROVE TwiInv'
<1> USE DEF Twi!Bus, Twi!port, Twi!transfer
<1>1. ~Quiet /\ wire # "off"
  BY DEF Quiet, Twi!SendByte, Twi!ReceiveByte, Twi!Complete
<1>2. TwiTypes /\ InTransfer
  BY <1>1, OneWaits DEF TwiInv, Waits
<1>3. Twi!ToSend' = Twi!ToSend /\ Twi!ToReceive' = Twi!ToReceive
  BY DEF Twi!ToSend, Twi!ToReceive
<1>4. dcnt \in Nat /\ fifo \in 0 .. 2 /\ {slen, rlen, sent, received} \subseteq Nat
  BY <1>2 DEF TwiTypes
<1>5. CASE Twi!SendByte
  <2>1. /\ wire = "tx" /\ dcnt > 0 /\ fifo > 0 /\ fifo' = fifo - 1 /\ dcnt' = Twi!Counted
        /\ sent' = sent + 1 /\ istat' = istat \cup (IF fifo' = 0 THEN {"TXSERV"} ELSE {})
        /\ UNCHANGED <<wire, received>>
    BY <1>5 DEF Twi!SendByte
  <2>2. SendingBytes /\ Counts(ToGo) /\ istat \subseteq {"TXSERV"}
    BY <1>2, <2>1 DEF InTransfer
  <2>3. ToGo' = ToGo - 1 /\ ToGo \in Nat
    BY <1>4, <2>1 DEF ToGo
  <2>4. SendingBytes'
    BY <1>3, <1>4, <2>1, <2>2, <2>3 DEF SendingBytes
  <2>5. Counts(ToGo)' /\ (~longXfer => dcnt' <= TWI_MAX_DCNT) /\ dcnt' \in Nat
    BY <1>2, <1>4, <2>1, <2>2, <2>3, TwiConstants DEF Counts, Twi!Counted, InTransfer
  <2>6. TwiTypes'
    BY <1>2, <1>4, <2>1, <2>5 DEF TwiTypes
  <2>7. InTransfer'
    BY <1>2, <2>1, <2>2, <2>4, <2>5 DEF InTransfer
  <2> QED BY <1>1, <2>6, <2>7, WaitGoesOn DEF Waits
<1>6. CASE Twi!ReceiveByte
  <2>1. /\ wire = "rx" /\ dcnt > 0 /\ fifo < 2 /\ fifo' = fifo + 1 /\ dcnt' = Twi!Counted
        /\ received' = received + 1 /\ istat' = istat \cup (IF fifo' = 2 THEN {"RXSERV"} ELSE {})
        /\ UNCHANGED <<wire, sent>>
    BY <1>6 DEF Twi!ReceiveByte, Twi!FifoSize
  <2>2. ReceivingBytes /\ Counts(ToCome) /\ istat \subseteq {"RXSERV"}
    BY <1>2, <2>1 DEF InTransfer
  <2>3. ToCome' = ToCome - 1 /\ ToCome' \in Nat
    <3>1. ToCome' = ToCome - 1
      BY <1>4, <2>1 DEF ToCome
    <3>2. ToCome > 0
      <4>1. CASE longXfer
        BY <1>4, <2>1, <2>2, <4>1, TwiConstants DEF ToCome, ReceivingBytes
      <4>2. CASE ~longXfer
        BY <2>1, <2>2, <4>2 DEF Counts
      <4> QED BY <4>1, <4>2
    <3> QED BY <2>2, <3>1, <3>2 DEF ReceivingBytes
  <2>4. ReceivingBytes'
    BY <1>3, <1>4, <2>1, <2>2, <2>3 DEF ReceivingBytes
  <2>5. Counts(ToCome)' /\ (~longXfer => dcnt' <= TWI_MAX_DCNT) /\ dcnt' \in Nat
    <3>1. CASE longXfer
      <4>1. dcnt = Twi!Unlimited /\ dcnt' = dcnt
        BY <2>1, <2>2, <3>1 DEF Counts, Twi!Counted
      <4> QED BY <1>4, <3>1, <4>1, TwiConstants DEF Counts
    <3>2. CASE ~longXfer
      <4>1. dcnt = ToCome /\ dcnt <= TWI_MAX_DCNT
        BY <1>2, <2>2, <3>2 DEF Counts, InTransfer
      <4>2. dcnt' = dcnt - 1
        BY <1>4, <2>1, <4>1, TwiConstants DEF Twi!Counted
      <4> QED BY <1>4, <2>1, <2>3, <3>2, <4>1, <4>2, TwiConstants DEF Counts
    <3> QED BY <3>1, <3>2
  <2>6. TwiTypes'
    BY <1>2, <1>4, <2>1, <2>5 DEF TwiTypes
  <2>7. InTransfer'
    BY <1>2, <2>1, <2>2, <2>4, <2>5 DEF InTransfer
  <2> QED BY <1>1, <2>6, <2>7, WaitGoesOn DEF Waits
<1>7. CASE Twi!Complete
  <2>1. /\ wire # "off" /\ dcnt = 0 /\ wire' = "off" /\ istat' = istat \cup {"MCOMP"}
        /\ UNCHANGED <<dcnt, fifo, sent, received>>
    BY <1>7 DEF Twi!Complete, Twi!moved
  <2>2. ~longXfer
    BY <1>2, <2>1, TwiConstants DEF InTransfer, Counts
  <2>3. TwiTypes'
    BY <1>2, <2>1 DEF TwiTypes
  <2>4. CASE wire = "tx"
    <3>1. SendingBytes /\ ToGo = 0 /\ istat \subseteq {"TXSERV"}
      BY <1>2, <2>1, <2>2, <2>4 DEF InTransfer, Counts
    <3>2. SendingBytes' /\ ToGo' = 0
      BY <1>3, <2>1, <3>1 DEF SendingBytes, ToGo
    <3>3. InTransfer'
      BY <1>2, <2>1, <2>2, <3>1, <3>2 DEF InTransfer
    <3> QED BY <1>1, <2>3, <3>3, WaitGoesOn DEF Waits
  <2>5. CASE wire = "rx"
    <3>1. ReceivingBytes /\ ToCome = 0 /\ istat \subseteq {"RXSERV"}
      BY <1>2, <2>1, <2>2, <2>5 DEF InTransfer, Counts
    <3>2. ReceivingBytes' /\ ToCome' = 0
      BY <1>3, <2>1, <3>1 DEF ReceivingBytes, ToCome
    <3>3. InTransfer'
      BY <1>2, <2>1, <2>2, <3>1, <3>2 DEF InTransfer
    <3> QED BY <1>1, <2>3, <3>3, WaitGoesOn DEF Waits
  <2> QED BY <1>2, <2>1, <2>4, <2>5 DEF TwiTypes
<1> QED BY <1>5, <1>6, <1>7

LEMMA TwiInput ==
  ASSUME TwiTypes
  PROVE  {Twi!ToSend, Twi!ToReceive} \subseteq Nat
BY DEF TwiTypes, Twi!ToSend, Twi!ToReceive, Twi!Requests, Twi!NoRequest

LEMMA WithinTransfer == TwiTypes /\ InTransfer => Within
<1> SUFFICES ASSUME TwiTypes, InTransfer PROVE Within
  OBVIOUS
<1>1. fifo \in 0 .. 2 /\ {slen, rlen, sent, received} \subseteq Nat
  BY DEF TwiTypes
<1>2. ToGo \in Nat
  BY <1>1 DEF ToGo
<1>3. CASE SendingBytes
  BY <1>1, <1>2, <1>3, TwiInput DEF Within, SendingBytes
<1>4. CASE ReceivingBytes
  BY <1>1, <1>4 DEF Within, ReceivingBytes
<1> QED BY <1>3, <1>4 DEF InTransfer

LEMMA FailKeepsTwi ==
  ASSUME TwiInv, Twi!Fail PROVE TwiInv'
<1>1. /\ wire # "off" /\ wire' = "off" /\ errors' = TRUE /\ istat' = istat \cup {"MCOMP"}
      /\ UNCHANGED <<portLock, portBlock, doing, result, xferType, slen, rlen, longXfer, dcnt, fifo,
                     asked, sent, received>>
  BY DEF Twi!Fail, Twi!port, Twi!transfer, Twi!moved
<1>2. ~Quiet
  BY <1>1 DEF Quiet
<1>3. TwiTypes /\ InTransfer
  BY <1>1, <1>2, OneWaits DEF TwiInv, Waits
<1>4. TwiTypes'
  BY <1>1, <1>3 DEF TwiTypes
<1>5. Within'
  BY <1>1, <1>3, WithinTransfer DEF Within, Twi!ToSend, Twi!ToReceive
<1>6. Waits'
  <2>1. "RXSERV" \in istat' /\ longXfer' => rlen' >= TWI_MAX_DCNT - 2
    BY <1>1, <1>3 DEF InTransfer, ReceivingBytes
  <2> QED BY <1>1, <1>3, <1>5, <2>1 DEF Waits, InTransfer
<1> QED BY <1>1, <1>2, <1>4, <1>6, WaitGoesOn

LEMMA UsersKeepTwi ==
  ASSUME TwiInv, NEW u \in Users, Twi!twi_xfer(u) PROVE TwiInv'
<1> USE DEF Twi!port, Twi!transfer, Twi!bus, Twi!moved
<1>1. TwiTypes /\ (portLock = Unlocked => Quiet /\ sent = 0 /\ received = 0)
  BY DEF TwiInv, TwiCalls
<1>2. CASE Twi!StartXfer(u)
  <2>1. /\ doing[u] = "idle" /\ portLock = Unlocked /\ portLock' = u /\ portBlock' = portBlock
        /\ Quiet /\ sent = 0 /\ received = 0
    BY <1>1, <1>2 DEF Twi!StartXfer
  <2>2. \A v \in Users : doing[v] = "idle"
    BY <2>1, TwiConstants DEF TwiInv, TwiLock
  <2>3. PICK q \in Twi!Requests :
          /\ asked' = q
          /\ \/ /\ Twi!BadLength(q) /\ result' = "BAD_LENGTH"
                /\ doing' = [doing EXCEPT ![u] = "give"]
                /\ UNCHANGED <<xferType, slen, rlen, longXfer, wire, dcnt, fifo, istat, errors, sent, received>>
             \/ /\ ~Twi!BadLength(q)
                /\ LET type   == Twi!Converted(q)
                       filled == Twi!Fill(0, IF type = "READ" THEN 0 ELSE q.outLen, type, q.inLen)
                   IN /\ xferType' = filled.xferType
                      /\ slen' = filled.slen
                      /\ fifo' = filled.fifo
                      /\ wire' = IF type = "READ" THEN "rx" ELSE "tx"
                /\ rlen' = q.inLen
                /\ longXfer' = Twi!Long(Twi!FirstLength(q))
                /\ dcnt' = Twi!Count(Twi!FirstLength(q))
                /\ result' = "SUCCESS"
                /\ doing' = [doing EXCEPT ![u] = "wait"]
                /\ UNCHANGED <<istat, errors, sent, received>>
    BY <1>2 DEF Twi!StartXfer
  <2>4. TwiLock'
    BY <2>1, <2>2, <2>3, TwiConstants DEF TwiInv, TwiLock, TwiTypes
  <2> DEFINE refused == /\ Twi!BadLength(q) /\ result' = "BAD_LENGTH"
                        /\ doing' = [doing EXCEPT ![u] = "give"]
                        /\ UNCHANGED <<xferType, slen, rlen, longXfer, wire, dcnt, fifo, istat,
                                       errors, sent, received>>
  <2>5. CASE refused
    <3>1. TwiTypes'
      BY <1>1, <2>1, <2>3, <2>5 DEF TwiTypes
    <3>2. Quiet'
      BY <2>1, <2>5 DEF Quiet
    <3>3. TwiCalls'
      BY <1>1, <2>1, <2>2, <2>5, <3>2, TwiConstants DEF TwiCalls, TwiTypes
    <3> QED BY <2>4, <3>1, <3>3 DEF TwiInv
  <2>6. CASE ~refused
    <3> DEFINE type == Twi!Converted(q)
               n    == IF type = "READ" THEN 0 ELSE q.outLen
    <3>1. PICK filled : /\ filled = Twi!Fill(0, n, type, q.inLen)
                        /\ xferType' = filled.xferType /\ slen' = filled.slen /\ fifo' = filled.fifo
      BY <2>3, <2>6
    <3>2. /\ ~Twi!BadLength(q) /\ wire' = (IF type = "READ" THEN "rx" ELSE "tx") /\ rlen' = q.inLen
          /\ dcnt' = Twi!Count(Twi!FirstLength(q))
          /\ doing' = [doing EXCEPT ![u] = "wait"] /\ istat' = {} /\ ~errors' /\ sent' = 0 /\ received' = 0
          /\ portBlock' = 0 /\ errors' = errors
      BY <2>1, <2>3, <2>6 DEF Quiet
    <3>3. /\ q.outLen \in Nat /\ q.inLen \in Nat /\ q.type \in {"READ", "WRITE", "WRITEREAD", "WRITEWRITE"}
          /\ (q.type = "READ" => q.outLen = 0) /\ (q.type = "WRITE" => q.inLen = 0)
          /\ (q.type = "WRITEWRITE" => q.outLen > 0 \/ q.inLen = 0)
      BY DEF Twi!Requests
    <3>4. /\ type \in {"READ", "WRITE", "WRITEREAD", "WRITEWRITE"}
          /\ type = "READ" => q.type # "WRITEWRITE" /\ q.outLen = 0 /\ q.inLen > 0
          /\ type = "WRITE" => q.inLen = 0
          /\ type = "WRITEREAD" => q.type = "WRITEREAD" /\ q.outLen <= TWI_MAX_DCNT
          /\ type = "WRITEWRITE" => q.type = "WRITEWRITE" /\ q.outLen > 0
      <4>1. /\ q.type # "WRITE" => q.outLen > 0 \/ q.inLen > 0
            /\ q.type = "WRITEREAD" => q.outLen <= TWI_MAX_DCNT
        BY <3>2, <3>3, TwiConstants DEF Twi!BadLength
      <4>2. type = IF q.type = "WRITEREAD" /\ q.outLen = 0 THEN "READ"
                   ELSE IF q.type \in {"WRITEREAD", "WRITEWRITE"} /\ q.inLen = 0 THEN "WRITE"
                   ELSE q.type
        BY <4>1 DEF Twi!Converted
      <4> HIDE DEF type
      <4> QED BY <3>3, <4>1, <4>2
    <3>5. PICK len : /\ len = Twi!FirstLength(q)
                       /\ len = IF type = "READ" THEN q.inLen
                                  ELSE IF type = "WRITEWRITE" THEN q.outLen + q.inLen ELSE q.outLen
      BY DEF Twi!FirstLength
    <3>6. /\ Twi!ToSend' = IF q.type = "WRITEWRITE" THEN q.outLen + q.inLen ELSE q.outLen
          /\ Twi!ToReceive' = IF q.type = "WRITEWRITE" THEN 0 ELSE q.inLen
      BY <2>3 DEF Twi!ToSend, Twi!ToReceive
    <3> HIDE DEF type
    <3>7. longXfer' = Twi!Long(len)
      BY <2>3, <2>6, <3>5
    <3>8. len \in Nat /\ dcnt' \in Nat
          /\ dcnt' = IF len < TWI_MAX_DCNT + 1 THEN len ELSE TWI_MAX_DCNT + 1
      BY <3>2, <3>3, <3>5, TwiConstants DEF Twi!Count, Twi!Shorter
    <3>9. longXfer' <=> len > TWI_MAX_DCNT
      BY <3>7, Zenon DEF Twi!Long
    <3>10. (longXfer' => dcnt' = Twi!Unlimited) /\ (~longXfer' => dcnt' = len /\ dcnt' <= TWI_MAX_DCNT)
      <4>1. CASE longXfer'
        BY <3>8, <3>9, <4>1, TwiConstants
      <4>2. CASE ~longXfer'
        BY <3>8, <3>9, <4>2, TwiConstants
      <4> QED BY <4>1, <4>2
    <3>11. /\ fifo' \in 0 .. 2 /\ slen' \in Nat
          /\ \/ xferType' = type /\ fifo' + slen' = n /\ (type = "WRITEWRITE" /\ n > 0 => slen' > 0)
             \/ type = "WRITEWRITE" /\ xferType' = "WRITE" /\ fifo' + slen' = n + q.inLen
      <4>1. n \in Nat /\ 0 \in 0 .. 2
        BY <3>3
      <4> HIDE DEF n
      <4> QED BY <3>1, <3>3, <4>1, FillMoves DEF Refills
    <3>12. TwiTypes'
      <4>1. doing' \in [Users -> {"idle", "wait", "give"}]
        BY <1>1, <3>2 DEF TwiTypes
      <4>2. wire' \in {"off", "tx", "rx"} /\ xferType' \in {"READ", "WRITE", "WRITEREAD", "WRITEWRITE"}
        BY <3>2, <3>4, <3>11
      <4>3. rlen' \in Nat /\ sent' \in Nat /\ received' \in Nat
        BY <3>2, <3>3
      <4>4. errors' \in BOOLEAN /\ portBlock' \in {0, 1} /\ istat' \subseteq {"TXSERV", "RXSERV", "MCOMP"}
        BY <1>1, <3>2 DEF TwiTypes
      <4>5. asked' \in Twi!Requests
        BY <2>3
      <4>6. {slen', rlen', dcnt', sent', received'} \subseteq Nat /\ fifo' \in 0 .. 2
        BY <3>8, <3>11, <4>3
      <4>7. longXfer' \in BOOLEAN
        <5>1. Twi!Long(len) \in BOOLEAN
          BY DEF Twi!Long
        <5> QED BY <3>7, <5>1, Zenon
      <4> QED BY <4>1, <4>2, <4>4, <4>5, <4>6, <4>7 DEF TwiTypes
    <3>13. InTransfer'
      <4>1. CASE type = "READ"
        <5>1. fifo' = 0 /\ slen' = 0 /\ xferType' = "READ"
          <6>1. n = 0
            BY <4>1
          <6>2. fifo' \in 0 .. 2 /\ slen' \in Nat /\ fifo' + slen' = 0 /\ xferType' = "READ"
            BY <3>11, <4>1, <6>1
          <6> HIDE DEF n
          <6>3. PICK a, b : a = fifo' /\ b = slen'
            OBVIOUS
          <6>4. a \in 0 .. 2 /\ b \in Nat /\ a + b = 0
            BY <6>2, <6>3
          <6>5. a = 0 /\ b = 0
            BY <6>4
          <6> QED BY <6>2, <6>3, <6>5
        <5>2. ToCome' = q.inLen /\ len = q.inLen
          BY <3>2, <3>3, <3>5, <4>1, <5>1 DEF ToCome
        <5>3. ReceivingBytes'
          <6>1. Twi!ToSend' = 0 /\ Twi!ToReceive' = q.inLen
            BY <3>3, <3>4, <3>6, <4>1
          <6>2. longXfer' => rlen' >= TWI_MAX_DCNT - 2
            BY <3>2, <3>3, <3>9, <5>2, TwiConstants
          <6> QED BY <3>2, <3>3, <5>1, <5>2, <6>1, <6>2 DEF ReceivingBytes
        <5>4. Counts(ToCome)'
          BY <3>10, <5>2 DEF Counts
        <5> QED BY <3>2, <3>10, <4>1, <5>3, <5>4 DEF InTransfer
      <4>2. CASE type # "READ"
        <5>1. n = q.outLen
          BY <4>2
        <5>2. ToGo' = len /\ Twi!ToSend' = len
          BY <3>2, <3>3, <3>4, <3>5, <3>6, <3>11, <4>2, <5>1 DEF ToGo
        <5>3. SendingBytes'
          <6>1. xferType' # "READ"
            BY <3>4, <3>11, <4>2
          <6>2. xferType' = "WRITEREAD" => Twi!ToReceive' = q.inLen /\ ~longXfer'
            <7>1. SUFFICES ASSUME xferType' = "WRITEREAD" PROVE Twi!ToReceive' = q.inLen /\ ~longXfer'
              OBVIOUS
            <7>2. type = "WRITEREAD"
              BY <3>11, <7>1
            <7>3. len = q.outLen
              BY <3>5, <7>2
            <7>4. Twi!ToReceive' = q.inLen
              BY <3>4, <3>6, <7>2
            <7>5. ~(len > TWI_MAX_DCNT)
              BY <3>3, <3>4, <7>2, <7>3, TwiConstants
            <7> QED BY <3>9, <7>4, <7>5
          <6>3. xferType' # "WRITEREAD" => Twi!ToReceive' = 0
            BY <3>4, <3>6, <3>11, <4>2
          <6>4. xferType' = "WRITEWRITE" => slen' > 0
            BY <3>3, <3>4, <3>11, <5>1
          <6>5. sent' + ToGo' = Twi!ToSend'
            <7>1. sent' = 0 /\ len \in Nat
              BY <3>2, <3>8
            <7> QED BY <5>2, <7>1
          <6> QED BY <3>2, <6>1, <6>2, <6>3, <6>4, <6>5 DEF SendingBytes
        <5>4. Counts(ToGo)'
          BY <3>10, <5>2 DEF Counts
        <5> QED BY <3>2, <3>10, <4>2, <5>3, <5>4 DEF InTransfer
      <4> QED BY <4>1, <4>2
    <3>14. TwiCalls'
      BY <1>1, <2>1, <2>2, <3>2, <3>13, TwiConstants DEF TwiCalls, TwiTypes, Waits
    <3> QED BY <2>4, <3>12, <3>14 DEF TwiInv
  <2> QED BY <2>5, <2>6
<1>3. CASE Twi!EndXfer(u)
  <2>1. /\ doing[u] = "wait" /\ portBlock = 1 /\ portBlock' = 0 /\ ~errors'
        /\ result' = (IF errors THEN "ERROR" ELSE "SUCCESS")
        /\ doing' = [doing EXCEPT ![u] = "give"]
        /\ UNCHANGED <<portLock, xferType, slen, rlen, longXfer, wire, dcnt, fifo, istat, asked, sent, received>>
    BY <1>3 DEF Twi!EndXfer
  <2>2. portLock = u /\ \A v \in Users : v # u => doing[v] = "idle"
    BY <2>1 DEF TwiInv, TwiLock
  <2>3. TwiTypes'
    BY <1>1, <1>3, <2>1 DEF TwiTypes, Twi!EndXfer
  <2>4. TwiLock'
    BY <1>1, <2>1, <2>2 DEF TwiInv, TwiLock, TwiTypes
  <2>5. Waits
    BY <2>1 DEF TwiInv, TwiCalls
  <2>6. Quiet' /\ (result' = "SUCCESS" => Moved')
    BY <2>1, <2>5 DEF Waits, InTransfer, Quiet, Moved, Twi!ToSend, Twi!ToReceive
  <2>7. TwiCalls'
    BY <1>1, <2>1, <2>2, <2>6, TwiConstants DEF TwiCalls, TwiTypes
  <2> QED BY <2>3, <2>4, <2>7 DEF TwiInv
<1>4. CASE Twi!GiveLock(u)
  <2>1. /\ doing[u] = "give" /\ portLock' = Unlocked /\ doing' = [doing EXCEPT ![u] = "idle"]
        /\ asked' = Twi!NoRequest /\ sent' = 0 /\ received' = 0
        /\ UNCHANGED <<portBlock, result, xferType, slen, rlen, longXfer, wire, dcnt, fifo, istat, errors>>
    BY <1>4 DEF Twi!GiveLock
  <2>2. Quiet /\ \A v \in Users : v # u => doing[v] = "idle"
    BY <2>1 DEF TwiInv, TwiLock, TwiCalls
  <2>3. TwiTypes'
    BY <1>1, <2>1 DEF TwiTypes
  <2>4. TwiLock' /\ Quiet'
    BY <1>1, <2>1, <2>2, TwiConstants DEF TwiLock, TwiTypes, Quiet
  <2>5. TwiCalls'
    BY <1>1, <2>1, <2>2, <2>4, TwiConstants DEF TwiCalls, TwiTypes
  <2> QED BY <2>3, <2>4, <2>5 DEF TwiInv
<1> QED BY <1>2, <1>3, <1>4 DEF Twi!twi_xfer

\* The interrupt serves the FIFO, counts out a long transfer, and goes on or
\* ends the wait.
LEMMA InterruptKeepsTwi ==
  ASSUME TwiInv, Twi!twi_data_irq PROVE TwiInv'
<1>1. /\ istat # {} /\ istat' = {}
      /\ UNCHANGED <<portLock, doing, result, errors, asked, sent, received>>
  BY DEF Twi!twi_data_irq, Twi!moved
<1>2. ~Quiet
  BY <1>1 DEF Quiet
<1>3. TwiTypes /\ Waits
  BY <1>2, OneWaits DEF TwiInv
<1>4. /\ fifo \in 0 .. 2 /\ {slen, rlen, dcnt, sent, received} \subseteq Nat
      /\ Twi!ToSend' = Twi!ToSend /\ Twi!ToReceive' = Twi!ToReceive
  BY <1>1, <1>3 DEF TwiTypes, Twi!ToSend, Twi!ToReceive
<1>5. PICK served : served = Twi!Served
  OBVIOUS
<1>6. /\ fifo' = served.fifo /\ slen' = served.slen /\ rlen' = served.rlen
      /\ xferType' = IF Twi!TurnsRound THEN "READ" ELSE served.xferType
      /\ wire' = IF Twi!TurnsRound THEN "rx" ELSE wire
      /\ portBlock' = IF Twi!Done THEN 1 ELSE portBlock
  BY <1>5 DEF Twi!twi_data_irq
<1>7. dcnt' = IF Twi!TurnsRound THEN Twi!Count(rlen)
              ELSE IF Twi!CountsOut THEN slen
              ELSE IF Twi!CountsIn THEN Twi!StillToCome(rlen)
              ELSE dcnt
  BY DEF Twi!twi_data_irq
<1>8. longXfer' <=> (IF Twi!TurnsRound THEN Twi!Long(rlen) ELSE longXfer /\ ~Twi!CountsOut /\ ~Twi!CountsIn)
  BY Zenon DEF Twi!twi_data_irq
<1>9. longXfer' \in BOOLEAN
  <2>1. longXfer' = (IF Twi!TurnsRound THEN Twi!Long(rlen) ELSE longXfer /\ ~Twi!CountsOut /\ ~Twi!CountsIn)
    BY Zenon DEF Twi!twi_data_irq
  <2>2. Twi!Long(rlen) \in BOOLEAN
    BY DEF Twi!Long
  <2> QED BY <2>1, <2>2, Zenon
<1>10. "TXSERV" \in istat => Refills(fifo, slen, xferType, rlen, served) /\ served.rlen = rlen
  <2> SUFFICES ASSUME "TXSERV" \in istat
               PROVE  Refills(fifo, slen, xferType, rlen, served) /\ served.rlen = rlen
    OBVIOUS
  <2>1. PICK r : r = Twi!Fill(fifo, slen, xferType, rlen)
    OBVIOUS
  <2>2. served = [fifo |-> r.fifo, slen |-> r.slen, rlen |-> rlen, xferType |-> r.xferType]
    BY <1>5, <2>1 DEF Twi!Served
  <2>3. Refills(fifo, slen, xferType, rlen, r)
    <3>1. PICK f, n, t, b : f = fifo /\ n = slen /\ t = xferType /\ b = rlen
      OBVIOUS
    <3>2. f \in 0 .. 2 /\ n \in Nat /\ b \in Nat /\ r = Twi!Fill(f, n, t, b)
      BY <1>4, <2>1, <3>1
    <3> QED BY <3>1, <3>2, FillMoves
  <2>4. /\ served.fifo = r.fifo /\ served.slen = r.slen /\ served.rlen = rlen
        /\ served.xferType = r.xferType
    BY <2>2
  <2> QED BY <2>3, <2>4 DEF Refills
<1>11. PICK took : took = Twi!Shorter(fifo, rlen) /\ took \in 0 .. 2 /\ took <= fifo /\ took <= rlen
  BY <1>4 DEF Twi!Shorter
<1>12. /\ "TXSERV" \notin istat
       /\ "RXSERV" \in istat \/ ("MCOMP" \in istat /\ ~errors /\ xferType = "READ")
       => /\ served.fifo = fifo - took /\ served.slen = slen /\ served.rlen = rlen - took
          /\ served.xferType = xferType
  BY <1>5, <1>11 DEF Twi!Served, Twi!Ended
<1>13. /\ "TXSERV" \notin istat /\ "RXSERV" \notin istat
       /\ ~("MCOMP" \in istat /\ ~errors /\ xferType = "READ")
       => /\ served.fifo = fifo /\ served.slen = slen /\ served.rlen = rlen
          /\ served.xferType = xferType
  BY <1>5 DEF Twi!Served, Twi!Ended
<1>14. /\ served.fifo \in 0 .. 2 /\ served.slen \in Nat /\ served.rlen \in Nat
       /\ served.xferType \in {"READ", "WRITE", "WRITEREAD", "WRITEWRITE"}
  <2>1. xferType \in {"READ", "WRITE", "WRITEREAD", "WRITEWRITE"}
    BY <1>3 DEF TwiTypes
  <2>2. CASE "TXSERV" \in istat
    BY <1>4, <1>10, <2>1, <2>2 DEF Refills
  <2>3. CASE /\ "TXSERV" \notin istat
             /\ "RXSERV" \in istat \/ ("MCOMP" \in istat /\ ~errors /\ xferType = "READ")
    BY <1>4, <1>11, <1>12, <2>1, <2>3
  <2>4. CASE /\ "TXSERV" \notin istat /\ "RXSERV" \notin istat
             /\ ~("MCOMP" \in istat /\ ~errors /\ xferType = "READ")
    BY <1>4, <1>13, <2>1, <2>4
  <2> QED BY <2>2, <2>3, <2>4
<1>15. "RXSERV" \in istat /\ longXfer => rlen >= 2
  BY <1>1, <1>3, <1>4, TwiConstants DEF Waits, InTransfer, SendingBytes, ReceivingBytes
<1>16. TwiTypes'
  <2>1. dcnt' \in Nat
    BY <1>4, <1>7, <1>15, TwiConstants DEF Twi!Count, Twi!Shorter, Twi!StillToCome, Twi!CountsIn, Twi!FifoSize
  <2>2. /\ wire' \in {"off", "tx", "rx"} /\ portBlock' \in {0, 1}
        /\ istat' \subseteq {"TXSERV", "RXSERV", "MCOMP"}
        /\ errors' \in BOOLEAN /\ doing' \in [Users -> {"idle", "wait", "give"}]
        /\ asked' \in Twi!Requests \cup {Twi!NoRequest}
    BY <1>1, <1>3, <1>6 DEF TwiTypes
  <2>3. {slen', rlen', dcnt', sent', received'} \subseteq Nat /\ fifo' \in 0 .. 2
    BY <1>1, <1>4, <1>6, <1>14, <2>1
  <2>4. xferType' \in {"READ", "WRITE", "WRITEREAD", "WRITEWRITE"}
    BY <1>6, <1>14
  <2> QED BY <1>9, <2>2, <2>3, <2>4 DEF TwiTypes
<1>17. Waits'
  <2>1. CASE InTransfer /\ wire = "tx"
    <3>1. /\ portBlock = 0 /\ ~errors /\ (~longXfer => dcnt <= TWI_MAX_DCNT)
          /\ istat = {"TXSERV"} /\ SendingBytes /\ Counts(ToGo)
      BY <1>1, <2>1 DEF InTransfer
    <3>2. /\ ~Twi!TurnsRound /\ ~Twi!Done /\ ~Twi!CountsIn
          /\ Twi!CountsOut <=> xferType = "WRITE" /\ longXfer /\ slen < TWI_MAX_DCNT
      BY <3>1 DEF Twi!TurnsRound, Twi!Done, Twi!CountsIn, Twi!CountsOut, Twi!Ended
    <3>3. /\ wire' = "tx" /\ portBlock' = 0 /\ ~errors' /\ xferType' = served.xferType /\ rlen' = rlen
      BY <1>1, <1>6, <1>10, <2>1, <3>1, <3>2
    <3>4. fifo = 0 /\ slen' \in Nat /\ fifo' \in 0 .. 2
      BY <1>6, <1>14, <3>1 DEF SendingBytes
    <3>5. \/ xferType' = xferType /\ fifo' + slen' = slen /\ (xferType = "WRITEWRITE" => slen' > 0)
          \/ xferType = "WRITEWRITE" /\ xferType' = "WRITE" /\ fifo' + slen' = slen + rlen
      BY <1>4, <1>6, <1>10, <3>1, <3>3, <3>4 DEF SendingBytes, Refills
    <3>6. ToGo' = ToGo
      BY <1>4, <3>3, <3>4, <3>5 DEF ToGo
    <3>7. xferType = "WRITEREAD" => ~longXfer'
      BY <1>8, <3>1, <3>2 DEF SendingBytes
    <3>8. SendingBytes'
      BY <1>1, <1>4, <3>1, <3>3, <3>5, <3>6, <3>7 DEF SendingBytes
    <3>9. Counts(ToGo)' /\ (~longXfer' => dcnt' <= TWI_MAX_DCNT)
      <4>1. CASE Twi!CountsOut
        <5>1. ~longXfer' /\ dcnt' = slen /\ slen < TWI_MAX_DCNT /\ ToGo = slen
          BY <1>4, <1>7, <1>8, <3>2, <3>4, <4>1 DEF ToGo
        <5> QED BY <1>4, <3>6, <5>1, TwiConstants DEF Counts
      <4>2. CASE ~Twi!CountsOut
        <5>1. dcnt' = dcnt
          BY <1>7, <3>2, <4>2
        <5>2. longXfer' <=> longXfer
          BY <1>8, <3>2, <4>2
        <5> QED BY <3>1, <3>6, <5>1, <5>2 DEF Counts
      <4> QED BY <4>1, <4>2
    <3> QED BY <1>1, <3>3, <3>8, <3>9 DEF Waits, InTransfer
  <2>2. CASE InTransfer /\ wire = "rx"
    <3>1. /\ portBlock = 0 /\ ~errors /\ (~longXfer => dcnt <= TWI_MAX_DCNT)
          /\ istat = {"RXSERV"} /\ ReceivingBytes /\ Counts(ToCome)
      BY <1>1, <2>2 DEF InTransfer
    <3>2. /\ ~Twi!TurnsRound /\ ~Twi!Done /\ ~Twi!CountsOut
          /\ Twi!CountsIn <=> longXfer /\ rlen < TWI_MAX_DCNT
      BY <3>1 DEF Twi!TurnsRound, Twi!Done, Twi!CountsIn, Twi!CountsOut, Twi!Ended
    <3>3. fifo = 2 /\ rlen - 2 \in Nat /\ took = 2
      BY <1>4, <1>11, <3>1 DEF ReceivingBytes, ToCome, Twi!Shorter
    <3>4. /\ wire' = "rx" /\ portBlock' = 0 /\ ~errors' /\ xferType' = "READ" /\ rlen' = rlen - 2 /\ fifo' = 0
      BY <1>1, <1>6, <1>12, <2>2, <3>1, <3>2, <3>3 DEF ReceivingBytes
    <3>5. ToCome' = ToCome /\ ToCome = rlen - 2
      BY <1>4, <3>3, <3>4 DEF ToCome
    <3>6. (longXfer' <=> longXfer /\ ~Twi!CountsIn) /\ dcnt' = IF Twi!CountsIn THEN rlen - 2 ELSE dcnt
      BY <1>7, <1>8, <3>2 DEF Twi!StillToCome, Twi!FifoSize
    <3>7. longXfer' => rlen' >= TWI_MAX_DCNT - 2
      BY <1>4, <3>2, <3>4, <3>6, TwiConstants
    <3>8. ReceivingBytes'
      BY <1>1, <1>4, <3>1, <3>4, <3>5, <3>7 DEF ReceivingBytes
    <3>9. Counts(ToCome)' /\ (~longXfer' => dcnt' <= TWI_MAX_DCNT)
      <4>1. CASE Twi!CountsIn
        <5>1. ~longXfer' /\ dcnt' = ToCome /\ dcnt' <= TWI_MAX_DCNT
          BY <1>4, <3>2, <3>5, <3>6, <4>1, TwiConstants
        <5> QED BY <3>5, <5>1 DEF Counts
      <4>2. CASE ~Twi!CountsIn
        <5>1. dcnt' = dcnt /\ (longXfer' <=> longXfer)
          BY <3>6, <4>2
        <5> QED BY <3>1, <3>5, <5>1 DEF Counts
      <4> QED BY <4>1, <4>2
    <3> QED BY <1>1, <3>4, <3>8, <3>9 DEF Waits, InTransfer
  <2>3. CASE InTransfer /\ wire = "off" /\ SendingBytes
    <3>1. /\ portBlock = 0 /\ ~errors /\ "MCOMP" \in istat
          /\ SendingBytes /\ ToGo = 0 /\ "RXSERV" \notin istat
      BY <2>3 DEF InTransfer, SendingBytes, ReceivingBytes
    <3>2. fifo = 0 /\ slen = 0 /\ xferType \in {"WRITE", "WRITEREAD"}
      BY <1>3, <1>4, <3>1 DEF ToGo, SendingBytes, TwiTypes
    <3>3. served.fifo = 0 /\ served.xferType = xferType /\ served.rlen = rlen
      BY <1>4, <1>10, <1>13, <1>14, <3>1, <3>2 DEF Refills
    <3>4. sent = Twi!ToSend /\ received = 0
      BY <1>4, <3>1 DEF SendingBytes
    <3>5. CASE xferType = "WRITE"
      <4>1. ~Twi!TurnsRound /\ Twi!Done
        BY <3>1, <3>5 DEF Twi!TurnsRound, Twi!Done, Twi!Ended
      <4>2. wire' = "off" /\ portBlock' = 1 /\ fifo' = 0 /\ ~errors'
        BY <1>1, <1>6, <2>3, <3>1, <3>3, <4>1
      <4>3. Moved'
        BY <1>1, <1>4, <3>1, <3>4, <3>5, <4>2 DEF Moved, SendingBytes
      <4> QED BY <1>1, <4>2, <4>3 DEF Waits
    <3>6. CASE xferType = "WRITEREAD"
      <4>1. Twi!TurnsRound /\ ~Twi!Done
        BY <3>1, <3>6 DEF Twi!TurnsRound, Twi!Done, Twi!Ended
      <4>2. wire' = "rx" /\ xferType' = "READ" /\ portBlock' = 0 /\ fifo' = 0 /\ ~errors' /\ rlen' = rlen
        BY <1>1, <1>6, <3>1, <3>3, <4>1
      <4>3. ToCome' = rlen /\ rlen = Twi!ToReceive
        BY <1>4, <3>1, <3>6, <4>2 DEF ToCome, SendingBytes
      <4>4. longXfer' <=> rlen > TWI_MAX_DCNT
        BY <1>8, <4>1 DEF Twi!Long
      <4>5. dcnt' = IF rlen < TWI_MAX_DCNT + 1 THEN rlen ELSE TWI_MAX_DCNT + 1
        BY <1>7, <4>1, TwiConstants DEF Twi!Count, Twi!Shorter
      <4>6. longXfer' => rlen' >= TWI_MAX_DCNT - 2
        BY <1>4, <4>2, <4>4, TwiConstants
      <4>7. ReceivingBytes'
        BY <1>1, <1>4, <3>4, <4>2, <4>3, <4>6 DEF ReceivingBytes
      <4>8. Counts(ToCome)' /\ (~longXfer' => dcnt' <= TWI_MAX_DCNT)
        BY <1>4, <4>3, <4>4, <4>5, TwiConstants DEF Counts
      <4> QED BY <1>1, <4>2, <4>7, <4>8 DEF Waits, InTransfer
    <3> QED BY <3>2, <3>5, <3>6
  <2>4. CASE InTransfer /\ wire = "off" /\ ReceivingBytes
    <3>1. /\ portBlock = 0 /\ ~errors /\ "MCOMP" \in istat
          /\ ReceivingBytes /\ ToCome = 0 /\ "TXSERV" \notin istat
      BY <2>4 DEF InTransfer, SendingBytes, ReceivingBytes
    <3>2. xferType = "READ" /\ fifo = rlen /\ took = fifo
      BY <1>4, <1>11, <3>1 DEF ReceivingBytes, ToCome, Twi!Shorter
    <3>3. served.fifo = 0 /\ served.rlen = 0
      BY <1>4, <1>12, <3>1, <3>2
    <3>4. ~Twi!TurnsRound /\ Twi!Done
      BY <3>1, <3>2 DEF Twi!TurnsRound, Twi!Done, Twi!Ended
    <3>5. wire' = "off" /\ portBlock' = 1 /\ fifo' = 0 /\ rlen' = 0 /\ ~errors'
      BY <1>1, <1>6, <2>4, <3>1, <3>3, <3>4
    <3>6. Moved'
      BY <1>1, <1>4, <3>1, <3>5 DEF Moved, ReceivingBytes
    <3> QED BY <1>1, <3>5, <3>6 DEF Waits
  <2>5. CASE errors
    <3>1. wire = "off" /\ Within /\ (portBlock = 0 => "MCOMP" \in istat) /\ (portBlock # 0 => istat = {})
      BY <1>3, <2>5 DEF Waits, InTransfer
    <3>2. Twi!Done /\ ~Twi!TurnsRound
      BY <1>1, <2>5, <3>1 DEF Twi!TurnsRound, Twi!Done, Twi!Ended
    <3>3. wire' = "off" /\ portBlock' = 1 /\ errors'
      BY <1>1, <1>6, <2>5, <3>1, <3>2
    <3>4. Within'
      BY <1>1, <1>4, <3>1 DEF Within
    <3> QED BY <1>1, <3>3, <3>4 DEF Waits
  <2> QED BY <1>1, <1>3, <2>1, <2>2, <2>3, <2>4, <2>5 DEF Waits, InTransfer
<1> QED BY <1>1, <1>2, <1>16, <1>17, WaitGoesOn

LEMMA TwiInvInit == PartsInit => TwiInv
<1> SUFFICES ASSUME Twi!TwiInit PROVE TwiInv
  BY DEF PartsInit
<1> USE DEF Twi!TwiInit
<1>1. TwiTypes
  <2>1. longXfer \in BOOLEAN /\ errors \in BOOLEAN
    BY Zenon
  <2>2. {slen, rlen, dcnt, sent, received} \subseteq Nat /\ fifo \in 0 .. 2 /\ portBlock \in {0, 1}
    BY SMT
  <2>3. /\ doing \in [Users -> {"idle", "wait", "give"}] /\ wire \in {"off", "tx", "rx"}
        /\ xferType \in {"READ", "WRITE", "WRITEREAD", "WRITEWRITE"} /\ asked \in {Twi!NoRequest}
        /\ istat \subseteq {"TXSERV", "RXSERV", "MCOMP"}
    BY SMT
  <2> QED BY <2>1, <2>2, <2>3, Zenon DEF TwiTypes
<1>2. TwiLock /\ TwiCalls
  BY TwiConstants DEF TwiLock, TwiCalls, Quiet
<1> QED BY <1>1, <1>2 DEF TwiInv

LEMMA TwiInvStep == TwiInv /\ [PartsNext]_all => TwiInv'
<1> SUFFICES ASSUME TwiInv, [PartsNext]_all PROVE TwiInv'
  OBVIOUS
<1>1. CASE TwiStep
  BY <1>1, UsersKeepTwi, BusKeepsTwi, FailKeepsTwi, InterruptKeepsTwi DEF TwiStep, Twi!TwiNext
<1>2. CASE UNCHANGED i2cVars
  BY <1>2 DEF i2cVars, TwiInv, TwiTypes, TwiLock, TwiCalls, Quiet, Waits, InTransfer, Moved, Within,
              SendingBytes, ReceivingBytes, Counts, ToGo, ToCome, Twi!ToSend, Twi!ToReceive
<1> QED BY <1>1, <1>2 DEF PartsNext, Still, StreamStep, FilesStep, LogStep, SerialStep,
                          UsbStep, EtherStep, all

\* In a behaviour of the I2C driver, for any users, lengths and size of the
\* counter: a call moves no byte more than asked for, and one that succeeds has
\* moved them all and left none in the FIFO, whenever the interrupt comes.
THEOREM TransfersAreExact == PartsSpec => []TransfersExact
<1>1. TwiInv => TransfersExact
  <2> SUFFICES ASSUME TwiInv, NEW u \in Users
               PROVE  /\ doing[u] = "wait" => Within
                      /\ doing[u] = "give" /\ result = "SUCCESS" => Moved
    BY DEF TransfersExact, Twi!TransfersExact, Within, Moved
  <2>1. doing[u] = "wait" => Waits
    BY DEF TwiInv, TwiCalls
  <2>2. Waits => Within
    BY TwiInput, WithinTransfer DEF TwiInv, TwiTypes, Waits, Within, Moved
  <2> QED BY <2>1, <2>2 DEF TwiInv, TwiCalls
<1> QED BY <1>1, TwiInvInit, TwiInvStep, PTL DEF PartsSpec

-----------------------------------------------------------------------------
(* The lock-free ring (pa_ringbuffer.c), of N places                       *)

Cycle(N) == 0 .. 2 * N - 1

\* The elements between two indices; the index n on; the place of the k-th
\* element from an index on, from 0.
Used(N, r, w)  == IF r <= w THEN w - r ELSE w - r + 2 * N
After(N, i, n) == IF i + n < 2 * N THEN i + n ELSE i + n - 2 * N
Cell(N, i, k)  == IF i + k < N THEN i + k ELSE IF i + k < 2 * N THEN i + k - N ELSE i + k - 2 * N

\* n elements of b from index i on.
Part(N, b, i, n) == [k \in 1 .. n |-> b[Cell(N, i, k - 1)]]

\* b holds d from index i on; c is b with d stored there.
Holds(N, b, i, d)    == \A k \in 1 .. Len(d) : b[Cell(N, i, k - 1)] = d[k]
Wrote(N, b, i, d, c) ==
  /\ c \in [0 .. N - 1 -> Int] /\ Holds(N, c, i, d)
  /\ \A s \in 0 .. N - 1 : (\A k \in 1 .. Len(d) : Cell(N, i, k - 1) # s) => c[s] = b[s]

LEMMA CellsDiffer ==
  ASSUME NEW N \in Nat, N > 0, NEW i \in Cycle(N)
  PROVE  /\ \A k \in 0 .. N - 1 : Cell(N, i, k) \in 0 .. N - 1
         /\ \A j, k \in 0 .. N - 1 : Cell(N, i, j) = Cell(N, i, k) => j = k
BY DEF Cycle, Cell

LEMMA IndexMoves ==
  ASSUME NEW N \in Nat, N > 0, NEW i \in Cycle(N), NEW n \in 0 .. N
  PROVE  /\ After(N, i, n) \in Cycle(N)
         /\ \A k \in Nat : n + k < N => Cell(N, After(N, i, n), k) = Cell(N, i, n + k)
BY DEF Cycle, Cell, After

LEMMA UsedMoves ==
  ASSUME NEW N \in Nat, N > 0, NEW r \in Cycle(N), NEW w \in Cycle(N)
  PROVE  /\ Used(N, r, w) \in Nat /\ (Used(N, r, w) = 0 <=> r = w)
         /\ w = After(N, r, Used(N, r, w))
         /\ \A n \in 0 .. N : Used(N, r, w) + n <= N => Used(N, r, After(N, w, n)) = Used(N, r, w) + n
         /\ \A n \in 0 .. N : n <= Used(N, r, w) => Used(N, After(N, r, n), w) = Used(N, r, w) - n
BY DEF Cycle, Used, After

\* What the code computes with the modulus.
LEMMA Masked ==
  ASSUME NEW N \in Nat, N > 0
  PROVE  /\ \A r, w \in Cycle(N) : (w - r) % (2 * N) = Used(N, r, w)
         /\ \A i \in Cycle(N), n \in 0 .. N : (i + n) % (2 * N) = After(N, i, n)
         /\ \A i \in Cycle(N), k \in 0 .. N - 1 : (i + k) % N = Cell(N, i, k)
<1>1. ASSUME NEW r \in Cycle(N), NEW w \in Cycle(N) PROVE (w - r) % (2 * N) = Used(N, r, w)
  <2>1. r \in Nat /\ w \in Nat /\ r < 2 * N /\ w < 2 * N
    BY DEF Cycle
  <2>2. PICK x \in Int : x = w - r
    BY <2>1
  <2>3. x > -2 * N /\ x < 2 * N
    BY <2>1, <2>2
  <2>4. x % (2 * N) = IF x < 0 THEN x + 2 * N ELSE x
    BY <2>3
  <2> QED BY <2>1, <2>2, <2>4 DEF Used
<1>2. ASSUME NEW i \in Cycle(N), NEW n \in 0 .. N PROVE (i + n) % (2 * N) = After(N, i, n)
  <2>1. i \in Nat /\ n \in Nat /\ i < 2 * N /\ n <= N
    BY DEF Cycle
  <2>2. PICK x \in Nat : x = i + n
    BY <2>1
  <2>3. x < 2 * N + 2 * N
    BY <2>1, <2>2
  <2>4. x % (2 * N) = IF x < 2 * N THEN x ELSE x - 2 * N
    BY <2>3
  <2> QED BY <2>1, <2>2, <2>4 DEF After
<1>3. ASSUME NEW i \in Cycle(N), NEW k \in 0 .. N - 1 PROVE (i + k) % N = Cell(N, i, k)
  <2>1. i \in Nat /\ k \in Nat /\ i < 2 * N /\ k < N
    BY DEF Cycle
  <2>2. PICK x \in Nat : x = i + k
    BY <2>1
  <2>3. x < 3 * N
    BY <2>1, <2>2
  <2>4. x % N = IF x < N THEN x ELSE IF x < 2 * N THEN x - N ELSE x - 2 * N
    BY <2>3
  <2> QED BY <2>1, <2>2, <2>4 DEF Cell
<1> QED BY <1>1, <1>2, <1>3

LEMMA PartType ==
  ASSUME NEW N \in Nat, N > 0, NEW b \in [0 .. N - 1 -> Int], NEW i \in Cycle(N), NEW n \in 0 .. N
  PROVE  /\ Part(N, b, i, n) \in Seq(Int) /\ Len(Part(N, b, i, n)) = n
         /\ \A k \in 1 .. n : Part(N, b, i, n)[k] = b[Cell(N, i, k - 1)]
<1>1. \A k \in 1 .. n : k - 1 \in 0 .. N - 1 /\ b[Cell(N, i, k - 1)] \in Int
  <2>1. \A k \in 1 .. n : k - 1 \in 0 .. N - 1
    OBVIOUS
  <2> QED BY <2>1, CellsDiffer
<1>2. Part(N, b, i, n) \in [1 .. n -> Int]
  BY <1>1 DEF Part
<1> QED BY <1>2 DEF Part

\* The first n elements, and those after them.
LEMMA PartSplits ==
  ASSUME NEW N \in Nat, N > 0, NEW b \in [0 .. N - 1 -> Int], NEW i \in Cycle(N),
         NEW u \in 0 .. N, NEW n \in 0 .. u
  PROVE  /\ SubSeq(Part(N, b, i, u), 1, n) = Part(N, b, i, n)
         /\ SubSeq(Part(N, b, i, u), n + 1, u) = Part(N, b, After(N, i, n), u - n)
<1>1. n \in 0 .. N /\ u - n \in 0 .. N /\ After(N, i, n) \in Cycle(N)
  <2>1. n \in 0 .. N /\ u - n \in 0 .. N
    OBVIOUS
  <2> QED BY <2>1, IndexMoves
<1> DEFINE s == Part(N, b, i, u)
           p == Part(N, b, i, n)
           q == Part(N, b, After(N, i, n), u - n)
<1>2. /\ s \in Seq(Int) /\ Len(s) = u /\ \A k \in 1 .. u : s[k] = b[Cell(N, i, k - 1)]
      /\ p \in Seq(Int) /\ Len(p) = n /\ \A k \in 1 .. n : p[k] = b[Cell(N, i, k - 1)]
      /\ q \in Seq(Int) /\ Len(q) = u - n
      /\ \A k \in 1 .. u - n : q[k] = b[Cell(N, After(N, i, n), k - 1)]
  BY <1>1, PartType
<1>3. \A k \in 1 .. u - n : Cell(N, After(N, i, n), k - 1) = Cell(N, i, k + n - 1)
  <2> SUFFICES ASSUME NEW k \in 1 .. u - n
               PROVE  Cell(N, After(N, i, n), k - 1) = Cell(N, i, k + n - 1)
    OBVIOUS
  <2>1. k - 1 \in Nat /\ n + (k - 1) < N /\ n + (k - 1) = k + n - 1
    OBVIOUS
  <2> QED BY <1>1, <2>1, IndexMoves
<1> HIDE DEF s, p, q
<1>4. SubSeq(s, 1, n) = p
  <2>1. SubSeq(s, 1, n) \in Seq(Int) /\ Len(SubSeq(s, 1, n)) = n
        /\ \A k \in 1 .. n : SubSeq(s, 1, n)[k] = s[k]
    BY <1>1, <1>2
  <2>2. \A k \in 1 .. n : k \in 1 .. u
    OBVIOUS
  <2>3. \A k \in 1 .. n : SubSeq(s, 1, n)[k] = p[k]
    BY <1>2, <2>1, <2>2
  <2> QED BY <1>2, <2>1, <2>3, SeqEqual
<1>5. SubSeq(s, n + 1, u) = q
  <2>1. SubSeq(s, n + 1, u) \in Seq(Int) /\ Len(SubSeq(s, n + 1, u)) = u - n
        /\ \A k \in 1 .. u - n : SubSeq(s, n + 1, u)[k] = s[k + n]
    BY <1>1, <1>2
  <2>2. ASSUME NEW k \in 1 .. u - n PROVE SubSeq(s, n + 1, u)[k] = q[k]
    <3>1. k + n \in 1 .. u
      OBVIOUS
    <3>2. s[k + n] = b[Cell(N, i, k + n - 1)]
      BY <1>2, <3>1
    <3>3. q[k] = b[Cell(N, i, k + n - 1)]
      BY <1>2, <1>3
    <3> QED BY <2>1, <3>2, <3>3
  <2> QED BY <1>2, <2>1, <2>2, SeqEqual
<1> QED BY <1>4, <1>5 DEF s, p, q

\* What is stored from w on does not disturb what is between r and w.
LEMMA WroteKeeps ==
  ASSUME NEW N \in Nat, N > 0, NEW b \in [0 .. N - 1 -> Int], NEW c, NEW d \in Seq(Int),
         NEW r \in Cycle(N), NEW w \in Cycle(N), Used(N, r, w) + Len(d) <= N,
         Wrote(N, b, w, d, c)
  PROVE  \A n \in 0 .. Used(N, r, w) : Part(N, c, r, n) = Part(N, b, r, n)
<1> DEFINE u == Used(N, r, w)
<1>1. u \in 0 .. N /\ u \in Nat /\ Len(d) \in Nat /\ w = After(N, r, u) /\ u + Len(d) <= N
  <2>1. u \in Nat /\ w = After(N, r, u)
    BY UsedMoves
  <2> HIDE DEF u
  <2>2. Len(d) \in Nat /\ u + Len(d) <= N
    BY DEF u
  <2> QED BY <2>1, <2>2
<1> HIDE DEF u
<1>2. ASSUME NEW k \in 0 .. u - 1
      PROVE  c[Cell(N, r, k)] = b[Cell(N, r, k)]
  <2>1. k \in 0 .. N - 1 /\ Cell(N, r, k) \in 0 .. N - 1
    <3>1. k \in 0 .. N - 1
      BY <1>1
    <3> QED BY <3>1, CellsDiffer
  <2>2. ASSUME NEW j \in 1 .. Len(d) PROVE Cell(N, w, j - 1) # Cell(N, r, k)
    <3>1. j - 1 \in Nat /\ u + (j - 1) \in 0 .. N - 1 /\ u + (j - 1) < N
      BY <1>1
    <3>2. Cell(N, w, j - 1) = Cell(N, r, u + (j - 1))
      BY <1>1, <3>1, IndexMoves
    <3>3. u + (j - 1) # k
      BY <1>1
    <3> QED BY <2>1, <3>1, <3>2, <3>3, CellsDiffer
  <2> QED BY <2>1, <2>2 DEF Wrote
<1>3. ASSUME NEW n \in 0 .. u PROVE Part(N, c, r, n) = Part(N, b, r, n)
  <2>1. \A k \in 1 .. n : c[Cell(N, r, k - 1)] = b[Cell(N, r, k - 1)]
    <3> SUFFICES ASSUME NEW k \in 1 .. n PROVE c[Cell(N, r, k - 1)] = b[Cell(N, r, k - 1)]
      OBVIOUS
    <3>1. k - 1 \in 0 .. u - 1
      BY <1>1
    <3> QED BY <1>2, <3>1
  <2> QED BY <2>1 DEF Part
<1> QED BY <1>3 DEF u

\* What is stored from w on is put behind the rest.
LEMMA HeldIsAppended ==
  ASSUME NEW N \in Nat, N > 0, NEW b \in [0 .. N - 1 -> Int], NEW d \in Seq(Int),
         NEW r \in Cycle(N), NEW w \in Cycle(N), Used(N, r, w) + Len(d) <= N, Holds(N, b, w, d)
  PROVE  Part(N, b, r, Used(N, r, w) + Len(d)) = Part(N, b, r, Used(N, r, w)) \o d
<1> DEFINE u == Used(N, r, w)
           s == Part(N, b, r, u)
           t == Part(N, b, r, u + Len(d))
<1>1. u \in 0 .. N /\ u \in Nat /\ Len(d) \in Nat /\ w = After(N, r, u) /\ u + Len(d) \in 0 .. N
  <2>1. u \in Nat /\ w = After(N, r, u)
    BY UsedMoves
  <2> HIDE DEF u
  <2>2. Len(d) \in Nat /\ u + Len(d) <= N
    BY DEF u
  <2> QED BY <2>1, <2>2
<1>2. /\ s \in Seq(Int) /\ Len(s) = u /\ \A k \in 1 .. u : s[k] = b[Cell(N, r, k - 1)]
      /\ t \in Seq(Int) /\ Len(t) = u + Len(d)
      /\ \A k \in 1 .. u + Len(d) : t[k] = b[Cell(N, r, k - 1)]
  <2> HIDE DEF u
  <2> QED BY <1>1, PartType
<1> HIDE DEF s, t, u
<1>3. /\ s \o d \in Seq(Int) /\ Len(s \o d) = u + Len(d)
      /\ \A k \in 1 .. u : (s \o d)[k] = s[k]
      /\ \A k \in 1 .. Len(d) : (s \o d)[u + k] = d[k]
  <2>1. /\ s \o d \in Seq(Int) /\ Len(s \o d) = Len(s) + Len(d)
        /\ \A i \in 1 .. Len(s) + Len(d) :
             (s \o d)[i] = IF i <= Len(s) THEN s[i] ELSE d[i - Len(s)]
    BY <1>2, ConcatProperties
  <2>2. \A k \in 1 .. u : (s \o d)[k] = s[k]
    BY <1>1, <1>2, <2>1
  <2>3. ASSUME NEW k \in 1 .. Len(d) PROVE (s \o d)[u + k] = d[k]
    <3>1. PICK i \in Nat : i = u + k
      BY <1>1
    <3>2. i \in 1 .. u + Len(d) /\ ~(i <= u) /\ i - u = k
      BY <1>1, <3>1
    <3>3. (s \o d)[i] = d[i - u]
      BY <1>2, <2>1, <3>2
    <3> QED BY <3>1, <3>2, <3>3
  <2> QED BY <1>2, <2>1, <2>2, <2>3
<1>4. ASSUME NEW k \in 1 .. u + Len(d) PROVE t[k] = (s \o d)[k]
  <2>1. CASE k <= u
    <3>1. k \in 1 .. u
      BY <1>1, <2>1
    <3> QED BY <1>2, <1>3, <3>1
  <2>2. CASE k > u
    <3> PICK j \in Int : j = k - u
      BY <1>1
    <3>1. j \in 1 .. Len(d) /\ k = u + j /\ j - 1 \in Nat /\ u + (j - 1) < N /\ u + (j - 1) = k - 1
      BY <1>1, <2>2
    <3>2. Cell(N, w, j - 1) = Cell(N, r, u + (j - 1))
      BY <1>1, <3>1, IndexMoves
    <3>3. t[k] = b[Cell(N, r, k - 1)] /\ b[Cell(N, w, j - 1)] = d[j] /\ (s \o d)[k] = d[j]
      BY <1>2, <1>3, <3>1 DEF Holds
    <3> QED BY <3>1, <3>2, <3>3
  <2>3. k <= u \/ k > u
    BY <1>1
  <2> QED BY <2>1, <2>2, <2>3
<1>5. t = s \o d
  BY <1>1, <1>2, <1>3, <1>4, SeqEqual
<1> QED BY <1>5 DEF s, t, u

\* Taking n elements out, and storing anything in their places, disturbs
\* neither those behind them nor what is stored from w on.
LEMMA TakingKeeps ==
  ASSUME NEW N \in Nat, N > 0, NEW b \in [0 .. N - 1 -> Int], NEW c, NEW d \in Seq(Int),
         NEW r \in Cycle(N), NEW w \in Cycle(N), Used(N, r, w) <= N, Len(d) <= Used(N, r, w),
         Wrote(N, b, r, d, c)
  PROVE  /\ Part(N, c, After(N, r, Len(d)), Used(N, r, w) - Len(d))
              = Part(N, b, After(N, r, Len(d)), Used(N, r, w) - Len(d))
         /\ \A e \in Seq(Int) : Used(N, r, w) + Len(e) <= N /\ Holds(N, b, w, e) => Holds(N, c, w, e)
<1> DEFINE u == Used(N, r, w)
           n == Len(d)
           r2 == After(N, r, n)
<1>1. /\ u \in 0 .. N /\ u \in Nat /\ n \in Nat /\ n \in 0 .. N /\ n <= u /\ w = After(N, r, u)
  BY UsedMoves
<1>2. \A k \in Nat : n + k < N => Cell(N, r2, k) = Cell(N, r, n + k)
  BY <1>1, IndexMoves
<1>3. \A k \in Nat : u + k < N => Cell(N, w, k) = Cell(N, r, u + k)
  BY <1>1, IndexMoves
<1>4. ASSUME NEW k \in n .. N - 1 PROVE c[Cell(N, r, k)] = b[Cell(N, r, k)]
  <2>1. k \in 0 .. N - 1 /\ Cell(N, r, k) \in 0 .. N - 1
    <3>1. k \in 0 .. N - 1
      BY <1>1
    <3> QED BY <3>1, CellsDiffer
  <2>2. ASSUME NEW j \in 1 .. Len(d) PROVE Cell(N, r, j - 1) # Cell(N, r, k)
    <3>1. j - 1 \in 0 .. N - 1 /\ j - 1 # k
      BY <1>1
    <3> QED BY <2>1, <3>1, CellsDiffer
  <2> QED BY <2>1, <2>2 DEF Wrote
<1> HIDE DEF u, n, r2
<1>5. Part(N, c, r2, u - n) = Part(N, b, r2, u - n)
  <2>1. \A k \in 1 .. u - n : c[Cell(N, r2, k - 1)] = b[Cell(N, r2, k - 1)]
    <3> SUFFICES ASSUME NEW k \in 1 .. u - n PROVE c[Cell(N, r2, k - 1)] = b[Cell(N, r2, k - 1)]
      OBVIOUS
    <3>1. k - 1 \in Nat /\ n + (k - 1) < N /\ n + (k - 1) \in n .. N - 1
      BY <1>1
    <3> QED BY <1>2, <1>4, <3>1
  <2> QED BY <2>1 DEF Part
<1>6. ASSUME NEW e \in Seq(Int), u + Len(e) <= N, Holds(N, b, w, e) PROVE Holds(N, c, w, e)
  <2> SUFFICES ASSUME NEW k \in 1 .. Len(e) PROVE c[Cell(N, w, k - 1)] = e[k]
    BY DEF Holds
  <2>1. k - 1 \in Nat /\ u + (k - 1) < N /\ u + (k - 1) \in n .. N - 1
    BY <1>1, <1>6
  <2>2. c[Cell(N, w, k - 1)] = b[Cell(N, w, k - 1)]
    BY <1>3, <1>4, <2>1
  <2> QED BY <1>6, <2>2 DEF Holds
<1> QED BY <1>5, <1>6 DEF u, n, r2

\* What PaUtil_WriteRingBuffer stores, where g is the region it is given.
Overwritten(b, d, g) ==
  [s \in DOMAIN b |-> IF \E k \in 1 .. Len(d) : g[k] = s
                      THEN d[CHOOSE k \in 1 .. Len(d) : g[k] = s] ELSE b[s]]

LEMMA RegionWrites ==
  ASSUME NEW N \in Nat, N > 0, NEW b \in [0 .. N - 1 -> Int], NEW i \in Cycle(N),
         NEW d \in Seq(Int), Len(d) <= N,
         NEW g, \A k \in 1 .. Len(d) : g[k] = Cell(N, i, k - 1)
  PROVE  Wrote(N, b, i, d, Overwritten(b, d, g))
<1> DEFINE at(s) == CHOOSE k \in 1 .. Len(d) : g[k] = s
           c == [s \in DOMAIN b |-> IF \E k \in 1 .. Len(d) : g[k] = s
                                    THEN d[at(s)] ELSE b[s]]
<1>1. ASSUME NEW k \in 1 .. Len(d) PROVE g[k] \in 0 .. N - 1 /\ at(g[k]) = k
  <2>1. k - 1 \in 0 .. N - 1 /\ g[k] = Cell(N, i, k - 1)
    OBVIOUS
  <2>2. at(g[k]) \in 1 .. Len(d) /\ g[at(g[k])] = g[k]
    OBVIOUS
  <2> DEFINE j == at(g[k])
  <2> HIDE DEF j
  <2>3. j \in 1 .. Len(d) /\ g[j] = g[k]
    BY <2>2 DEF j
  <2>4. j - 1 \in 0 .. N - 1 /\ g[j] = Cell(N, i, j - 1)
    BY <2>3
  <2>5. j = k
    <3>1. j - 1 = k - 1
      BY <2>1, <2>3, <2>4, CellsDiffer
    <3> QED BY <2>3, <3>1
  <2> QED BY <2>1, <2>5, CellsDiffer DEF j
<1>2. \A s \in 0 .. N - 1 : at(s) \in 1 .. Len(d) \/ ~\E k \in 1 .. Len(d) : g[k] = s
  OBVIOUS
<1> HIDE DEF at
<1>3. c \in [0 .. N - 1 -> Int]
  BY <1>2
<1>4. ASSUME NEW k \in 1 .. Len(d) PROVE c[Cell(N, i, k - 1)] = d[k]
  <2>1. c[g[k]] = d[k]
    BY <1>1
  <2> QED BY <2>1
<1>5. ASSUME NEW s \in 0 .. N - 1, \A k \in 1 .. Len(d) : Cell(N, i, k - 1) # s
      PROVE  c[s] = b[s]
  BY <1>5
<1> QED BY <1>3, <1>4, <1>5 DEF Wrote, Holds, Overwritten, at

LEMMA StreamRing ==
  /\ RingSize \in Nat /\ RingSize > 0
  /\ \A r, w \in Cycle(RingSize) :
       ReadAvailable(r, w) = Used(RingSize, r, w) /\ WriteAvailable(r, w) = RingSize - Used(RingSize, r, w)
  /\ \A i \in Cycle(RingSize), n \in 0 .. RingSize :
       /\ bigMask(i + n) = After(RingSize, i, n)
       /\ \A b : ReadRegion(b, i, n) = Part(RingSize, b, i, n)
  /\ \A b \in [0 .. RingSize - 1 -> Int], i \in Cycle(RingSize), d \in Seq(Int) :
       Len(d) <= RingSize => Wrote(RingSize, b, i, d, WriteRegion(b, i, d))
<1>1. RingSize \in Nat /\ RingSize > 0
  BY RingAssumption
<1>2. \A r, w \in Cycle(RingSize) : ReadAvailable(r, w) = Used(RingSize, r, w)
  BY <1>1, Masked DEF ReadAvailable, bigMask
<1>3. \A i \in Cycle(RingSize), n \in 0 .. RingSize : bigMask(i + n) = After(RingSize, i, n)
  BY <1>1, Masked DEF bigMask
<1>4. ASSUME NEW i \in Cycle(RingSize), NEW n \in 0 .. RingSize, NEW k \in 1 .. n
      PROVE  Region(i, n)[k] = Cell(RingSize, i, k - 1)
  <2>1. k - 1 \in 0 .. RingSize - 1 /\ i + k - 1 = i + (k - 1)
    BY <1>1 DEF Cycle
  <2>2. (i + (k - 1)) % RingSize = Cell(RingSize, i, k - 1)
    BY <1>1, <2>1, Masked
  <2> QED BY <2>1, <2>2 DEF Region, smallMask
<1>5. ASSUME NEW i \in Cycle(RingSize), NEW n \in 0 .. RingSize, NEW b
      PROVE  ReadRegion(b, i, n) = Part(RingSize, b, i, n)
  BY <1>4 DEF ReadRegion, Part
<1>6. ASSUME NEW b \in [0 .. RingSize - 1 -> Int], NEW i \in Cycle(RingSize), NEW d \in Seq(Int),
             Len(d) <= RingSize
      PROVE  Wrote(RingSize, b, i, d, WriteRegion(b, i, d))
  <2>1. \A k \in 1 .. Len(d) : Region(i, Len(d))[k] = Cell(RingSize, i, k - 1)
    BY <1>1, <1>4, <1>6
  <2>2. PICK g : g = Region(i, Len(d))
    OBVIOUS
  <2>3. \A k \in 1 .. Len(d) : g[k] = Cell(RingSize, i, k - 1)
    BY <2>1, <2>2
  <2>4. WriteRegion(b, i, d) = Overwritten(b, d, g)
    BY <2>2 DEF WriteRegion, Overwritten
  <2>5. Wrote(RingSize, b, i, d, Overwritten(b, d, g))
    BY <1>1, <1>6, <2>3, RegionWrites
  <2> QED BY <2>4, <2>5
<1> QED BY <1>1, <1>2, <1>3, <1>5, <1>6 DEF WriteAvailable

-----------------------------------------------------------------------------
(* The streams' invariant (wav_audio.c, rtp_audio.c, vban_audio.c)         *)

Level == Used(RingSize, readIndex, writeIndex)

StreamTypes ==
  /\ <<kind, block>> \in Shapes /\ kind \in AllKinds
  /\ block \in Nat /\ block > 0 /\ block <= RingSize
  /\ enabled \in BOOLEAN /\ readIndex \in Cycle(RingSize) /\ writeIndex \in Cycle(RingSize)
  /\ buffer \in [0 .. RingSize - 1 -> Int] /\ next \in 0 .. Samples - 1
  /\ pkt \in Nat /\ seen \in Nat /\ chunk \in Seq(Int)

\* The task has the mutex throughout its turn, a shell throughout its command:
\* whether the stream is on does not change during a turn.
Turn == {"recv", "look", "test", "copy", "advance"}
StreamLocks ==
  /\ DOMAIN pc = Shells \cup {TaskId}
  /\ pc[TaskId] \in Turn \cup {"take", "flush", "flushed", "give"}
  /\ pc[TaskId] # "take" <=> lock = TaskId
  /\ \A sh \in Shells : pc[sh] \in {"open", "close"} <=> lock = sh
  /\ pc[TaskId] \in Turn => enabled
  /\ pc[TaskId] \in {"flush", "flushed"} => ~enabled

\* Only between the two stores of a flush may the indices be too far apart.
StreamLevel == IF At("flushed") THEN readIndex = 0 ELSE Level <= RingSize

\* What the task has copied but not yet put is in the ring behind the rest;
\* what it has copied but not yet taken is still at its head.
Filling ==
  /\ chunk = Numbered(Len(chunk)) /\ Level + Len(chunk) <= RingSize
  /\ Holds(RingSize, buffer, writeIndex, chunk)
  /\ kind \in Rx => Len(chunk) <= pkt
Draining ==
  /\ Len(chunk) > 0 /\ Len(chunk) <= Level
  /\ chunk = Part(RingSize, buffer, readIndex, Len(chunk))
  /\ kind \in Tx => pkt + Len(chunk) <= Packet
StreamCopies ==
  /\ kind \in Tx => pkt < Packet
  /\ At("recv") => kind \in Rx
  /\ At("advance") => IF kind \in ToSport THEN Filling ELSE Draining
  /\ At("test") /\ kind \notin ToSport => seen <= Level
  /\ At("copy") /\ kind \notin ToSport => block <= Level

StreamInv == StreamTypes /\ StreamLocks /\ StreamLevel /\ StreamCopies

StreamQueue == IF At("flushed") THEN <<>> ELSE Contents
AsFifo == [Fifo!Next]_Fifo!fifoVars

LEMMA StreamConstants ==
  /\ RingSize \in Nat /\ RingSize >= 2 /\ Samples \in Nat /\ Samples > RingSize
  /\ TaskId # Unheld /\ TaskId \notin Shells /\ Unheld \notin Shells
  /\ Packet \in Nat /\ Packet > 0 /\ Packet <= RingSize
  /\ FileChunk \in Nat
  /\ \A n \in Packets : n \in Nat /\ n > 0
  /\ \A s \in Shapes : s[1] \in AllKinds /\ s[2] \in Nat /\ s[2] > 0 /\ s[2] <= RingSize
BY ShapeAssumption, ActorAssumption, RingAssumption, SizeAssumption

LEMMA StreamIndices ==
  ASSUME StreamTypes
  PROVE  /\ readIndex \in Cycle(RingSize) /\ writeIndex \in Cycle(RingSize)
         /\ Level \in Nat /\ Available = Level /\ Room = RingSize - Level
BY StreamRing, UsedMoves DEF StreamTypes, Level, Available, Room

QueuePart == StreamQueue = IF At("flushed") THEN <<>> ELSE Part(RingSize, buffer, readIndex, Level)

LEMMA QueueIsPart == StreamInv => QueuePart
<1> SUFFICES ASSUME StreamInv, ~At("flushed")
             PROVE  Contents = Part(RingSize, buffer, readIndex, Level)
  BY DEF StreamQueue, QueuePart
<1>1. Level \in 0 .. RingSize /\ readIndex \in Cycle(RingSize) /\ Available = Level
  BY StreamIndices, StreamConstants DEF StreamInv, StreamLevel
<1> QED BY <1>1, StreamRing DEF Contents

LEMMA QueueIsPartNext == StreamInv' => QueuePart'
BY QueueIsPart, PTL

LEMMA FifoState == Fifo!fifoVars = <<enabled, StreamQueue, next, out>>
BY DEF Fifo!fifoVars, StreamQueue

LEMMA NumberedType ==
  ASSUME StreamTypes, NEW n \in 0 .. RingSize
  PROVE  /\ Numbered(n) \in Seq(Int) /\ Len(Numbered(n)) = n
         /\ Fifo!Numbered(n) = Numbered(n)
         /\ (next + n) % Samples \in 0 .. Samples - 1
         /\ n = 0 => (next + n) % Samples = next
<1>1. next \in Nat /\ next < Samples /\ n \in Nat /\ n < Samples /\ Samples \in Nat /\ Samples > 0
  BY StreamConstants DEF StreamTypes
<1>2. ASSUME NEW k \in 1 .. n PROVE (next + k - 1) % Samples \in Int
  BY <1>1
<1>3. Numbered(n) \in [1 .. n -> Int]
  BY <1>2 DEF Numbered
<1>4. Numbered(n) \in Seq(Int) /\ Len(Numbered(n)) = n
  <2>1. DOMAIN Numbered(n) = 1 .. n
    BY DEF Numbered
  <2> HIDE DEF Numbered
  <2> QED BY <1>1, <1>3, <2>1
<1>5. (next + n) % Samples \in 0 .. Samples - 1 /\ (n = 0 => (next + n) % Samples = next)
  BY <1>1
<1> QED BY <1>4, <1>5 DEF Numbered, Fifo!Numbered

\* A step that leaves the ring alone.
LEMMA StreamStutters ==
  ASSUME UNCHANGED <<enabled, readIndex, writeIndex, buffer, next, out>>,
         At("flushed")' <=> At("flushed")
  PROVE  AsFifo
<1>1. StreamQueue' = StreamQueue
  BY DEF StreamQueue, Contents, Available
<1>2. UNCHANGED Fifo!fifoVars
  BY <1>1, FifoState DEF StreamQueue, Fifo!fifoVars
<1> QED BY <1>2 DEF AsFifo

\* A step that puts samples, or takes them.
LEMMA StreamPuts ==
  ASSUME StreamInv, StreamInv', enabled, enabled' = enabled, NEW n \in 0 .. RingSize,
         ~At("flushed"), ~At("flushed")', Level + n <= RingSize,
         Level' = Level + n, readIndex' = readIndex,
         Part(RingSize, buffer', readIndex, Level)
           = Part(RingSize, buffer, readIndex, Level),
         Holds(RingSize, buffer', writeIndex, Numbered(n)),
         next' = (next + n) % Samples, out' = out
  PROVE  AsFifo
<1>1. /\ StreamTypes /\ Level \in Nat
      /\ readIndex \in Cycle(RingSize) /\ writeIndex \in Cycle(RingSize)
      /\ RingSize \in Nat /\ RingSize > 0
  BY StreamIndices, StreamConstants DEF StreamInv
<1>2. buffer \in [0 .. RingSize - 1 -> Int]
  BY <1>1 DEF StreamTypes
<1>3. buffer' \in [0 .. RingSize - 1 -> Int]
  BY DEF StreamInv, StreamTypes
<1>4. /\ Numbered(n) \in Seq(Int) /\ Len(Numbered(n)) = n /\ Fifo!Numbered(n) = Numbered(n)
      /\ n = 0 => (next + n) % Samples = next
  BY <1>1, NumberedType
<1>5. PICK d, c : d = Numbered(n) /\ c = buffer'
  OBVIOUS
<1>6. Part(RingSize, c, readIndex, Level + n) = Part(RingSize, c, readIndex, Level) \o d
  <2>1. /\ c \in [0 .. RingSize - 1 -> Int] /\ d \in Seq(Int) /\ Len(d) = n
        /\ Used(RingSize, readIndex, writeIndex) + Len(d) <= RingSize
        /\ Holds(RingSize, c, writeIndex, d)
    BY <1>3, <1>4, <1>5 DEF Level
  <2> QED BY <1>1, <2>1, HeldIsAppended DEF Level
<1>7. /\ StreamQueue = Part(RingSize, buffer, readIndex, Level)
      /\ StreamQueue' = Part(RingSize, buffer', readIndex', Level')
  BY QueueIsPart, QueueIsPartNext DEF QueuePart
<1>8. StreamQueue' = StreamQueue \o d
  BY <1>5, <1>6, <1>7
<1>9. StreamQueue \in Seq(Int) /\ Len(StreamQueue) = Level
  <2>1. PICK u \in Nat : u = Level /\ u \in 0 .. RingSize
    BY <1>1
  <2>2. /\ Part(RingSize, buffer, readIndex, u) \in Seq(Int)
        /\ Len(Part(RingSize, buffer, readIndex, u)) = u
    BY <1>1, <1>2, <2>1, PartType
  <2> QED BY <1>7, <2>1, <2>2
<1>10. CASE n = 0
  <2>1. d = <<>>
    BY <1>4, <1>5, <1>10
  <2>2. StreamQueue' = StreamQueue /\ next' = next
    BY <1>4, <1>8, <1>9, <1>10, <2>1, ConcatEmptySeq
  <2>3. UNCHANGED Fifo!fifoVars
    BY <2>2, FifoState DEF Fifo!fifoVars, StreamQueue
  <2> QED BY <2>3 DEF AsFifo
<1>11. CASE n > 0
  <2>1. Fifo!Put(n)
    BY <1>4, <1>5, <1>8, <1>9 DEF Fifo!Put, StreamQueue
  <2>2. n \in 1 .. RingSize
    BY <1>11
  <2> QED BY <2>1, <2>2 DEF AsFifo, Fifo!Next
<1> QED BY <1>10, <1>11

LEMMA StreamGets ==
  ASSUME StreamInv, StreamInv', enabled, enabled' = enabled, NEW n \in 1 .. RingSize,
         ~At("flushed"), ~At("flushed")', n <= Level,
         Level' = Level - n, readIndex' = After(RingSize, readIndex, n),
         Part(RingSize, buffer', readIndex', Level - n)
           = Part(RingSize, buffer, readIndex', Level - n),
         out' = Part(RingSize, buffer, readIndex, n), next' = next
  PROVE  AsFifo
<1>1. /\ StreamTypes /\ Level \in Nat
      /\ readIndex \in Cycle(RingSize) /\ RingSize \in Nat /\ RingSize > 0 /\ Level <= RingSize
  BY StreamIndices, StreamConstants DEF StreamInv, StreamLevel
<1>2. buffer \in [0 .. RingSize - 1 -> Int]
  BY <1>1 DEF StreamTypes
<1>3. /\ StreamQueue = Part(RingSize, buffer, readIndex, Level)
      /\ StreamQueue' = Part(RingSize, buffer, readIndex', Level - n)
  BY QueueIsPart, QueueIsPartNext DEF QueuePart
<1>4. PICK u \in 0 .. RingSize : u = Level /\ n \in 0 .. u
  BY <1>1
<1>5. /\ Len(Part(RingSize, buffer, readIndex, u)) = u
      /\ SubSeq(Part(RingSize, buffer, readIndex, u), 1, n) = Part(RingSize, buffer, readIndex, n)
      /\ SubSeq(Part(RingSize, buffer, readIndex, u), n + 1, u)
           = Part(RingSize, buffer, After(RingSize, readIndex, n), u - n)
  BY <1>1, <1>2, <1>4, PartType, PartSplits
<1>6. /\ Len(StreamQueue) = u /\ SubSeq(StreamQueue, 1, n) = out'
      /\ SubSeq(StreamQueue, n + 1, Len(StreamQueue)) = StreamQueue'
  BY <1>3, <1>4, <1>5
<1>7. Fifo!Get(n)
  BY <1>4, <1>6 DEF Fifo!Get, StreamQueue
<1> QED BY <1>7 DEF AsFifo, Fifo!Next

\* Steps that do not concern the ring: of the task, and of the others.
LEMMA StreamQuiet ==
  ASSUME StreamInv, StreamLocks',
         UNCHANGED <<kind, block, enabled, readIndex, writeIndex, buffer, next, out, chunk>>,
         ~At("flushed"), ~At("flushed")', ~At("advance")', pkt' \in Nat, seen' \in Nat,
         kind \in Tx => pkt' < Packet, At("recv")' => kind \in Rx,
         At("test")' /\ kind \notin ToSport => seen' <= Level,
         At("copy")' /\ kind \notin ToSport => block <= Level
  PROVE  StreamInv' /\ AsFifo
<1>1. StreamTypes'
  BY DEF StreamInv, StreamTypes
<1>2. Level' = Level
  BY DEF Level
<1>3. StreamLevel'
  BY <1>2 DEF StreamInv, StreamLevel
<1>4. StreamCopies'
  BY <1>2 DEF StreamCopies
<1>5. AsFifo
  BY StreamStutters
<1> QED BY <1>1, <1>3, <1>4, <1>5 DEF StreamInv

LEMMA StreamAside ==
  ASSUME StreamInv, StreamLocks', At("flushed")' <=> At("flushed"), At("advance")' <=> At("advance"),
         At("test")' <=> At("test"), At("copy")' <=> At("copy"), At("recv")' <=> At("recv"), enabled' \in BOOLEAN,
         UNCHANGED <<kind, block, readIndex, writeIndex, buffer, next, out, chunk, seen, pkt>>
  PROVE  StreamInv' /\ AsFifo
<1>1. StreamTypes'
  BY DEF StreamInv, StreamTypes
<1>2. Level' = Level
  BY DEF Level
<1>3. StreamLevel'
  BY <1>2 DEF StreamInv, StreamLevel
<1>4. StreamCopies'
  <2>1. Filling => Filling'
    BY <1>2 DEF Filling, Holds, Numbered
  <2>2. Draining => Draining'
    BY <1>2 DEF Draining, Part
  <2> QED BY <1>2, <2>1, <2>2 DEF StreamInv, StreamCopies
<1>5. AsFifo
  <2>1. CASE enabled' = enabled
    BY <2>1, StreamStutters
  <2>2. CASE enabled' # enabled
    <3>1. StreamQueue' = StreamQueue
      BY DEF StreamQueue, Contents, Available
    <3>2. Fifo!Switch
      BY <2>2, <3>1 DEF Fifo!Switch, StreamQueue, StreamInv, StreamTypes
    <3> QED BY <3>2 DEF AsFifo, Fifo!Next
  <2> QED BY <2>1, <2>2
<1> QED BY <1>1, <1>3, <1>4, <1>5 DEF StreamInv

LEMMA TakeStep == StreamInv /\ Take => StreamInv' /\ AsFifo
<1> SUFFICES ASSUME StreamInv, Take PROVE StreamInv' /\ AsFifo
  OBVIOUS
<1>1. StreamLocks'
  BY StreamConstants DEF StreamInv, StreamLocks, StreamTypes, Take, Goto, At, Turn
<1>2. /\ pc'[TaskId] \in {"flush", "recv", "look"} /\ pc[TaskId] = "take"
      /\ pc'[TaskId] = "recv" => kind \in Rx
  BY DEF StreamInv, StreamLocks, Take, Goto, At
<1> QED BY <1>1, <1>2, StreamQuiet
      DEF StreamInv, StreamTypes, StreamCopies, Take, At, shape, ring, task, hist

LEMMA ReceiveStep == StreamInv /\ Receive => StreamInv' /\ AsFifo
<1> SUFFICES ASSUME StreamInv, Receive PROVE StreamInv' /\ AsFifo
  OBVIOUS
<1>1. StreamLocks'
  BY StreamConstants DEF StreamInv, StreamLocks, StreamTypes, Receive, Goto, At, Turn
<1>2. pc'[TaskId] \in {"test", "look"} /\ pc[TaskId] = "recv"
  BY DEF StreamInv, StreamLocks, Receive, Goto, At
<1>3. pkt' \in Nat
  BY StreamConstants DEF StreamInv, StreamTypes, Receive
<1>4. kind \notin Tx /\ kind \in ToSport
  BY DEF StreamInv, StreamCopies, Receive, Rx, Tx, ToSport
<1> QED BY <1>1, <1>2, <1>3, <1>4, StreamQuiet
      DEF StreamInv, StreamTypes, StreamCopies, Receive, At, shape, ring, task, hist, Rx

LEMMA LookStep == StreamInv /\ Look => StreamInv' /\ AsFifo
<1> SUFFICES ASSUME StreamInv, Look PROVE StreamInv' /\ AsFifo
  OBVIOUS
<1>1. StreamLocks'
  BY StreamConstants DEF StreamInv, StreamLocks, StreamTypes, Look, Goto, At, Turn
<1>2. pc'[TaskId] \in {"test", "recv"} /\ pc[TaskId] = "look" /\ (pc'[TaskId] = "recv" => kind \in Rx)
  BY DEF StreamInv, StreamLocks, Look, Goto, At, Rx
<1>3. /\ Level \in Nat /\ Level <= RingSize /\ Available = Level /\ Room = RingSize - Level
      /\ seen' = IF kind \in ToSport THEN Room ELSE Available
  BY <1>2, StreamIndices DEF StreamInv, StreamLevel, Look, At
<1>4. seen' \in Nat /\ (kind \notin ToSport => seen' <= Level)
  BY <1>3, StreamConstants
<1> QED BY <1>1, <1>2, <1>4, StreamQuiet
      DEF StreamInv, StreamTypes, StreamCopies, Look, At, shape, ring, hist

LEMMA TestStep == StreamInv /\ Test => StreamInv' /\ AsFifo
<1> SUFFICES ASSUME StreamInv, Test PROVE StreamInv' /\ AsFifo
  OBVIOUS
<1>1. StreamLocks'
  BY StreamConstants DEF StreamInv, StreamLocks, StreamTypes, Test, Goto, At, Turn
<1>2. pc'[TaskId] \in {"copy", "give"} /\ pc[TaskId] = "test" /\ (pc'[TaskId] = "copy" => Serves)
  BY DEF StreamInv, StreamLocks, Test, Goto, At
<1>3. kind \notin ToSport => seen <= Level /\ (Serves => block <= seen)
  <2>1. kind \notin ToSport => seen <= Level
    BY <1>2 DEF StreamInv, StreamCopies, At
  <2>2. kind \notin ToSport => kind \in {"wavSink", "rtpTx", "vbanTx"}
    BY DEF StreamInv, StreamTypes, ToSport, AllKinds, Rx
  <2>3. kind \in {"wavSink", "rtpTx", "vbanTx"} /\ Serves => seen >= block
    <3>1. kind = "wavSink" => (Serves <=> seen >= block)
      BY DEF Serves, Rx, Tx
    <3>2. kind \in {"rtpTx", "vbanTx"} => (Serves <=> seen > block)
      BY DEF Serves, Rx, Tx
    <3> QED BY <3>1, <3>2 DEF StreamInv, StreamTypes
  <2> QED BY <2>1, <2>2, <2>3 DEF StreamInv, StreamTypes
<1>4. kind \notin ToSport /\ Serves => block <= Level
  BY <1>3, StreamIndices DEF StreamInv, StreamTypes
<1> QED BY <1>1, <1>2, <1>4, StreamQuiet
      DEF StreamInv, StreamTypes, StreamCopies, Test, At, shape, ring, hist

LEMMA GiveStep == StreamInv /\ Give => StreamInv' /\ AsFifo
<1> SUFFICES ASSUME StreamInv, Give PROVE StreamInv' /\ AsFifo
  OBVIOUS
<1>1. StreamLocks'
  BY StreamConstants DEF StreamInv, StreamLocks, StreamTypes, Give, Goto, At, Turn
<1>2. pc'[TaskId] = "take" /\ pc[TaskId] = "give"
  BY DEF StreamInv, StreamLocks, Give, Goto, At
<1> QED BY <1>1, <1>2, StreamQuiet
      DEF StreamInv, StreamTypes, StreamCopies, Give, At, shape, ring, hist

LEMMA FlushStep == StreamInv /\ Flush => StreamInv' /\ AsFifo
<1> SUFFICES ASSUME StreamInv, Flush PROVE StreamInv' /\ AsFifo
  OBVIOUS
<1>1. pc'[TaskId] = "flushed" /\ pc[TaskId] = "flush" /\ ~enabled
  BY DEF StreamInv, StreamLocks, Flush, Goto, At
<1>2. StreamLocks'
  BY StreamConstants DEF StreamInv, StreamLocks, StreamTypes, Flush, Goto, At, Turn
<1>3. StreamTypes'
  BY StreamConstants DEF StreamInv, StreamTypes, Flush, shape, task, hist, Stale, Cycle
<1>4. StreamLevel' /\ StreamCopies'
  BY <1>1 DEF StreamInv, StreamLevel, StreamCopies, Flush, At, shape, task
<1>5. StreamQueue' = <<>>
  BY <1>1 DEF StreamQueue, At
<1>6. Fifo!Clear
  BY <1>1, <1>5 DEF Fifo!Clear, StreamQueue, Flush, hist
<1> QED BY <1>2, <1>3, <1>4, <1>6 DEF StreamInv, AsFifo, Fifo!Next

LEMMA FlushedStep == StreamInv /\ Flushed => StreamInv' /\ AsFifo
<1> SUFFICES ASSUME StreamInv, Flushed PROVE StreamInv' /\ AsFifo
  OBVIOUS
<1>1. pc'[TaskId] = "give" /\ pc[TaskId] = "flushed" /\ readIndex = 0 /\ ~enabled
  BY DEF StreamInv, StreamLocks, StreamLevel, Flushed, Goto, At
<1>2. StreamLocks'
  BY StreamConstants DEF StreamInv, StreamLocks, StreamTypes, Flushed, Goto, At, Turn
<1>3. StreamTypes'
  BY StreamConstants DEF StreamInv, StreamTypes, Flushed, shape, task, hist, Cycle
<1>4. Level' = 0
  BY <1>1 DEF Level, Used, Flushed
<1>5. StreamLevel' /\ StreamCopies'
  BY <1>1, <1>4, StreamConstants DEF StreamInv, StreamLevel, StreamCopies, Flushed, At, shape, task
<1>6. StreamInv'
  BY <1>2, <1>3, <1>5 DEF StreamInv
<1>7. StreamQueue = <<>> /\ StreamQueue' = <<>>
  <2>1. Part(RingSize, buffer', readIndex', 0) = <<>>
    BY DEF Part
  <2> QED BY <1>1, <1>4, <1>6, <2>1, QueueIsPart, QueueIsPartNext DEF QueuePart, StreamQueue, At
<1>8. UNCHANGED Fifo!fifoVars
  BY <1>7, FifoState DEF Fifo!fifoVars, StreamQueue, Flushed, hist
<1> QED BY <1>6, <1>8 DEF AsFifo

LEMMA PacketStep == StreamInv /\ PacketArrives => StreamInv' /\ AsFifo
<1> SUFFICES ASSUME StreamInv, PacketArrives PROVE StreamInv' /\ AsFifo
  OBVIOUS
<1>1. StreamLocks' /\ pc' = pc
  BY DEF StreamInv, StreamLocks, PacketArrives, At
<1> QED BY <1>1, StreamAside
      DEF StreamInv, StreamTypes, PacketArrives, At, shape, ring, task, hist

LEMMA CommandStep ==
  ASSUME NEW sh \in Shells PROVE StreamInv /\ Command(sh) => StreamInv' /\ AsFifo
<1> SUFFICES ASSUME StreamInv, Command(sh) PROVE StreamInv' /\ AsFifo
  OBVIOUS
<1>1. StreamLocks' /\ pc'[TaskId] = pc[TaskId]
  BY StreamConstants DEF StreamInv, StreamLocks, Command, At
<1> QED BY <1>1, StreamAside
      DEF StreamInv, StreamTypes, Command, At, shape, ring, task, hist

LEMMA LockShellStep ==
  ASSUME NEW sh \in Shells PROVE StreamInv /\ LockShell(sh) => StreamInv' /\ AsFifo
<1> SUFFICES ASSUME StreamInv, LockShell(sh) PROVE StreamInv' /\ AsFifo
  OBVIOUS
<1>1. StreamLocks' /\ pc'[TaskId] = pc[TaskId]
  BY StreamConstants DEF StreamInv, StreamLocks, LockShell, CanLock, At
<1> QED BY <1>1, StreamAside
      DEF StreamInv, StreamTypes, LockShell, At, shape, ring, task, hist

LEMMA CloseStep ==
  ASSUME NEW sh \in Shells PROVE StreamInv /\ Close(sh) => StreamInv' /\ AsFifo
<1> SUFFICES ASSUME StreamInv, Close(sh) PROVE StreamInv' /\ AsFifo
  OBVIOUS
<1>1. StreamLocks' /\ pc'[TaskId] = pc[TaskId]
  BY StreamConstants DEF StreamInv, StreamLocks, Close, Leave, At, Turn
<1> QED BY <1>1, StreamAside
      DEF StreamInv, StreamTypes, Close, At, shape, ring, task

\* A command has the mutex, so the task has nothing in hand.
LEMMA OpenStep ==
  ASSUME NEW sh \in Shells PROVE StreamInv /\ Open(sh) => StreamInv' /\ AsFifo
<1> SUFFICES ASSUME StreamInv, Open(sh) PROVE StreamInv' /\ AsFifo
  OBVIOUS
<1>1. pc[TaskId] = "take" /\ pc'[TaskId] = "take"
  BY StreamConstants DEF StreamInv, StreamLocks, Open, Leave
<1>2. StreamLocks'
  BY <1>1, StreamConstants DEF StreamInv, StreamLocks, Open, Leave, At, Turn
<1>3. CASE UNCHANGED <<enabled, pkt>>
  BY <1>1, <1>2, <1>3, StreamAside DEF StreamInv, StreamTypes, Open, At, shape, ring
<1>4. CASE pkt' = 0 /\ enabled' = TRUE
  <2>1. StreamTypes'
    BY <1>4 DEF StreamInv, StreamTypes, Open, shape, ring
  <2>2. Level' = Level /\ StreamLevel'
    BY <1>1 DEF StreamInv, StreamLevel, Level, Open, ring, At
  <2>3. StreamCopies'
    BY <1>1, <1>4, StreamConstants DEF StreamCopies, At
  <2>4. AsFifo
    <3>1. StreamQueue' = StreamQueue
      BY <1>1 DEF StreamQueue, Contents, Available, Open, ring, At
    <3>2. CASE enabled
      BY <1>1, <1>4, <3>2, StreamStutters DEF Open, ring, At, StreamInv, StreamTypes
    <3>3. CASE ~enabled
      <4>1. Fifo!Switch
        BY <1>4, <3>1, <3>3 DEF Fifo!Switch, StreamQueue, Open
      <4> QED BY <4>1 DEF AsFifo, Fifo!Next
    <3> QED BY <3>2, <3>3
  <2> QED BY <1>2, <2>1, <2>2, <2>3, <2>4 DEF StreamInv
<1> QED BY <1>3, <1>4 DEF Open

\* The task copies: what it has in hand is at its place in the ring.
LEMMA NumberedStarts ==
  ASSUME StreamTypes, NEW n \in 0 .. RingSize, NEW m \in 0 .. n
  PROVE  SubSeq(Numbered(n), 1, m) = Numbered(m)
<1>1. n \in Nat /\ m \in Nat /\ m <= n /\ m \in 0 .. RingSize
  BY StreamConstants
<1>2. /\ Numbered(n) \in Seq(Int) /\ Len(Numbered(n)) = n
      /\ Numbered(m) \in Seq(Int) /\ Len(Numbered(m)) = m
  BY <1>1, NumberedType
<1>3. \A k \in 1 .. m : Numbered(n)[k] = Numbered(m)[k]
  BY <1>1 DEF Numbered
<1> HIDE DEF Numbered
<1>4. /\ SubSeq(Numbered(n), 1, m) \in Seq(Int) /\ Len(SubSeq(Numbered(n), 1, m)) = m
      /\ \A k \in 1 .. m : SubSeq(Numbered(n), 1, m)[k] = Numbered(n)[k]
  BY <1>1, <1>2
<1> QED BY <1>2, <1>3, <1>4, SeqEqual

LEMMA CopyInStep == StreamInv /\ CopyIn => StreamInv' /\ AsFifo
<1> SUFFICES ASSUME StreamInv, CopyIn PROVE StreamInv' /\ AsFifo
  OBVIOUS
<1>1. /\ pc'[TaskId] = "advance" /\ pc[TaskId] = "copy" /\ kind \in ToSport /\ enabled
      /\ UNCHANGED <<kind, block, enabled, readIndex, writeIndex, pkt, seen, next, out>>
  BY DEF StreamInv, StreamLocks, CopyIn, Goto, At, Turn, shape, hist
<1>2. StreamLocks'
  BY <1>1, StreamConstants DEF StreamInv, StreamLocks, CopyIn, Goto, At, Turn
<1>3. /\ StreamTypes /\ readIndex \in Cycle(RingSize) /\ writeIndex \in Cycle(RingSize)
      /\ Level \in Nat /\ Level <= RingSize /\ Room = RingSize - Level
      /\ buffer \in [0 .. RingSize - 1 -> Int]
  BY <1>1, StreamIndices DEF StreamInv, StreamLevel, At, StreamTypes
<1>4. PICK n \in 0 .. RingSize : /\ chunk' = SubSeq(Numbered(n), 1, AtMost(n, Room))
                                 /\ buffer' = WriteRegion(buffer, writeIndex, chunk')
                                 /\ kind \in Rx => n <= pkt
  <2>1. PICK n : /\ n \in {FileChunk, 1, Least(pkt, block)}
                 /\ chunk' = SubSeq(Numbered(n), 1, AtMost(Len(Numbered(n)), Room))
                 /\ buffer' = WriteRegion(buffer, writeIndex, chunk')
                 /\ kind # "wavSrc" => n = Least(pkt, block)
    BY DEF CopyIn, Produced, readWave
  <2>2. n \in 0 .. RingSize
    <3>1. /\ FileChunk \in Nat /\ FileChunk <= RingSize /\ RingSize \in Nat /\ RingSize >= 2
          /\ block \in Nat /\ block <= RingSize /\ pkt \in Nat
      <4>1. <<kind, block>>[2] = block
        OBVIOUS
      <4>2. FileChunk \in Nat /\ FileChunk + block <= RingSize
        BY <1>3, <4>1, SizeAssumption DEF StreamTypes
      <4> QED BY <1>3, <4>2, RingAssumption DEF StreamTypes
    <3>2. Least(pkt, block) \in 0 .. RingSize
      BY <3>1 DEF Least
    <3> QED BY <2>1, <3>1, <3>2
  <2>3. kind \in Rx => n <= pkt
    BY <1>3, <2>1 DEF StreamTypes, Least, Rx
  <2> QED BY <1>3, <2>1, <2>2, <2>3, NumberedType
<1>5. PICK m \in 0 .. n : m = AtMost(n, Room) /\ Level + m <= RingSize
  <2>1. n \in Nat /\ RingSize \in Nat
    BY StreamConstants
  <2>2. AtMost(n, Room) \in 0 .. n /\ Level + AtMost(n, Room) <= RingSize
    BY <1>3, <2>1 DEF AtMost
  <2> QED BY <2>2
<1>6. /\ chunk' = Numbered(m) /\ chunk' \in Seq(Int) /\ Len(chunk') = m /\ m \in 0 .. RingSize
      /\ kind \in Rx => m <= pkt
  <2>1. m \in 0 .. RingSize
    BY <1>4, <1>5, StreamConstants
  <2>2. chunk' = Numbered(m)
    BY <1>3, <1>4, <1>5, NumberedStarts
  <2>3. Numbered(m) \in Seq(Int) /\ Len(Numbered(m)) = m
    BY <1>3, <2>1, NumberedType
  <2>4. kind \in Rx => m <= pkt
    <3>1. pkt \in Nat
      BY <1>3 DEF StreamTypes
    <3> QED BY <1>4, <1>5, <3>1
  <2> QED BY <2>1, <2>2, <2>3, <2>4
<1>7. Wrote(RingSize, buffer, writeIndex, chunk', buffer')
  <2>1. PICK d : d = chunk' /\ d \in Seq(Int) /\ Len(d) <= RingSize
    BY <1>6
  <2>2. buffer' = WriteRegion(buffer, writeIndex, d)
    BY <1>4, <2>1
  <2>3. Wrote(RingSize, buffer, writeIndex, d, WriteRegion(buffer, writeIndex, d))
    BY <1>3, <2>1, StreamRing
  <2> QED BY <2>1, <2>2, <2>3
<1>8. StreamTypes'
  BY <1>1, <1>6, <1>7 DEF StreamInv, StreamTypes, Wrote
<1>9. Level' = Level /\ StreamLevel'
  BY <1>1, <1>3 DEF Level, StreamLevel, At
<1>10. Filling'
  BY <1>1, <1>5, <1>6, <1>7, <1>9 DEF Filling, Wrote, Numbered
<1>11. StreamInv'
  BY <1>1, <1>2, <1>8, <1>9, <1>10 DEF StreamInv, StreamCopies, At
<1>12. Part(RingSize, buffer', readIndex, Level) = Part(RingSize, buffer, readIndex, Level)
  <2>1. PICK d, u : d = chunk' /\ u = Level
    OBVIOUS
  <2>2. /\ d \in Seq(Int) /\ u = Used(RingSize, readIndex, writeIndex)
        /\ u + Len(d) <= RingSize /\ u \in 0 .. u
        /\ Wrote(RingSize, buffer, writeIndex, d, buffer')
    BY <1>3, <1>5, <1>6, <1>7, <2>1 DEF Level
  <2> QED BY <1>3, <2>1, <2>2, WroteKeeps, StreamConstants
<1>13. StreamQueue' = StreamQueue
  BY <1>1, <1>9, <1>11, <1>12, QueueIsPart, QueueIsPartNext DEF QueuePart, At
<1>14. UNCHANGED Fifo!fifoVars
  BY <1>1, <1>13, FifoState DEF Fifo!fifoVars, StreamQueue
<1> QED BY <1>11, <1>14 DEF AsFifo

LEMMA AdvanceInStep == StreamInv /\ AdvanceIn => StreamInv' /\ AsFifo
<1> SUFFICES ASSUME StreamInv, AdvanceIn PROVE StreamInv' /\ AsFifo
  OBVIOUS
<1>1. /\ pc'[TaskId] \in {"recv", "look"} /\ (pc'[TaskId] = "recv" => kind \in Rx)
      /\ pc[TaskId] = "advance" /\ kind \in ToSport /\ enabled
      /\ UNCHANGED <<kind, block, enabled, readIndex, buffer, seen, out>>
  BY DEF StreamInv, StreamLocks, AdvanceIn, Goto, At, Turn, shape, Rx
<1>2. StreamLocks'
  BY <1>1, StreamConstants DEF StreamInv, StreamLocks, AdvanceIn, Goto, At, Turn
<1>3. /\ StreamTypes /\ readIndex \in Cycle(RingSize) /\ writeIndex \in Cycle(RingSize)
      /\ Level \in Nat /\ Level <= RingSize /\ Filling
  BY <1>1, StreamIndices DEF StreamInv, StreamLevel, StreamCopies, At
<1>4. PICK n \in 0 .. RingSize : n = Len(chunk) /\ Level + n <= RingSize
  BY <1>3, StreamConstants DEF Filling, StreamTypes
<1>5. writeIndex' = After(RingSize, writeIndex, n) /\ writeIndex' \in Cycle(RingSize)
  BY <1>3, <1>4, StreamRing, IndexMoves DEF AdvanceIn
<1>6. Level' = Level + n
  BY <1>1, <1>3, <1>4, <1>5, UsedMoves, StreamConstants DEF Level
<1>7. pkt' \in Nat /\ (kind \in Tx => pkt' < Packet)
  <2>1. kind \notin Tx
    BY <1>1 DEF ToSport, Rx, Tx
  <2> QED BY <1>3, <1>4, <2>1 DEF AdvanceIn, StreamTypes, Filling
<1>8. next' = (next + n) % Samples /\ next' \in 0 .. Samples - 1
  BY <1>3, <1>4, NumberedType DEF AdvanceIn
<1>9. StreamTypes'
  BY <1>1, <1>3, <1>5, <1>7, <1>8 DEF StreamTypes, AdvanceIn
<1>10. StreamLevel' /\ StreamCopies'
  BY <1>1, <1>4, <1>6, <1>7 DEF StreamLevel, StreamCopies, At
<1>11. StreamInv'
  BY <1>2, <1>9, <1>10 DEF StreamInv
<1>12. Holds(RingSize, buffer', writeIndex, Numbered(n))
  BY <1>1, <1>3, <1>4 DEF Filling
<1> QED BY <1>1, <1>4, <1>6, <1>8, <1>11, <1>12, StreamPuts DEF At

LEMMA CopyOutStep == StreamInv /\ CopyOut => StreamInv' /\ AsFifo
<1> SUFFICES ASSUME StreamInv, CopyOut PROVE StreamInv' /\ AsFifo
  OBVIOUS
<1>1. /\ pc'[TaskId] = "advance" /\ pc[TaskId] = "copy" /\ kind \notin ToSport /\ enabled
      /\ UNCHANGED <<kind, block, enabled, readIndex, writeIndex, buffer, pkt, seen, next, out>>
  BY DEF StreamInv, StreamLocks, CopyOut, Goto, At, Turn, shape, hist, ring
<1>2. StreamLocks'
  BY <1>1, StreamConstants DEF StreamInv, StreamLocks, CopyOut, Goto, At, Turn
<1>3. /\ StreamTypes /\ readIndex \in Cycle(RingSize) /\ writeIndex \in Cycle(RingSize)
      /\ Level \in Nat /\ Level <= RingSize /\ Available = Level /\ block <= Level
      /\ buffer \in [0 .. RingSize - 1 -> Int] /\ (kind \in Tx => pkt < Packet)
  BY <1>1, StreamIndices DEF StreamInv, StreamLevel, StreamCopies, At, StreamTypes
<1>4. PICK n \in 1 .. RingSize : /\ n = AtMost(Wanted, Available) /\ n <= Level
                                 /\ kind \in Tx => pkt + n <= Packet
  <2>1. /\ RingSize \in Nat /\ Packet \in Nat /\ pkt \in Nat /\ block \in Nat /\ block > 0
    BY <1>3, StreamConstants DEF StreamTypes
  <2>2. PICK x : x = Wanted
    OBVIOUS
  <2>3. /\ x \in 1 .. block /\ (kind \in Tx => pkt + x <= Packet)
    BY <1>3, <2>1, <2>2 DEF Wanted, Least
  <2>4. AtMost(x, Available) = x
    BY <1>3, <2>1, <2>3 DEF AtMost
  <2> QED BY <1>3, <2>1, <2>2, <2>3, <2>4
<1>5. chunk' = Part(RingSize, buffer, readIndex, n) /\ chunk' \in Seq(Int) /\ Len(chunk') = n
  <2>1. n \in 0 .. RingSize
    BY <1>4
  <2>2. chunk' = Part(RingSize, buffer, readIndex, n)
    BY <1>3, <1>4, <2>1, StreamRing DEF CopyOut
  <2> QED BY <1>3, <2>1, <2>2, PartType, StreamConstants
<1>6. StreamTypes'
  BY <1>1, <1>3, <1>5 DEF StreamTypes
<1>7. Level' = Level /\ StreamLevel'
  BY <1>1, <1>3 DEF Level, StreamLevel, At
<1>8. Draining'
  BY <1>1, <1>4, <1>5, <1>7 DEF Draining
<1>9. StreamCopies'
  BY <1>1, <1>3, <1>8 DEF StreamCopies, At
<1>10. AsFifo
  BY <1>1, StreamStutters DEF At
<1> QED BY <1>2, <1>6, <1>7, <1>9, <1>10 DEF StreamInv

\* Taking samples out: by the task, and by the interrupt.
LEMMA StreamTakes ==
  ASSUME StreamInv, ~At("flushed"), NEW n \in 1 .. RingSize, n <= Level,
         readIndex' = bigMask(readIndex + n), buffer' = Forget(readIndex, n),
         writeIndex' = writeIndex
  PROVE  /\ buffer' \in [0 .. RingSize - 1 -> Int] /\ readIndex' \in Cycle(RingSize)
         /\ readIndex' = After(RingSize, readIndex, n) /\ Level' = Level - n /\ Level' \in Nat
         /\ Level' <= RingSize
         /\ Part(RingSize, buffer', readIndex', Level - n)
              = Part(RingSize, buffer, readIndex', Level - n)
         /\ \A e \in Seq(Int) : Level + Len(e) <= RingSize /\ Holds(RingSize, buffer, writeIndex, e)
                                  => Holds(RingSize, buffer', writeIndex, e)
<1>1. /\ readIndex \in Cycle(RingSize) /\ writeIndex \in Cycle(RingSize) /\ Level \in Nat
      /\ Level <= RingSize /\ buffer \in [0 .. RingSize - 1 -> Int]
      /\ RingSize \in Nat /\ RingSize > 0 /\ n \in 0 .. RingSize
  BY StreamIndices, StreamConstants DEF StreamInv, StreamLevel, StreamTypes
<1>2. readIndex' = After(RingSize, readIndex, n) /\ readIndex' \in Cycle(RingSize)
  BY <1>1, StreamRing, IndexMoves
<1>3. Level' = Level - n
  BY <1>1, <1>2, UsedMoves DEF Level
<1>4. PICK d, c : d = [k \in 1 .. n |-> Stale] /\ c = buffer'
  OBVIOUS
<1>5. d \in Seq(Int) /\ Len(d) = n
  <2>1. d \in [1 .. n -> Int] /\ DOMAIN d = 1 .. n
    BY <1>4, StreamConstants DEF Stale
  <2> QED BY <1>1, <2>1
<1>6. Wrote(RingSize, buffer, readIndex, d, c)
  <2>1. c = WriteRegion(buffer, readIndex, d)
    BY <1>4 DEF Forget
  <2> QED BY <1>1, <1>5, <2>1, StreamRing
<1>7. /\ Part(RingSize, c, After(RingSize, readIndex, n), Level - n)
           = Part(RingSize, buffer, After(RingSize, readIndex, n), Level - n)
      /\ \A e \in Seq(Int) : Level + Len(e) <= RingSize /\ Holds(RingSize, buffer, writeIndex, e)
                               => Holds(RingSize, c, writeIndex, e)
  <2>1. PICK u : u = Level
    OBVIOUS
  <2>2. u = Used(RingSize, readIndex, writeIndex) /\ u <= RingSize /\ Len(d) <= u
    BY <1>1, <1>5, <2>1 DEF Level
  <2>3. /\ Part(RingSize, c, After(RingSize, readIndex, Len(d)),
                   Used(RingSize, readIndex, writeIndex) - Len(d))
             = Part(RingSize, buffer, After(RingSize, readIndex, Len(d)),
                    Used(RingSize, readIndex, writeIndex) - Len(d))
        /\ \A e \in Seq(Int) : /\ Used(RingSize, readIndex, writeIndex) + Len(e) <= RingSize
                              /\ Holds(RingSize, buffer, writeIndex, e)
                              => Holds(RingSize, c, writeIndex, e)
    BY <1>1, <1>5, <1>6, <2>2, TakingKeeps
  <2> QED BY <1>5, <2>3 DEF Level
<1>8. c \in [0 .. RingSize - 1 -> Int]
  BY <1>6 DEF Wrote
<1>9. Level' \in Nat /\ Level' <= RingSize
  BY <1>1, <1>3
<1> QED BY <1>2, <1>3, <1>4, <1>7, <1>8, <1>9

LEMMA AdvanceOutStep == StreamInv /\ AdvanceOut => StreamInv' /\ AsFifo
<1> SUFFICES ASSUME StreamInv, AdvanceOut PROVE StreamInv' /\ AsFifo
  OBVIOUS
<1>1. /\ pc'[TaskId] = "look" /\ pc[TaskId] = "advance" /\ kind \notin ToSport /\ enabled
      /\ UNCHANGED <<kind, block, enabled, writeIndex, seen, next>>
  BY DEF StreamInv, StreamLocks, AdvanceOut, Goto, At, Turn, shape
<1>2. StreamLocks'
  BY <1>1, StreamConstants DEF StreamInv, StreamLocks, AdvanceOut, Goto, At, Turn
<1>3. StreamTypes /\ Level \in Nat /\ Level <= RingSize /\ Draining /\ RingSize \in Nat
  BY <1>1, StreamIndices, StreamConstants DEF StreamInv, StreamLevel, StreamCopies, At
<1>4. PICK n \in 1 .. RingSize : n = Len(chunk) /\ n <= Level
  <2>1. Len(chunk) \in Nat
    BY <1>3 DEF StreamTypes
  <2> QED BY <1>3, <2>1 DEF Draining
<1>5. /\ buffer' \in [0 .. RingSize - 1 -> Int] /\ readIndex' \in Cycle(RingSize)
      /\ readIndex' = After(RingSize, readIndex, n) /\ Level' = Level - n /\ Level' \in Nat
      /\ Level' <= RingSize
      /\ Part(RingSize, buffer', readIndex', Level - n)
           = Part(RingSize, buffer, readIndex', Level - n)
  BY <1>1, <1>4, StreamTakes DEF AdvanceOut, At
<1>6. pkt' \in Nat /\ (kind \in Tx => pkt' < Packet)
  <2>1. Packet \in Nat /\ Packet > 0 /\ pkt \in Nat
    BY <1>3, StreamConstants DEF StreamTypes
  <2>2. kind \in Tx => pkt + n <= Packet
    BY <1>3, <1>4 DEF Draining
  <2>3. pkt' = IF kind \in Tx THEN Gathered(pkt + n) ELSE pkt
    BY <1>4 DEF AdvanceOut
  <2> QED BY <2>1, <2>2, <2>3 DEF Gathered
<1>7. StreamTypes'
  BY <1>1, <1>3, <1>5, <1>6 DEF StreamTypes, AdvanceOut
<1>8. StreamLevel' /\ StreamCopies'
  BY <1>1, <1>5, <1>6 DEF StreamLevel, StreamCopies, At
<1>9. StreamInv'
  BY <1>2, <1>7, <1>8 DEF StreamInv
<1>10. out' = Part(RingSize, buffer, readIndex, n)
  BY <1>3, <1>4 DEF AdvanceOut, Draining
<1> QED BY <1>1, <1>4, <1>5, <1>9, <1>10, StreamGets DEF At

LEMMA TakeBlockStep ==
  ASSUME StreamInv, kind \in ToSport, enabled, Available >= block, TakeBlock,
         UNCHANGED <<shape, enabled, pc, lock, task, writeIndex, next>>
  PROVE  StreamInv' /\ AsFifo
<1>1. ~At("flushed") /\ ~At("flushed")'
  BY DEF StreamInv, StreamLocks, At
<1>2. StreamLocks'
  BY DEF StreamInv, StreamLocks, At, task
<1>3. StreamTypes /\ Level \in Nat /\ Level <= RingSize /\ RingSize \in Nat /\ Level >= block
  BY <1>1, StreamIndices, StreamConstants DEF StreamInv, StreamLevel
<1>4. PICK n \in 1 .. RingSize : n = block /\ n <= Level
  BY <1>3 DEF StreamTypes
<1>5. /\ buffer' \in [0 .. RingSize - 1 -> Int] /\ readIndex' \in Cycle(RingSize)
      /\ readIndex' = After(RingSize, readIndex, n) /\ Level' = Level - n /\ Level' \in Nat
      /\ Level' <= RingSize
      /\ Part(RingSize, buffer', readIndex', Level - n)
           = Part(RingSize, buffer, readIndex', Level - n)
      /\ \A e \in Seq(Int) : Level + Len(e) <= RingSize /\ Holds(RingSize, buffer, writeIndex, e)
                               => Holds(RingSize, buffer', writeIndex, e)
  BY <1>1, <1>4, StreamTakes DEF TakeBlock
<1>6. StreamTypes'
  BY <1>3, <1>5 DEF StreamTypes, shape, task
<1>7. StreamLevel'
  BY <1>1, <1>5 DEF StreamLevel
<1>8. Filling => Filling'
  <2> SUFFICES ASSUME Filling PROVE Filling'
    OBVIOUS
  <2>1. chunk \in Seq(Int) /\ Len(chunk) \in Nat
    BY <1>3 DEF StreamTypes
  <2>2. Holds(RingSize, buffer', writeIndex, chunk)
    BY <1>5, <2>1 DEF Filling
  <2>3. Level' + Len(chunk) <= RingSize
    BY <1>3, <1>5, <2>1 DEF Filling
  <2> QED BY <2>2, <2>3 DEF Filling, Numbered, shape, task
<1>9. StreamCopies'
  BY <1>8 DEF StreamInv, StreamCopies, At, shape, task
<1>10. StreamInv'
  BY <1>2, <1>6, <1>7, <1>9 DEF StreamInv
<1>11. out' = Part(RingSize, buffer, readIndex, n)
  <2>1. n \in 0 .. RingSize
    BY <1>4
  <2> QED BY <1>3, <1>4, <2>1, StreamRing DEF TakeBlock, StreamTypes
<1> QED BY <1>1, <1>4, <1>5, <1>10, <1>11, StreamGets

LEMMA PutBlockStep ==
  ASSUME StreamInv, kind \notin ToSport, enabled, block <= Room,
         buffer' = WriteRegion(buffer, writeIndex, Numbered(block)),
         writeIndex' = bigMask(writeIndex + block), next' = (next + block) % Samples,
         UNCHANGED <<shape, enabled, pc, lock, task, readIndex, out>>
  PROVE  StreamInv' /\ AsFifo
<1>1. ~At("flushed") /\ ~At("flushed")'
  BY DEF StreamInv, StreamLocks, At
<1>2. StreamLocks'
  BY DEF StreamInv, StreamLocks, At, task
<1>3. /\ StreamTypes /\ Level \in Nat /\ Level <= RingSize /\ RingSize \in Nat /\ RingSize > 0
      /\ Room = RingSize - Level
      /\ readIndex \in Cycle(RingSize) /\ writeIndex \in Cycle(RingSize)
      /\ buffer \in [0 .. RingSize - 1 -> Int] /\ block \in Nat /\ block > 0
  BY <1>1, StreamIndices, StreamConstants DEF StreamInv, StreamLevel, StreamTypes
<1>4. PICK n \in 0 .. RingSize : n = block /\ Level + n <= RingSize
  BY <1>3
<1>5. PICK d, u : d = Numbered(n) /\ u = Level
  OBVIOUS
<1>6. d \in Seq(Int) /\ Len(d) = n /\ next' \in 0 .. Samples - 1
  BY <1>3, <1>4, <1>5, NumberedType
<1>7. Wrote(RingSize, buffer, writeIndex, d, buffer')
  BY <1>3, <1>4, <1>5, <1>6, StreamRing
<1>8. /\ buffer' \in [0 .. RingSize - 1 -> Int] /\ Holds(RingSize, buffer', writeIndex, d)
      /\ \A m \in 0 .. u : Part(RingSize, buffer', readIndex, m) = Part(RingSize, buffer, readIndex, m)
  <2>1. u = Used(RingSize, readIndex, writeIndex) /\ u + Len(d) <= RingSize
    BY <1>3, <1>4, <1>5, <1>6 DEF Level
  <2>2. PICK c : c = buffer'
    OBVIOUS
  <2>3. \A m \in 0 .. u : Part(RingSize, c, readIndex, m) = Part(RingSize, buffer, readIndex, m)
    <3>1. /\ Wrote(RingSize, buffer, writeIndex, d, c)
          /\ Used(RingSize, readIndex, writeIndex) + Len(d) <= RingSize
      BY <1>7, <2>1, <2>2
    <3>2. \A m \in 0 .. Used(RingSize, readIndex, writeIndex) :
            Part(RingSize, c, readIndex, m) = Part(RingSize, buffer, readIndex, m)
      BY <1>3, <1>6, <3>1, WroteKeeps
    <3> QED BY <2>1, <3>2
  <2> QED BY <1>7, <2>2, <2>3 DEF Wrote
<1>9. writeIndex' = After(RingSize, writeIndex, n) /\ writeIndex' \in Cycle(RingSize)
  BY <1>3, <1>4, StreamRing, IndexMoves
<1>10. Level' = Level + n
  BY <1>3, <1>4, <1>9, UsedMoves DEF Level
<1>11. StreamTypes'
  BY <1>3, <1>6, <1>8, <1>9 DEF StreamTypes, shape, task
<1>12. StreamLevel'
  BY <1>1, <1>4, <1>10 DEF StreamLevel
<1>13. Draining => Draining'
  <2> SUFFICES ASSUME Draining PROVE Draining'
    OBVIOUS
  <2>1. PICK m \in 0 .. u : m = Len(chunk)
    BY <1>3, <1>5 DEF Draining, StreamTypes
  <2>2. chunk = Part(RingSize, buffer', readIndex, m)
    BY <1>8, <2>1 DEF Draining
  <2>3. m <= Level'
    BY <1>3, <1>4, <1>5, <1>10, <2>1
  <2> QED BY <2>1, <2>2, <2>3 DEF Draining, shape, task
<1>14. StreamCopies'
  BY <1>3, <1>4, <1>10, <1>13 DEF StreamInv, StreamCopies, StreamTypes, At, shape, task
<1>15. StreamInv'
  BY <1>2, <1>11, <1>12, <1>14 DEF StreamInv
<1>16. Part(RingSize, buffer', readIndex, Level) = Part(RingSize, buffer, readIndex, Level)
  BY <1>3, <1>5, <1>8
<1> QED BY <1>1, <1>4, <1>5, <1>8, <1>10, <1>15, <1>16, StreamPuts

LEMMA SportStep == StreamInv /\ Sport => StreamInv' /\ AsFifo
<1> SUFFICES ASSUME StreamInv, Sport PROVE StreamInv' /\ AsFifo
  OBVIOUS
<1> USE DEF Sport
<1>1. StreamLocks' /\ pc' = pc
  BY DEF StreamInv, StreamLocks, At, task
<1>2. CASE xferWavSrcAudio
  BY <1>2, TakeBlockStep DEF xferWavSrcAudio, ToSport
<1>3. CASE xferRxAudio /\ Available >= block
  BY <1>3, TakeBlockStep DEF xferRxAudio, ToSport
<1>4. CASE xferSinkAudio /\ block <= Room /\ ~first
  BY <1>4, PutBlockStep DEF xferSinkAudio
<1>5. CASE UNCHANGED <<ring, next, out>>
  BY <1>1, <1>5, StreamAside
     DEF StreamInv, StreamTypes, At, shape, task, ring
<1> QED BY <1>2, <1>3, <1>4, <1>5 DEF xferRxAudio, xferSinkAudio, xferOff, ring

LEMMA StreamAnyStep == StreamInv /\ [PartsNext]_all => StreamInv' /\ AsFifo
<1> SUFFICES ASSUME StreamInv, [PartsNext]_all PROVE StreamInv' /\ AsFifo
  OBVIOUS
<1>1. CASE UNCHANGED vars
  <2>1. StreamLocks' /\ pc' = pc
    BY <1>1 DEF StreamInv, StreamLocks, At, vars
  <2>2. UNCHANGED <<kind, block, readIndex, writeIndex, buffer, next, out, chunk, seen, pkt, enabled>>
    BY <1>1 DEF vars, shape, ring, hist, task
  <2> QED BY <2>1, <2>2, StreamAside DEF StreamInv, StreamTypes, At
<1>2. CASE TaskStep
  BY <1>2, TakeStep, ReceiveStep, LookStep, TestStep, CopyInStep, AdvanceInStep, CopyOutStep,
     AdvanceOutStep, FlushStep, FlushedStep, GiveStep DEF TaskStep
<1>3. CASE \E sh \in Shells : ShellStep(sh)
  BY <1>3, CommandStep, LockShellStep, OpenStep, CloseStep DEF ShellStep
<1>4. CASE Sport
  BY <1>4, SportStep
<1>5. CASE PacketArrives
  BY <1>5, PacketStep
<1>6. Next \/ UNCHANGED vars
  BY DEF PartsNext, StreamStep, FilesStep, LogStep, SerialStep, TwiStep, UsbStep, EtherStep, Still, all
<1> QED BY <1>1, <1>2, <1>3, <1>4, <1>5, <1>6 DEF Next

LEMMA StreamStarts == PartsInit => StreamInv /\ Fifo!Init
<1> SUFFICES ASSUME Init PROVE StreamInv /\ Fifo!Init
  BY DEF PartsInit
<1> USE DEF Init
<1>1. pc[TaskId] = "take" /\ \A sh \in Shells : pc[sh] = "idle"
  BY StreamConstants
<1>2. StreamLocks
  BY <1>1, StreamConstants DEF StreamLocks, At, Turn
<1>3. StreamTypes
  <2>1. PICK s \in Shapes : kind = s[1] /\ block = s[2]
    OBVIOUS
  <2>2. <<kind, block>> = s
    BY <2>1, ShapeAssumption
  <2>3. /\ 0 \in Cycle(RingSize) /\ 0 \in 0 .. Samples - 1
        /\ [p \in 0 .. RingSize - 1 |-> Stale] \in [0 .. RingSize - 1 -> Int]
    BY StreamConstants DEF Stale, Cycle
  <2>4. kind \in AllKinds /\ block \in Nat /\ block > 0 /\ block <= RingSize
    BY <2>1, StreamConstants
  <2>5. chunk \in Seq(Int) /\ pkt \in Nat /\ seen \in Nat
    OBVIOUS
  <2> QED BY <2>2, <2>3, <2>4, <2>5 DEF StreamTypes
<1>4. Level = 0
  BY DEF Level, Used
<1>5. StreamLevel /\ StreamCopies
  BY <1>1, <1>4, StreamConstants DEF StreamLevel, StreamCopies, At
<1>6. StreamInv
  BY <1>2, <1>3, <1>5 DEF StreamInv
<1>7. StreamQueue = <<>>
  <2>1. Part(RingSize, buffer, readIndex, 0) = <<>>
    BY DEF Part
  <2> QED BY <1>1, <1>4, <1>6, <2>1, QueueIsPart DEF QueuePart, At
<1> QED BY <1>6, <1>7 DEF Fifo!Init, StreamQueue

\* The streams of the tasks implement SampleFifo, step by step.
LEMMA RingsAreFifos == PartsSpec => RingIsFifo
<1>1. StreamInv /\ [PartsNext]_all => StreamInv' /\ [Fifo!Next]_Fifo!fifoVars
  BY StreamAnyStep DEF AsFifo
<1> QED BY <1>1, StreamStarts, PTL DEF PartsSpec, RingIsFifo, Fifo!Spec

-----------------------------------------------------------------------------
(* The ring of USB audio (usb_audio.c)                                     *)

LEMMA UsbRing ==
  /\ UsbRingSize \in Nat /\ UsbRingSize > 0
  /\ \A r, w \in Cycle(UsbRingSize) :
       /\ Usb!ReadAvailable(r, w) = Used(UsbRingSize, r, w)
       /\ Usb!WriteAvailable(r, w) = UsbRingSize - Used(UsbRingSize, r, w)
  /\ \A i \in Cycle(UsbRingSize), n \in 0 .. UsbRingSize :
       /\ Usb!bigMask(i + n) = After(UsbRingSize, i, n)
       /\ \A b : Usb!ReadRegion(b, i, n) = Part(UsbRingSize, b, i, n)
  /\ \A b \in [0 .. UsbRingSize - 1 -> Int], i \in Cycle(UsbRingSize), d \in Seq(Int) :
       Len(d) <= UsbRingSize => Wrote(UsbRingSize, b, i, d, Usb!WriteRegion(b, i, d))
<1>1. UsbRingSize \in Nat /\ UsbRingSize > 0
  BY UsbAssumption
<1>2. \A r, w \in Cycle(UsbRingSize) : Usb!ReadAvailable(r, w) = Used(UsbRingSize, r, w)
  BY <1>1, Masked DEF Usb!ReadAvailable, Usb!bigMask
<1>3. \A i \in Cycle(UsbRingSize), n \in 0 .. UsbRingSize :
        Usb!bigMask(i + n) = After(UsbRingSize, i, n)
  BY <1>1, Masked DEF Usb!bigMask
<1>4. ASSUME NEW i \in Cycle(UsbRingSize), NEW n \in 0 .. UsbRingSize, NEW k \in 1 .. n
      PROVE  Usb!Region(i, n)[k] = Cell(UsbRingSize, i, k - 1)
  <2>1. k - 1 \in 0 .. UsbRingSize - 1 /\ i + k - 1 = i + (k - 1)
    BY <1>1 DEF Cycle
  <2>2. (i + (k - 1)) % UsbRingSize = Cell(UsbRingSize, i, k - 1)
    BY <1>1, <2>1, Masked
  <2> QED BY <2>1, <2>2 DEF Usb!Region, Usb!smallMask
<1>5. ASSUME NEW i \in Cycle(UsbRingSize), NEW n \in 0 .. UsbRingSize, NEW b
      PROVE  Usb!ReadRegion(b, i, n) = Part(UsbRingSize, b, i, n)
  BY <1>4 DEF Usb!ReadRegion, Part
<1>6. ASSUME NEW b \in [0 .. UsbRingSize - 1 -> Int], NEW i \in Cycle(UsbRingSize),
             NEW d \in Seq(Int), Len(d) <= UsbRingSize
      PROVE  Wrote(UsbRingSize, b, i, d, Usb!WriteRegion(b, i, d))
  <2>1. \A k \in 1 .. Len(d) : Usb!Region(i, Len(d))[k] = Cell(UsbRingSize, i, k - 1)
    BY <1>1, <1>4, <1>6
  <2>2. PICK g : g = Usb!Region(i, Len(d))
    OBVIOUS
  <2>3. \A k \in 1 .. Len(d) : g[k] = Cell(UsbRingSize, i, k - 1)
    BY <2>1, <2>2
  <2>4. Usb!WriteRegion(b, i, d) = Overwritten(b, d, g)
    BY <2>2 DEF Usb!WriteRegion, Overwritten
  <2>5. Wrote(UsbRingSize, b, i, d, Overwritten(b, d, g))
    BY <1>1, <1>6, <2>3, RegionWrites
  <2> QED BY <2>4, <2>5
<1> QED BY <1>1, <1>2, <1>3, <1>5, <1>6 DEF Usb!WriteAvailable

UsbLevel == Used(UsbRingSize, readAt, writeAt)

UsbTypes ==
  /\ dir \in {"out", "in"} /\ endpoint \in BOOLEAN /\ torn \in BOOLEAN
  /\ readAt \in Cycle(UsbRingSize) /\ writeAt \in Cycle(UsbRingSize)
  /\ frames \in [0 .. UsbRingSize - 1 -> Int]
  /\ sport \in {"idle", "copy", "advance"} /\ moving \in Seq(Int)
  /\ number \in 0 .. Frames - 1

\* What the SPORT has copied but not yet put, and what it has copied but not
\* yet taken.
UsbFilling ==
  /\ moving = Usb!InTurn(Len(moving)) /\ UsbLevel + Len(moving) <= UsbRingSize
  /\ Holds(UsbRingSize, frames, writeAt, moving)
UsbDraining ==
  /\ Len(moving) <= UsbLevel
  /\ moving = Part(UsbRingSize, frames, readAt, Len(moving))

\* A ring that is closed is empty, and no transfer of an open one survives it.
UsbUntorn ==
  /\ UsbLevel <= UsbRingSize
  /\ ~endpoint => readAt = writeAt
  /\ sport # "idle" => endpoint
  /\ sport = "advance" => IF dir = "in" THEN UsbFilling ELSE UsbDraining

UsbInv == UsbTypes /\ (torn \/ UsbUntorn)

UsbQueue == Usb!ReadRegion(frames, readAt, Usb!Waiting)
AsUsbFifo == Usb!UsbFifo!Next \/ UNCHANGED Usb!UsbFifo!fifoVars

LEMMA UsbConstants ==
  /\ UsbRingSize \in Nat /\ UsbRingSize > 0 /\ Frames \in Nat /\ Frames > UsbRingSize
  /\ Block \in Nat /\ Block > 0 /\ Block <= UsbRingSize
  /\ FillLevel \in Nat /\ FillLevel > 0 /\ FillLevel <= UsbRingSize
  /\ Nominal \in Nat /\ Nominal >= 2 /\ Nominal < FillLevel
BY UsbAssumption

LEMMA UsbIndices ==
  ASSUME UsbTypes
  PROVE  /\ UsbLevel \in Nat /\ Usb!Waiting = UsbLevel /\ Usb!Space = UsbRingSize - UsbLevel
         /\ UsbLevel = 0 <=> readAt = writeAt
BY UsbRing, UsedMoves DEF UsbTypes, UsbLevel, Usb!Waiting, Usb!Space

UsbPart == UsbQueue = Part(UsbRingSize, frames, readAt, UsbLevel)
UsbPlain == UsbTypes /\ UsbLevel <= UsbRingSize

LEMMA UsbQueueIsPart == UsbPlain => UsbPart
<1> SUFFICES ASSUME UsbPlain PROVE UsbPart
  OBVIOUS
<1>1. /\ UsbLevel \in 0 .. UsbRingSize /\ readAt \in Cycle(UsbRingSize)
      /\ Usb!Waiting = UsbLevel
  BY UsbIndices, UsbConstants DEF UsbPlain, UsbTypes
<1> QED BY <1>1, UsbRing DEF UsbQueue, UsbPart

LEMMA UsbQueueIsPartNext == UsbPlain' => UsbPart'
BY UsbQueueIsPart, PTL

LEMMA UsbFifoState == Usb!UsbFifo!fifoVars = <<endpoint, UsbQueue, number, got>>
BY DEF Usb!UsbFifo!fifoVars, UsbQueue

LEMMA InTurnType ==
  ASSUME UsbTypes, NEW n \in 0 .. UsbRingSize
  PROVE  /\ Usb!InTurn(n) \in Seq(Int) /\ Len(Usb!InTurn(n)) = n
         /\ Usb!UsbFifo!Numbered(n) = Usb!InTurn(n)
         /\ (number + n) % Frames \in 0 .. Frames - 1
         /\ n = 0 => (number + n) % Frames = number
<1>1. number \in Nat /\ number < Frames /\ n \in Nat /\ n < Frames /\ Frames \in Nat /\ Frames > 0
  BY UsbConstants DEF UsbTypes
<1>2. ASSUME NEW k \in 1 .. n PROVE (number + k - 1) % Frames \in Int
  BY <1>1
<1>3. Usb!InTurn(n) \in [1 .. n -> Int]
  BY <1>2 DEF Usb!InTurn
<1>4. Usb!InTurn(n) \in Seq(Int) /\ Len(Usb!InTurn(n)) = n
  <2>1. DOMAIN Usb!InTurn(n) = 1 .. n
    BY DEF Usb!InTurn
  <2> HIDE DEF Usb!InTurn
  <2> QED BY <1>1, <1>3, <2>1
<1>5. (number + n) % Frames \in 0 .. Frames - 1 /\ (n = 0 => (number + n) % Frames = number)
  BY <1>1
<1> QED BY <1>4, <1>5 DEF Usb!InTurn, Usb!UsbFifo!Numbered

\* A step that leaves the ring alone, one that puts frames, one that takes them.
LEMMA UsbStutters ==
  ASSUME UNCHANGED <<endpoint, readAt, writeAt, frames, number, got>>
  PROVE  AsUsbFifo
<1>1. UsbQueue' = UsbQueue
  BY DEF UsbQueue, Usb!Waiting
<1>2. UNCHANGED Usb!UsbFifo!fifoVars
  BY <1>1, UsbFifoState DEF UsbQueue, Usb!UsbFifo!fifoVars
<1> QED BY <1>2 DEF AsUsbFifo

LEMMA UsbPuts ==
  ASSUME UsbPlain, UsbPlain', endpoint, endpoint' = endpoint, NEW n \in 0 .. UsbRingSize,
         UsbLevel + n <= UsbRingSize, UsbLevel' = UsbLevel + n, readAt' = readAt,
         Part(UsbRingSize, frames', readAt, UsbLevel) = Part(UsbRingSize, frames, readAt, UsbLevel),
         Holds(UsbRingSize, frames', writeAt, Usb!InTurn(n)),
         number' = (number + n) % Frames, got' = got
  PROVE  AsUsbFifo
<1>1. /\ UsbTypes /\ UsbLevel \in Nat /\ UsbLevel <= UsbRingSize
      /\ readAt \in Cycle(UsbRingSize) /\ writeAt \in Cycle(UsbRingSize)
      /\ UsbRingSize \in Nat /\ UsbRingSize > 0
      /\ frames \in [0 .. UsbRingSize - 1 -> Int] /\ frames' \in [0 .. UsbRingSize - 1 -> Int]
  BY UsbIndices, UsbConstants DEF UsbPlain, UsbTypes
<1>2. /\ Usb!InTurn(n) \in Seq(Int) /\ Len(Usb!InTurn(n)) = n
      /\ Usb!UsbFifo!Numbered(n) = Usb!InTurn(n)
      /\ n = 0 => (number + n) % Frames = number
  BY <1>1, InTurnType
<1>3. PICK d, c, u : d = Usb!InTurn(n) /\ c = frames' /\ u = UsbLevel
  OBVIOUS
<1>4. Part(UsbRingSize, c, readAt, u + n) = Part(UsbRingSize, c, readAt, u) \o d
  <2>1. /\ c \in [0 .. UsbRingSize - 1 -> Int] /\ d \in Seq(Int) /\ Len(d) = n
        /\ u = Used(UsbRingSize, readAt, writeAt) /\ u + Len(d) <= UsbRingSize
        /\ Holds(UsbRingSize, c, writeAt, d)
    BY <1>1, <1>2, <1>3 DEF UsbLevel
  <2>2. Part(UsbRingSize, c, readAt, Used(UsbRingSize, readAt, writeAt) + Len(d))
          = Part(UsbRingSize, c, readAt, Used(UsbRingSize, readAt, writeAt)) \o d
    BY <1>1, <2>1, HeldIsAppended
  <2> QED BY <2>1, <2>2
<1>5. /\ UsbQueue = Part(UsbRingSize, frames, readAt, UsbLevel)
      /\ UsbQueue' = Part(UsbRingSize, frames', readAt', UsbLevel')
  BY UsbQueueIsPart, UsbQueueIsPartNext DEF UsbPart
<1>6. UsbQueue' = UsbQueue \o d
  BY <1>3, <1>4, <1>5
<1>7. UsbQueue \in Seq(Int) /\ Len(UsbQueue) = UsbLevel
  <2>1. u \in 0 .. UsbRingSize
    BY <1>1, <1>3
  <2>2. /\ Part(UsbRingSize, frames, readAt, u) \in Seq(Int)
        /\ Len(Part(UsbRingSize, frames, readAt, u)) = u
    BY <1>1, <2>1, PartType
  <2> QED BY <1>3, <1>5, <2>2
<1>8. CASE n = 0
  <2>1. d = <<>>
    BY <1>2, <1>3, <1>8
  <2>2. UsbQueue' = UsbQueue /\ number' = number
    BY <1>2, <1>6, <1>7, <1>8, <2>1, ConcatEmptySeq
  <2>3. UNCHANGED Usb!UsbFifo!fifoVars
    BY <2>2, UsbFifoState DEF Usb!UsbFifo!fifoVars, UsbQueue
  <2> QED BY <2>3 DEF AsUsbFifo
<1>9. CASE n > 0
  <2>1. Usb!UsbFifo!Put(n)
    BY <1>2, <1>3, <1>6, <1>7 DEF Usb!UsbFifo!Put, UsbQueue
  <2>2. n \in 1 .. UsbRingSize
    BY <1>9
  <2> QED BY <2>1, <2>2 DEF AsUsbFifo, Usb!UsbFifo!Next
<1> QED BY <1>8, <1>9

LEMMA UsbGets ==
  ASSUME UsbPlain, UsbPlain', endpoint, endpoint' = endpoint, NEW n \in 1 .. UsbRingSize,
         n <= UsbLevel, UsbLevel' = UsbLevel - n, readAt' = After(UsbRingSize, readAt, n),
         frames' = frames, got' = Part(UsbRingSize, frames, readAt, n), number' = number
  PROVE  AsUsbFifo
<1>1. /\ UsbTypes /\ UsbLevel \in Nat /\ UsbLevel <= UsbRingSize /\ readAt \in Cycle(UsbRingSize)
      /\ UsbRingSize \in Nat /\ UsbRingSize > 0 /\ frames \in [0 .. UsbRingSize - 1 -> Int]
  BY UsbIndices, UsbConstants DEF UsbPlain, UsbTypes
<1>2. /\ UsbQueue = Part(UsbRingSize, frames, readAt, UsbLevel)
      /\ UsbQueue' = Part(UsbRingSize, frames, readAt', UsbLevel - n)
  BY UsbQueueIsPart, UsbQueueIsPartNext DEF UsbPart
<1>3. PICK u \in 0 .. UsbRingSize : u = UsbLevel /\ n \in 0 .. u
  BY <1>1
<1>4. /\ Len(Part(UsbRingSize, frames, readAt, u)) = u
      /\ SubSeq(Part(UsbRingSize, frames, readAt, u), 1, n) = Part(UsbRingSize, frames, readAt, n)
      /\ SubSeq(Part(UsbRingSize, frames, readAt, u), n + 1, u)
           = Part(UsbRingSize, frames, After(UsbRingSize, readAt, n), u - n)
  BY <1>1, <1>3, PartType, PartSplits
<1>5. /\ Len(UsbQueue) = u /\ SubSeq(UsbQueue, 1, n) = got'
      /\ SubSeq(UsbQueue, n + 1, Len(UsbQueue)) = UsbQueue'
  BY <1>2, <1>3, <1>4
<1>6. Usb!UsbFifo!Get(n)
  BY <1>3, <1>5 DEF Usb!UsbFifo!Get, UsbQueue
<1> QED BY <1>6 DEF AsUsbFifo, Usb!UsbFifo!Next

\* What storing frames at the write index does, and moving the read index.
LEMMA UsbStores ==
  ASSUME UsbPlain, NEW d \in Seq(Int), UsbLevel + Len(d) <= UsbRingSize
  PROVE  /\ Wrote(UsbRingSize, frames, writeAt, d, Usb!WriteRegion(frames, writeAt, d))
         /\ \A c : Wrote(UsbRingSize, frames, writeAt, d, c) =>
              \A m \in 0 .. UsbLevel : Part(UsbRingSize, c, readAt, m)
                                         = Part(UsbRingSize, frames, readAt, m)
         /\ Usb!bigMask(writeAt + Len(d)) = After(UsbRingSize, writeAt, Len(d))
         /\ After(UsbRingSize, writeAt, Len(d)) \in Cycle(UsbRingSize)
         /\ Used(UsbRingSize, readAt, After(UsbRingSize, writeAt, Len(d))) = UsbLevel + Len(d)
<1>1. /\ UsbTypes /\ UsbLevel \in Nat /\ UsbLevel <= UsbRingSize
      /\ readAt \in Cycle(UsbRingSize) /\ writeAt \in Cycle(UsbRingSize)
      /\ UsbRingSize \in Nat /\ UsbRingSize > 0 /\ frames \in [0 .. UsbRingSize - 1 -> Int]
  BY UsbIndices, UsbConstants DEF UsbPlain, UsbTypes
<1>2. PICK n \in 0 .. UsbRingSize : n = Len(d)
  BY <1>1
<1>3. Wrote(UsbRingSize, frames, writeAt, d, Usb!WriteRegion(frames, writeAt, d))
  BY <1>1, <1>2, UsbRing
<1>4. ASSUME NEW c, Wrote(UsbRingSize, frames, writeAt, d, c)
      PROVE  \A m \in 0 .. UsbLevel : Part(UsbRingSize, c, readAt, m)
                                        = Part(UsbRingSize, frames, readAt, m)
  BY <1>1, <1>4, WroteKeeps DEF UsbLevel
<1>5. /\ Usb!bigMask(writeAt + n) = After(UsbRingSize, writeAt, n)
      /\ After(UsbRingSize, writeAt, n) \in Cycle(UsbRingSize)
  BY <1>1, UsbRing, IndexMoves
<1>6. Used(UsbRingSize, readAt, After(UsbRingSize, writeAt, n)) = UsbLevel + n
  BY <1>1, <1>2, UsedMoves DEF UsbLevel
<1> QED BY <1>2, <1>3, <1>4, <1>5, <1>6

LEMMA UsbLoads ==
  ASSUME UsbPlain, NEW n \in 0 .. UsbRingSize, n <= UsbLevel
  PROVE  /\ Usb!ReadRegion(frames, readAt, n) = Part(UsbRingSize, frames, readAt, n)
         /\ Part(UsbRingSize, frames, readAt, n) \in Seq(Int)
         /\ Len(Part(UsbRingSize, frames, readAt, n)) = n
         /\ Usb!bigMask(readAt + n) = After(UsbRingSize, readAt, n)
         /\ After(UsbRingSize, readAt, n) \in Cycle(UsbRingSize)
         /\ Used(UsbRingSize, After(UsbRingSize, readAt, n), writeAt) = UsbLevel - n
<1>1. /\ UsbTypes /\ UsbLevel \in Nat /\ UsbLevel <= UsbRingSize
      /\ readAt \in Cycle(UsbRingSize) /\ writeAt \in Cycle(UsbRingSize)
      /\ UsbRingSize \in Nat /\ UsbRingSize > 0 /\ frames \in [0 .. UsbRingSize - 1 -> Int]
  BY UsbIndices, UsbConstants DEF UsbPlain, UsbTypes
<1>2. /\ Usb!ReadRegion(frames, readAt, n) = Part(UsbRingSize, frames, readAt, n)
      /\ Usb!bigMask(readAt + n) = After(UsbRingSize, readAt, n)
      /\ After(UsbRingSize, readAt, n) \in Cycle(UsbRingSize)
  BY <1>1, UsbRing, IndexMoves
<1>3. Used(UsbRingSize, After(UsbRingSize, readAt, n), writeAt) = UsbLevel - n
  BY <1>1, UsedMoves DEF UsbLevel
<1> QED BY <1>1, <1>2, <1>3, PartType

LEMMA UsbLooks ==
  ASSUME UsbInv, ~torn, Usb!xferUsbRxAudio \/ Usb!xferUsbTxAudio
  PROVE  UsbInv' /\ AsUsbFifo
<1>1. /\ UNCHANGED <<dir, endpoint, readAt, writeAt, frames, moving, number, got, torn>>
      /\ sport' \in {"idle", "copy"}
  BY DEF Usb!xferUsbRxAudio, Usb!xferUsbTxAudio, Usb!usbRing
<1>2. sport' = "copy" => endpoint
  <2>1. CASE Usb!xferUsbTxAudio
    BY <2>1 DEF Usb!xferUsbTxAudio
  <2>2. CASE Usb!xferUsbRxAudio
    <3>1. UsbLevel = 0 => sport' = "idle"
      BY <2>2, UsbIndices, UsbConstants DEF UsbInv, Usb!xferUsbRxAudio, Usb!RollsAfter
    <3> QED BY <3>1, UsbIndices DEF UsbInv, UsbUntorn
  <2> QED BY <2>1, <2>2
<1>3. UsbTypes'
  BY <1>1 DEF UsbInv, UsbTypes
<1>4. UsbUntorn'
  BY <1>1, <1>2 DEF UsbInv, UsbUntorn, UsbLevel
<1> QED BY <1>1, <1>3, <1>4, UsbStutters DEF UsbInv

LEMMA CopyBlockStep ==
  ASSUME UsbInv, ~torn, Usb!CopyBlock PROVE UsbInv' /\ AsUsbFifo
<1>1. /\ UNCHANGED <<dir, endpoint, readAt, writeAt, number, got, torn>>
      /\ sport = "copy" /\ sport' = "advance" /\ endpoint
  BY DEF UsbInv, UsbUntorn, Usb!CopyBlock
<1>2. /\ UsbTypes /\ UsbPlain /\ UsbLevel \in Nat /\ UsbLevel <= UsbRingSize
      /\ Usb!Waiting = UsbLevel /\ Usb!Space = UsbRingSize - UsbLevel
      /\ UsbRingSize \in Nat /\ Block \in Nat /\ Block <= UsbRingSize
  BY UsbIndices, UsbConstants DEF UsbInv, UsbUntorn, UsbPlain
<1>3. UsbLevel' = UsbLevel
  BY <1>1 DEF UsbLevel
<1>4. CASE dir = "out"
  <2>1. PICK n \in 0 .. UsbRingSize : n = Usb!AtMost(Block, Usb!Waiting) /\ n <= UsbLevel
    BY <1>2 DEF Usb!AtMost
  <2>2. /\ moving' = Part(UsbRingSize, frames, readAt, n) /\ moving' \in Seq(Int)
        /\ Len(moving') = n /\ frames' = frames
    BY <1>2, <1>4, <2>1, UsbLoads DEF Usb!CopyBlock
  <2>3. UsbTypes'
    BY <1>1, <1>2, <2>2 DEF UsbTypes
  <2>4. UsbDraining'
    BY <1>1, <1>3, <2>1, <2>2 DEF UsbDraining
  <2>5. UsbUntorn'
    BY <1>1, <1>2, <1>3, <1>4, <2>4 DEF UsbUntorn
  <2> QED BY <1>1, <2>2, <2>3, <2>5, UsbStutters DEF UsbInv
<1>5. CASE dir = "in"
  <2>1. PICK n \in 0 .. UsbRingSize : n = Usb!AtMost(Block, Usb!Space) /\ UsbLevel + n <= UsbRingSize
    BY <1>2 DEF Usb!AtMost
  <2>2. PICK d, c : d = moving' /\ c = frames'
    OBVIOUS
  <2>3. /\ d = Usb!InTurn(n) /\ d \in Seq(Int) /\ Len(d) = n
        /\ c = Usb!WriteRegion(frames, writeAt, d)
    BY <1>2, <1>5, <2>1, <2>2, InTurnType DEF Usb!CopyBlock
  <2>4. Wrote(UsbRingSize, frames, writeAt, d, c)
        /\ \A m \in 0 .. UsbLevel : Part(UsbRingSize, c, readAt, m)
                                      = Part(UsbRingSize, frames, readAt, m)
    BY <1>2, <2>1, <2>3, UsbStores
  <2>5. UsbTypes'
    BY <1>1, <1>2, <2>2, <2>3, <2>4 DEF UsbTypes, Wrote
  <2>6. UsbFilling'
    <3>1. Usb!InTurn(n)' = Usb!InTurn(n)
      BY <1>1 DEF Usb!InTurn
    <3>2. moving' = Usb!InTurn(Len(moving))'
      BY <1>1, <2>2, <2>3 DEF Usb!InTurn
    <3>3. Holds(UsbRingSize, frames', writeAt', moving')
      BY <1>1, <2>2, <2>4 DEF Wrote
    <3> QED BY <1>3, <2>1, <2>2, <2>3, <3>2, <3>3 DEF UsbFilling
  <2>7. UsbUntorn'
    BY <1>1, <1>2, <1>3, <1>5, <2>6 DEF UsbUntorn
  <2>8. UsbQueue' = UsbQueue
    <3>1. UsbPlain'
      BY <1>2, <1>3, <2>5 DEF UsbPlain
    <3>2. Part(UsbRingSize, c, readAt, UsbLevel) = Part(UsbRingSize, frames, readAt, UsbLevel)
      BY <1>2, <2>4
    <3> QED BY <1>1, <1>2, <1>3, <2>2, <3>1, <3>2, UsbQueueIsPart, UsbQueueIsPartNext DEF UsbPart
  <2>9. UNCHANGED Usb!UsbFifo!fifoVars
    BY <1>1, <2>8, UsbFifoState DEF Usb!UsbFifo!fifoVars, UsbQueue
  <2> QED BY <1>1, <2>5, <2>7, <2>9 DEF UsbInv, AsUsbFifo
<1> QED BY <1>2, <1>4, <1>5 DEF UsbTypes

LEMMA AdvanceBlockStep ==
  ASSUME UsbInv, ~torn, Usb!AdvanceBlock PROVE UsbInv' /\ AsUsbFifo
<1>1. /\ UNCHANGED <<dir, endpoint, frames, torn>> /\ moving' = <<>>
      /\ sport = "advance" /\ sport' = "idle" /\ endpoint
  BY DEF UsbInv, UsbUntorn, Usb!AdvanceBlock
<1>2. /\ UsbTypes /\ UsbPlain /\ UsbLevel \in Nat /\ UsbLevel <= UsbRingSize
      /\ UsbRingSize \in Nat /\ Len(moving) \in Nat /\ moving \in Seq(Int)
  BY UsbIndices, UsbConstants DEF UsbInv, UsbUntorn, UsbPlain, UsbTypes
<1>3. PICK n : n = Len(moving)
  OBVIOUS
<1>4. CASE dir = "out"
  <2>1. /\ n \in 0 .. UsbRingSize /\ n <= UsbLevel /\ moving = Part(UsbRingSize, frames, readAt, n)
        /\ UNCHANGED <<writeAt, number>>
    BY <1>1, <1>2, <1>3, <1>4 DEF UsbInv, UsbUntorn, UsbDraining, Usb!AdvanceBlock
  <2>2. /\ readAt' = After(UsbRingSize, readAt, n) /\ readAt' \in Cycle(UsbRingSize)
        /\ UsbLevel' = UsbLevel - n
    BY <1>2, <1>3, <1>4, <2>1, UsbLoads DEF Usb!AdvanceBlock, UsbLevel
  <2>3. UsbTypes'
    BY <1>1, <1>2, <2>1, <2>2 DEF UsbTypes
  <2>4. UsbUntorn' /\ UsbPlain'
    BY <1>1, <1>2, <2>1, <2>2, <2>3 DEF UsbUntorn, UsbPlain
  <2>5. CASE n = 0
    <3>1. readAt' = readAt /\ got' = got
      <4>1. moving = <<>>
        <5>1. Len(moving) = 0
          BY <1>3, <2>5
        <5> QED BY <1>2, <5>1, EmptySeq
      <4>2. After(UsbRingSize, readAt, 0) = readAt
        BY <1>2, UsbConstants DEF After, Cycle, UsbTypes
      <4> QED BY <1>4, <2>2, <2>5, <4>1, <4>2 DEF Usb!AdvanceBlock
    <3> QED BY <1>1, <2>1, <2>3, <2>4, <3>1, UsbStutters DEF UsbInv
  <2>6. CASE n > 0
    <3>1. n \in 1 .. UsbRingSize
      BY <2>1, <2>6
    <3>2. got' = Part(UsbRingSize, frames, readAt, n)
      BY <1>2, <1>3, <1>4, <2>1, <2>6 DEF Usb!AdvanceBlock
    <3> QED BY <1>1, <1>2, <2>1, <2>2, <2>3, <2>4, <3>1, <3>2, UsbGets DEF UsbInv
  <2> QED BY <2>1, <2>5, <2>6
<1>5. CASE dir = "in"
  <2>1. /\ n \in 0 .. UsbRingSize /\ UsbLevel + n <= UsbRingSize /\ moving = Usb!InTurn(n)
        /\ Holds(UsbRingSize, frames, writeAt, moving) /\ UNCHANGED <<readAt, got>>
    BY <1>1, <1>2, <1>3, <1>5 DEF UsbInv, UsbUntorn, UsbFilling, Usb!AdvanceBlock
  <2>2. /\ writeAt' = After(UsbRingSize, writeAt, n) /\ writeAt' \in Cycle(UsbRingSize)
        /\ UsbLevel' = UsbLevel + n
    BY <1>2, <1>3, <1>5, <2>1, UsbStores DEF Usb!AdvanceBlock, UsbLevel
  <2>3. number' = (number + n) % Frames /\ number' \in 0 .. Frames - 1
    BY <1>2, <1>3, <1>5, <2>1, InTurnType DEF Usb!AdvanceBlock
  <2>4. UsbTypes'
    BY <1>1, <1>2, <2>1, <2>2, <2>3 DEF UsbTypes
  <2>5. UsbUntorn' /\ UsbPlain'
    BY <1>1, <1>2, <2>1, <2>2, <2>4 DEF UsbUntorn, UsbPlain
  <2> QED BY <1>1, <1>2, <2>1, <2>2, <2>3, <2>4, <2>5, UsbPuts DEF UsbInv
<1> QED BY <1>2, <1>4, <1>5 DEF UsbTypes

LEMMA uac2RxStep ==
  ASSUME UsbInv, ~torn, Usb!uac2Rx, UNCHANGED <<dir, endpoint, sport, moving, torn>>
  PROVE  UsbInv' /\ AsUsbFifo
<1>1. dir = "out" /\ endpoint /\ UNCHANGED <<readAt, got>>
  BY DEF Usb!uac2Rx
<1>2. /\ UsbTypes /\ UsbPlain /\ UsbLevel \in Nat /\ UsbLevel <= UsbRingSize
      /\ Usb!Space = UsbRingSize - UsbLevel /\ UsbRingSize \in Nat
      /\ Nominal \in Nat /\ Nominal >= 2
  BY UsbIndices, UsbConstants DEF UsbInv, UsbUntorn, UsbPlain
<1>3. PICK n \in Nominal - 1 .. Nominal + 1 :
        /\ Usb!Space >= n /\ frames' = Usb!WriteRegion(frames, writeAt, Usb!InTurn(n))
        /\ writeAt' = Usb!bigMask(writeAt + n) /\ number' = (number + n) % Frames
  BY DEF Usb!uac2Rx
<1>4. n \in 0 .. UsbRingSize /\ UsbLevel + n <= UsbRingSize
  BY <1>2, <1>3
<1>5. PICK d, c : d = Usb!InTurn(n) /\ c = frames'
  OBVIOUS
<1>6. d \in Seq(Int) /\ Len(d) = n /\ number' \in 0 .. Frames - 1
  BY <1>2, <1>3, <1>4, <1>5, InTurnType
<1>7. /\ Wrote(UsbRingSize, frames, writeAt, d, c)
      /\ \A m \in 0 .. UsbLevel : Part(UsbRingSize, c, readAt, m) = Part(UsbRingSize, frames, readAt, m)
      /\ writeAt' = After(UsbRingSize, writeAt, n) /\ writeAt' \in Cycle(UsbRingSize)
      /\ UsbLevel' = UsbLevel + n
  BY <1>1, <1>2, <1>3, <1>4, <1>5, <1>6, UsbStores DEF UsbLevel
<1>8. UsbTypes'
  BY <1>1, <1>2, <1>5, <1>6, <1>7 DEF UsbTypes, Wrote
<1>9. UsbDraining => UsbDraining'
  <2> SUFFICES ASSUME UsbDraining PROVE UsbDraining'
    OBVIOUS
  <2>1. PICK m \in 0 .. UsbLevel : m = Len(moving)
    BY <1>2 DEF UsbDraining, UsbTypes
  <2> QED BY <1>1, <1>2, <1>4, <1>5, <1>7, <2>1 DEF UsbDraining
<1>10. UsbUntorn' /\ UsbPlain'
  BY <1>1, <1>2, <1>4, <1>7, <1>8, <1>9 DEF UsbInv, UsbUntorn, UsbPlain
<1>11. /\ Part(UsbRingSize, frames', readAt, UsbLevel) = Part(UsbRingSize, frames, readAt, UsbLevel)
       /\ Holds(UsbRingSize, frames', writeAt, Usb!InTurn(n))
  BY <1>2, <1>5, <1>7 DEF Wrote
<1> QED BY <1>1, <1>2, <1>3, <1>4, <1>7, <1>8, <1>10, <1>11, UsbPuts DEF UsbInv

LEMMA uac2TxStep ==
  ASSUME UsbInv, ~torn, Usb!uac2Tx, UNCHANGED <<dir, endpoint, sport, moving, torn>>
  PROVE  UsbInv' /\ AsUsbFifo
<1>1. dir = "in" /\ endpoint /\ UNCHANGED <<writeAt, frames, number>>
  BY DEF Usb!uac2Tx
<1>2. /\ UsbTypes /\ UsbPlain /\ UsbLevel \in Nat /\ UsbLevel <= UsbRingSize
      /\ Usb!Waiting = UsbLevel /\ UsbRingSize \in Nat
      /\ Nominal \in Nat /\ Nominal >= 2 /\ FillLevel \in Nat /\ FillLevel > 0
  BY UsbIndices, UsbConstants DEF UsbInv, UsbUntorn, UsbPlain
<1>3. CASE UNCHANGED <<readAt, got>>
  <2>1. UsbTypes'
    BY <1>1, <1>2, <1>3 DEF UsbTypes
  <2>2. UsbUntorn'
    BY <1>1, <1>3 DEF UsbInv, UsbUntorn, UsbLevel, UsbFilling, Usb!InTurn
  <2> QED BY <1>1, <1>3, <2>1, <2>2, UsbStutters DEF UsbInv
<1>4. CASE ~preRolling' /\ ~UNCHANGED <<readAt, got>>
  <2>1. UsbLevel > 0
    <3>1. ~(Usb!Waiting < FillLevel) \/ ~(Usb!Waiting < Nominal)
      BY <1>4, Zenon DEF Usb!uac2Tx
    <3> QED BY <1>2, <3>1
  <2>2. PICK n \in Nominal - 1 .. Nominal + 1 :
          /\ got' = Usb!ReadRegion(frames, readAt, Usb!AtMost(n, Usb!Waiting))
          /\ readAt' = Usb!bigMask(readAt + Len(got'))
    <3>1. Nominal \in Nominal - 1 .. Nominal + 1
      BY <1>2
    <3> QED BY <1>4, <3>1 DEF Usb!uac2Tx
  <2>3. PICK m \in 1 .. UsbRingSize : m = Usb!AtMost(n, Usb!Waiting) /\ m <= UsbLevel
    BY <1>2, <2>1 DEF Usb!AtMost
  <2>4. m \in 0 .. UsbRingSize
    BY <2>3
  <2>5. /\ got' = Part(UsbRingSize, frames, readAt, m) /\ readAt' = After(UsbRingSize, readAt, m)
        /\ readAt' \in Cycle(UsbRingSize) /\ UsbLevel' = UsbLevel - m
    BY <1>1, <1>2, <2>2, <2>3, <2>4, UsbLoads DEF UsbLevel
  <2>6. UsbTypes'
    BY <1>1, <1>2, <2>5 DEF UsbTypes
  <2>7. UsbFilling => UsbFilling'
    <3>1. Len(moving) \in Nat
      BY <1>2 DEF UsbTypes
    <3> QED BY <1>1, <1>2, <2>3, <2>5, <3>1 DEF UsbFilling, Usb!InTurn
  <2>8. UsbUntorn' /\ UsbPlain'
    BY <1>1, <1>2, <2>3, <2>5, <2>6, <2>7 DEF UsbInv, UsbUntorn, UsbPlain
  <2> QED BY <1>1, <1>2, <2>3, <2>5, <2>6, <2>8, UsbGets DEF UsbInv
<1> QED BY <1>3, <1>4 DEF Usb!uac2Tx

\* A transfer that a flush meets is the end of what is claimed.
LEMMA EndpointStep ==
  ASSUME UsbInv, ~torn, Usb!uac2EndpointEnabled PROVE UsbInv' /\ (torn' \/ AsUsbFifo)
<1>1. /\ UNCHANGED <<dir, sport, moving, number, got>> /\ endpoint' \in BOOLEAN
      /\ UsbTypes /\ UsbUntorn
  BY DEF UsbInv, Usb!uac2EndpointEnabled
<1>2. CASE UNCHANGED <<readAt, writeAt, frames, torn>> /\ endpoint'
  <2>1. UsbTypes'
    BY <1>1, <1>2 DEF UsbTypes
  <2>2. UsbUntorn'
    BY <1>1, <1>2 DEF UsbUntorn, UsbLevel, UsbFilling, UsbDraining, Usb!InTurn
  <2>3. UsbQueue' = UsbQueue
    BY <1>2 DEF UsbQueue, Usb!Waiting
  <2>4. AsUsbFifo
    <3>1. CASE endpoint
      BY <1>1, <1>2, <3>1, UsbStutters DEF UsbTypes
    <3>2. CASE ~endpoint
      <4>1. Usb!UsbFifo!Switch
        BY <1>1, <1>2, <2>3, <3>2 DEF Usb!UsbFifo!Switch, UsbQueue
      <4> QED BY <4>1 DEF AsUsbFifo, Usb!UsbFifo!Next
    <3> QED BY <3>1, <3>2
  <2> QED BY <1>2, <2>1, <2>2, <2>4 DEF UsbInv
<1>3. CASE ~endpoint' /\ readAt' = 0 /\ writeAt' = 0 /\ torn' = (sport # "idle")
           /\ frames' = [s \in 0 .. UsbRingSize - 1 |-> 0]
  <2>1. UsbTypes'
    <3>1. 0 \in Cycle(UsbRingSize) /\ torn' \in BOOLEAN
      BY <1>3, UsbConstants DEF Cycle
    <3> QED BY <1>1, <1>3, <3>1 DEF UsbTypes
  <2>2. UsbLevel' = 0
    BY <1>3 DEF UsbLevel, Used
  <2>3. torn' \/ UsbUntorn'
    <3>1. torn' \/ sport' = "idle"
      BY <1>1, <1>3, Zenon
    <3> QED BY <1>3, <2>2, <3>1, UsbConstants DEF UsbUntorn
  <2>4. UsbQueue' = <<>>
    <3>1. UsbPlain'
      BY <2>1, <2>2, UsbConstants DEF UsbPlain
    <3>2. Part(UsbRingSize, frames', readAt', 0) = <<>>
      BY DEF Part
    <3> QED BY <2>2, <3>1, <3>2, UsbQueueIsPartNext DEF UsbPart
  <2>5. AsUsbFifo
    <3>1. CASE endpoint
      <4>1. Usb!UsbFifo!Switch
        BY <1>1, <1>3, <2>4, <3>1 DEF Usb!UsbFifo!Switch, UsbQueue, UsbTypes
      <4> QED BY <4>1 DEF AsUsbFifo, Usb!UsbFifo!Next
    <3>2. CASE ~endpoint
      <4>1. Usb!UsbFifo!Clear
        BY <1>1, <1>3, <2>4, <3>2 DEF Usb!UsbFifo!Clear, UsbQueue, UsbTypes
      <4> QED BY <4>1 DEF AsUsbFifo, Usb!UsbFifo!Next
    <3> QED BY <3>1, <3>2
  <2> QED BY <2>1, <2>3, <2>5 DEF UsbInv
<1> QED BY <1>2, <1>3 DEF Usb!uac2EndpointEnabled

LEMMA UsbAnyStep == UsbInv /\ [PartsNext]_all => UsbInv' /\ (torn' \/ AsUsbFifo)
<1> SUFFICES ASSUME UsbInv, [PartsNext]_all PROVE UsbInv' /\ (torn' \/ AsUsbFifo)
  OBVIOUS
<1>1. CASE UNCHANGED usbAudio
  <2>1. UsbTypes'
    BY <1>1 DEF usbAudio, UsbInv, UsbTypes
  <2>2. UsbUntorn => UsbUntorn'
    BY <1>1 DEF usbAudio, UsbUntorn, UsbLevel, UsbFilling, UsbDraining, Usb!InTurn
  <2>3. torn' = torn
    BY <1>1 DEF usbAudio
  <2> QED BY <1>1, <2>1, <2>2, <2>3, UsbStutters DEF usbAudio, UsbInv
<1>2. CASE ~torn /\ Usb!SportStep
  BY <1>2, UsbLooks, CopyBlockStep, AdvanceBlockStep DEF Usb!SportStep
<1>3. CASE ~torn /\ Usb!UsbPacket
  BY <1>3, uac2RxStep, uac2TxStep DEF Usb!UsbPacket
<1>4. CASE ~torn /\ Usb!uac2EndpointEnabled
  BY <1>4, EndpointStep
<1>5. Usb!UsbNext \/ UNCHANGED usbAudio
  BY DEF PartsNext, StreamStep, FilesStep, LogStep, SerialStep, TwiStep, UsbStep, EtherStep, Still, all
<1> QED BY <1>1, <1>2, <1>3, <1>4, <1>5 DEF Usb!UsbNext

LEMMA UsbStarts == PartsInit => UsbInv
<1> SUFFICES ASSUME Usb!UsbInit PROVE UsbInv
  BY DEF PartsInit
<1> USE DEF Usb!UsbInit
<1>1. UsbTypes
  <2>1. /\ 0 \in Cycle(UsbRingSize) /\ 0 \in 0 .. Frames - 1
        /\ [s \in 0 .. UsbRingSize - 1 |-> 0] \in [0 .. UsbRingSize - 1 -> Int]
    BY UsbConstants DEF Cycle
  <2>2. moving \in Seq(Int)
    OBVIOUS
  <2> QED BY <2>1, <2>2 DEF UsbTypes
<1>2. UsbUntorn
  BY UsbConstants DEF UsbUntorn, UsbLevel, Used
<1> QED BY <1>1, <1>2 DEF UsbInv

\* So do those of USB audio, up to the flush that meets a transfer.
LEMMA UsbRingsAreFifos == PartsSpec => Usb!UsbRingIsFifo
<1>1. UsbInv /\ [PartsNext]_all
        => UsbInv' /\ [torn' \/ Usb!UsbFifo!Next \/ UNCHANGED Usb!UsbFifo!fifoVars]_Usb!usbVars
  BY UsbAnyStep DEF AsUsbFifo
<1> QED BY <1>1, UsbStarts, PTL DEF PartsSpec, Usb!UsbRingIsFifo

\* Every ring is a queue: the one the SPORT interrupt shares with a task, and
\* the one it shares with the USB's, which may come between any two of its
\* steps (wav_audio.c, rtp_audio.c, vban_audio.c, usb_audio.c).
THEOREM RingsAreQueues == PartsSpec => StreamsAreFifos
BY RingsAreFifos, UsbRingsAreFifos DEF StreamsAreFifos

-----------------------------------------------------------------------------
(* The types of the log's variables *)

\* No number is beyond that of the last line printed; there is one to come
\* while a line is printed, and a dump counts on while it is below Max.
LogFields ==
  /\ seq \in 0 .. MaxSeq /\ logData \in [Rows -> 0 .. seq]
  /\ \A w \in Writers : logAt[w] \in {"head", "drop", "store"} => seq < MaxSeq
  /\ \A d \in Dumpers : logAt[d] \notin {"head", "drop", "store"}
  /\ count \in [Dumpers -> 0 .. Max]
  /\ \A d \in Dumpers : logAt[d] \in {"tail", "copy", "print"} => count[d] < Max

LEMMA LogFieldsInit == PartsInit => LogFields
BY LogAssumption DEF PartsInit, Log!Init, LogFields, Rows

LEMMA PrintKeepsLogFields ==
  ASSUME LogInv, LogFields, NEW w \in Writers, Log!PrintLine(w)
  PROVE  LogFields'
<1>1. /\ DOMAIN logAt = Writers \cup Dumpers /\ \A d \in Dumpers : d # w
      /\ headIdx \in Rows
  BY LogAssumption DEF LogInv, LogMutex, LogTypes
<1>2. UNCHANGED count
  BY DEF Log!PrintLine, Log!StartPrint, Log!AdvanceHead, Log!Drop, Log!Store, Log!dumps
<1>3. PICK p : Log!Goto(w, p)
  BY DEF Log!PrintLine, Log!StartPrint, Log!AdvanceHead, Log!Drop, Log!Store
<1>4. \A t \in Writers \cup Dumpers : t # w => logAt'[t] = logAt[t]
  BY <1>1, <1>3 DEF Log!Goto
<1>5. /\ \A d \in Dumpers : logAt'[d] \notin {"head", "drop", "store"}
      /\ count' \in [Dumpers -> 0 .. Max]
      /\ \A d \in Dumpers : logAt'[d] \in {"tail", "copy", "print"} => count'[d] < Max
  BY <1>1, <1>2, <1>4 DEF LogFields
<1>6. CASE Log!Store(w)
  <2>1. /\ logAt[w] = "store" /\ logAt'[w] = "idle" /\ logLock = w
    BY <1>1, <1>6 DEF Log!Store, Log!Goto, LogInv, LogMutex, Locked
  <2>2. seq < MaxSeq /\ seq \in Nat /\ MaxSeq \in Nat /\ seq' = seq + 1
        /\ logData' = [logData EXCEPT ![headIdx] = seq + 1] /\ logData \in [Rows -> 0 .. seq]
    BY <1>6, <2>1, LogAssumption DEF Log!Store, LogFields
  <2>3. seq' \in 0 .. MaxSeq /\ logData' \in [Rows -> 0 .. seq']
    <3>1. seq' \in 0 .. MaxSeq /\ seq' = seq + 1 /\ seq' \in 0 .. seq' /\ 0 .. seq \subseteq 0 .. seq'
      BY <2>2
    <3> QED BY <1>1, <2>2, <3>1
  <2>4. \A u \in Writers : logAt'[u] \notin {"head", "drop", "store"}
    BY <1>4, <2>1 DEF LogInv, LogMutex, Locked
  <2> QED BY <1>5, <2>3, <2>4 DEF LogFields
<1>7. CASE ~Log!Store(w)
  <2>1. UNCHANGED <<seq, logData>>
    BY <1>7 DEF Log!PrintLine, Log!StartPrint, Log!AdvanceHead, Log!Drop, Log!log
  <2>2. seq < MaxSeq
    BY <1>7 DEF Log!PrintLine, Log!StartPrint, Log!AdvanceHead, Log!Drop, LogFields
  <2> QED BY <1>5, <2>1, <2>2 DEF LogFields
<1> QED BY <1>6, <1>7

LEMMA DumpKeepsLogFields ==
  ASSUME LogInv, LogFields, NEW d \in Dumpers, Log!Dump(d)
  PROVE  LogFields'
<1>1. /\ DOMAIN logAt = Writers \cup Dumpers /\ \A w \in Writers : d # w
  BY LogAssumption DEF LogInv, LogMutex
<1>2. UNCHANGED <<seq, logData>>
  BY DEF Log!Dump, Log!StartDump, Log!More, Log!AdvanceTail, Log!Copy, Log!Again, Log!log
<1>3. PICK p \in {"more?", "idle", "tail", "copy", "print"} : Log!Goto(d, p)
  BY DEF Log!Dump, Log!StartDump, Log!More, Log!AdvanceTail, Log!Copy, Log!Again
<1>4. logAt'[d] = p /\ \A t \in Writers \cup Dumpers : t # d => logAt'[t] = logAt[t]
  BY <1>1, <1>3 DEF Log!Goto
<1>5. /\ seq' \in 0 .. MaxSeq /\ logData' \in [Rows -> 0 .. seq']
      /\ \A w \in Writers : logAt'[w] \in {"head", "drop", "store"} => seq' < MaxSeq
      /\ \A x \in Dumpers : logAt'[x] \notin {"head", "drop", "store"}
  BY <1>1, <1>2, <1>4 DEF LogFields
<1>6. Max \in Nat /\ Max > 0
  BY LogAssumption
<1>7. /\ count' \in [Dumpers -> 0 .. Max]
      /\ \A x \in Dumpers : x # d => count'[x] = count[x]
      /\ p \in {"tail", "copy", "print"} => count'[d] < Max
  <2>1. CASE Log!StartDump(d)
    <3>1. PICK n \in {0, Max - 1} : count' = [count EXCEPT ![d] = n]
      BY <2>1 DEF Log!StartDump
    <3>2. n \in 0 .. Max /\ p = "more?"
      BY <1>1, <1>3, <1>4, <1>6, <2>1 DEF Log!StartDump, Log!Goto
    <3> QED BY <3>1, <3>2 DEF LogFields
  <2>2. CASE Log!Again(d)
    <3>1. count[d] \in Nat /\ count[d] < Max /\ count' = [count EXCEPT ![d] = @ + 1]
      BY <2>2 DEF Log!Again, LogFields
    <3>2. count[d] + 1 \in 0 .. Max /\ p = "more?"
      BY <1>1, <1>3, <1>4, <1>6, <2>2, <3>1 DEF Log!Again, Log!Goto
    <3> QED BY <3>1, <3>2 DEF LogFields
  <2>3. CASE Log!More(d)
    <3>1. UNCHANGED count /\ (p = "tail" => count[d] # Max) /\ p \in {"tail", "idle"}
      BY <1>1, <1>4, <2>3 DEF Log!More, Log!Goto, Log!dumps
    <3>2. count[d] \in 0 .. Max
      BY DEF LogFields
    <3>3. p = "tail" => count[d] < Max
      BY <1>6, <3>1, <3>2
    <3> QED BY <3>1, <3>3 DEF LogFields
  <2>4. CASE Log!AdvanceTail(d) \/ Log!Copy(d)
    <3>1. UNCHANGED count /\ logAt[d] \in {"tail", "copy"}
      BY <2>4 DEF Log!AdvanceTail, Log!Copy, Log!dumps
    <3> QED BY <3>1 DEF LogFields
  <2> QED BY <2>1, <2>2, <2>3, <2>4 DEF Log!Dump
<1>8. \A x \in Dumpers : logAt'[x] \in {"tail", "copy", "print"} => count'[x] < Max
  BY <1>4, <1>7 DEF LogFields
<1> QED BY <1>5, <1>7, <1>8 DEF LogFields

LEMMA LogFieldsStep == LogInv /\ LogFields /\ [PartsNext]_all => LogFields'
<1> SUFFICES ASSUME LogInv, LogFields, [PartsNext]_all PROVE LogFields'
  OBVIOUS
<1>1. CASE LogStep
  BY <1>1, PrintKeepsLogFields, DumpKeepsLogFields DEF LogStep, Log!Next
<1>2. CASE UNCHANGED logVars
  BY <1>2 DEF logVars, LogFields
<1> QED BY <1>1, <1>2 DEF PartsNext, Still, StreamStep, FilesStep, SerialStep, TwiStep,
                          UsbStep, EtherStep, all

\* The lines dropped, taken and waiting are among those printed.
LEMMA LogTyped == LogInv /\ LogFields => Log!TypeOK
<1> SUFFICES ASSUME LogInv, LogFields PROVE Log!TypeOK
  OBVIOUS
<1>1. /\ headIdx \in Rows /\ tailIdx \in Rows /\ Waiting \in Rows
      /\ {seq, logDropped, taken, last} \subseteq Nat /\ MaxLines \in Nat /\ MaxLines >= 2
  BY RowsOfRing, LogAssumption DEF LogInv, LogTypes, Waiting
<1>2. Stage \in {"free"} \cup Locked
  BY DEF LogInv, LogMutex, Stage
<1>3. PICK n \in Nat, c \in {0, 1} : Books(n, c)
  <2>1. Waiting \in Nat /\ Waiting < MaxLines
    BY <1>1 DEF Rows
  <2> QED BY <1>1, <1>2, <2>1 DEF LogInv, LogBooks, Locked
<1>4. taken + c + logDropped + n = seq /\ last <= seq - n - c
  BY <1>3 DEF Books
<1>5. taken <= seq /\ logDropped <= seq /\ last <= seq
  BY <1>1, <1>3, <1>4
<1>6. seq \in 0 .. MaxSeq /\ MaxSeq \in Nat /\ logData \in [Rows -> 0 .. seq]
  BY LogAssumption DEF LogFields
<1>7. {seq, logDropped, taken, last} \subseteq 0 .. MaxSeq
  BY <1>1, <1>5, <1>6
<1>8. logData \in [0 .. MaxLines - 1 -> 0 .. MaxSeq]
  BY <1>6 DEF Rows
<1> QED BY <1>1, <1>7, <1>8 DEF Log!TypeOK, LogInv, LogMutex, LogFields, Rows

-----------------------------------------------------------------------------
(* The types of the descriptors' and devices' variables *)

FdHolder == FD_LOCK \in Tasks \cup {Nothing}

LEMMA FdHolderInit == PartsInit => FdHolder
BY DEF PartsInit, Files!Init, FdHolder

LEMMA FdHolderStep == FdHolder /\ [PartsNext]_all => FdHolder'
<1> SUFFICES ASSUME FdHolder, [PartsNext]_all PROVE FdHolder'
  OBVIOUS
<1>1. ASSUME NEW t \in Tasks, Files!TaskStep(t) PROVE FdHolder'
  BY <1>1 DEF FdHolder, Files!TaskStep, Files!StartOpen, Files!SearchFd, Files!dev_fatfs_open, Files!f_open,
              Files!Mark, Files!EndOpen, Files!StartClose, Files!f_close, Files!FreeFatFs, Files!FreeFd
<1>2. CASE Files!Format \/ \E name \in Devices : Files!SetDefault(name)
  BY <1>2 DEF FdHolder, Files!Format, Files!StartFormat, Files!Register, Files!EndFormat, Files!SetDefault,
              Files!tables
<1>3. CASE UNCHANGED fileVars
  BY <1>3 DEF fileVars, FdHolder
<1> QED BY <1>1, <1>2, <1>3 DEF PartsNext, Still, StreamStep, FilesStep, Files!Next, LogStep,
             SerialStep, TwiStep, UsbStep, EtherStep, all

\* The number of devices is that of the entries in use.
LEMMA DevicesCounted == DevTypes => numDevices = Files!Cardinality(Files!Registered)
<1> SUFFICES ASSUME DevTypes PROVE numDevices = Files!Cardinality(Files!Registered)
  OBVIOUS
<1>1. PICK e \in {1, 2} : Named(e, Card)
  BY TwoDevices DEF DevTypes
<1>2. PICK x : {1, 2} = {e, x} /\ x # e /\ x \in {1, 2}
  BY <1>1
<1>3. Card # Nothing /\ Files!Flash # Nothing /\ Files!Flash # Card
  BY TwoDevices
<1>4. deviceEntries[x].name \in Devices \cup {Nothing} /\ deviceEntries[x].name # Card
  BY <1>1, <1>2, <1>3, TwoDevices DEF DevTypes, Named
<1>5. Named(x, Files!Flash) \/ Named(x, Nothing)
  BY <1>4, TwoDevices DEF Named
<1>6. numDevices = IF Named(x, Files!Flash) THEN 2 ELSE 1
  BY <1>1, <1>2, <1>3, TwoDevices DEF DevTypes, Named
<1>7. Files!Registered = IF Named(x, Files!Flash) THEN {e, x} ELSE {e}
  BY <1>1, <1>2, <1>3, <1>5, TwoDevices DEF Files!Registered, Named
<1>8. IsFiniteSet({e}) /\ Cardinality({e}) = 1
  BY FS_Singleton
<1>9. Cardinality({e} \cup {x}) = 2
  BY <1>2, <1>8, FS_AddElement
<1>10. {e} \cup {x} = {e, x}
  OBVIOUS
<1>11. Cardinality(Files!Registered) = numDevices
  BY <1>6, <1>7, <1>8, <1>9, <1>10
<1>12. Files!Cardinality(Files!Registered) = Cardinality(Files!Registered)
  BY DEF Files!Cardinality, Cardinality
<1> QED BY <1>11, <1>12

LEMMA FilesTyped == FilesInv /\ FdHolder => Files!TypeOK
BY DevicesCounted DEF FilesInv, FdInv, FdTypes, DevInv, DevTypes, FdHolder, Files!TypeOK

-----------------------------------------------------------------------------
(* The types of the serial port's variables *)

SerialFlags ==
  /\ transmitting \in BOOLEAN /\ inFlight \in BOOLEAN /\ sleeping \in BOOLEAN
  /\ broken \in BOOLEAN /\ brim \in BOOLEAN
SerialFields ==
  /\ SerialFlags /\ token \in 0 .. 1
  /\ cdcLock \in Callers \cup {None} /\ tx_size <= DmaSize /\ size <= BufSize

LEMMA SerialFieldsInit == PartsInit => SerialFields
<1> SUFFICES ASSUME Serial!Init PROVE SerialFields
  BY DEF PartsInit
<1>1. SerialFlags
  BY Zenon DEF Serial!Init, SerialFlags
<1> QED BY <1>1, SerialConstants DEF Serial!Init, SerialFields

\* A chunk is no longer than the library takes, a stretch than the ring.
LEMMA ChunksFit ==
  ASSUME NEW r \in Places, NEW w \in Places
  PROVE  /\ Serial!Lesser(DmaSize, Serial!Stretch(r, w)) <= DmaSize
         /\ \A n \in Lengths : Serial!Lesser(n, Serial!Stretch(r, w)) <= BufSize
BY SerialConstants DEF Places, Serial!Lesser, Serial!Stretch

LEMMA CallsKeepSerialFields ==
  ASSUME SerialInv, SerialFields, NEW c \in Callers,
         Serial!uart_cdc_write(c) \/ Serial!uart_cdc_read(c)
  PROVE  SerialFields'
<1>1. readptr \in Places /\ writeptr \in Places
  BY DEF SerialInv, SerialTypes
<1>2. CASE Serial!StartWrite(c) \/ Serial!TestFull(c) \/ Serial!TakeTxBlock(c)
  <2>1. SerialFlags'
    BY <1>2, Zenon DEF SerialFields, SerialFlags, Serial!StartWrite, Serial!TestFull, Serial!TakeTxBlock,
       Serial!tx, Serial!hist
  <2> QED BY <1>2, <2>1 DEF SerialFields, Serial!StartWrite, Serial!TestFull, Serial!TakeTxBlock,
                           Serial!tx, Serial!local
<1>3. CASE Serial!CopyIn(c)
  <2>1. SerialFlags'
    BY <1>3, Zenon DEF SerialFields, SerialFlags, Serial!CopyIn, Serial!tx
  <2> QED BY <1>3, <2>1 DEF SerialFields, Serial!CopyIn, Serial!tx
<1>4. CASE Serial!Kick(c)
  <2>0. UNCHANGED <<sleeping, token, size, brim>> /\ cdcLock' = None
    BY <1>4 DEF Serial!Kick
  <2>1. CASE UNCHANGED <<transmitting, inFlight, tx_size, broken, expected>>
    <3>1. SerialFlags'
      BY <2>0, <2>1, Zenon DEF SerialFields, SerialFlags
    <3> QED BY <2>0, <2>1, <3>1 DEF SerialFields
  <2>2. CASE Serial!Send(readptr) /\ transmitting' = inFlight'
    <3>1. SerialFlags'
      BY <2>0, <2>2, Zenon DEF SerialFields, SerialFlags, Serial!Send, Serial!TakeOut
    <3>2. tx_size' <= DmaSize
      BY <1>1, <2>2, ChunksFit DEF Serial!Send, Serial!Chunk
    <3> QED BY <2>0, <3>1, <3>2 DEF SerialFields
  <2> QED BY <1>4, <2>1, <2>2 DEF Serial!Kick
<1>5. CASE Serial!StartRead(c) \/ Serial!TestEmpty(c) \/ Serial!TakeRxBlock(c) \/ Serial!Awake(c)
  <2>1. SerialFlags'
    BY <1>5, Zenon DEF SerialFields, SerialFlags, Serial!StartRead, Serial!TestEmpty, Serial!TakeRxBlock,
       Serial!Awake, Serial!tx, Serial!hist
  <2> QED BY <1>5, <2>1 DEF SerialFields, Serial!StartRead, Serial!TestEmpty, Serial!TakeRxBlock, Serial!Awake,
       Serial!tx, Serial!local
<1>6. CASE Serial!Measure(c)
  <2>1. SerialFlags'
    BY <1>6, Zenon DEF SerialFields, SerialFlags, Serial!Measure, Serial!tx, Serial!hist
  <2> QED BY <1>1, <1>6, <2>1, ChunksFit DEF SerialFields, Serial!Measure, Serial!tx
<1>7. CASE Serial!CopyOut(c) \/ Serial!AdvanceRead(c)
  <2>1. SerialFlags'
    BY <1>7, Zenon DEF SerialFields, SerialFlags, Serial!CopyOut, Serial!AdvanceRead, Serial!TakeOut, Serial!tx,
       Serial!hist
  <2> QED BY <1>7, <2>1, SerialConstants DEF SerialFields, Serial!CopyOut, Serial!AdvanceRead,
                                           Serial!tx, Serial!local
<1> QED BY <1>2, <1>3, <1>4, <1>5, <1>6, <1>7 DEF Serial!uart_cdc_write, Serial!uart_cdc_read

LEMMA CallbacksKeepSerialFields ==
  ASSUME SerialInv, SerialFields, SerialInv',
         Serial!_uart_cdc_tx_complete \/ Serial!_uart_cdc_rx_complete
  PROVE  SerialFields'
<1>1. readptr' \in Places /\ writeptr \in Places
  BY DEF SerialInv, SerialTypes
<1>2. CASE Serial!_uart_cdc_tx_complete
  <2>0. UNCHANGED <<cdcLock, size, brim>> /\ sleeping' = FALSE /\ token' = IF sleeping THEN 1 ELSE token
    BY <1>2 DEF Serial!_uart_cdc_tx_complete, Serial!local
  <2>1. CASE UNCHANGED <<tx_size, broken, expected>> /\ transmitting' = FALSE /\ inFlight' = FALSE
    <3>1. SerialFlags'
      BY <2>0, <2>1, Zenon DEF SerialFields, SerialFlags
    <3> QED BY <2>0, <2>1, <3>1 DEF SerialFields
  <2>2. CASE Serial!Send(readptr') /\ UNCHANGED transmitting
    <3>1. SerialFlags'
      BY <2>0, <2>2, Zenon DEF SerialFields, SerialFlags, Serial!Send, Serial!TakeOut
    <3>2. tx_size' <= DmaSize
      BY <1>1, <2>2, ChunksFit DEF Serial!Send, Serial!Chunk
    <3> QED BY <2>0, <3>1, <3>2 DEF SerialFields
  <2> QED BY <1>2, <2>1, <2>2 DEF Serial!_uart_cdc_tx_complete
<1>3. CASE Serial!_uart_cdc_rx_complete
  <2>1. SerialFlags'
    BY <1>3, Zenon DEF SerialFields, SerialFlags, Serial!_uart_cdc_rx_complete, Serial!tx
  <2> QED BY <1>3, <2>1 DEF SerialFields, Serial!_uart_cdc_rx_complete, Serial!tx, Serial!local
<1> QED BY <1>2, <1>3

LEMMA SerialFieldsStep == SerialInv /\ SerialFields /\ [PartsNext]_all => SerialFields'
<1> SUFFICES ASSUME SerialInv, SerialFields, [PartsNext]_all PROVE SerialFields'
  OBVIOUS
<1>1. CASE SerialStep
  BY <1>1, CallsKeepSerialFields, CallbacksKeepSerialFields, SerialInvStep DEF SerialStep, Serial!Next
<1>2. CASE UNCHANGED serialVars
  BY <1>2 DEF serialVars, SerialFields, SerialFlags
<1> QED BY <1>1, <1>2 DEF PartsNext, Still, StreamStep, FilesStep, LogStep, TwiStep, UsbStep, EtherStep, all

LEMMA SerialTyped == SerialInv /\ SerialFields => Serial!TypeOK
<1> SUFFICES ASSUME SerialInv, SerialFields PROVE Serial!TypeOK
  OBVIOUS
<1>1. tx_size \in 0 .. DmaSize /\ size \in 0 .. BufSize /\ remaining \in 0 .. BufSize
  BY SerialConstants DEF SerialInv, SerialTypes, SerialFields
<1>2. {readptr, writeptr} \subseteq 0 .. BufSize - 1 /\ DOMAIN cdcAt = Callers
  BY DEF SerialInv, SerialTypes, SerialCalls, Places
<1> QED BY <1>1, <1>2 DEF SerialFields, SerialFlags, Serial!TypeOK

-----------------------------------------------------------------------------
(* The types of the I2C driver's variables *)

\* No buffer is longer than was asked for, and the controller's counter is
\* never set beyond what it can count, or the mark that it does not.
TwiFields ==
  /\ slen <= MaxLength /\ rlen <= MaxLength /\ dcnt <= Twi!Unlimited

LEMMA TwiFieldsInit == PartsInit => TwiFields
BY TwiAssumption, TwiConstants DEF PartsInit, Twi!TwiInit, TwiFields

\* A refill leaves no more than there was.
LEMMA FillsNoMore ==
  ASSUME NEW f \in 0 .. 2, NEW n \in Nat, NEW type, NEW second \in Nat, n <= MaxLength, second <= MaxLength
  PROVE  Twi!Fill(f, n, type, second).slen <= MaxLength
<1>1. CASE type = "WRITEWRITE" /\ n > 0 /\ Twi!Shorter(2 - f, n) = n
  BY <1>1, TwiAssumption, TwiConstants DEF Twi!Fill, Twi!Shorter
<1>2. CASE ~(type = "WRITEWRITE" /\ n > 0 /\ Twi!Shorter(2 - f, n) = n)
  <2>1. Twi!Fill(f, n, type, second).slen = n - Twi!Shorter(2 - f, n)
    BY <1>2, TwiConstants DEF Twi!Fill
  <2> QED BY <2>1, TwiAssumption DEF Twi!Shorter
<1> QED BY <1>1, <1>2

LEMMA CallsKeepTwiFields ==
  ASSUME TwiInv, TwiFields, NEW u \in Users, Twi!twi_xfer(u)
  PROVE  TwiFields'
<1>1. CASE Twi!StartXfer(u)
  <2>1. PICK q \in Twi!Requests :
          \/ UNCHANGED <<xferType, slen, rlen, longXfer, wire, dcnt, fifo, istat, errors>>
          \/ /\ slen' = Twi!Fill(0, IF Twi!Converted(q) = "READ" THEN 0 ELSE q.outLen,
                                    Twi!Converted(q), q.inLen).slen
             /\ rlen' = q.inLen /\ dcnt' = Twi!Count(Twi!FirstLength(q))
    BY <1>1 DEF Twi!StartXfer, Twi!transfer, Twi!bus
  <2>2. /\ q.outLen \in 0 .. MaxLength /\ q.inLen \in 0 .. MaxLength /\ MaxLength \in Nat
    BY TwiAssumption DEF Twi!Requests
  <2>3. PICK n : n = IF Twi!Converted(q) = "READ" THEN 0 ELSE q.outLen
    OBVIOUS
  <2>4. n \in Nat /\ n <= MaxLength /\ q.inLen \in Nat /\ q.inLen <= MaxLength /\ 0 \in 0 .. 2
    BY <2>2, <2>3
  <2>5. Twi!Fill(0, n, Twi!Converted(q), q.inLen).slen <= MaxLength
    BY <2>4, FillsNoMore
  <2>6. Twi!FirstLength(q) \in Nat
    BY <2>2 DEF Twi!FirstLength
  <2>7. Twi!Count(Twi!FirstLength(q)) <= Twi!Unlimited
    BY <2>6, TwiConstants DEF Twi!Count, Twi!Shorter
  <2> QED BY <2>1, <2>3, <2>4, <2>5, <2>7 DEF TwiFields
<1>2. CASE Twi!EndXfer(u) \/ Twi!GiveLock(u)
  BY <1>2 DEF TwiFields, Twi!EndXfer, Twi!GiveLock, Twi!transfer, Twi!bus
<1> QED BY <1>1, <1>2 DEF Twi!twi_xfer

LEMMA BusKeepsTwiFields ==
  ASSUME TwiInv, TwiFields, Twi!Bus \/ Twi!Fail
  PROVE  TwiFields'
<1>1. dcnt \in Nat /\ TWI_MAX_DCNT \in Nat /\ Twi!Unlimited = TWI_MAX_DCNT + 1
  BY TwiConstants DEF TwiInv, TwiTypes
<1>2. UNCHANGED <<slen, rlen>> /\ (dcnt' = dcnt \/ dcnt' = Twi!Counted)
  BY DEF Twi!Bus, Twi!Fail, Twi!SendByte, Twi!ReceiveByte, Twi!Complete, Twi!transfer
<1>3. Twi!Counted <= Twi!Unlimited
  BY <1>1 DEF TwiFields, Twi!Counted
<1> QED BY <1>2, <1>3 DEF TwiFields

LEMMA InterruptKeepsTwiFields ==
  ASSUME TwiInv, TwiFields, Twi!twi_data_irq
  PROVE  TwiFields'
<1>1. /\ {slen, rlen, dcnt} \subseteq Nat /\ fifo \in 0 .. 2 /\ TWI_MAX_DCNT \in Nat /\ MaxLength \in Nat
      /\ Twi!Unlimited = TWI_MAX_DCNT + 1 /\ Twi!FifoSize = 2
  BY TwiConstants, TwiAssumption DEF TwiInv, TwiTypes
<1>2. slen <= MaxLength /\ rlen <= MaxLength /\ dcnt <= Twi!Unlimited
  BY DEF TwiFields
<1>3. Twi!Fill(fifo, slen, xferType, rlen).slen <= MaxLength
  BY <1>1, <1>2, FillsNoMore
<1>4. Twi!Served.slen <= MaxLength
  BY <1>2, <1>3 DEF Twi!Served
<1>5. Twi!Served.rlen <= MaxLength
  <2>1. Twi!Served.rlen \in {rlen, rlen - Twi!Shorter(fifo, rlen)}
    BY DEF Twi!Served
  <2>2. rlen - Twi!Shorter(fifo, rlen) <= MaxLength
    BY <1>1, <1>2 DEF Twi!Shorter
  <2> QED BY <1>2, <2>1, <2>2
<1>6. dcnt' \in {Twi!Count(rlen), dcnt} \/ (dcnt' = slen /\ slen < TWI_MAX_DCNT)
      \/ (dcnt' = rlen - 2 /\ rlen < TWI_MAX_DCNT)
  BY <1>1 DEF Twi!twi_data_irq, Twi!CountsOut, Twi!CountsIn, Twi!StillToCome
<1>7. Twi!Count(rlen) <= Twi!Unlimited
  BY <1>1 DEF Twi!Count, Twi!Shorter
<1>8. dcnt' <= Twi!Unlimited
  BY <1>1, <1>2, <1>6, <1>7
<1>9. slen' = Twi!Served.slen /\ rlen' = Twi!Served.rlen
  BY DEF Twi!twi_data_irq
<1> QED BY <1>4, <1>5, <1>8, <1>9 DEF TwiFields

LEMMA TwiFieldsStep == TwiInv /\ TwiFields /\ [PartsNext]_all => TwiFields'
<1> SUFFICES ASSUME TwiInv, TwiFields, [PartsNext]_all PROVE TwiFields'
  OBVIOUS
<1>1. CASE TwiStep
  BY <1>1, CallsKeepTwiFields, BusKeepsTwiFields, InterruptKeepsTwiFields DEF TwiStep, Twi!TwiNext
<1>2. CASE UNCHANGED i2cVars
  BY <1>2 DEF i2cVars, TwiFields
<1> QED BY <1>1, <1>2 DEF PartsNext, Still, StreamStep, FilesStep, LogStep, SerialStep, UsbStep, EtherStep, all

LEMMA TwiTyped == TwiInv /\ TwiFields => Twi!TwiTypeOK
<1> SUFFICES ASSUME TwiInv, TwiFields PROVE Twi!TwiTypeOK
  OBVIOUS
<1>1. {slen, rlen} \subseteq 0 .. MaxLength /\ dcnt \in 0 .. Twi!Unlimited /\ Twi!FifoSize = 2
  BY TwiConstants, TwiAssumption DEF TwiInv, TwiTypes, TwiFields
<1>2. /\ portLock \in Users \cup {Unlocked} /\ portBlock \in 0 .. 1
      /\ doing \in [Users -> {"idle", "wait", "give"}] /\ fifo \in 0 .. 2
      /\ longXfer \in BOOLEAN /\ errors \in BOOLEAN
  BY DEF TwiInv, TwiTypes, TwiLock
<1> QED BY <1>1, <1>2 DEF Twi!TwiTypeOK

-----------------------------------------------------------------------------
(* The types of the streams' variables *)

StreamFlags ==
  /\ preRoll \in BOOLEAN /\ first \in BOOLEAN /\ wrote \in BOOLEAN
  /\ inbox \in BOOLEAN /\ fresh \in BOOLEAN

\* What the task has in hand, and what is in the ring.
StreamFields ==
  /\ StreamFlags /\ lock \in Shells \cup {TaskId, Unheld}
  /\ buffer \in [0 .. RingSize - 1 -> 0 .. Samples]
  /\ seen <= RingSize /\ pkt <= RingSize
  /\ Len(chunk) <= FileChunk /\ Len(out) <= RingSize

LEMMA StreamFieldsInit == PartsInit => StreamFields
<1> SUFFICES ASSUME Init PROVE StreamFields
  BY DEF PartsInit
<1>1. StreamFlags
  BY Zenon DEF Init, StreamFlags
<1> QED BY <1>1, StreamConstants DEF Init, StreamFields, Stale

\* The flags stay flags.
LEMMA FlagsOfTask ==
  ASSUME StreamInv, StreamFlags, TaskStep
  PROVE  StreamFlags'
<1>1. CASE Take \/ Look \/ Test \/ Give
  BY <1>1, Zenon DEF StreamFlags, Take, Look, Test, Give, task, hist, shape, ring
<1>2. CASE Receive
  BY <1>2, Zenon DEF StreamFlags, Receive, task, hist, shape, ring
<1>3. CASE CopyIn \/ CopyOut
  BY <1>3, Zenon DEF StreamFlags, CopyIn, CopyOut, task, hist, shape, ring
<1>4. CASE AdvanceIn \/ AdvanceOut
  <2>1. wrote' \in BOOLEAN
    <3>1. ASSUME AdvanceIn PROVE wrote' \in BOOLEAN
      <4>1. wrote' = (kind \in Rx)
        BY <3>1, Zenon DEF AdvanceIn
      <4> QED BY <4>1, SMT
    <3>2. ASSUME AdvanceOut PROVE wrote' \in BOOLEAN
      BY <3>2, Zenon DEF StreamFlags, AdvanceOut
    <3> QED BY <1>4, <3>1, <3>2, Zenon
  <2> QED BY <1>4, <2>1, Zenon DEF StreamFlags, AdvanceIn, AdvanceOut, shape
<1>5. CASE Flush \/ Flushed
  BY <1>5, Zenon DEF StreamFlags, Flush, Flushed, task, hist, shape, ring
<1> QED BY <1>1, <1>2, <1>3, <1>4, <1>5 DEF TaskStep

LEMMA FlagsOfOthers ==
  ASSUME StreamInv, StreamFlags, (\E sh \in Shells : ShellStep(sh)) \/ Sport \/ PacketArrives
  PROVE  StreamFlags'
<1>1. ASSUME NEW sh \in Shells, Command(sh) \/ LockShell(sh) \/ Close(sh) PROVE StreamFlags'
  BY <1>1, Zenon DEF StreamFlags, Command, LockShell, Close, task, hist, shape, ring
<1>2. ASSUME NEW sh \in Shells, Open(sh) PROVE StreamFlags'
  <2>1. CASE UNCHANGED <<enabled, preRoll, pkt, fresh>>
    BY <1>2, <2>1, Zenon DEF StreamFlags, Open
  <2>2. /\ preRoll' = (kind \in Rx \/ preRoll)
        /\ fresh' = (IF enabled THEN fresh ELSE Available = 0)
        => StreamFlags'
    BY <1>2, Zenon DEF StreamFlags, Open
  <2> QED BY <1>2, <2>1, <2>2, Zenon DEF Open
<1>3. CASE Sport
  BY <1>3, Zenon DEF StreamFlags, Sport, xferWavSrcAudio, xferRxAudio, xferSinkAudio, xferOff, task
<1>4. CASE PacketArrives
  BY <1>4, Zenon DEF StreamFlags, PacketArrives, task, hist
<1> QED BY <1>1, <1>2, <1>3, <1>4 DEF ShellStep

\* The sizes of blocks, packets and chunks.
LEMMA StreamSizes ==
  ASSUME StreamTypes
  PROVE  /\ block \in Nat /\ block <= RingSize /\ block <= FileChunk /\ block > 0
         /\ FileChunk \in Nat /\ FileChunk <= RingSize /\ FileChunk > 0
         /\ Packet \in Nat /\ Packet <= RingSize /\ \A n \in Packets : n \in Nat /\ n <= RingSize
         /\ RingSize \in Nat /\ RingSize > 0 /\ Samples \in Nat /\ RingSize < Samples
<1>1. RingSize \in Nat /\ RingSize > 0 /\ Samples \in Nat /\ RingSize < Samples
  BY StreamConstants
<1>2. \A n \in Packets : n \in Nat \ {0} /\ 2 * n <= RingSize
  BY SizeAssumption
<1>3. Packet \in Nat /\ Packet <= RingSize /\ \A n \in Packets : n \in Nat /\ n <= RingSize
  BY <1>1, <1>2, StreamConstants
<1>4. <<kind, block>>[2] = block
  OBVIOUS
<1>5. FileChunk \in Nat /\ FileChunk >= block /\ FileChunk + block <= RingSize
  BY <1>4, SizeAssumption DEF StreamTypes
<1>6. block \in Nat /\ block > 0
  BY DEF StreamTypes
<1> QED BY <1>1, <1>3, <1>5, <1>6

\* What is stored in a ring is of the type of its places.
LEMMA OverwrittenTyped ==
  ASSUME NEW S, NEW D, NEW b \in [D -> S], NEW d \in Seq(S), NEW g
  PROVE  Overwritten(b, d, g) \in [D -> S]
<1>1. \A s \in D : (\E k \in 1 .. Len(d) : g[k] = s) => (CHOOSE k \in 1 .. Len(d) : g[k] = s) \in 1 .. Len(d)
  OBVIOUS
<1>2. \A k \in 1 .. Len(d) : d[k] \in S
  OBVIOUS
<1> QED BY <1>1, <1>2 DEF Overwritten

LEMMA RegionTyped ==
  ASSUME NEW S, NEW D, NEW b \in [D -> S], NEW d \in Seq(S), NEW i
  PROVE  WriteRegion(b, i, d) \in [D -> S]
<1>1. PICK g : g = Region(i, Len(d))
  OBVIOUS
<1>2. WriteRegion(b, i, d) = Overwritten(b, d, g)
  BY <1>1 DEF WriteRegion, Overwritten
<1> QED BY <1>2, OverwrittenTyped

LEMMA SamplesTyped ==
  ASSUME StreamTypes, NEW n \in 0 .. RingSize
  PROVE  /\ Numbered(n) \in Seq(0 .. Samples) /\ Len(Numbered(n)) = n
         /\ [k \in 1 .. n |-> Stale] \in Seq(0 .. Samples)
<1>1. next \in Nat /\ Samples \in Nat /\ Samples > 0 /\ n \in Nat
  BY StreamConstants DEF StreamTypes
<1>2. \A k \in 1 .. n : (next + k - 1) % Samples \in 0 .. Samples
  BY <1>1
<1>3. Numbered(n) \in [1 .. n -> 0 .. Samples]
  BY <1>2 DEF Numbered
<1>4. Len(Numbered(n)) = n
  BY NumberedType
<1>5. [k \in 1 .. n |-> Stale] \in [1 .. n -> 0 .. Samples]
  BY <1>1 DEF Stale
<1> QED BY <1>1, <1>3, <1>4, <1>5

\* The ring's places keep their type when n samples are forgotten.
LEMMA ForgetTyped ==
  ASSUME StreamTypes, StreamFields, NEW n \in 0 .. RingSize, NEW i
  PROVE  Forget(i, n) \in [0 .. RingSize - 1 -> 0 .. Samples]
<1>1. [k \in 1 .. n |-> Stale] \in Seq(0 .. Samples)
  BY SamplesTyped
<1> QED BY <1>1, RegionTyped DEF Forget, StreamFields

LEMMA TurnKeepsStreamFields ==
  ASSUME StreamInv, StreamFields, StreamFlags', Take \/ Receive \/ Look \/ Test \/ Give \/ Flush \/ Flushed
  PROVE  StreamFields'
<1>1. StreamTypes
  BY DEF StreamInv
<1>2. CASE Take \/ Test \/ Give
  BY <1>1, <1>2, StreamSizes DEF StreamFields, Take, Test, Give, task, hist, ring
<1>3. CASE Receive
  BY <1>1, <1>3, StreamSizes DEF StreamFields, Receive, task, hist, ring
<1>4. CASE Look
  <2>1. Level \in Nat /\ Level <= RingSize /\ Available = Level /\ Room = RingSize - Level
    BY <1>1, <1>4, StreamIndices DEF Look, At, StreamInv, StreamLevel
  <2>2. seen' <= RingSize
    BY <1>1, <1>4, <2>1, StreamSizes DEF Look
  <2> QED BY <1>4, <2>2 DEF StreamFields, Look, hist, ring
<1>5. CASE Flush
  <2>1. buffer' \in [0 .. RingSize - 1 -> 0 .. Samples]
    BY <1>1, <1>5, StreamSizes DEF Flush, Stale
  <2> QED BY <1>5, <2>1 DEF StreamFields, Flush, task, hist
<1>6. CASE Flushed
  BY <1>6 DEF StreamFields, Flushed, task, hist
<1> QED BY <1>2, <1>3, <1>4, <1>5, <1>6

LEMMA CopiesKeepStreamFields ==
  ASSUME StreamInv, StreamFields, StreamInv', StreamFlags', CopyIn \/ AdvanceIn \/ CopyOut \/ AdvanceOut
  PROVE  StreamFields'
<1>1. StreamTypes
  BY DEF StreamInv
<1>2. CASE CopyIn
  <2>1. At("copy") /\ ~At("flushed") /\ Level \in Nat /\ Level <= RingSize /\ Room = RingSize - Level
    BY <1>1, <1>2, StreamIndices DEF CopyIn, At, StreamInv, StreamLevel
  <2>2. PICK n : /\ n \in {FileChunk, 1, Least(pkt, block)}
                 /\ chunk' = SubSeq(Numbered(n), 1, AtMost(Len(Numbered(n)), Room))
                 /\ buffer' = WriteRegion(buffer, writeIndex, chunk')
    BY <1>2 DEF CopyIn, Produced, readWave
  <2>3. n \in 0 .. RingSize /\ n <= FileChunk
    <3>1. pkt \in Nat
      BY <1>1 DEF StreamTypes
    <3>2. Least(pkt, block) \in Nat /\ Least(pkt, block) <= block
      BY <1>1, <3>1, StreamSizes DEF Least
    <3> QED BY <1>1, <2>2, <3>2, StreamSizes
  <2>4. PICK m \in 0 .. n : m = AtMost(n, Room)
    BY <1>1, <2>1, <2>3, StreamSizes DEF AtMost
  <2>5. chunk' = Numbered(m)
    BY <1>1, <2>2, <2>3, <2>4, NumberedStarts, NumberedType
  <2>6. m \in 0 .. RingSize /\ m <= FileChunk
    BY <1>1, <2>3, <2>4, StreamSizes
  <2>7. chunk' \in Seq(0 .. Samples) /\ Len(chunk') = m
    BY <1>1, <2>5, <2>6, SamplesTyped
  <2>8. PICK d : d = chunk'
    OBVIOUS
  <2>9. WriteRegion(buffer, writeIndex, d) \in [0 .. RingSize - 1 -> 0 .. Samples]
    BY <2>7, <2>8, RegionTyped DEF StreamFields
  <2>10. UNCHANGED <<lock, seen, pkt, out>>
    BY <1>2 DEF CopyIn, hist
  <2> QED BY <2>2, <2>6, <2>7, <2>8, <2>9, <2>10 DEF StreamFields
<1>3. CASE AdvanceIn
  <2>1. chunk' = <<>> /\ UNCHANGED <<lock, buffer, seen, out>> /\ pkt' \in {pkt, pkt - Len(chunk)}
    BY <1>3 DEF AdvanceIn
  <2>2. pkt' <= RingSize
    <3>1. pkt \in Nat /\ Len(chunk) \in Nat /\ RingSize \in Nat /\ pkt <= RingSize
      BY <1>1, StreamSizes DEF StreamTypes, StreamFields
    <3> QED BY <2>1, <3>1
  <2>3. Len(chunk') <= FileChunk
    BY <1>1, <2>1, StreamSizes
  <2> QED BY <2>1, <2>2, <2>3 DEF StreamFields
<1>4. CASE CopyOut
  <2>1. /\ At("copy") /\ kind \notin ToSport /\ ~At("flushed")
        /\ Level \in Nat /\ Level <= RingSize /\ Available = Level
    BY <1>1, <1>4, StreamIndices DEF CopyOut, At, StreamInv, StreamLevel
  <2>2. PICK n : n = AtMost(Wanted, Available)
    OBVIOUS
  <2>3. n \in 0 .. RingSize /\ n <= FileChunk
    <3>1. pkt \in Nat /\ (kind \in Tx => pkt < Packet)
      BY <1>1 DEF StreamTypes, StreamInv, StreamCopies
    <3>2. Wanted \in Nat /\ Wanted <= block
      BY <1>1, <3>1, StreamSizes DEF Wanted, Least
    <3>3. PICK x : x = Wanted
      OBVIOUS
    <3>4. AtMost(x, Available) \in Nat /\ AtMost(x, Available) <= x
      BY <2>1, <3>2, <3>3 DEF AtMost
    <3> QED BY <1>1, <2>2, <3>2, <3>3, <3>4, StreamSizes
  <2>4. chunk' = Part(RingSize, buffer, readIndex, n)
    BY <1>1, <1>4, <2>2, <2>3, StreamRing, StreamIndices DEF CopyOut
  <2>5. Len(chunk') = n
    BY <1>1, <2>3, <2>4, PartType, StreamSizes DEF StreamTypes
  <2> QED BY <1>4, <2>3, <2>5 DEF StreamFields, CopyOut, hist, ring
<1>5. CASE AdvanceOut
  <2>1. Draining /\ kind \notin ToSport /\ ~At("flushed")
    BY <1>5 DEF AdvanceOut, At, StreamInv, StreamCopies
  <2>2. PICK n \in 0 .. RingSize : n = Len(chunk)
    <3>1. Len(chunk) \in Nat /\ Len(chunk) <= FileChunk
      BY <1>1 DEF StreamTypes, StreamFields
    <3>2. FileChunk \in Nat /\ FileChunk <= RingSize /\ RingSize \in Nat
      BY <1>1, StreamSizes
    <3>3. Len(chunk) \in 0 .. RingSize
      BY <3>1, <3>2
    <3> QED BY <3>3
  <2>3. buffer' \in [0 .. RingSize - 1 -> 0 .. Samples]
    BY <1>1, <1>5, <2>2, ForgetTyped DEF AdvanceOut
  <2>4. pkt' <= RingSize
    <3>1. /\ pkt \in Nat /\ n \in Nat /\ pkt <= RingSize /\ RingSize \in Nat
          /\ Packet <= RingSize /\ Packet \in Nat
      BY <1>1, <2>2, StreamSizes DEF StreamTypes, StreamFields
    <3>2. pkt' = IF kind \in Tx THEN Gathered(pkt + n) ELSE pkt
      BY <1>5, <2>2 DEF AdvanceOut
    <3>3. kind \in Tx => pkt + n <= Packet
      BY <2>1, <2>2 DEF Draining
    <3> QED BY <3>1, <3>2, <3>3 DEF Gathered
  <2>5. Len(out') <= RingSize /\ Len(chunk') <= FileChunk
    BY <1>1, <1>5, <2>2, StreamSizes DEF AdvanceOut
  <2> QED BY <1>5, <2>3, <2>4, <2>5 DEF StreamFields, AdvanceOut
<1> QED BY <1>2, <1>3, <1>4, <1>5

LEMMA OthersKeepStreamFields ==
  ASSUME StreamInv, StreamFields, StreamFlags', (\E sh \in Shells : ShellStep(sh)) \/ Sport \/ PacketArrives
  PROVE  StreamFields'
<1>1. StreamTypes
  BY DEF StreamInv
<1>2. ASSUME NEW sh \in Shells, ShellStep(sh) PROVE StreamFields'
  <2>1. lock' \in Shells \cup {TaskId, Unheld} /\ UNCHANGED <<buffer, seen, chunk, out>> /\ pkt' \in {0, pkt}
    BY <1>2 DEF StreamFields, ShellStep, Command, LockShell, Open, Close, Leave, ring, task, hist
  <2> QED BY <1>1, <2>1, StreamSizes DEF StreamFields
<1>3. CASE Sport
  <2>1. UNCHANGED <<lock, seen, pkt, chunk>>
    BY <1>3 DEF Sport, task
  <2>2. CASE TakeBlock /\ kind \in ToSport
    <3>1. PICK n \in 0 .. RingSize : n = block
      BY <1>1, StreamSizes
    <3>2. buffer' \in [0 .. RingSize - 1 -> 0 .. Samples]
      BY <1>1, <2>2, <3>1, ForgetTyped DEF TakeBlock
    <3>3. out' = Part(RingSize, buffer, readIndex, n)
      BY <1>1, <2>2, <3>1, StreamRing, StreamIndices DEF TakeBlock
    <3>4. Len(out') = n
      BY <1>1, <3>1, <3>3, PartType, StreamSizes DEF StreamTypes
    <3> QED BY <2>1, <3>1, <3>2, <3>4 DEF StreamFields
  <2>3. CASE UNCHANGED out /\ buffer' = WriteRegion(buffer, writeIndex, Numbered(block))
    <3>1. PICK n \in 0 .. RingSize : n = block
      BY <1>1, StreamSizes
    <3>2. Numbered(n) \in Seq(0 .. Samples)
      BY <1>1, SamplesTyped
    <3>3. PICK d \in Seq(0 .. Samples) : d = Numbered(n)
      BY <3>2
    <3>4. WriteRegion(buffer, writeIndex, d) \in [0 .. RingSize - 1 -> 0 .. Samples]
      BY RegionTyped DEF StreamFields
    <3> QED BY <2>1, <2>3, <3>1, <3>3, <3>4 DEF StreamFields
  <2>4. CASE UNCHANGED <<out, buffer>>
    BY <2>1, <2>4 DEF StreamFields
  <2> QED BY <1>3, <2>2, <2>3, <2>4 DEF Sport, xferWavSrcAudio, xferRxAudio, xferSinkAudio, xferOff,
                                            ring, ToSport
<1>4. CASE PacketArrives
  BY <1>4 DEF StreamFields, PacketArrives, task, hist, ring
<1> QED BY <1>2, <1>3, <1>4

LEMMA StreamFieldsStep == StreamInv /\ StreamFields /\ [PartsNext]_all => StreamFields'
<1> SUFFICES ASSUME StreamInv, StreamFields, [PartsNext]_all PROVE StreamFields'
  OBVIOUS
<1>1. StreamInv'
  BY StreamAnyStep
<1>2. CASE Next
  <2>1. StreamFlags'
    BY <1>2, FlagsOfTask, FlagsOfOthers DEF Next, StreamFields
  <2> QED BY <1>1, <1>2, <2>1, TurnKeepsStreamFields, CopiesKeepStreamFields,
                OthersKeepStreamFields DEF Next, TaskStep
<1>3. CASE UNCHANGED vars
  BY <1>3 DEF vars, shape, ring, hist, task, StreamFields, StreamFlags
<1> QED BY <1>2, <1>3 DEF PartsNext, StreamStep, FilesStep, LogStep, SerialStep, TwiStep,
                          UsbStep, EtherStep, Still, all

LEMMA StreamTyped == StreamInv /\ StreamFields => TypeOK
<1> SUFFICES ASSUME StreamInv, StreamFields PROVE TypeOK
  OBVIOUS
<1>1. seen \in 0 .. RingSize /\ pkt \in 0 .. RingSize
  BY StreamConstants DEF StreamInv, StreamTypes, StreamFields
<1>2. /\ <<kind, block>> \in Shapes /\ enabled \in BOOLEAN /\ next \in 0 .. Samples - 1
      /\ {readIndex, writeIndex} \subseteq 0 .. 2 * RingSize - 1 /\ DOMAIN pc = Shells \cup {TaskId}
  BY DEF StreamInv, StreamTypes, StreamLocks, Cycle
<1> QED BY <1>1, <1>2 DEF StreamFields, StreamFlags, TypeOK

-----------------------------------------------------------------------------
(* The types of the variables of USB audio *)

UsbFields ==
  /\ preRolling \in BOOLEAN
  /\ frames \in [0 .. UsbRingSize - 1 -> 0 .. Frames - 1]
  /\ Len(moving) <= Block /\ Len(got) <= UsbRingSize

LEMMA UsbFieldsInit == PartsInit => UsbFields
<1> SUFFICES ASSUME Usb!UsbInit PROVE UsbFields
  BY DEF PartsInit
<1>1. preRolling \in BOOLEAN
  BY DEF Usb!UsbInit
<1> QED BY <1>1, UsbConstants DEF Usb!UsbInit, UsbFields

\* A sequence is a function on its indices.
LEMMA IsSequence ==
  ASSUME NEW S, NEW n \in Nat, NEW d \in [1 .. n -> S]
  PROVE  d \in Seq(S)
OBVIOUS

\* Frames are numbered, wherever they are stored.
LEMMA NumbersTyped ==
  ASSUME UsbTypes, UsbFields, NEW n \in 0 .. UsbRingSize
  PROVE  /\ Len(Usb!InTurn(n)) = n
         /\ Usb!WriteRegion(frames, writeAt, Usb!InTurn(n)) \in [0 .. UsbRingSize - 1 -> 0 .. Frames - 1]
<1>1. number \in Nat /\ Frames \in Nat /\ Frames > 0
  BY UsbConstants DEF UsbTypes
<1>2. \A k \in 1 .. n : (number + k - 1) % Frames \in 0 .. Frames - 1
  BY <1>1
<1>3. Usb!InTurn(n) \in [1 .. n -> 0 .. Frames - 1] /\ n \in Nat
  BY <1>2, UsbConstants DEF Usb!InTurn
<1>4. Len(Usb!InTurn(n)) = n
  BY InTurnType
<1>5. PICK d : d = Usb!InTurn(n)
  OBVIOUS
<1>9. d \in Seq(0 .. Frames - 1)
  <2>1. d \in [1 .. n -> 0 .. Frames - 1] /\ n \in Nat
    BY <1>3, <1>5
  <2> QED BY <2>1, IsSequence
<1>6. PICK g : g = Usb!Region(writeAt, Len(d))
  OBVIOUS
<1>7. Usb!WriteRegion(frames, writeAt, d) = Overwritten(frames, d, g)
  BY <1>6 DEF Usb!WriteRegion, Overwritten
<1>8. Overwritten(frames, d, g) \in [0 .. UsbRingSize - 1 -> 0 .. Frames - 1]
  BY <1>9, OverwrittenTyped DEF UsbFields
<1> QED BY <1>4, <1>5, <1>7, <1>8

LEMMA SportKeepsUsbFields ==
  ASSUME UsbInv, UsbFields, ~torn, Usb!SportStep
  PROVE  UsbFields'
<1>1. UsbTypes /\ UsbPlain /\ UsbLevel \in Nat /\ UsbLevel <= UsbRingSize
      /\ Usb!Waiting = UsbLevel /\ Usb!Space = UsbRingSize - UsbLevel
  BY UsbIndices DEF UsbInv, UsbUntorn, UsbPlain
<1>2. preRolling' \in BOOLEAN
  <2>1. Usb!RollsAfter(preRolling) \in BOOLEAN
    <3>1. (Usb!Waiting < FillLevel) \in BOOLEAN /\ (Usb!Waiting < Block) \in BOOLEAN
      BY <1>1, UsbConstants
    <3> QED BY <3>1, Zenon DEF Usb!RollsAfter
  <2> QED BY <2>1, Zenon DEF UsbFields, Usb!SportStep, Usb!xferUsbRxAudio, Usb!xferUsbTxAudio,
                  Usb!CopyBlock, Usb!AdvanceBlock
<1>3. CASE Usb!xferUsbRxAudio \/ Usb!xferUsbTxAudio
  BY <1>2, <1>3 DEF UsbFields, Usb!xferUsbRxAudio, Usb!xferUsbTxAudio, Usb!usbRing
<1>4. CASE Usb!CopyBlock
  <2>1. got' = got
    BY <1>4 DEF Usb!CopyBlock
  <2>2. CASE dir = "out"
    <3>1. PICK n \in 0 .. UsbRingSize : n = Usb!AtMost(Block, Usb!Waiting) /\ n <= UsbLevel /\ n <= Block
      BY <1>1, UsbConstants DEF Usb!AtMost
    <3>2. Len(moving') = n /\ frames' = frames
      BY <1>1, <1>4, <2>2, <3>1, UsbLoads DEF Usb!CopyBlock
    <3> QED BY <1>2, <2>1, <3>1, <3>2 DEF UsbFields
  <2>3. CASE dir # "out"
    <3>1. PICK n \in 0 .. UsbRingSize : n = Usb!AtMost(Block, Usb!Space) /\ n <= Block
      BY <1>1, UsbConstants DEF Usb!AtMost
    <3>2. moving' = Usb!InTurn(n) /\ frames' = Usb!WriteRegion(frames, writeAt, Usb!InTurn(n))
      BY <1>4, <2>3, <3>1 DEF Usb!CopyBlock
    <3> QED BY <1>1, <1>2, <2>1, <3>1, <3>2, NumbersTyped DEF UsbFields
  <2> QED BY <2>2, <2>3
<1>5. CASE Usb!AdvanceBlock
  <2>1. frames' = frames /\ Len(moving') = 0 /\ got' \in {got, moving}
    BY <1>5 DEF Usb!AdvanceBlock
  <2>2. Len(moving) \in Nat /\ Len(moving) <= UsbRingSize
    BY <1>1, UsbConstants DEF UsbTypes, UsbFields
  <2> QED BY <1>2, <2>1, <2>2, UsbConstants DEF UsbFields
<1> QED BY <1>3, <1>4, <1>5 DEF Usb!SportStep

LEMMA HostKeepsUsbFields ==
  ASSUME UsbInv, UsbFields, ~torn, Usb!UsbPacket \/ Usb!uac2EndpointEnabled
  PROVE  UsbFields'
<1>1. UsbTypes /\ UsbPlain /\ UsbLevel \in Nat /\ UsbLevel <= UsbRingSize
      /\ Usb!Waiting = UsbLevel /\ Usb!Space = UsbRingSize - UsbLevel
  BY UsbIndices DEF UsbInv, UsbUntorn, UsbPlain
<1>2. CASE Usb!UsbPacket /\ Usb!uac2Rx
  <2>1. PICK n \in Nominal - 1 .. Nominal + 1 :
          Usb!Space >= n /\ frames' = Usb!WriteRegion(frames, writeAt, Usb!InTurn(n))
    BY <1>2 DEF Usb!uac2Rx
  <2>2. n \in 0 .. UsbRingSize
    BY <1>1, <2>1, UsbConstants
  <2>3. preRolling' = preRolling /\ got' = got /\ moving' = moving
    BY <1>2 DEF Usb!uac2Rx, Usb!UsbPacket
  <2> QED BY <1>1, <2>1, <2>2, <2>3, NumbersTyped DEF UsbFields
<1>3. CASE Usb!UsbPacket /\ Usb!uac2Tx
  <2>1. frames' = frames /\ moving' = moving
    BY <1>3 DEF Usb!uac2Tx, Usb!UsbPacket
  <2>2. preRolling' \in BOOLEAN
    <3>1. (Usb!Waiting < FillLevel) \in BOOLEAN /\ (Usb!Waiting < Nominal) \in BOOLEAN
      BY <1>1, UsbConstants
    <3> QED BY <1>3, <3>1, Zenon DEF Usb!uac2Tx
  <2>3. Len(got') <= UsbRingSize
    <3>1. CASE got' = got
      BY <3>1 DEF UsbFields
    <3>2. ASSUME NEW n \in Nominal - 1 .. Nominal + 1,
                 got' = Usb!ReadRegion(frames, readAt, Usb!AtMost(n, Usb!Waiting))
          PROVE  Len(got') <= UsbRingSize
      <4>1. PICK m \in 0 .. UsbRingSize : m = Usb!AtMost(n, Usb!Waiting) /\ m <= UsbLevel
        BY <1>1, UsbConstants DEF Usb!AtMost
      <4>2. Len(got') = m
        BY <1>1, <3>2, <4>1, UsbLoads
      <4> QED BY <4>1, <4>2
    <3>3. Nominal \in Nominal - 1 .. Nominal + 1
      BY UsbConstants
    <3> QED BY <1>3, <3>1, <3>2, <3>3 DEF Usb!uac2Tx
  <2> QED BY <2>1, <2>2, <2>3 DEF UsbFields
<1>4. CASE Usb!uac2EndpointEnabled
  <2>1. preRolling' \in BOOLEAN
    BY <1>4, Zenon DEF Usb!uac2EndpointEnabled, UsbFields
  <2>2. frames' \in [0 .. UsbRingSize - 1 -> 0 .. Frames - 1]
    BY <1>4, UsbConstants DEF Usb!uac2EndpointEnabled, UsbFields
  <2> QED BY <1>4, <2>1, <2>2 DEF Usb!uac2EndpointEnabled, UsbFields
<1> QED BY <1>2, <1>3, <1>4 DEF Usb!UsbPacket

LEMMA UsbFieldsStep == UsbInv /\ UsbFields /\ [PartsNext]_all => UsbFields'
<1> SUFFICES ASSUME UsbInv, UsbFields, [PartsNext]_all PROVE UsbFields'
  OBVIOUS
<1>1. CASE UNCHANGED usbAudio
  BY <1>1 DEF usbAudio, UsbFields
<1>2. CASE Usb!UsbNext
  BY <1>2, SportKeepsUsbFields, HostKeepsUsbFields DEF Usb!UsbNext
<1> QED BY <1>1, <1>2 DEF PartsNext, StreamStep, FilesStep, LogStep, SerialStep, TwiStep,
                          UsbStep, EtherStep, Still, all

LEMMA UsbTyped == UsbInv /\ UsbFields => Usb!UsbTypeOK
BY DEF UsbInv, UsbTypes, UsbFields, Usb!UsbTypeOK, Cycle

-----------------------------------------------------------------------------
(* The types of all the parts *)

\* What each part keeps of its own, whichever runs.
PartsInv ==
  /\ part \in Parts
  /\ StreamInv /\ StreamFields /\ FilesInv /\ FdHolder /\ LogInv /\ LogFields
  /\ SerialInv /\ SerialFields /\ TwiInv /\ TwiFields /\ UsbInv /\ UsbFields
  /\ EtherInv /\ EtherFields

LEMMA PartsInvInit == PartsInit => PartsInv
<1> SUFFICES ASSUME PartsInit PROVE PartsInv
  OBVIOUS
<1>1. part \in Parts
  BY DEF PartsInit
<1>2. FilesInv
  BY FdInvInit, DevInvInit DEF FilesInv
<1> QED BY <1>1, <1>2, StreamStarts, StreamFieldsInit, FdHolderInit, LogInvInit, LogFieldsInit,
        SerialInvInit, SerialFieldsInit, TwiInvInit, TwiFieldsInit, UsbStarts, UsbFieldsInit,
        EtherInvInit, EtherFieldsInit DEF PartsInv

LEMMA PartsInvStep == PartsInv /\ [PartsNext]_all => PartsInv'
<1> SUFFICES ASSUME PartsInv, [PartsNext]_all PROVE PartsInv'
  OBVIOUS
<1>1. part' \in Parts
  BY DEF PartsInv, PartsNext, StreamStep, FilesStep, LogStep, SerialStep, TwiStep, UsbStep, EtherStep,
         Still, all
<1> QED BY <1>1, StreamAnyStep, StreamFieldsStep, FilesInvStep, FdHolderStep, LogInvStep, LogFieldsStep,
        SerialInvStep, SerialFieldsStep, TwiInvStep, TwiFieldsStep, UsbAnyStep, UsbFieldsStep,
        EtherInvStep, EtherFieldsStep DEF PartsInv

\* Every driver and service keeps its variables in their types, for any sizes:
\* no ring or transfer is longer than its buffer, no index leaves its ring, the
\* count of the devices is that of the entries in use (fs_devio.c, syslog.c,
\* uart_simple_cdc.c, twi_simple.c, usb_audio.c, adi_gemac.c, and the streams).
THEOREM TypesAreKept == PartsSpec => []TypesOK
<1>1. PartsInv => TypesOK
  <2> SUFFICES ASSUME PartsInv PROVE TypesOK
    OBVIOUS
  <2>1. /\ TypeOK /\ Files!TypeOK /\ Log!TypeOK /\ Serial!TypeOK /\ Twi!TwiTypeOK
        /\ Usb!UsbTypeOK /\ Ether!EtherTypeOK
    BY StreamTyped, FilesTyped, LogTyped, SerialTyped, TwiTyped, UsbTyped, EtherTyped DEF PartsInv
  <2> QED BY <2>1 DEF PartsInv, Parts, TypesOK
<1> QED BY <1>1, PartsInvInit, PartsInvStep, PTL DEF PartsSpec

=============================================================================
