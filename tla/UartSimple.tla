----------------------------- MODULE UartSimple -----------------------------
(***************************************************************************)
(* The UART driver's reads, writes and interrupt:                          *)
(* src/ARM/src/simple-drivers/uart_simple.c built for FreeRTOS.            *)
(*                                                                         *)
(* A ring buffer each way connects the tasks and uart_status_irq.  A task  *)
(* that finds its ring empty or full says that it sleeps and blocks on a   *)
(* binary semaphore.  Tasks are interrupted between any two steps; a       *)
(* critical section is one step, and so is the interrupt.                  *)
(***************************************************************************)
EXTENDS Naturals, FiniteSets

CONSTANTS
  Writer, Reader,  \* the tasks that call uart_write and uart_read
  NoTask,          \* the holder of a free lock
  BufSize,         \* UART_BUFFER_SIZE
  Burst,           \* *outLen: the bytes of a write
  ReadLen,         \* *inLen: the bytes a read asks for
  IndexFirst,      \* the build stores an index before the byte and the wrap
  FifoSize,        \* the bytes the UART itself holds
  MaxWrites,       \* bound: writes in a behaviour
  MaxBytes         \* bound: bytes received in a behaviour

\* A task is in one call at a time: one that reads and writes is counted once
\* as a writer and once as a reader.
ASSUME TaskAssumption   == NoTask \notin Writer \cup Reader /\ Writer \cap Reader = {}
ASSUME SizeAssumption   == BufSize \in Nat /\ BufSize >= 2 /\ ReadLen \in Nat \ {0}
ASSUME FifoAssumption   == FifoSize \in Nat \ {0}
\* outLen is a uint8_t and the buffer has 1024 bytes.
ASSUME BurstAssumption  == Burst \in 1 .. BufSize - 1
ASSUME OrderAssumption  == IndexFirst \in BOOLEAN
ASSUME BoundAssumption  == MaxWrites \in Nat /\ MaxBytes \in Nat

VARIABLES
  txBuffer, txRead, txWrite,   \* tx_buffer and its indices
  rxBuffer, rxRead, rxWrite,   \* rx_buffer and its indices
  transmitting, etbei,         \* the flag, and the transmit interrupt's mask
  txSleeping, rxSleeping,
  txBlock, rxBlock,            \* the tokens of portTxBlock and portRxBlock
  txLock, rxLock,              \* the holders of portTxLock and portRxLock
  thre,                        \* the UART's transmit register is empty
  fifo,                        \* bytes the UART has received and not handed over
  pc,                          \* where each task is in its call
  done,                        \* i: bytes written or read by the call
  writes,                      \* history: writes begun
  sent,                        \* history: the last byte sent
  broken,                      \* history: a byte was sent out of order
  arrived, taken, dropped      \* history: bytes received, read and refused

txVars   == <<txBuffer, txRead, txWrite, transmitting, etbei, txSleeping, txBlock, thre>>
rxVars   == <<rxBuffer, rxRead, rxWrite, rxSleeping, rxBlock, fifo>>
callVars == <<pc, done, txLock, rxLock>>
histVars == <<writes, sent, broken, arrived, taken, dropped>>
vars     == <<txVars, rxVars, callVars, histVars>>

Goto(t, place) == pc' = [pc EXCEPT ![t] = place]

\* The bytes of a write are numbered, and so are those received; 0 is the
\* byte uart_open leaves in the buffers.
Byte(write, i) == write * Burst + i

\* Mutant of Full: the index is not wrapped before it is compared.
FullUnwrapped(r, w) == w + 1 = r

Full(r, w) == (w + 1) % BufSize = r

\* Mutant of Advance: the index wraps one byte too late.
AdvanceLate(i) == IF i + 1 > BufSize THEN 0 ELSE i + 1

\* buffer[index++] and the wrap that follows: C leaves it open whether the
\* index is stored before the byte is, and no index of the tasks is volatile.
\* In the first of these orders the index is past the buffer until the wrap.
Advance(i) == IF IndexFirst THEN i + 1 ELSE (i + 1) % BufSize
Wrapped(i) == IF i >= BufSize THEN 0 ELSE i
Slot(i)    == IF IndexFirst THEN i - 1 ELSE i

FirstStore == IF IndexFirst THEN "index" ELSE "byte"
AfterByte  == IF IndexFirst THEN "wrap" ELSE "index"
AfterIndex == IF IndexFirst THEN "byte" ELSE "wrap"

-----------------------------------------------------------------------------
(* uart_write *)

StartWrite(t) ==
  /\ pc[t] = "idle" /\ txLock = NoTask /\ writes < MaxWrites
  /\ txLock' = t
  /\ writes' = writes + 1
  /\ Goto(t, "full?")
  /\ UNCHANGED <<txVars, rxVars, done, rxLock, sent, broken, arrived, taken, dropped>>

TestFull(t) ==
  /\ pc[t] = "full?"
  /\ Goto(t, IF Full(txRead, txWrite) THEN "txBlock" ELSE FirstStore)
  /\ txSleeping' = (txSleeping \/ Full(txRead, txWrite))
  /\ UNCHANGED <<txBuffer, txRead, txWrite, transmitting, etbei, txBlock, thre, rxVars,
                 done, txLock, rxLock, histVars>>

TakeTxBlock(t) ==
  /\ pc[t] = "txBlock" /\ txBlock = 1
  /\ txBlock' = 0
  /\ Goto(t, FirstStore)
  /\ UNCHANGED <<txBuffer, txRead, txWrite, transmitting, etbei, txSleeping, thre, rxVars,
                 done, txLock, rxLock, histVars>>

Put(t) ==
  /\ pc[t] = "byte" /\ t \in Writer
  /\ txBuffer' = [txBuffer EXCEPT ![Slot(txWrite)] = Byte(writes - 1, done[t] + 1)]
  /\ Goto(t, AfterByte)
  /\ UNCHANGED <<txRead, txWrite, transmitting, etbei, txSleeping, txBlock, thre, rxVars,
                 done, txLock, rxLock, histVars>>

AdvanceWrite(t) ==
  /\ pc[t] = "index" /\ t \in Writer
  /\ txWrite' = Advance(txWrite)
  /\ Goto(t, AfterIndex)
  /\ UNCHANGED <<txBuffer, txRead, transmitting, etbei, txSleeping, txBlock, thre, rxVars,
                 done, txLock, rxLock, histVars>>

WrapWrite(t) ==
  /\ pc[t] = "wrap" /\ t \in Writer
  /\ txWrite' = Wrapped(txWrite)
  /\ done' = [done EXCEPT ![t] = @ + 1]
  /\ Goto(t, IF done[t] + 1 < Burst THEN "full?" ELSE "kick")
  /\ UNCHANGED <<txBuffer, txRead, transmitting, etbei, txSleeping, txBlock, thre, rxVars,
                 txLock, rxLock, histVars>>

\* The transmit interrupt is enabled if it is off, and the lock given back.
Kick(t) ==
  /\ pc[t] = "kick"
  /\ etbei' = (etbei \/ ~transmitting)
  /\ transmitting' = TRUE
  /\ txLock' = NoTask
  /\ done' = [done EXCEPT ![t] = 0]
  /\ Goto(t, "idle")
  /\ UNCHANGED <<txBuffer, txRead, txWrite, txSleeping, txBlock, thre, rxVars,
                 rxLock, histVars>>

-----------------------------------------------------------------------------
(* uart_read *)

StartRead(t) ==
  /\ pc[t] = "idle" /\ rxLock = NoTask
  /\ rxLock' = t
  /\ Goto(t, "empty?")
  /\ UNCHANGED <<txVars, rxVars, done, txLock, histVars>>

Empty == rxRead = rxWrite

\* Mutant of Sleeping: nobody is told that the reader sleeps.
SleepingUnset == rxSleeping

Sleeping == rxSleeping \/ Empty

TestEmpty(t) ==
  /\ pc[t] = "empty?"
  /\ Goto(t, IF Empty THEN "rxBlock" ELSE "drain")
  /\ rxSleeping' = Sleeping
  /\ UNCHANGED <<txVars, rxBuffer, rxRead, rxWrite, rxBlock, fifo,
                 done, txLock, rxLock, histVars>>

TakeRxBlock(t) ==
  /\ pc[t] = "rxBlock" /\ rxBlock = 1
  /\ rxBlock' = 0
  /\ Goto(t, "drain")
  /\ UNCHANGED <<txVars, rxBuffer, rxRead, rxWrite, rxSleeping, fifo,
                 done, txLock, rxLock, histVars>>

\* Any wait but an infinite one may end without a token.
TimedOut(t) ==
  /\ pc[t] = "rxBlock" /\ rxBlock = 0
  /\ Goto(t, "timedout")
  /\ UNCHANGED <<txVars, rxVars, done, txLock, rxLock, histVars>>

AfterTimeout(t) ==
  /\ pc[t] = "timedout"
  /\ rxSleeping' = FALSE
  /\ Goto(t, "drain")
  /\ UNCHANGED <<txVars, rxBuffer, rxRead, rxWrite, rxBlock, fifo,
                 done, txLock, rxLock, histVars>>

Drain(t) ==
  /\ pc[t] = "drain"
  /\ Goto(t, IF done[t] < ReadLen /\ ~Empty THEN FirstStore ELSE "return")
  /\ UNCHANGED <<txVars, rxVars, done, txLock, rxLock, histVars>>

Get(t) ==
  /\ pc[t] = "byte" /\ t \in Reader
  /\ taken' = rxBuffer[Slot(rxRead)]
  /\ Goto(t, AfterByte)
  /\ UNCHANGED <<txVars, rxVars, done, txLock, rxLock,
                 writes, sent, broken, arrived, dropped>>

AdvanceRead(t) ==
  /\ pc[t] = "index" /\ t \in Reader
  /\ rxRead' = Advance(rxRead)
  /\ Goto(t, AfterIndex)
  /\ UNCHANGED <<txVars, rxBuffer, rxWrite, rxSleeping, rxBlock, fifo,
                 done, txLock, rxLock, histVars>>

WrapRead(t) ==
  /\ pc[t] = "wrap" /\ t \in Reader
  /\ rxRead' = Wrapped(rxRead)
  /\ done' = [done EXCEPT ![t] = @ + 1]
  /\ Goto(t, "drain")
  /\ UNCHANGED <<txVars, rxBuffer, rxWrite, rxSleeping, rxBlock, fifo,
                 txLock, rxLock, histVars>>

FinishRead(t) ==
  /\ pc[t] = "return"
  /\ rxLock' = NoTask
  /\ done' = [done EXCEPT ![t] = 0]
  /\ Goto(t, "idle")
  /\ UNCHANGED <<txVars, rxVars, txLock, histVars>>

-----------------------------------------------------------------------------
(* uart_status_irq *)

\* A full ring is what _uart_isr_writeToRXBuffer sees, byte by byte.
Fill[n \in 0 .. FifoSize] ==
  IF n = 0 THEN [buffer |-> rxBuffer, write |-> rxWrite, lost |-> 0]
  ELSE LET was == Fill[n - 1] IN
       IF Full(rxRead, was.write) THEN [was EXCEPT !.lost = @ + 1]
       ELSE [buffer |-> [was.buffer EXCEPT ![was.write] = arrived - fifo + n],
             write  |-> (was.write + 1) % BufSize,
             lost   |-> was.lost]

\* Mutant of Wakes: the semaphore is given whether anyone sleeps or not.
WakesAlways(stored) == stored > 0

Wakes(stored) == stored > 0 /\ rxSleeping

IrqReceive ==
  LET filled == Fill[fifo]
      wakes  == Wakes(fifo - filled.lost)
  IN /\ rxBuffer' = filled.buffer /\ rxWrite' = filled.write
     /\ dropped' = dropped + filled.lost
     /\ fifo' = 0
     /\ rxBlock' = IF wakes THEN 1 ELSE rxBlock
     /\ rxSleeping' = (rxSleeping /\ ~wakes)

\* Mutant of Stop: the flag is not reset when the ring is found empty.
StopKeepsFlag == /\ etbei' = FALSE /\ UNCHANGED transmitting

Stop == /\ etbei' = FALSE /\ transmitting' = FALSE

\* A byte sent follows the one before it.
SendByte(b) ==
  /\ sent' = b
  /\ broken' = (broken \/ b # sent + 1)

IrqTransmit ==
  \/ /\ thre /\ txRead # txWrite
     /\ SendByte(txBuffer[txRead])
     /\ txRead' = (txRead + 1) % BufSize
     /\ thre' = FALSE
     /\ txBlock' = IF txSleeping THEN 1 ELSE txBlock
     /\ txSleeping' = FALSE
     /\ UNCHANGED <<transmitting, etbei>>
  \/ /\ thre /\ txRead = txWrite
     /\ Stop
     /\ UNCHANGED <<txRead, thre, txBlock, txSleeping, sent, broken>>
  \/ /\ ~thre
     /\ UNCHANGED <<txRead, thre, txBlock, txSleeping, transmitting, etbei, sent, broken>>

uart_status_irq ==
  /\ fifo > 0 \/ (etbei /\ thre)
  /\ IrqReceive
  /\ IrqTransmit
  /\ UNCHANGED <<txBuffer, txWrite, rxRead, callVars, writes, arrived, taken>>

\* The UART: a byte arrives, the transmit register is emptied.
ByteArrives ==
  /\ fifo < FifoSize /\ arrived < MaxBytes
  /\ fifo' = fifo + 1 /\ arrived' = arrived + 1
  /\ UNCHANGED <<txVars, rxBuffer, rxRead, rxWrite, rxSleeping, rxBlock,
                 callVars, writes, sent, broken, taken, dropped>>

ByteLeaves ==
  /\ ~thre
  /\ thre' = TRUE
  /\ UNCHANGED <<txBuffer, txRead, txWrite, transmitting, etbei, txSleeping, txBlock,
                 rxVars, callVars, histVars>>

-----------------------------------------------------------------------------
Init ==
  /\ txBuffer = [i \in 0 .. BufSize - 1 |-> 0] /\ txRead = 0 /\ txWrite = 0
  /\ rxBuffer = [i \in 0 .. BufSize - 1 |-> 0] /\ rxRead = 0 /\ rxWrite = 0
  /\ transmitting = FALSE /\ etbei = FALSE /\ thre = TRUE /\ fifo = 0
  /\ txSleeping = FALSE /\ rxSleeping = FALSE /\ txBlock = 0 /\ rxBlock = 0
  /\ txLock = NoTask /\ rxLock = NoTask
  /\ pc = [t \in Writer \cup Reader |-> "idle"]
  /\ done = [t \in Writer \cup Reader |-> 0]
  /\ writes = 0 /\ sent = 0 /\ broken = FALSE
  /\ arrived = 0 /\ taken = 0 /\ dropped = 0

WriteStep(t) ==
  TestFull(t) \/ TakeTxBlock(t) \/ Put(t) \/ AdvanceWrite(t) \/ WrapWrite(t) \/ Kick(t)
ReadStep(t) ==
  \/ TestEmpty(t) \/ TakeRxBlock(t) \/ AfterTimeout(t)
  \/ Drain(t) \/ Get(t) \/ AdvanceRead(t) \/ WrapRead(t) \/ FinishRead(t)

Next ==
  \/ \E t \in Writer : StartWrite(t) \/ WriteStep(t)
  \/ \E t \in Reader : StartRead(t) \/ ReadStep(t) \/ TimedOut(t)
  \/ uart_status_irq \/ ByteArrives \/ ByteLeaves

Spec == Init /\ [][Next]_vars

\* Tasks run, pending interrupts are taken and the UART shifts its bytes out;
\* nobody has to call, send or time out.
FairSpec ==
  /\ Spec
  /\ \A t \in Writer : WF_vars(WriteStep(t))
  /\ \A t \in Reader : WF_vars(ReadStep(t))
  /\ WF_vars(uart_status_irq) /\ WF_vars(ByteLeaves)

-----------------------------------------------------------------------------
(* Properties *)

Index == IF IndexFirst THEN 0 .. BufSize ELSE 0 .. BufSize - 1

TypeOK ==
  /\ txRead \in 0 .. BufSize - 1 /\ txWrite \in Index
  /\ rxRead \in Index /\ rxWrite \in 0 .. BufSize - 1
  /\ txBuffer \in [0 .. BufSize - 1 -> 0 .. MaxWrites * Burst]
  /\ rxBuffer \in [0 .. BufSize - 1 -> 0 .. MaxBytes]
  /\ {transmitting, etbei, txSleeping, rxSleeping, thre, broken} \subseteq BOOLEAN
  /\ txBlock \in {0, 1} /\ rxBlock \in {0, 1}
  /\ txLock \in Writer \cup {NoTask} /\ rxLock \in Reader \cup {NoTask}
  /\ fifo \in 0 .. FifoSize /\ dropped <= arrived /\ taken <= arrived

\* The bytes of all writes leave in the order they were written, each write in
\* one piece, none twice and none left out: "each thread will sequentially
\* write a contiguous stream of bytes" (uart_simple.h:308).
TxInOrder == ~broken

\* What is in the receive ring, oldest first, arrived after what was read, and
\* every byte that is in neither was refused for want of room.
Held == (rxWrite + BufSize - rxRead) % BufSize
RxInOrder ==
  LET at(i) == rxBuffer[(rxRead + i) % BufSize]
      next  == IF \E t \in Reader : pc[t] = "index" THEN 1 ELSE 0  \* read, index not yet advanced
  IN /\ \A i \in next .. Held - 1 : at(i) > (IF i = next THEN taken ELSE at(i - 1))
     /\ dropped = 0 => taken + (Held - next) + fifo = arrived

\* Every write returns, and every byte written leaves.
WritesComplete ==
  /\ \A t \in Writer : pc[t] # "idle" ~> pc[t] = "idle"
  /\ \A n \in 1 .. MaxWrites : writes = n ~> sent >= n * Burst

\* A reader that blocks returns when there is data.
ReadsReturn == \A t \in Reader : (pc[t] = "rxBlock" /\ ~Empty) ~> pc[t] = "idle"

=============================================================================
