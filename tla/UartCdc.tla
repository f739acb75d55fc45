------------------------------ MODULE UartCdc -------------------------------
(***************************************************************************)
(* The USB serial port: src/ARM/src/simple-drivers/uart_simple_cdc.c built *)
(* for FreeRTOS.  Writes and reads move stretches of bytes through a ring  *)
(* each way; the USB interrupt sends and receives stretches of its own.    *)
(* A critical section is one step, and so is a callback of the interrupt.  *)
(*                                                                         *)
(* Both sides may fill a ring to the last byte, and a full ring reads as   *)
(* empty: the bytes in it are lost, and the port goes on.  A behaviour is  *)
(* about one direction.                                                    *)
(***************************************************************************)
EXTENDS Integers, Sequences

CONSTANTS
  Callers,     \* the tasks that call uart_cdc_write or uart_cdc_read
  None,        \* the holder of a free lock
  BufSize,     \* UART_BUFFER_SIZE
  DmaSize,     \* UART_DMA_BUFFER_SIZE
  Lengths,     \* the bytes of a write, a read or a transfer received
  Bytes        \* bytes are numbered in turn, modulo Bytes

VARIABLES
  side,                    \* "tx" or "rx"; never changes
  buf, readptr, writeptr,  \* the direction's ring
  transmitting, tx_size,   \* the flag, and the bytes of a chunk
  inFlight,                \* the USB library has a chunk
  sleeping, token,         \* txSleeping or rxSleeping, and the semaphore
  portLock,                \* the holder of portTxLock or portRxLock
  at,                      \* where each caller is
  remaining, size,         \* locals: bytes left to write, bytes a read takes
  next, expected,          \* history: the next byte put in, and to be taken out
  broken,                  \* history: another byte was taken out
  brim                     \* history: a ring was filled to the last byte

ring  == <<buf, readptr, writeptr>>
local == <<remaining, size>>
tx    == <<transmitting, tx_size, inFlight>>
hist  == <<next, expected, broken, brim>>
vars  == <<side, ring, tx, sleeping, token, portLock, at, local, hist>>

Goto(c, place) == at' = [at EXCEPT ![c] = place]
Lesser(a, b)   == IF a < b THEN a ELSE b

Full  == (writeptr + 1) % BufSize = readptr
Empty == writeptr = readptr

Wrapped(i) == IF i >= BufSize THEN 0 ELSE i

\* The bytes that can be read in one stretch from r, up to w or to the end.
Stretch(r, w) == IF w < r THEN BufSize - r ELSE w - r

\* buf with n bytes more, from w on.
With(b, w, n, first) ==
  [i \in DOMAIN b |-> IF i \in w .. w + n - 1 THEN (first + i - w) % Bytes ELSE b[i]]

\* n bytes are taken out from r on.
TakeOut(r, n) ==
  /\ broken' = (broken \/ \E k \in 0 .. n - 1 : buf[r + k] # (expected + k) % Bytes)
  /\ expected' = (expected + n) % Bytes

-----------------------------------------------------------------------------
(* uart_cdc_write                                                          *)

StartWrite(c) ==
  /\ side = "tx" /\ at[c] = "idle" /\ portLock = None
  /\ portLock' = c
  /\ \E n \in Lengths : remaining' = n
  /\ Goto(c, "full?")
  /\ UNCHANGED <<side, ring, tx, sleeping, token, size, hist>>

\* A full ring that nothing empties ends the write.
TestFull(c) ==
  /\ at[c] = "full?"
  /\ sleeping' = (sleeping \/ (Full /\ transmitting))
  /\ Goto(c, IF ~Full THEN "copy" ELSE IF transmitting THEN "block" ELSE "kick")
  /\ UNCHANGED <<side, ring, tx, token, portLock, local, hist>>

TakeTxBlock(c) ==
  /\ at[c] = "block" /\ side = "tx" /\ token = 1
  /\ token' = 0
  /\ Goto(c, "copy")
  /\ UNCHANGED <<side, ring, tx, sleeping, portLock, local, hist>>

\* The room up to the end or up to the reader, not the byte before it.
WriteRoom == IF writeptr >= readptr THEN BufSize - writeptr ELSE readptr - writeptr

CopyIn(c) ==
  /\ at[c] = "copy" /\ side = "tx"
  /\ LET n == Lesser(WriteRoom, remaining) IN
       /\ buf' = With(buf, writeptr, n, next)
       /\ writeptr' = Wrapped(writeptr + n)
       /\ next' = (next + n) % Bytes
       /\ brim' = (brim \/ writeptr' = readptr)
       /\ remaining' = remaining - n
       /\ Goto(c, IF remaining = n THEN "kick" ELSE "full?")
  /\ UNCHANGED <<side, readptr, tx, sleeping, token, portLock, size,
                 expected, broken>>

\* Mutant of Chunk: a chunk runs on past the bytes written.
ChunkWhole(r) == Lesser(DmaSize, BufSize - r)

Chunk(r) == Lesser(DmaSize, Stretch(r, writeptr))

\* _uart_cdc_isr_readFromTXBuffer: a chunk leaves, unless cdc_tx_serial_data
\* refuses it.
Send(r) ==
  /\ tx_size' = Chunk(r)
  /\ \/ TakeOut(r, Chunk(r)) /\ inFlight' = TRUE
     \/ UNCHANGED <<broken, expected>> /\ inFlight' = FALSE

\* The first chunk is sent if none is in flight.  An empty ring is an error.
Kick(c) ==
  /\ at[c] = "kick"
  /\ IF transmitting \/ Empty
     THEN UNCHANGED <<transmitting, inFlight, tx_size, broken, expected>>
     ELSE Send(readptr) /\ transmitting' = inFlight'
  /\ portLock' = None
  /\ remaining' = 0
  /\ Goto(c, "idle")
  /\ UNCHANGED <<side, ring, sleeping, token, size, next, brim>>

\* The chunk leaves the ring and the next is sent; when the next is refused
\* the port transmits nothing and says it does.
_uart_cdc_tx_complete ==
  /\ side = "tx" /\ inFlight
  /\ readptr' = Wrapped(readptr + tx_size)
  /\ IF writeptr = readptr'
     THEN /\ transmitting' = FALSE /\ inFlight' = FALSE
          /\ UNCHANGED <<tx_size, broken, expected>>
     ELSE Send(readptr') /\ UNCHANGED transmitting
  /\ token' = IF sleeping THEN 1 ELSE token
  /\ sleeping' = FALSE
  /\ UNCHANGED <<side, buf, writeptr, portLock, at, local, next, brim>>

-----------------------------------------------------------------------------
(* uart_cdc_read                                                           *)

StartRead(c) ==
  /\ side = "rx" /\ at[c] = "idle" /\ portLock = None
  /\ portLock' = c
  /\ Goto(c, "empty?")
  /\ UNCHANGED <<side, ring, tx, sleeping, token, local, hist>>

TestEmpty(c) ==
  /\ at[c] = "empty?"
  /\ sleeping' = (sleeping \/ Empty)
  /\ Goto(c, IF Empty THEN "block" ELSE "size")
  /\ UNCHANGED <<side, ring, tx, token, portLock, local, hist>>

\* The semaphore is given, or the read times out.
TakeRxBlock(c) ==
  /\ at[c] = "block" /\ side = "rx"
  /\ token' = 0
  /\ Goto(c, "awake")
  /\ UNCHANGED <<side, ring, tx, sleeping, portLock, local, hist>>

Awake(c) ==
  /\ at[c] = "awake"
  /\ sleeping' = FALSE
  /\ Goto(c, "size")
  /\ UNCHANGED <<side, ring, tx, token, portLock, local, hist>>

Measure(c) ==
  /\ at[c] = "size"
  /\ \E n \in Lengths : size' = Lesser(n, Stretch(readptr, writeptr))
  /\ Goto(c, "copy")
  /\ UNCHANGED <<side, ring, tx, sleeping, token, portLock, remaining, hist>>

CopyOut(c) ==
  /\ at[c] = "copy" /\ side = "rx"
  /\ TakeOut(readptr, size)
  /\ Goto(c, "advance")
  /\ UNCHANGED <<side, ring, tx, sleeping, token, portLock, local, next, brim>>

AdvanceRead(c) ==
  /\ at[c] = "advance"
  /\ readptr' = Wrapped(readptr + size)
  /\ size' = 0
  /\ portLock' = None
  /\ Goto(c, "idle")
  /\ UNCHANGED <<side, buf, writeptr, tx, sleeping, token, remaining, hist>>

RxRoom(w) == IF w < readptr THEN readptr - w - 1 ELSE BufSize - w

FullAt(w) == (w + 1) % BufSize = readptr

\* _uart_cdc_rx_complete: as much as fits, in two stretches if it wraps; the
\* sleeper is woken, and goes on sleeping as far as the flag says.
_uart_cdc_rx_complete ==
  /\ side = "rx"
  /\ \E length \in Lengths :
       LET n  == IF FullAt(writeptr) THEN 0 ELSE Lesser(RxRoom(writeptr), length)
           w  == Wrapped(writeptr + n)
           n2 == IF FullAt(w) THEN 0 ELSE Lesser(RxRoom(w), length - n)
       IN
         /\ buf' = With(With(buf, writeptr, n, next), w, n2, next + n)
         /\ writeptr' = Wrapped(w + n2)
         /\ next' = (next + n + n2) % Bytes
         /\ brim' = (brim \/ (n > 0 /\ w = readptr) \/ (n2 > 0 /\ writeptr' = readptr))
         /\ token' = IF n > 0 /\ sleeping THEN 1 ELSE token
  /\ UNCHANGED <<side, readptr, tx, sleeping, portLock, at, local, expected, broken>>

-----------------------------------------------------------------------------
Init ==
  /\ side \in {"tx", "rx"}
  /\ buf = [i \in 0 .. BufSize - 1 |-> 0] /\ readptr = 0 /\ writeptr = 0
  /\ transmitting = FALSE /\ inFlight = FALSE /\ tx_size = 0
  /\ sleeping = FALSE /\ token = 0
  /\ portLock = None
  /\ at = [c \in Callers |-> "idle"]
  /\ remaining = 0 /\ size = 0
  /\ next = 0 /\ expected = 0 /\ broken = FALSE /\ brim = FALSE

uart_cdc_write(c) ==
  StartWrite(c) \/ TestFull(c) \/ TakeTxBlock(c) \/ CopyIn(c) \/ Kick(c)

uart_cdc_read(c) ==
  \/ StartRead(c) \/ TestEmpty(c) \/ TakeRxBlock(c) \/ Awake(c)
  \/ Measure(c) \/ CopyOut(c) \/ AdvanceRead(c)

Next == \/ \E c \in Callers : uart_cdc_write(c) \/ uart_cdc_read(c)
        \/ _uart_cdc_tx_complete
        \/ _uart_cdc_rx_complete

Spec == Init /\ [][Next]_vars

-----------------------------------------------------------------------------
TypeOK ==
  /\ {readptr, writeptr} \subseteq 0 .. BufSize - 1
  /\ {transmitting, inFlight, sleeping, broken, brim} \subseteq BOOLEAN
  /\ tx_size \in 0 .. DmaSize /\ token \in 0 .. 1
  /\ portLock \in Callers \cup {None} /\ DOMAIN at = Callers
  /\ remaining \in 0 .. BufSize /\ size \in 0 .. BufSize

\* Until a ring is filled to its last byte, every byte leaves it once, in
\* order, and none is left in a ring that reads as empty, though stretches are
\* copied outside the critical sections, chunks are refused, and reads time
\* out.  What follows a full ring is the matter of WritesContiguous.
SerialInOrder == brim \/ (~broken /\ (Empty => next = expected \/ inFlight \/ size > 0))

\* What is sent is what was written: "each thread will sequentially write a
\* contiguous stream of bytes" (uart_simple_cdc.h:196).
WritesContiguous == side = "tx" => ~broken

=============================================================================
