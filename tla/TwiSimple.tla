----------------------------- MODULE TwiSimple ------------------------------
(***************************************************************************)
(* The I2C driver: src/ARM/src/simple-drivers/twi_simple.c built for       *)
(* FreeRTOS.  A call starts a transfer under the port's lock and blocks;   *)
(* the interrupt serves a FIFO of two bytes, turns a write into a read,    *)
(* and tells the controller how many bytes are left once the number fits   *)
(* its counter.  The controller is external, as the comments of the        *)
(* interrupt describe it (twi_simple.c:739 and 758).                       *)
(*                                                                         *)
(* Only the numbers of bytes are in the model.                             *)
(***************************************************************************)
EXTENDS Integers

CONSTANTS
  Users,       \* the tasks that use the port
  Unlocked,    \* the holder of a free lock
  TWI_MAX_DCNT,  \* the longest transfer the controller counts
  MaxLength    \* bound: the bytes of each buffer

Unlimited == TWI_MAX_DCNT + 1   \* 0xFF: the controller does not count
FifoSize  == 2
Shorter(a, b) == IF a < b THEN a ELSE b

VARIABLES
  portLock, portBlock,          \* the holder of the lock, and the semaphore
  doing,                        \* where each user is
  result,                       \* the holder's result
  xferType, slen, rlen, longXfer,  \* sTWI
  wire, dcnt, fifo,             \* the controller: direction, counter, FIFO
  istat, errors,                \* its interrupt and error status
  asked, sent, received         \* history: the request, and the bytes on the wire

port     == <<portLock, portBlock>>
transfer == <<xferType, slen, rlen, longXfer>>
bus      == <<wire, dcnt, fifo, istat, errors>>
moved    == <<sent, received>>
twiVars  == <<port, doing, result, transfer, bus, asked, moved>>

-----------------------------------------------------------------------------
(* The calls                                                               *)

\* What the callers ask for.  Their writeWrites have a first part: without one
\* the FIFO is never filled and the call never ends.
Requests ==
  {q \in [type : {"READ", "WRITE", "WRITEREAD", "WRITEWRITE"},
          outLen : 0 .. MaxLength, inLen : 0 .. MaxLength] :
     /\ q.type = "READ" => q.outLen = 0
     /\ q.type = "WRITE" => q.inLen = 0
     /\ q.type = "WRITEWRITE" => q.outLen > 0 \/ q.inLen = 0}

NoRequest == [type |-> "READ", outLen |-> 0, inLen |-> 0]

Converted(q) ==
  CASE q.type = "WRITEREAD" /\ q.outLen = 0 -> "READ"
    [] q.type \in {"WRITEREAD", "WRITEWRITE"} /\ q.inLen = 0 -> "WRITE"
    [] OTHER -> q.type

BadLength(q) ==
  \/ q.type # "WRITE" /\ q.outLen = 0 /\ q.inLen = 0
  \/ q.type = "WRITEREAD" /\ q.outLen > TWI_MAX_DCNT

\* The bytes the controller is told of, and whether it can count them.
FirstLength(q) ==
  CASE Converted(q) = "READ" -> q.inLen
    [] Converted(q) = "WRITEWRITE" -> q.outLen + q.inLen
    [] OTHER -> q.outLen

Count(n) == Shorter(n, Unlimited)
Long(n)  == n > TWI_MAX_DCNT

\* twi_fill_fifo: from the first buffer, then from the second of a writeWrite.
Fill(f, n, type, second) ==
  LET one == Shorter(FifoSize - f, n)
      two == Shorter(FifoSize - f - one, second)
  IN IF type = "WRITEWRITE" /\ n > 0 /\ one = n
     THEN [fifo |-> f + one + two, slen |-> second - two, xferType |-> "WRITE"]
     ELSE [fifo |-> f + one, slen |-> n - one, xferType |-> type]

\* The lock is taken, the controller set up, its FIFO filled, and it starts.
StartXfer(u) ==
  /\ doing[u] = "idle" /\ portLock = Unlocked
  /\ portLock' = u
  /\ \E q \in Requests :
       /\ asked' = q
       /\ IF BadLength(q)
          THEN /\ result' = "BAD_LENGTH"
               /\ doing' = [doing EXCEPT ![u] = "give"]
               /\ UNCHANGED <<transfer, bus, moved>>
          ELSE /\ LET type   == Converted(q)
                      filled == Fill(0, IF type = "READ" THEN 0 ELSE q.outLen, type, q.inLen)
                  IN /\ xferType' = filled.xferType
                     /\ slen' = filled.slen
                     /\ fifo' = filled.fifo
                     /\ wire' = IF type = "READ" THEN "rx" ELSE "tx"
               /\ rlen' = q.inLen
               /\ longXfer' = Long(FirstLength(q))
               /\ dcnt' = Count(FirstLength(q))
               /\ result' = "SUCCESS"
               /\ doing' = [doing EXCEPT ![u] = "wait"]
               /\ UNCHANGED <<istat, errors, moved>>
  /\ UNCHANGED portBlock

\* The semaphore ends the wait; twi_end gathers the errors.
EndXfer(u) ==
  /\ doing[u] = "wait" /\ portBlock = 1
  /\ portBlock' = 0
  /\ result' = IF errors THEN "ERROR" ELSE "SUCCESS"
  /\ errors' = FALSE
  /\ doing' = [doing EXCEPT ![u] = "give"]
  /\ UNCHANGED <<portLock, transfer, wire, dcnt, fifo, istat, asked, moved>>

GiveLock(u) ==
  /\ doing[u] = "give"
  /\ portLock' = Unlocked
  /\ doing' = [doing EXCEPT ![u] = "idle"]
  /\ asked' = NoRequest /\ sent' = 0 /\ received' = 0
  /\ UNCHANGED <<portBlock, result, transfer, bus>>

-----------------------------------------------------------------------------
(* The controller                                                          *)

Counted == IF dcnt = Unlimited THEN dcnt ELSE dcnt - 1

SendByte ==
  /\ wire = "tx" /\ dcnt > 0 /\ fifo > 0
  /\ fifo' = fifo - 1 /\ dcnt' = Counted
  /\ sent' = sent + 1
  /\ istat' = istat \cup (IF fifo' = 0 THEN {"TXSERV"} ELSE {})
  /\ UNCHANGED <<wire, received>>

ReceiveByte ==
  /\ wire = "rx" /\ dcnt > 0 /\ fifo < FifoSize
  /\ fifo' = fifo + 1 /\ dcnt' = Counted
  /\ received' = received + 1
  /\ istat' = istat \cup (IF fifo' = FifoSize THEN {"RXSERV"} ELSE {})
  /\ UNCHANGED <<wire, sent>>

Complete ==
  /\ wire # "off" /\ dcnt = 0
  /\ wire' = "off"
  /\ istat' = istat \cup {"MCOMP"}
  /\ UNCHANGED <<dcnt, fifo, moved>>

Bus ==
  /\ SendByte \/ ReceiveByte \/ Complete
  /\ UNCHANGED <<port, doing, result, transfer, errors, asked>>

\* A device does not answer, or the bus is lost to another master.
Fail ==
  /\ wire # "off"
  /\ wire' = "off"
  /\ errors' = TRUE
  /\ istat' = istat \cup {"MCOMP"}
  /\ UNCHANGED <<port, doing, result, transfer, dcnt, fifo, asked, moved>>

-----------------------------------------------------------------------------
(* twi_data_irq                                                            *)

Ended == "MCOMP" \in istat

\* The bytes left now fit the counter.
CountsOut == "TXSERV" \in istat /\ xferType = "WRITE" /\ longXfer /\ slen < TWI_MAX_DCNT
CountsIn  == "RXSERV" \in istat /\ longXfer /\ rlen < TWI_MAX_DCNT

\* Mutant of StillToCome: the two bytes in the FIFO are counted again.
StillToComeAll(n) == n

StillToCome(n) == n - FifoSize

\* The write of a writeRead has ended: the read follows.
TurnsRound == Ended /\ ~errors /\ xferType = "WRITEREAD"

Done == Ended /\ (errors \/ xferType \in {"READ", "WRITE"})

\* What the FIFO, slen, rlen and xferType are after the FIFO was served.
Served ==
  LET filled == Fill(fifo, slen, xferType, rlen)
      taken  == Shorter(fifo, rlen)
  IN
  IF "TXSERV" \in istat
  THEN [fifo |-> filled.fifo, slen |-> filled.slen, rlen |-> rlen,
        xferType |-> filled.xferType]
  ELSE IF "RXSERV" \in istat \/ (Ended /\ ~errors /\ xferType = "READ")
  THEN [fifo |-> fifo - taken, slen |-> slen, rlen |-> rlen - taken,
        xferType |-> xferType]
  ELSE [fifo |-> fifo, slen |-> slen, rlen |-> rlen, xferType |-> xferType]

twi_data_irq ==
  /\ istat # {}
  /\ istat' = {}
  /\ fifo' = Served.fifo /\ slen' = Served.slen /\ rlen' = Served.rlen
  /\ xferType' = IF TurnsRound THEN "READ" ELSE Served.xferType
  /\ wire' = IF TurnsRound THEN "rx" ELSE wire
  /\ dcnt' = IF TurnsRound THEN Count(rlen)
             ELSE IF CountsOut THEN slen
             ELSE IF CountsIn THEN StillToCome(rlen)
             ELSE dcnt
  /\ longXfer' = IF TurnsRound THEN Long(rlen) ELSE longXfer /\ ~CountsOut /\ ~CountsIn
  /\ portBlock' = IF Done THEN 1 ELSE portBlock
  /\ UNCHANGED <<portLock, doing, result, errors, asked, moved>>

-----------------------------------------------------------------------------
TwiInit ==
  /\ portLock = Unlocked /\ portBlock = 0
  /\ doing = [u \in Users |-> "idle"]
  /\ result = "SUCCESS"
  /\ xferType = "READ" /\ slen = 0 /\ rlen = 0 /\ longXfer = FALSE
  /\ wire = "off" /\ dcnt = 0 /\ fifo = 0
  /\ istat = {} /\ errors = FALSE
  /\ asked = NoRequest
  /\ sent = 0 /\ received = 0

twi_xfer(u) == StartXfer(u) \/ EndXfer(u) \/ GiveLock(u)

TwiNext ==
  \/ \E u \in Users : twi_xfer(u)
  \/ Bus
  \/ Fail
  \/ twi_data_irq

\* The controller goes on with a transfer, its interrupt is served, and a
\* user that can run does.
TwiFairness ==
  /\ WF_twiVars(Bus)
  /\ WF_twiVars(twi_data_irq)
  /\ WF_twiVars(\E u \in Users : EndXfer(u) \/ GiveLock(u))

TwiSpec == TwiInit /\ [][TwiNext]_twiVars /\ TwiFairness

-----------------------------------------------------------------------------
TwiTypeOK ==
  /\ portLock \in Users \cup {Unlocked} /\ portBlock \in 0 .. 1
  /\ doing \in [Users -> {"idle", "wait", "give"}]
  /\ {slen, rlen} \subseteq 0 .. MaxLength
  /\ dcnt \in 0 .. Unlimited /\ fifo \in 0 .. FifoSize
  /\ {longXfer, errors} \subseteq BOOLEAN

ToSend    == IF asked.type = "WRITEWRITE" THEN asked.outLen + asked.inLen ELSE asked.outLen
ToReceive == IF asked.type = "WRITEWRITE" THEN 0 ELSE asked.inLen

\* A transfer moves the bytes its caller asked for and no more, though the
\* controller counts short transfers only, long ones are counted near their
\* end, and the interrupt comes when it can: a call that succeeds has moved
\* them all and left none in the FIFO.
TransfersExact ==
  \A u \in Users :
    /\ doing[u] = "wait" => sent <= ToSend /\ received <= ToReceive
    /\ doing[u] = "give" /\ result = "SUCCESS" =>
         sent = ToSend /\ received = ToReceive /\ fifo = 0 /\ (received > 0 => rlen = 0)

\* Every call returns and gives the port back: errors end a transfer, and a long one is not left
\* with a controller that counts nothing.
CallsReturn == []<>(portLock = Unlocked)

=============================================================================
