------------------------------- MODULE Gemac --------------------------------
(***************************************************************************)
(* A DMA channel of the Ethernet controller and its driver:                *)
(* src/ARM/src/adi-drivers/ethernet/gemac/adi_gemac.c.                     *)
(*                                                                         *)
(* A buffer is queued, then pending with a descriptor, then active: its    *)
(* descriptor is the controller's until the frame has moved.  Descriptors  *)
(* are linked in the order they are used; the last is never bound, so that *)
(* the controller waits on it for more.  Critical sections are steps; the  *)
(* controller runs beside the interrupt as well as beside the tasks.       *)
(***************************************************************************)
EXTENDS Integers, Sequences

CONSTANTS
  NumBuffers,  \* buffers of this direction: 128 to receive, 64 to transmit
  NumDesc,     \* descriptors: 128 to receive, 64 to transmit
  Threshold    \* ADI_EMAC_THRESHOLD

VARIABLES
  flow,                                    \* "rx" or "tx"; never changes
  queued, pending, active,                 \* the channel's queues of buffers
  desc,                                    \* the descriptor of each buffer
  descHead, descTail, numAvail, nextDesc,  \* the free descriptors, and all links
  own,                                     \* the descriptors the controller owns
  dma, cur, fetched,                       \* the controller: state, descriptor, its link
  status,                                  \* interrupts it raised
  isr, isrStatus                           \* where the interrupt is, and what it read

queues == <<queued, pending, active, desc>>
descs  == <<descHead, descTail, numAvail, nextDesc>>
device == <<own, dma, cur, fetched, status>>
gemac  == <<flow, queues, descs, device, isr, isrStatus>>

NULL  == 0
Descs == 1 .. NumDesc
Buffers == 0 .. NumBuffers - 1
Final(s) == s[Len(s)]
Fewer(a, b) == IF a < b THEN a ELSE b

\* The descriptor n places after the first that is free.
Free(n) ==
  LET place[i \in 0 .. n] == IF i = 0 THEN descHead ELSE nextDesc[place[i - 1]]
  IN  place[n]

\* EnableMAC: the first n buffers handed to the driver are bound to the first
\* descriptors and active, and the controller starts at the first descriptor.
GemacInit(handed) ==
  LET n == Fewer(NumDesc - 1, handed)
  IN
    /\ queued = [i \in 1 .. handed - n |-> n + i - 1] /\ pending = <<>>
    /\ active = [i \in 1 .. n |-> i - 1]
    /\ desc = [b \in Buffers |-> IF b < n THEN b + 1 ELSE NULL]
    /\ descHead = n + 1 /\ descTail = NumDesc /\ numAvail = NumDesc - n
    /\ nextDesc = [d \in 0 .. NumDesc |-> IF d \in 1 .. NumDesc - 1 THEN d + 1 ELSE NULL]
    /\ own = 1 .. n
    /\ dma = "running" /\ cur = 1 /\ fetched = NULL /\ status = {}
    /\ isr = "off" /\ isrStatus = {}

\* Mutant of CanBind: the last free descriptor is bound as well.
CanBindAll == Fewer(numAvail, Len(queued))

\* The buffers there are descriptors for, without the last descriptor.
CanBind == Fewer(numAvail - 1, Len(queued))

bind_buf_with_desc ==
  LET n == CanBind
      place(b) == CHOOSE i \in 1 .. n : queued[i] = b
  IN
    /\ queued' = SubSeq(queued, n + 1, Len(queued))
    /\ pending' = pending \o SubSeq(queued, 1, n)
    /\ desc' = [b \in Buffers |->
                  IF \E i \in 1 .. n : queued[i] = b THEN Free(place(b) - 1) ELSE desc[b]]
    /\ nextDesc' = IF n > 0 /\ pending # <<>>
                   THEN [nextDesc EXCEPT ![desc[Final(pending)]] = descHead]
                   ELSE nextDesc
    /\ descHead' = Free(n)
    /\ numAvail' = numAvail - n
    /\ UNCHANGED <<active, descTail>>

\* activate_channel: pending buffers join the active ones when there are none
\* or many.
Activates == active = <<>> \/ Len(active) >= Threshold

activate_channel ==
  IF pending # <<>> /\ Activates
  THEN /\ active' = active \o pending
       /\ pending' = <<>>
       /\ own' = own \cup {desc[pending[i]] : i \in DOMAIN pending}
       /\ nextDesc' = IF active = <<>> THEN nextDesc
                      ELSE [nextDesc EXCEPT ![desc[Final(active)]] = desc[Head(pending)]]
       /\ UNCHANGED <<queued, desc, descHead, descTail, numAvail>>
  ELSE UNCHANGED <<queues, descs, own>>

\* resume_tx and resume_rx; the controller is never stopped once it runs.
resume == dma' = IF dma = "suspended" THEN "running" ELSE dma

-----------------------------------------------------------------------------
(* The controller.  Its status is exact, as the driver takes it to be: a   *)
(* controller that finds a descriptor it does not own is suspended in the  *)
(* same step.                                                              *)

Fetch ==
  /\ dma = "running" /\ cur \in own
  /\ dma' = "moving" /\ fetched' = nextDesc[cur]
  /\ UNCHANGED <<flow, queues, descs, own, cur, status, isr, isrStatus>>

Suspend ==
  /\ dma = "running" /\ cur \notin own
  /\ dma' = "suspended" /\ status' = status \cup {"unavail"}
  /\ UNCHANGED <<flow, queues, descs, own, cur, fetched, isr, isrStatus>>

\* The frame of buffer b has moved.
Moved(b) ==
  /\ dma = "moving" /\ \E i \in DOMAIN active : active[i] = b
  /\ desc[b] = cur
  /\ own' = own \ {cur}
  /\ cur' = fetched /\ fetched' = NULL
  /\ dma' = "running"
  /\ status' = status \cup {"done"}
  /\ UNCHANGED <<flow, queues, descs, isr, isrStatus>>

-----------------------------------------------------------------------------
(* EMACInterruptHandler: it reads and clears the status, then looks at the *)
(* buffers, and last at the queues of a channel that ran out of them.      *)

EnterInterrupt ==
  /\ isr = "off" /\ status # {}
  /\ isrStatus' = status /\ status' = {}
  /\ isr' = "process"
  /\ UNCHANGED <<flow, queues, descs, own, dma, cur, fetched>>

\* The active buffers the controller is done with, as far as the first it owns.
Finished ==
  LET n == CHOOSE k \in 0 .. Len(active) :
             /\ \A i \in 1 .. k : desc[active[i]] \notin own
             /\ k < Len(active) => desc[active[k + 1]] \in own
  IN  IF "done" \in isrStatus THEN SubSeq(active, 1, n) ELSE <<>>

\* The descriptors of the buffers in done, after those that are free.
Relinked(done) ==
  LET chain == <<descTail>> \o [i \in DOMAIN done |-> desc[done[i]]]
      at(d) == CHOOSE i \in DOMAIN chain : chain[i] = d
  IN  [d \in 0 .. NumDesc |->
        CASE d \notin {chain[i] : i \in DOMAIN chain} -> nextDesc[d]
          [] OTHER -> IF at(d) = Len(chain) THEN NULL ELSE chain[at(d) + 1]]

process_int ==
  /\ isr = "process"
  /\ active' = SubSeq(active, Len(Finished) + 1, Len(active))
  /\ nextDesc' = IF Finished = <<>> THEN nextDesc ELSE Relinked(Finished)
  /\ descTail' = IF Finished = <<>> THEN descTail ELSE desc[Final(Finished)]
  /\ numAvail' = numAvail + Len(Finished)
  /\ desc' = [b \in Buffers |-> IF \E i \in DOMAIN Finished : Finished[i] = b THEN NULL ELSE desc[b]]
  /\ isr' = IF "unavail" \in isrStatus THEN "bind" ELSE "off"
  /\ isrStatus' = {}
  /\ UNCHANGED <<flow, queued, pending, descHead, device>>

\* transfer_queued_bufs: nothing is waiting, or what waits is bound and
\* activated.
NothingWaits == (queued = <<>> \/ numAvail <= 1) /\ pending = <<>>

TransferBind ==
  /\ isr = "bind"
  /\ IF NothingWaits
     THEN isr' = "off" /\ UNCHANGED <<queues, descs>>
     ELSE isr' = "activate" /\ bind_buf_with_desc
  /\ UNCHANGED <<flow, device, isrStatus>>

TransferActivate ==
  /\ isr = "activate"
  /\ activate_channel
  /\ isr' = IF pending = <<>> THEN "off" ELSE "resume"
  /\ UNCHANGED <<flow, dma, cur, fetched, status, isrStatus>>

TransferResume ==
  /\ isr = "resume"
  /\ resume
  /\ isr' = "off"
  /\ UNCHANGED <<flow, queues, descs, own, cur, fetched, status, isrStatus>>

=============================================================================
