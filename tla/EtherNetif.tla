----------------------------- MODULE EtherNetif -----------------------------
(***************************************************************************)
(* The network interface above the Ethernet driver, in one direction:      *)
(* src/ARM/src/simple-drivers/lwip_adi_ether_netif.c.                      *)
(*                                                                         *)
(* The driver's callback, in the interrupt, leaves finished buffers on a   *)
(* list and posts the worker when the list was empty.  Tasks write frames  *)
(* or free received buffers, one at a time under a lock.                   *)
(*                                                                         *)
(* Bounds: MaxLost frames of the audio transport protocol are received;    *)
(* the worker's mailbox (20 events) has room for an event, as it has while *)
(* fewer than 18 changes of the link wait there.                           *)
(***************************************************************************)
EXTENDS Gemac, FiniteSets

CONSTANT MaxLost

VARIABLES
  linkUp,                \* to transmit: the PHY has a link
  list, posted,          \* pktReceivedBuffer or pktTransmittedBuffer; its event
  at, walk,              \* the worker: "wait", "take", "walk", "next", "call"; its chain
  call,                  \* where the call of the driver under the lock is
  txPktHead, txPktTail,
  held, lost,            \* received buffers: of lwIP, of nobody
  inFlight,              \* the buffers of the frames accepted and not yet seen, in order
  broken                 \* a frame passed out of order

worker  == <<list, posted, at, walk>>
request == <<linkUp, call, txPktHead, txPktTail>>
frames  == <<inFlight, broken>>
ether   == <<gemac, worker, request, held, lost, frames>>

NextSlot(i) == (i + 1) % NumBuffers

\* No interrupt is running, so tasks run.
InTasks == isr = "off"

Unwritten == UNCHANGED <<linkUp, txPktHead, txPktTail>>

\* The frame in buffer b passes the last point where its order shows.
See(b) == /\ broken' = (broken \/ Head(inFlight) # b)
          /\ inFlight' = Tail(inFlight)

-----------------------------------------------------------------------------
(* adi_ether_netif_low_level_init: all receive buffers are the driver's.   *)

EtherInit ==
  /\ flow \in {"rx", "tx"}
  /\ GemacInit(IF flow = "rx" THEN NumBuffers ELSE 0)
  /\ call = "none"
  /\ linkUp = FALSE /\ txPktHead = 0 /\ txPktTail = 0
  /\ list = <<>> /\ posted = FALSE /\ at = "wait" /\ walk = <<>>
  /\ held = {} /\ lost = {}
  /\ inFlight = <<>> /\ broken = FALSE

-----------------------------------------------------------------------------
(* A call of adi_ether_Write or adi_ether_Read, under writeLock or         *)
(* readLock: insert_queue, then bind_desc_and_activate.                    *)

insert_queue(b) ==
  /\ call = "none" /\ call' = "bind"
  /\ queued' = Append(queued, b)
  /\ UNCHANGED <<flow, pending, active, desc, descs, device, isr, isrStatus>>

Bind ==
  /\ InTasks /\ call = "bind"
  /\ bind_buf_with_desc
  /\ call' = "activate"
  /\ Unwritten
  /\ UNCHANGED <<flow, device, isr, isrStatus, worker, held, lost, frames>>

\* The call is over: a writer still has to move the head, the worker goes on.
Return ==
  /\ call' = IF flow = "tx" THEN "head" ELSE "none"
  /\ at' = IF at = "call" THEN "walk" ELSE at
  /\ UNCHANGED <<list, posted, walk>>

Activate ==
  /\ InTasks /\ call = "activate"
  /\ activate_channel
  /\ IF pending = <<>> THEN Return ELSE call' = "resume" /\ UNCHANGED worker
  /\ Unwritten
  /\ UNCHANGED <<flow, dma, cur, fetched, status, isr, isrStatus, held, lost, frames>>

Resume ==
  /\ InTasks /\ call = "resume"
  /\ resume /\ Return
  /\ Unwritten
  /\ UNCHANGED <<flow, queues, descs, own, cur, fetched, status, isr, isrStatus, held, lost, frames>>

\* adi_ether_netif_tx_frame: one slot of the ring stays empty; a frame is
\* dropped when there is no other, or no link.
tx_frame ==
  /\ InTasks /\ flow = "tx" /\ linkUp
  /\ NextSlot(txPktHead) # txPktTail
  /\ insert_queue(txPktHead)
  /\ inFlight' = Append(inFlight, txPktHead)
  /\ Unwritten
  /\ UNCHANGED <<worker, held, lost, broken>>

tx_frame_sent ==
  /\ InTasks /\ call = "head"
  /\ txPktHead' = NextSlot(txPktHead)
  /\ call' = "none"
  /\ UNCHANGED <<gemac, worker, linkUp, txPktTail, held, lost, frames>>

\* adi_ether_netif_pbuf_free: lwIP and the applications free what they held.
pbuf_free ==
  /\ InTasks
  /\ \E b \in held : insert_queue(b) /\ held' = held \ {b}
  /\ Unwritten
  /\ UNCHANGED <<worker, lost, frames>>

-----------------------------------------------------------------------------
(* adi_ether_netif_worker                                                  *)

FetchEvent ==
  /\ InTasks /\ at = "wait" /\ posted
  /\ posted' = FALSE /\ at' = "take"
  /\ UNCHANGED <<gemac, request, list, walk, held, lost, frames>>

TakeList ==
  /\ InTasks /\ at = "take"
  /\ walk' = list /\ list' = <<>>
  /\ at' = "walk"
  /\ UNCHANGED <<gemac, request, posted, held, lost, frames>>

EndOfList ==
  /\ InTasks /\ at = "walk" /\ walk = <<>>
  /\ at' = "wait"
  /\ UNCHANGED <<gemac, request, list, posted, walk, held, lost, frames>>

\* A transmitted buffer is free before its link is read.
AdvanceTail ==
  /\ InTasks /\ flow = "tx" /\ at = "walk" /\ walk # <<>>
  /\ txPktTail' = NextSlot(txPktTail)
  /\ at' = "next"
  /\ UNCHANGED <<gemac, list, posted, walk, linkUp, call, txPktHead, held, lost, frames>>

ReadLink ==
  /\ InTasks /\ at = "next"
  /\ walk' = Tail(walk) /\ at' = "walk"
  /\ UNCHANGED <<gemac, request, list, posted, held, lost, frames>>

Receives == InTasks /\ flow = "rx" /\ at = "walk" /\ walk # <<>>

\* lwIP takes the frame.
HandOver ==
  /\ Receives
  /\ walk' = Tail(walk) /\ See(Head(walk))
  /\ held' = held \cup {Head(walk)}
  /\ UNCHANGED <<gemac, request, list, posted, at, lost>>

\* The clock protocol is done with the frame at once, or lwIP refuses it.
HandBack ==
  /\ Receives
  /\ walk' = Tail(walk) /\ See(Head(walk))
  /\ insert_queue(Head(walk)) /\ at' = "call"
  /\ Unwritten
  /\ UNCHANGED <<list, posted, held, lost>>

\* adi_ether_netif_p1722_frame: no application registers its callback.
p1722_frame ==
  /\ Receives /\ Cardinality(lost) < MaxLost
  /\ walk' = Tail(walk) /\ See(Head(walk))
  /\ lost' = lost \cup {Head(walk)}
  /\ UNCHANGED <<gemac, request, list, posted, at, held>>

-----------------------------------------------------------------------------
(* The interrupt and the controller                                        *)

ProcessInt ==
  /\ process_int
  /\ list' = list \o Finished
  /\ posted' = (posted \/ (list = <<>> /\ Finished # <<>>))
  /\ UNCHANGED <<request, at, walk, held, lost, frames>>

PhyInterrupt ==
  /\ flow = "tx" /\ InTasks /\ call # "resume"
  /\ linkUp' = ~linkUp
  /\ UNCHANGED <<gemac, worker, call, txPktHead, txPktTail, held, lost, frames>>

Interrupt ==
  \/ EnterInterrupt /\ call # "resume" /\ UNCHANGED <<worker, request, held, lost, frames>>
  \/ ProcessInt
  \/ (TransferBind \/ TransferActivate \/ TransferResume)
       /\ UNCHANGED <<worker, request, held, lost, frames>>

\* A frame has moved: a sent one is seen on the wire, a received one is new.
FrameMoved(b) ==
  /\ Moved(b)
  /\ IF flow = "tx"
     THEN See(b)
     ELSE inFlight' = Append(inFlight, b) /\ UNCHANGED broken
  /\ UNCHANGED <<worker, request, held, lost>>

Controller ==
  \/ (Fetch \/ Suspend) /\ UNCHANGED <<worker, request, held, lost, frames>>
  \/ \E b \in Buffers : FrameMoved(b)

Driver == Bind \/ Activate \/ Resume \/ tx_frame \/ tx_frame_sent \/ pbuf_free
Worker == FetchEvent \/ TakeList \/ EndOfList \/ AdvanceTail \/ ReadLink
            \/ HandOver \/ HandBack \/ p1722_frame

EtherNext == Driver \/ Worker \/ Interrupt \/ PhyInterrupt \/ Controller

EtherSpec == EtherInit /\ [][EtherNext]_ether

-----------------------------------------------------------------------------
EtherTypeOK ==
  /\ flow \in {"rx", "tx"} /\ dma \in {"running", "moving", "suspended"}
  /\ {queued, pending, active, list, walk} \subseteq Seq(Buffers)
  /\ desc \in [Buffers -> 0 .. NumDesc] /\ nextDesc \in [0 .. NumDesc -> 0 .. NumDesc]
  /\ {descHead, descTail} \subseteq Descs /\ numAvail \in Descs
  /\ own \subseteq Descs /\ {cur, fetched} \subseteq 0 .. NumDesc
  /\ {status, isrStatus} \subseteq SUBSET {"done", "unavail"}
  /\ isr \in {"off", "process", "bind", "activate", "resume"}
  /\ call \in {"none", "bind", "activate", "resume", "head"}
  /\ at \in {"wait", "take", "walk", "next", "call"} /\ {linkUp, posted, broken} \subseteq BOOLEAN
  /\ {txPktHead, txPktTail} \subseteq Buffers /\ held \cup lost \subseteq Buffers
  /\ inFlight \in Seq(Buffers)

\* The places of the buffers, in the order in which they leave the driver: each
\* is in at most one, and a received one never disappears.
Places == walk \o list \o active \o pending \o queued

OnePlace ==
  LET away == held \cup lost
      here == {Places[i] : i \in DOMAIN Places}
  IN  /\ Cardinality(here) = Len(Places) /\ here \cap away = {} /\ held \cap lost = {}
      /\ flow = "rx" => here \cup away = Buffers

\* The descriptor the controller must find: the first it owns, or else the
\* first that will be its own, or the first free one.
NextUsed ==
  LET owned == {i \in DOMAIN active : desc[active[i]] \in own}
  IN  IF owned # {} THEN desc[active[CHOOSE i \in owned : \A j \in owned : i <= j]]
      ELSE IF pending # <<>> THEN desc[Head(pending)]
      ELSE descHead

\* Nothing is under way: no call, no interrupt, and the controller waits.
Quiet == call \in {"none", "head"} /\ isr = "off" /\ status = {} /\ dma = "suspended"

\* No buffer is left behind in the driver: its wake-ups are not lost.
NothingForgotten ==
  Quiet => own = {} /\ active = <<>> /\ NothingWaits

\* Every frame goes through, in order, in a buffer of its own: no buffer is in
\* two places, the controller looks at the next descriptor to be used, and a
\* list that is not empty has the worker's attention (adi_gemac.c,
\* lwip_adi_ether_netif.c).
FramesKept ==
  /\ OnePlace
  /\ cur = NextUsed
  /\ NothingForgotten
  /\ list # <<>> => posted \/ at = "take"
  /\ ~broken

=============================================================================
