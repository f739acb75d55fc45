------------------------------ MODULE UsbAudio ------------------------------
(***************************************************************************)
(* USB audio: src/ARM/src/usb_audio.c over pa-ringbuffer.  The SPORT and   *)
(* the USB interrupt share a ring each way, without a lock.  The USB's is  *)
(* the more urgent (init.c:482): it may run between any two steps of a     *)
(* SPORT transfer, and is itself one step.  Sizes are in frames.           *)
(*                                                                         *)
(* The host may close the endpoint, which flushes the ring, in the middle  *)
(* of a transfer; the transfer then stores an index the flush has reset.   *)
(* The model ends there.  A behaviour is about one direction.              *)
(***************************************************************************)
EXTENDS PaRing

CONSTANTS
  Block,    \* SYSTEM_BLOCK_SIZE
  Nominal,  \* the frames of a USB packet, one more or less when the rate is adjusted
  FillLevel,  \* USB_OUT_RING_BUFF_FILL and USB_IN_RING_BUFF_FILL
  Frames    \* frames are numbered in turn, modulo Frames

VARIABLES
  dir,                            \* "out", from the host, or "in"; never changes
  endpoint,                       \* uac2RxEnabled or uac2TxEnabled
  preRolling,                     \* rxPreRoll or txPreRoll
  readAt, writeAt, frames,        \* the ring: its indices and its data
  sport, moving,                  \* where the transfer is, and the frames it moves
  number, got,                    \* history: the next frame's number, the frames taken last
  torn                            \* history: a flush met a transfer

usbRing == <<readAt, writeAt, frames>>
usbVars == <<dir, endpoint, preRolling, usbRing, sport, moving, number, got, torn>>

Waiting == ReadAvailable(readAt, writeAt)
Space   == WriteAvailable(readAt, writeAt)
InTurn(n) == [k \in 1 .. n |-> (number + k - 1) % Frames]

-----------------------------------------------------------------------------
(* The SPORT interrupt: xferUsbRxAudio and xferUsbTxAudio                  *)

\* Pre-roll ends at the fill level and begins again below a block.
RollsAfter(rolling) == IF rolling THEN Waiting < FillLevel ELSE Waiting < Block

\* It looks at the ring; while it pre-rolls it plays silence.
xferUsbRxAudio ==
  /\ dir = "out" /\ sport = "idle"
  /\ preRolling' = RollsAfter(preRolling)
  /\ sport' = IF preRolling' THEN "idle" ELSE "copy"
  /\ UNCHANGED <<dir, endpoint, usbRing, moving, number, got, torn>>

\* A block that does not fit is dropped.
xferUsbTxAudio ==
  /\ dir = "in" /\ sport = "idle"
  /\ endpoint /\ Space >= Block
  /\ sport' = "copy"
  /\ UNCHANGED <<dir, endpoint, preRolling, usbRing, moving, number, got, torn>>

CopyBlock ==
  /\ sport = "copy"
  /\ IF dir = "out"
     THEN moving' = ReadRegion(frames, readAt, AtMost(Block, Waiting)) /\ UNCHANGED frames
     ELSE moving' = InTurn(AtMost(Block, Space)) /\ frames' = WriteRegion(frames, writeAt, moving')
  /\ sport' = "advance"
  /\ UNCHANGED <<dir, endpoint, preRolling, readAt, writeAt, number, got, torn>>

AdvanceBlock ==
  /\ sport = "advance"
  /\ IF dir = "out"
     THEN /\ readAt' = bigMask(readAt + Len(moving))
          /\ got' = IF moving = <<>> THEN got ELSE moving
          /\ UNCHANGED <<writeAt, number>>
     ELSE /\ writeAt' = bigMask(writeAt + Len(moving))
          /\ number' = (number + Len(moving)) % Frames
          /\ UNCHANGED <<readAt, got>>
  /\ moving' = <<>>
  /\ sport' = "idle"
  /\ UNCHANGED <<dir, endpoint, preRolling, frames, torn>>

SportStep == xferUsbRxAudio \/ xferUsbTxAudio \/ CopyBlock \/ AdvanceBlock

-----------------------------------------------------------------------------
(* The USB interrupt                                                       *)

\* A packet that does not fit is dropped.
uac2Rx ==
  /\ dir = "out" /\ endpoint
  /\ \E n \in Nominal - 1 .. Nominal + 1 :
       /\ Space >= n
       /\ frames' = WriteRegion(frames, writeAt, InTurn(n))
       /\ writeAt' = bigMask(writeAt + n)
       /\ number' = (number + n) % Frames
  /\ UNCHANGED <<preRolling, readAt, got>>

\* Silence is sent until the ring has filled, and again when it runs low; a
\* packet is adjusted by a frame once the level has been measured.
uac2Tx ==
  /\ dir = "in" /\ endpoint
  /\ preRolling' = IF preRolling THEN Waiting < FillLevel ELSE Waiting < Nominal
  /\ IF preRolling'
     THEN UNCHANGED <<readAt, got>>
     ELSE \E n \in (IF preRolling THEN {Nominal} ELSE Nominal - 1 .. Nominal + 1) :
            /\ got' = ReadRegion(frames, readAt, AtMost(n, Waiting))
            /\ readAt' = bigMask(readAt + Len(got'))
  /\ UNCHANGED <<writeAt, frames, number>>

UsbPacket ==
  /\ uac2Rx \/ uac2Tx
  /\ UNCHANGED <<dir, endpoint, sport, moving, torn>>

\* An endpoint that is closed flushes its ring; an IN endpoint that opens
\* pre-rolls.
uac2EndpointEnabled ==
  /\ \E enable \in BOOLEAN :
       /\ endpoint' = enable
       /\ preRolling' = (preRolling \/ (dir = "in" /\ enable))
       /\ IF enable
          THEN UNCHANGED <<readAt, writeAt, frames, torn>>
          ELSE /\ readAt' = 0 /\ writeAt' = 0
               /\ frames' = [s \in 0 .. RingSize - 1 |-> 0]
               /\ torn' = (sport # "idle")
  /\ UNCHANGED <<dir, sport, moving, number, got>>

-----------------------------------------------------------------------------
UsbInit ==
  /\ dir \in {"out", "in"}
  /\ endpoint = FALSE /\ preRolling = TRUE
  /\ readAt = 0 /\ writeAt = 0
  /\ frames = [s \in 0 .. RingSize - 1 |-> 0]
  /\ sport = "idle" /\ moving = <<>>
  /\ number = 0 /\ got = <<>> /\ torn = FALSE

UsbNext ==
  /\ ~torn
  /\ SportStep \/ UsbPacket \/ uac2EndpointEnabled

\* The SPORT interrupts, and the host sends and asks while it keeps an
\* endpoint open.
UsbFairness == WF_usbVars(SportStep /\ ~torn) /\ WF_usbVars(UsbPacket /\ ~torn)

UsbSpec == UsbInit /\ [][UsbNext]_usbVars /\ UsbFairness

-----------------------------------------------------------------------------
UsbTypeOK ==
  /\ {readAt, writeAt} \subseteq 0 .. 2 * RingSize - 1
  /\ frames \in [0 .. RingSize - 1 -> 0 .. Frames - 1]
  /\ sport \in {"idle", "copy", "advance"}
  /\ Len(moving) <= Block /\ Len(got) <= RingSize /\ number \in 0 .. Frames - 1
  /\ {endpoint, preRolling, torn} \subseteq BOOLEAN

UsbFifo == INSTANCE SampleFifo
  WITH Size <- RingSize, Samples <- Frames, on <- endpoint,
       queue <- ReadRegion(frames, readAt, Waiting), next <- number, out <- got

\* Unless a flush meets a transfer, the two interrupts use the ring as a
\* queue, though one may run between any two steps of the other: frames are
\* taken once, in order, and none is left from before the endpoint closed.
UsbRingIsFifo == [][torn' \/ UsbFifo!Next \/ UNCHANGED UsbFifo!fifoVars]_usbVars

\* An endpoint that stays open moves frames for ever: pre-roll ends and does
\* not come back for good.
UsbMoves == []<>(~endpoint \/ torn) \/ []<><<got' # got>>_usbVars

=============================================================================
