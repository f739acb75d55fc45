----------------------------- MODULE MCServices -----------------------------
(***************************************************************************)
(* The drivers and services beside the audio and message systems, for TLC. *)
(* They share no state: a behaviour runs one of them, and the others stay  *)
(* as they started.                                                        *)
(***************************************************************************)
EXTENDS StreamTask, FiniteSets

CONSTANTS
  Tasks, MaxFds, MaxFatFs, Devices, Card, Nothing,              \* FdTable
  Writers, Dumpers, Nobody, MaxLines, Max, MaxSeq,              \* Syslog
  Callers, None, BufSize, DmaSize, Lengths, Bytes,              \* UartCdc
  Users, Unlocked, TWI_MAX_DCNT, MaxLength,                     \* TwiSimple
  UsbRingSize, Block, Nominal, FillLevel, Frames,               \* UsbAudio
  NumBuffers, NumDesc, Threshold, MaxLost                       \* EtherNetif

ASSUME FilesAssumption ==
  /\ {MaxFds, MaxFatFs} \subseteq Nat \ {0}
  /\ Card \in Devices /\ IsFiniteSet(Devices) /\ Cardinality(Devices) = 2
  /\ Nothing \notin Tasks \cup Devices /\ "shell" \notin Tasks
ASSUME LogAssumption ==
  /\ Nobody \notin Writers \cup Dumpers /\ Writers \cap Dumpers = {}
  /\ MaxLines \in Nat /\ MaxLines >= 2 /\ Max \in Nat \ {0} /\ MaxSeq \in Nat
ASSUME SerialAssumption ==
  /\ None \notin Callers /\ BufSize \in Nat /\ DmaSize \in 1 .. BufSize - 1
  /\ Lengths \subseteq 1 .. BufSize - 1 /\ Bytes \in Nat /\ Bytes > BufSize
\* The controller counts 254 bytes: some are to come when a FIFO of two is empty again.
ASSUME TwiAssumption ==
  Unlocked \notin Users /\ TWI_MAX_DCNT \in Nat /\ TWI_MAX_DCNT >= 4 /\ MaxLength \in Nat
\* At 48000 frames a second a packet has one to spare for the adjustment.
ASSUME UsbAssumption ==
  /\ {UsbRingSize, Block, Nominal, FillLevel, Frames} \subseteq Nat \ {0}
  /\ Block <= FillLevel /\ 2 <= Nominal /\ Nominal < FillLevel
  /\ FillLevel + Block <= UsbRingSize /\ UsbRingSize < Frames
ASSUME EtherAssumption ==
  /\ {NumBuffers, NumDesc, Threshold} \subseteq Nat \ {0, 1} /\ MaxLost \in Nat
  /\ Threshold < NumDesc /\ MaxLost < NumBuffers

VARIABLES
  part,
  DEVIO_FD, fatfsFd, FD_LOCK, place, fd, base, deviceEntries, numDevices, dd, wasDefault,
  headIdx, tailIdx, seq, logDropped, logData, logLock, logAt, count, taken, last,
  side, buf, readptr, writeptr, transmitting, tx_size, inFlight, sleeping, token,
  cdcLock, cdcAt, remaining, size, cdcNext, expected, broken, brim,
  portLock, portBlock, doing, result, xferType, slen, rlen, longXfer,
  wire, dcnt, fifo, istat, errors, asked, sent, received,
  dir, endpoint, preRolling, readAt, writeAt, frames, sport, moving, number, got, torn,
  flow, queued, pending, active, desc, descHead, descTail, numAvail, nextDesc, own,
  dma, cur, fetched, status, isr, isrStatus, linkUp, list, posted, etherAt, walk,
  call, txPktHead, txPktTail, held, lost, passing, misplaced

Files  == INSTANCE FdTable
Log    == INSTANCE Syslog WITH lock <- logLock, at <- logAt
Serial == INSTANCE UartCdc WITH portLock <- cdcLock, at <- cdcAt, next <- cdcNext
Twi    == INSTANCE TwiSimple
Usb    == INSTANCE UsbAudio WITH RingSize <- UsbRingSize
Ether  == INSTANCE EtherNetif
            WITH at <- etherAt, inFlight <- passing, broken <- misplaced

fileVars   == <<DEVIO_FD, fatfsFd, FD_LOCK, place, fd, base, deviceEntries, numDevices, dd,
                wasDefault>>
logVars    == <<headIdx, tailIdx, seq, logDropped, logData, logLock, logAt, count, taken, last>>
serialVars == <<side, buf, readptr, writeptr, transmitting, tx_size, inFlight, sleeping, token,
                cdcLock, cdcAt, remaining, size, cdcNext, expected, broken, brim>>
i2cVars    == <<portLock, portBlock, doing, result, xferType, slen, rlen, longXfer,
                wire, dcnt, fifo, istat, errors, asked, sent, received>>
usbAudio   == <<dir, endpoint, preRolling, readAt, writeAt, frames, sport, moving, number, got, torn>>
etherVars  == <<flow, queued, pending, active, desc, descHead, descTail, numAvail, nextDesc,
                own, dma, cur, fetched, status, isr, isrStatus, linkUp, list, posted, etherAt,
                walk, call, txPktHead, txPktTail, held, lost, passing, misplaced>>

all == <<part, vars, fileVars, logVars, serialVars, i2cVars, usbAudio, etherVars>>

Parts == {"stream", "files", "log", "serial", "twi", "usb", "ether"}

\* A VBAN transmitter is an RTP transmitter, as far as the model goes.
StreamShapes ==
  ({"wavSrc", "wavSink", "rtpTx"} \X {1, 2}) \cup {<<"rtpRx", 2>>, <<"vbanRx", 1>>}

\* A part that does not run starts in one state.
Some(S) == CHOOSE s \in S : TRUE

PartsInit ==
  /\ part \in Parts
  /\ Init /\ Files!Init /\ Log!Init /\ Serial!Init /\ Twi!TwiInit /\ Usb!UsbInit
  /\ Ether!EtherInit
  /\ part # "stream" => <<kind, block>> = Some(Shapes)
  /\ part # "files"  => numDevices = 1
  /\ part # "serial" => side = "tx"
  /\ part # "usb"    => dir = "out"
  /\ part # "ether"  => flow = "tx"

Still(p) ==
  /\ part = p /\ part' = p
  /\ p # "stream" => UNCHANGED vars
  /\ p # "files"  => UNCHANGED fileVars
  /\ p # "log"    => UNCHANGED logVars
  /\ p # "serial" => UNCHANGED serialVars
  /\ p # "twi"    => UNCHANGED i2cVars
  /\ p # "usb"    => UNCHANGED usbAudio
  /\ p # "ether"  => UNCHANGED etherVars

\* One part takes a step, the others stand still.
StreamStep == Still("stream") /\ Next
FilesStep  == Still("files")  /\ Files!Next
LogStep    == Still("log")    /\ Log!Next
SerialStep == Still("serial") /\ Serial!Next
TwiStep    == Still("twi")    /\ Twi!TwiNext
UsbStep    == Still("usb")    /\ Usb!UsbNext
EtherStep  == Still("ether")  /\ Ether!EtherNext

PartsNext == StreamStep \/ FilesStep \/ LogStep \/ SerialStep \/ TwiStep \/ UsbStep \/ EtherStep

\* The fairness of each part, for the behaviours in which it runs.
PartsFairness ==
  /\ WF_vars(part = "stream" /\ TaskStep)
  /\ WF_vars(part = "stream" /\ \E sh \in Shells : Open(sh) \/ Close(sh))
  /\ WF_vars(part = "stream" /\ Sport)
  /\ WF_vars(part = "stream" /\ PacketArrives)
  /\ WF_i2cVars(part = "twi" /\ Twi!Bus)
  /\ WF_i2cVars(part = "twi" /\ Twi!twi_data_irq)
  /\ WF_i2cVars(part = "twi" /\ \E u \in Users : Twi!EndXfer(u) \/ Twi!GiveLock(u))
  /\ WF_usbAudio(part = "usb" /\ Usb!SportStep /\ ~torn)
  /\ WF_usbAudio(part = "usb" /\ Usb!UsbPacket /\ ~torn)

PartsSpec == PartsInit /\ [][PartsNext]_all /\ PartsFairness

-----------------------------------------------------------------------------
\* The part that runs keeps its variables in their types.
TypesOK ==
  CASE part = "stream" -> TypeOK
    [] part = "files"  -> Files!TypeOK
    [] part = "log"    -> Log!TypeOK
    [] part = "serial" -> Serial!TypeOK
    [] part = "twi"    -> Twi!TwiTypeOK
    [] part = "usb"    -> Usb!UsbTypeOK
    [] part = "ether"  -> Ether!EtherTypeOK

\* Every ring between two interrupts, or an interrupt and a task, is a queue
\* (wav_audio.c, rtp_audio.c, vban_audio.c, usb_audio.c); a ring of the USB
\* audio until it is flushed in the middle of a transfer (torn).
StreamsAreFifos == RingIsFifo /\ Usb!UsbRingIsFifo

\* A descriptor reaches its own file (fs_devio.c).
FilesReached == part = "files" => Files!FilesReached

\* No line of the log is lost uncounted or shown twice (syslog.c).
LogAccounted == part = "log" => Log!LogAccounted

\* Until one of its rings is filled to the last byte, the USB serial port keeps
\* its bytes in order (uart_simple_cdc.c).  The port goes on after that, and
\* breaks the order.
SerialInOrder == part = "serial" => Serial!SerialInOrder

\* I2C transfers move what was asked (twi_simple.c).
TransfersExact == part = "twi" => Twi!TransfersExact

\* Every Ethernet frame goes through, in order, in a buffer of its own, as long
\* as the worker's mailbox has room (adi_gemac.c, lwip_adi_ether_netif.c).
FramesKept == part = "ether" => Ether!FramesKept

\* Streams that were opened on an empty ring move (fresh), calls of the I2C
\* driver return, and the USB audio moves as long as it was not torn.
Progress == StreamMoves /\ Twi!CallsReturn /\ Usb!UsbMoves

=============================================================================
