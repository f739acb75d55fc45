----------------------------- MODULE StreamTask -----------------------------
(***************************************************************************)
(* A stream between the SPORT interrupt and a task: wav_audio.c,           *)
(* rtp_audio.c and vban_audio.c of src/ARM/src over pa-ringbuffer.         *)
(*                                                                         *)
(* The interrupt moves a block each time and takes no lock; the task keeps *)
(* the ring full or empty, and flushes it when the stream is off; shells   *)
(* switch the stream on and off.  Task and shells share a mutex.  A        *)
(* behaviour is about one stream, of one kind.  The interrupt is one step: *)
(* no task runs until it ends.                                             *)
(***************************************************************************)
EXTENDS PaRing

CONSTANTS
  Shapes,      \* the kinds of stream looked at, each with the samples of an
               \* interrupt: channels * SYSTEM_BLOCK_SIZE
  Shells,      \* the tasks that run shell commands
  TaskId, Unheld, \* the other holders of the mutex: the stream's task, nobody
  Samples,     \* samples are numbered in turn, modulo Samples
  FileChunk,   \* samples the WAV source reads: WAV_MAX_CHANNELS * SYSTEM_BLOCK_SIZE
  Packets,     \* samples of a packet received
  Packet       \* samples of a packet sent, maxSamples

AllKinds == {"wavSrc", "wavSink", "rtpRx", "rtpTx", "vbanRx", "vbanTx"}

ASSUME ShapeAssumption == Shapes \subseteq AllKinds \X Nat
ASSUME ActorAssumption == TaskId # Unheld /\ {TaskId, Unheld} \cap Shells = {}
ASSUME RingAssumption  == RingSize \in Nat /\ RingSize >= 2 /\ Samples \in Nat /\ Samples > RingSize
\* The ring has 131072 samples; a block has 4096 at most and a packet 730.
ASSUME SizeAssumption  ==
  /\ \A n \in Packets \cup {Packet} \cup {s[2] : s \in Shapes} :
       n \in Nat \ {0} /\ 2 * n <= RingSize
  /\ FileChunk \in Nat /\ \A s \in Shapes : FileChunk >= s[2] /\ FileChunk + s[2] <= RingSize

VARIABLES
  kind, block,           \* the kind of the stream and its block; neither changes
  enabled, preRoll,      \* the stream's flags
  first,                 \* the static of the transfer to a sink
  readIndex, writeIndex, buffer,  \* the ring
  lock,                  \* the holder of the stream's mutex
  pc,                    \* where the task is, and each shell
  seen,                  \* samplesIn or samplesOut: what the ring had when the task looked
  pkt,                   \* rs->samples: what is left of a packet, or gathered for one
  chunk,                 \* the samples in the task's buffer
  wrote,                 \* this turn of the task has written the ring
  inbox,                 \* a packet waits in the socket
  next, out,             \* history: the next sample's number, the samples taken last
  fresh                  \* history: the ring was empty when the stream was opened

shape == <<kind, block>>
ring == <<readIndex, writeIndex, buffer>>
hist == <<next, out, fresh>>
task == <<seen, pkt, chunk, wrote>>
vars == <<shape, enabled, preRoll, first, ring, lock, pc, task, inbox, hist>>

Rx   == {"rtpRx", "vbanRx"}
Tx   == {"rtpTx", "vbanTx"}
ToSport == Rx \cup {"wavSrc"}    \* the task fills the ring, the interrupt drains it
Least(a, b) == IF a < b THEN a ELSE b

Available == ReadAvailable(readIndex, writeIndex)
Room      == WriteAvailable(readIndex, writeIndex)
Contents  == ReadRegion(buffer, readIndex, Available)
Numbered(n) == [k \in 1 .. n |-> (next + k - 1) % Samples]

\* A sample taken is of no more use: the model forgets it.
Stale == Samples
Forget(i, n) == WriteRegion(buffer, i, [k \in 1 .. n |-> Stale])

At(place)   == pc[TaskId] = place
Goto(place) == pc' = [pc EXCEPT ![TaskId] = place]

-----------------------------------------------------------------------------
(* The task: a turn under the mutex, then a wait that a notification or a  *)
(* few ticks end.                                                          *)

Take ==
  /\ At("take") /\ lock = Unheld
  /\ lock' = TaskId
  /\ Goto(IF ~enabled THEN "flush" ELSE IF kind \in Rx THEN "recv" ELSE "look")
  /\ UNCHANGED <<shape, enabled, preRoll, first, ring, task, inbox, hist>>

\* rtpReadSamplesAvailable and vbanReadSamplesAvailable: unless a packet is
\* half read, wait for one; the wait ends after 100 ms without one.
Receive ==
  /\ At("recv")
  /\ pkt' \in IF pkt = 0 /\ inbox THEN Packets ELSE {pkt}
  /\ inbox' = (inbox /\ pkt # 0)
  /\ Goto(IF kind = "vbanRx" /\ wrote THEN "test" ELSE "look")
  /\ UNCHANGED <<shape, enabled, preRoll, first, ring, lock, seen, chunk, wrote, hist>>

\* VBAN looks at the ring before it receives the next packet, RTP after.
Look ==
  /\ At("look")
  /\ seen' = IF kind \in ToSport THEN Room ELSE Available
  /\ Goto(IF kind = "vbanRx" /\ wrote THEN "recv" ELSE "test")
  /\ UNCHANGED <<shape, enabled, preRoll, first, ring, lock, pkt, chunk, wrote, inbox, hist>>

\* The condition of the while.
Serves ==
  CASE kind = "wavSrc"  -> seen >= FileChunk
    [] kind \in Rx      -> pkt > 0 /\ seen >= pkt
    [] kind = "wavSink" -> seen >= block
    [] kind \in Tx      -> seen > block

\* Half a ring of samples ends the pre-roll of a stream that was just written.
EndsPreRoll == kind \in Rx /\ wrote /\ 2 * seen < RingSize

Test ==
  /\ At("test")
  /\ preRoll' = (preRoll /\ ~EndsPreRoll)
  /\ seen' = 0
  /\ Goto(IF Serves THEN "copy" ELSE "give")
  /\ UNCHANGED <<shape, enabled, first, ring, lock, pkt, chunk, wrote, inbox, hist>>

\* readWave: a whole chunk, or what is left before the file is rewound.
readWave == {Numbered(FileChunk), Numbered(1)}

\* The samples the task writes next: at most a block of each packet.
Produced == IF kind = "wavSrc" THEN readWave ELSE {Numbered(Least(pkt, block))}

\* PaUtil_WriteRingBuffer: the samples, then the index.
CopyIn ==
  /\ At("copy") /\ kind \in ToSport
  /\ \E data \in Produced :
       /\ chunk' = SubSeq(data, 1, AtMost(Len(data), Room))
       /\ buffer' = WriteRegion(buffer, writeIndex, chunk')
  /\ Goto("advance")
  /\ UNCHANGED <<shape, enabled, preRoll, first, readIndex, writeIndex, lock, seen, pkt, wrote,
                 inbox, hist>>

AdvanceIn ==
  /\ At("advance") /\ kind \in ToSport
  /\ writeIndex' = bigMask(writeIndex + Len(chunk))
  /\ next' = (next + Len(chunk)) % Samples
  /\ chunk' = <<>>
  /\ pkt' = IF kind \in Rx THEN pkt - Len(chunk) ELSE pkt
  /\ wrote' = (kind \in Rx)
  /\ Goto(IF kind = "rtpRx" THEN "recv" ELSE "look")
  /\ UNCHANGED <<shape, enabled, preRoll, first, readIndex, buffer, lock, seen, inbox, out, fresh>>

\* The samples the task reads next: a block, or what the packet still holds.
Wanted == IF kind \in Tx THEN Least(Packet - pkt, block) ELSE block

\* PaUtil_ReadRingBuffer: the samples, then the index.
CopyOut ==
  /\ At("copy") /\ kind \notin ToSport
  /\ chunk' = ReadRegion(buffer, readIndex, AtMost(Wanted, Available))
  /\ Goto("advance")
  /\ UNCHANGED <<shape, enabled, preRoll, first, ring, lock, seen, pkt, wrote, inbox, hist>>

\* Mutant of Gathered: the count is not reset when the packet is sent.
GatheredUnsent(n) == n

\* rtpWriteSamples and vbanWriteSamples send a packet that is full.
Gathered(n) == IF n = Packet THEN 0 ELSE n

AdvanceOut ==
  /\ At("advance") /\ kind \notin ToSport
  /\ readIndex' = bigMask(readIndex + Len(chunk))
  /\ buffer' = Forget(readIndex, Len(chunk))
  /\ out' = chunk
  /\ chunk' = <<>>
  /\ pkt' = IF kind \in Tx THEN Gathered(pkt + Len(chunk)) ELSE pkt
  /\ Goto("look")
  /\ UNCHANGED <<shape, enabled, preRoll, first, writeIndex, lock, seen, wrote, inbox, next, fresh>>

\* PaUtil_FlushRingBuffer stores the two indices one after the other.
Flush ==
  /\ At("flush")
  /\ readIndex' = 0
  /\ buffer' = [s \in 0 .. RingSize - 1 |-> Stale]
  /\ Goto("flushed")
  /\ UNCHANGED <<shape, enabled, preRoll, first, writeIndex, lock, task, inbox, hist>>

Flushed ==
  /\ At("flushed")
  /\ writeIndex' = 0
  /\ preRoll' = (preRoll \/ kind \in Rx)
  /\ Goto("give")
  /\ UNCHANGED <<shape, enabled, first, readIndex, buffer, lock, task, inbox, hist>>

Give ==
  /\ At("give")
  /\ lock' = Unheld
  /\ wrote' = FALSE
  /\ Goto("take")
  /\ UNCHANGED <<shape, enabled, preRoll, first, ring, seen, pkt, chunk, inbox, hist>>

TaskStep ==
  \/ Take \/ Receive \/ Look \/ Test
  \/ CopyIn \/ AdvanceIn \/ CopyOut \/ AdvanceOut
  \/ Flush \/ Flushed \/ Give

-----------------------------------------------------------------------------
(* A shell command tests enabled before it takes the mutex.                *)

Command(sh) ==
  /\ pc[sh] = "idle"
  /\ pc' = [pc EXCEPT ![sh] = IF enabled THEN "off" ELSE "on"]
  /\ UNCHANGED <<shape, enabled, preRoll, first, ring, lock, task, inbox, hist>>

\* Mutant of CanLock: the command does not take the mutex.
CanLockAlways == TRUE

CanLock == lock = Unheld

LockShell(sh) ==
  /\ pc[sh] \in {"on", "off"} /\ CanLock
  /\ lock' = sh
  /\ pc' = [pc EXCEPT ![sh] = IF @ = "on" THEN "open" ELSE "close"]
  /\ UNCHANGED <<shape, enabled, preRoll, first, ring, task, inbox, hist>>

Leave(sh) ==
  /\ lock' = Unheld
  /\ pc' = [pc EXCEPT ![sh] = "idle"]

\* openWave, openRtpStream, vbanOpenStream; a file or a socket may fail to
\* open, the network streams refuse a stream that is open, and a WAV file of
\* a format that is not played is closed again.
Open(sh) ==
  /\ pc[sh] = "open"
  /\ \/ UNCHANGED <<enabled, preRoll, pkt, fresh>> /\ Leave(sh)
     \/ /\ kind \in Rx \cup Tx => ~enabled
        /\ enabled' = TRUE
        /\ preRoll' = (kind \in Rx \/ preRoll)
        /\ pkt' = 0
        /\ fresh' = IF enabled THEN fresh ELSE Available = 0
        /\ \/ Leave(sh)
           \/ kind = "wavSrc" /\ pc' = [pc EXCEPT ![sh] = "close"] /\ UNCHANGED lock
  /\ UNCHANGED <<shape, first, ring, seen, chunk, wrote, inbox, next, out>>

\* closeWave, closeRtpStream, vbanCloseStream: what waits in the socket is lost.
Close(sh) ==
  /\ pc[sh] = "close"
  /\ enabled' = FALSE
  /\ inbox' = FALSE
  /\ fresh' = TRUE
  /\ Leave(sh)
  /\ UNCHANGED <<shape, preRoll, first, ring, task, next, out>>

ShellStep(sh) == Command(sh) \/ LockShell(sh) \/ Open(sh) \/ Close(sh)

-----------------------------------------------------------------------------
(* The SPORT interrupt                                                     *)

\* A transfer from the ring: a block, if there is one.
TakeBlock ==
  /\ out' = ReadRegion(buffer, readIndex, block)
  /\ readIndex' = bigMask(readIndex + block)
  /\ buffer' = Forget(readIndex, block)

xferWavSrcAudio ==
  /\ kind = "wavSrc" /\ enabled
  /\ Available >= block /\ TakeBlock
  /\ UNCHANGED <<preRoll, first, writeIndex, next>>

\* xferRtpRxAudio and xferVbanRxAudio: a ring that runs dry has to fill again.
xferRxAudio ==
  /\ kind \in Rx /\ enabled /\ ~preRoll /\ Available > 0
  /\ IF Available >= block
     THEN TakeBlock /\ UNCHANGED preRoll
     ELSE preRoll' = TRUE /\ UNCHANGED <<out, readIndex, buffer>>
  /\ UNCHANGED <<first, writeIndex, next>>

\* xferWavSinkAudio, xferRtpTxAudio and xferVbanTxAudio: the first block
\* after the stream was enabled is left out, and so is one that does not fit.
xferSinkAudio ==
  /\ kind \notin ToSport /\ enabled /\ Room > 0
  /\ IF block <= Room /\ ~first
     THEN /\ buffer' = WriteRegion(buffer, writeIndex, Numbered(block))
          /\ writeIndex' = bigMask(writeIndex + block)
          /\ next' = (next + block) % Samples
     ELSE UNCHANGED <<buffer, writeIndex, next>>
  /\ first' = FALSE
  /\ UNCHANGED <<preRoll, readIndex, out>>

xferOff ==
  /\ kind \notin ToSport /\ ~enabled
  /\ first' = TRUE
  /\ UNCHANGED <<preRoll, ring, next, out>>

Sport ==
  /\ xferWavSrcAudio \/ xferRxAudio \/ xferSinkAudio \/ xferOff
  /\ UNCHANGED <<shape, enabled, lock, pc, task, inbox, fresh>>

\* A packet reaches the socket.
PacketArrives ==
  /\ kind \in Rx /\ enabled /\ ~inbox
  /\ inbox' = TRUE
  /\ UNCHANGED <<shape, enabled, preRoll, first, ring, lock, pc, task, hist>>

-----------------------------------------------------------------------------
Init ==
  /\ \E s \in Shapes : kind = s[1] /\ block = s[2]
  /\ enabled = FALSE /\ preRoll = FALSE /\ first = TRUE
  /\ readIndex = 0 /\ writeIndex = 0
  /\ buffer = [s \in 0 .. RingSize - 1 |-> Stale]
  /\ lock = Unheld
  /\ pc = [a \in Shells \cup {TaskId} |-> IF a = TaskId THEN "take" ELSE "idle"]
  /\ seen = 0 /\ pkt = 0 /\ chunk = <<>> /\ wrote = FALSE
  /\ inbox = FALSE
  /\ next = 0 /\ out = <<>> /\ fresh = TRUE

Next ==
  \/ TaskStep
  \/ \E sh \in Shells : ShellStep(sh)
  \/ Sport
  \/ PacketArrives

\* The task runs, a shell that has the mutex ends its command, the SPORT
\* interrupts, and a sender goes on sending.
Fairness ==
  /\ WF_vars(TaskStep)
  /\ WF_vars(\E sh \in Shells : Open(sh) \/ Close(sh))
  /\ WF_vars(Sport)
  /\ WF_vars(PacketArrives)

Spec == Init /\ [][Next]_vars /\ Fairness

-----------------------------------------------------------------------------
TypeOK ==
  /\ <<kind, block>> \in Shapes
  /\ {enabled, preRoll, first, wrote, inbox, fresh} \subseteq BOOLEAN
  /\ {readIndex, writeIndex} \subseteq 0 .. 2 * RingSize - 1
  /\ buffer \in [0 .. RingSize - 1 -> 0 .. Samples]
  /\ lock \in Shells \cup {TaskId, Unheld}
  /\ DOMAIN pc = Shells \cup {TaskId}
  /\ seen \in 0 .. RingSize /\ pkt \in 0 .. RingSize /\ next \in 0 .. Samples - 1
  /\ Len(chunk) <= FileChunk /\ Len(out) <= RingSize

\* The ring, between a flush's two stores, is already the empty queue; a
\* transfer is in it or out of it once its index is stored.
Fifo == INSTANCE SampleFifo
  WITH Size <- RingSize, on <- enabled, queue <- IF At("flushed") THEN <<>> ELSE Contents

\* The interrupt without a lock and the task under its mutex use the ring as
\* a queue: each sample is taken once, in order, whole, and no flush meets a
\* transfer, wherever the interrupt falls between the task's steps, the
\* flush's two stores included (pa_ringbuffer.c:92).
RingIsFifo == Fifo!Spec

\* A stream that stays on, and had been flushed when it was opened, moves
\* samples for ever: pre-roll ends, and the task neither starves the
\* interrupt nor is starved by a packet that never fills.
StreamMoves == []<>~(enabled /\ fresh) \/ []<><<out' # out>>_vars

=============================================================================
