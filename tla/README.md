# Formal models of the SHARC Audio Module firmware

This directory holds TLA+ models of the firmware in this repository, the TLC
configurations that check them on small instances, and proofs that the TLA+
proof system (TLAPS) checks for every value of the constants.  `PROJECT.json`
maps every definition to the lines of C it stands for, lists the runs, the
mutants that show each property can fail, the findings, and the hazards the
properties were written for.

Contents: 1 the system, 2 the modules, 3 runs and bounds, 4 fairness and other
assumptions, 5 what is proved, 6 findings and observations, 7 what is not
modelled, 8 plan.

## 1. The system

The firmware runs on an ADSP-SC589: an ARM core under FreeRTOS and two SHARC
cores without an operating system.  The ARM owns the peripherals (codec, A2B
bus, USB, Ethernet, SD card, UART), moves audio blocks between them in SPORT
interrupts, and hands blocks to the SHARCs for processing.  The cores talk
through messages in shared L2 memory.

| Component | State | Operations | Interacts with |
|---|---|---|---|
| SAE inter-core messages (`src/ALL/src/sae`) | spin lock, a ring of message pointers per core, reference counters, the SAE interrupt of each core | create, ref, unref, send, receive, register a callback, the interrupt handler | every core's application; the shared heap; the interrupt controllers |
| SAE shared heap (`sae_alloc.c`) | a chain of blocks with headers and footers, a "last free" shortcut | malloc, free, checkheap | only the SAE calls, under their lock |
| Application messages (`main.c`, `init.c`, `sharc_audio.c`, `sharc0_main.c`, `sharc1_main.c`) | ready flags, ping-pong buffers and indices, the SHARCs' latest buffers | start-up hand-shake, housekeeping pings, cycle requests, audio transfer, processing | the SAE library; the audio routing |
| Clock domains and routing (`clock_domain.c`, `process_audio.c`, the `*_audio.c` transfers, part of `init.c`, `a2b_slave.c`) | the streams of each domain and those that have arrived, `STREAMS[]`, the SPORTs and their DMA buffers, the A2B mode | SPORT callback, routing, moving a stream, opening and closing SPORTs, A2B mode changes | SPORT interrupts, the shell, the A2B slave task |
| UART driver (`uart_simple.c`) | two rings, flags of sleeping tasks, semaphores | read, write, interrupt | the console's tasks |
| Stream tasks (`wav_audio.c`, `rtp_audio.c`, `vban_audio.c`, `vu_audio.c`, with the stream and file formats under them) | one ring of samples each, enabled flags, pre-roll, a mutex | a task that fills or drains and flushes, an interrupt transfer, shell commands that switch on and off | routing, files, sockets, the shell |
| USB audio (`usb_audio.c`) | a ring each way, pre-roll | SPORT transfers, USB packets, opening and closing an endpoint | routing, the USB library |
| USB serial port (`uart_simple_cdc.c`) | a ring each way, a chunk in flight, a sleeping task | read, write, the two USB callbacks | the console, the USB library |
| TWI driver (`twi_simple.c`) | the call in progress, its counts, the port's lock and semaphore | transfers of six kinds, the interrupt | codec, A2B, whoever uses I2C |
| Files (`fs_devio.c`, `fs_devman.c`, `fs_dev_fatfs.c`) | tables of descriptors, FatFs files and devices | open, close, read and write, format, set default | the file systems, the shell, WAV streams |
| System log (`syslog.c`) | a ring of lines, counters | print, dump, next | every task |
| Ethernet (`lwip_adi_ether_netif.c` over `adi_gemac.c`) | queues of buffers, chains of descriptors shared with the DMA, the worker's list | write a frame, free a buffer, the interrupt, the worker | lwIP, PTP, the controller |
| Other drivers and services | see section 7 | | |

What makes it hard: three cores and nested interrupts share one spin lock;
messages are freed by whoever drops the last reference; interrupts are edges
raised after the lock is given back; SPORT interrupts preempt tasks that are
opening, closing or moving the same streams; the audio buffers are handed
around without any lock, by the order of interrupts alone; and rings are shared
with interrupts through plain variables.  Nothing is persisted, so there is no
crash recovery to speak of; the failures that exist are full queues, an
exhausted heap, a busy SPORT, a rejected bus configuration and timeouts.

What makes each component correct:

* SAE messages: one thread at a time in the locked section, no interrupt
  spinning on a lock its own core holds, counters equal to references, nothing
  freed in use, no message without somebody about to look at it.
* Heap: the chain stays intact whatever clients write and whatever the order of
  calls, free space is merged, regions are disjoint, a request fails only when
  nothing fits.
* Application: the hand-shake ends, no message reaches a core that would lose
  it, every reference comes back whatever is refused, no buffer is used by two
  cores at once and blocks come back in order.
* Domains: one domain per stream, routing starts only on what has arrived,
  never with a buffer given back, and the system domain is never silenced.
* UART and USB serial port: bytes neither lost, doubled nor reordered, nobody
  left asleep.
* Streams and USB audio: the ring is a queue for whoever uses it without a lock,
  no flush meets a transfer, and a stream that is on goes on.
* Files: a descriptor reaches the file it was opened for; a format leaves the
  default volume what it was.
* Log: every line is shown once, dropped and counted, or still there.
* TWI: a transfer moves the bytes asked for, no more, and its call returns.
* Ethernet: a buffer is in one place, frames keep their order, the controller
  finds the next descriptor where it looks, nothing is left behind in a queue.

## 2. The modules

| Module | Models | Notes |
|---|---|---|
| `MsgBus` | what the message calls of `sae.h` promise: references, queues, lifetimes | abstract specification of `SaeIpc`; `IpcApp` uses calls with this meaning |
| `SaeIpc` | `sae.c`, `sae_irq.c`, `sae_util.c`, `sae_lock.c` | the core of the project; any number of cores, interrupt levels, messages |
| `SaeIpcInv` | the inductive invariant of `SaeIpc` | checked by `sae_cores`, proved |
| `SaeIpcLive` | `SaeIpc` with finitely many client calls, and fairness | liveness only |
| `SaeIpc_proofs`, `SaeIpcCount_proofs` | theorems about `SaeIpc` | lock, types and wake-ups; counters, refinement of `MsgBus` |
| `SaeHeap` | what malloc and free promise | abstract specification of `SaeAlloc` |
| `SaeAlloc` | `sae_alloc.c`, word by word | a call is a step: all run under the lock `SaeIpc` models |
| `SaeAlloc_proofs` | theorems about `SaeAlloc` | the chain, refinement of `SaeHeap` |
| `AudioDomain` | `clock_domain.c`, `process_audio.c`, SPORT set-up and A2B modes in `init.c`, `a2b_slave.c` | an interrupt callback is a step, a command a list of steps |
| `AudioDomain_proofs` | theorems about `AudioDomain` | |
| `IpcApp` | `main.c`, `init.c`, `sharc_audio.c`, both SHARC applications | a library call is a step |
| `IpcAppInv` | the inductive invariants of `IpcApp` | proved |
| `IpcApp_proofs` | theorems about `IpcApp` | references, start-up, audio blocks, room in heap and counters |
| `UartSimple` | `uart_simple.c` built for FreeRTOS | |
| `UartSimple_proofs` | theorems about `UartSimple` | |
| `PaRing` | `pa_ringbuffer.c` | operators on two indices |
| `SampleFifo` | what a stream promises of its ring: a bounded queue, cleared only while off | abstract specification of `StreamTask` and `UsbAudio` |
| `StreamTask` | `wav_audio.c`, `rtp_audio.c`, `vban_audio.c`, the calls of `rtp_stream.c`, `vban_stream.c` and `wav_file.c`, the shell's stream commands | one stream of one kind, its task, its shells and the SPORT interrupt |
| `UsbAudio` | `usb_audio.c` | two interrupts, one nested in the other |
| `UartCdc` | `uart_simple_cdc.c` built for FreeRTOS | one direction |
| `TwiSimple` | `twi_simple.c` | numbers of bytes; the controller external |
| `FdTable` | `fs_devio.c`, `fs_devman.c`, `fs_dev_fatfs.c`, the shell's format and drive commands | |
| `Syslog` | `syslog.c` | a line is its number |
| `Gemac` | the DMA channel, queues and interrupt of `adi_gemac.c` | the controller external |
| `EtherNetif` | `lwip_adi_ether_netif.c` over `Gemac` | one direction |
| `MCServices` | the last eight, side by side, for one run | they share no state |
| `Services_proofs`, `EtherNetif_proofs` | theorems about modules in `MCServices` | log, files, serial port, I2C, streams, types of all; Ethernet |
| `MCIpcApp` | `IpcApp` with two sets of constants, for one run | audio blocks, or housekeeping with short queues |
| `MCSaeIpc`, `MCSaeIpcLive`, `MCSaeAlloc` | definitions for the constants of the runs | |

The composition is by layers: `SaeIpc` is shown to implement `MsgBus`,
`SaeAlloc` to implement `SaeHeap`, and the rings of `StreamTask` and `UsbAudio`
to implement `SampleFifo`; `EtherNetif` runs over `Gemac`; `IpcApp` is built on calls that behave as
`MsgBus` says (one step each, references and bounded queues) and as `SaeHeap`
says of creation (it fails only for want of room).

**SaeIpc.**  A thread is a core and a level: level 0 is the task, higher
levels are interrupts that preempt the lower ones of their core; `IrqLevel` is
the level of `sae_interruptHandler`.  A library call goes through the labels
`enter` (the test made before the lock), `spin`, `body` (the locked section),
`unlock`, `exit` (interrupts on) and `after` (what follows the lock: the new
message's fields, the raised interrupt, the handler's next turn).  `own` and
`lost` are history: the references a client holds, which its calls may use, and
those dropped without an unref, so that `RefCount` can say what a counter
counts.  Which calls a client makes is open, except that it uses only
references it has; `Sends` says who sends where.  `RefMax` is the largest value
of the `uint8_t` counter, and the unlocked test of it in `sae_refMsgBuffer` is
modelled where the code makes it.

**SaeAlloc.**  The heap is a function from word indices to words; headers and
footers are computed by the code's macros; a client may leave anything of
`Junk` in the words of its block.  `NullWords` are the values the word before
address NULL may have, should the shortcut be NULL (see section 6).

**AudioDomain.**  `Interrupt(s)` is the SPORT callback: arrival of the stream
and of the streams without a clock that it stands for, and routing when the
domain is complete.  Commands are the lists of calls `a2b_set_mode`,
`a2b_sport_start`, `a2b_sport_stop` and `clock_domain_set` make, with the
failures of each; interrupts come between any two, and so do the calls of the other
task's command: nothing in the code keeps the shell and the slave task apart.
`STREAMS[]` is `info`, with the buffer live, freed or NULL.  A callback whose stream is
in no domain indexes past an array (`clock_domain.c:66`); the model then lets the
domain be complete or not.

**IpcApp.**  Each core has a task and an interrupt thread; `todo` is the list of
library calls a handler or task has yet to make, and the interrupt runs before
the task.  Short messages (ping, cycles, ready, process) are created in a heap
of bounded room; the audio messages and the cycle messages live for ever.
`data` numbers the block in each buffer, so that a lost or mixed block shows.

**UartSimple.**  Tasks step through `uart_read` and `uart_write` with the
critical sections and the interrupt as single steps.  `IndexFirst` says which
of two orders the compiler gave the stores of `buffer[index++] = byte`: C
leaves it open.

**StreamTask.**  `kind` and `block` choose the stream; a behaviour is about one.
The task's loop is a step between any two of its reads and writes of shared
state: take the mutex, look at the ring, copy, store the index, test pre-roll,
and, when the stream is off, flush with one index after the other.  The
interrupt is a step: it tests `enabled`, copies a block and stores its index.
`Open` and `Close` are the shell's commands under the mutex, after a test made
without it.  VBAN sinks are RTP sinks as far as the model goes.  Samples carry
numbers; `fresh` is history, whether the ring was empty when the stream was
opened.  An RTP or VBAN stream takes a whole packet or gathers one in `pkt`.

**UsbAudio.**  A SPORT transfer is three steps (test, copy, store the index), a
USB packet one that may fall between them, since the USB interrupt is the more
urgent.  `torn` is history: the host closed the endpoint inside a transfer,
after which the model stops (section 6).

**UartCdc.**  As `UartSimple`, with stretches of bytes: a write copies what fits
up to the wrap, the USB callback takes a chunk and sends it, and may be refused
by the library.  `brim` is history: a ring was filled to the last byte, which
reads as empty; the code and the model go on, and lose or reorder bytes (section 6).

**TwiSimple.**  `slen` and `rlen` are the bytes the interrupt has to come, `dcnt`
the controller's count, where `Unlimited` is the value that makes it not count.
The interrupt may come with the FIFO full, half full or empty, and late.
`asked`, `sent` and `received` are history.

**FdTable.**  An open is the steps under the table's lock, down to FatFs; a close
takes its steps outside the lock but the last.  `wasDefault` is history, the
default volume when a format began.

**Gemac, EtherNetif.**  `queued`, `pending` and `active` are the driver's queues of
buffers, `desc` the descriptor of a buffer, `nextDesc` the links, `own` the OWN
bits.  The DMA fetches a descriptor, moves a frame through the buffer of it, and
goes to the link it fetched, or is suspended at a descriptor it does not own.
Critical sections, the interrupt's calls and the controller's accesses are steps.
In `EtherNetif` a call under `readLock` or `writeLock` goes insert, `bind`,
`activate`, `resume`; the worker takes its list and walks it.  `inFlight` is
history: the order of the frames accepted.

## 3. Runs, bounds and what they show

| Run | Question | Bounds and why they are enough |
|---|---|---|
| `sae_cores` | do lock, counters, rings and interrupts of two cores implement the message bus, and is the proof's invariant true? | Two cores with a task and a handler each, one message, two references, a ring of two slots (one message fits, so it fills and wraps), all message types and an uninitialised receiver.  A second message adds no conflict on one lock that one message lacks. |
| `sae_live` | does masking make nested interrupts safe, does every call return and every queue get drained? | Two cores, the master with an interrupt above `sae_interruptHandler` that is a client as the task is; five client calls. |
| `sae_alloc` | does the allocator keep its chain and implement a heap? | Seven units, requests of two to four units: splits, remainders too small to split, merges to the left, to the right and to both sides all occur. |
| `sae_alloc_last` | violation, see section 6 | |
| `audio_domain` | do overlapping commands leave domains and arrival consistent, the system domain served? | Three commands of two tasks, enough for sub mode, a slave start and a return to main mode, or a stream moved there and back in between, in any interleaving.  One stream without a clock. |
| `audio_callback`, `audio_freed` | violations, see section 6 | |
| `ipc` | do ping-pong buffers keep ARM and SHARCs apart? do start-up and housekeeping end, whatever is refused? | One of two parts after start-up.  *Audio*: four blocks; the pipeline is two deep, so each buffer of a pair is used twice.  *Control*: one round of pings and cycle requests with queues of two messages, so that sends are refused; two is the smallest in which both ready messages fit, which the hand-shake needs.  Refusals to the SHARCs themselves (`main.c:399`) are few in one round, and the theorems `NothingDangles` and `NothingLeaks` speak for more.  Four short messages are just enough for a round, and `RoomForReply` holds with nothing to spare. |
| `uart` | are bytes kept in order and sleepers woken? | Two writes of two bytes through a ring that holds two, three bytes received through another: both wrap and fill, reads time out. |
| `uart_index`, `serial_brim` | violations, see section 6 | |
| `services` | do the services and drivers that are not part of the above keep their promises? | One of them at a time, `part`, with the others at rest: they share no state, so nothing is missed. *Streams*: a ring of 4 samples, numbers modulo 5, blocks of 1 and 2, packets of 1 and 2, all kinds; it fills, wraps, and a packet may not fit; one shell, so that two shells that race for a stream (`shell_cmds.c:2533`) are left to the theorem `RingsAreQueues`. *USB audio*: a ring of 8 frames, blocks of 2, packets of 1 to 3, a fill level of 4. *Serial*: a ring of 4 bytes, chunks of 2, two callers, lengths to 3, which fill it to the brim. *TWI*: a counter of 4 bytes and transfers to 7, so that one is longer than the counter in either part; two users. *Files*: two tasks and a shell, two descriptors, two FatFs files, so that both tables fill. *Log*: three slots, five lines, two writers, two dumps of up to three lines. *Ethernet*: three buffers, three descriptors, threshold 2, so that a buffer waits for a descriptor, one for the active ones to be few, and the links wrap; one frame that nobody takes. |

`sae_cores` uses a VIEW that leaves out ring slots outside the queue, which no code
reads.  Deadlock is checked in every passing run but `sae_live`, `uart` and `services`,
where the bounds on calls, writes, bytes, lines and lost frames are used up with every call
returned, where a serial port may fall silent (section 6), and where `UsbAudio` stops
at `torn`, so that the system stops as intended; `IpcApp` has a `Finished` step for the same
end, enabled only when nothing is left to do.

Some properties of `services` are about part of the behaviours only, and say so where they
are stated: `SerialInOrder` is about every behaviour until a ring is filled to its last byte
(`brim`), `StreamsAreFifos` until a USB endpoint closes inside a transfer (`torn`),
`Progress` about streams opened on an empty ring (`fresh`), and `FramesKept` assumes room in the
worker's mailbox.

## 4. Assumptions

*Fairness.*  Tasks and handlers get the processor (weak fairness of their
steps) because every interrupt handler here returns and FreeRTOS runs the
highest ready task; pending interrupts are taken; SPORT DMA interrupts as long
as its clock runs; a UART shifts out what it was given.  No client is obliged to
call anything, no byte to arrive, no read to time out.  In `services`: a
stream's task runs, a shell that is in a command ends it, SPORT interrupts and packets keep coming
(their clock and their sender go on); the TWI controller ends what it is given or
reports an error, and its interrupt is taken; USB packets come while an endpoint
is open.  Files, log, serial port and Ethernet have no liveness property and
need no fairness.  The spin lock is not fair: with clients
that call for ever a core could starve, so `SaeIpcLive` bounds the calls.

*Real time.*  The audio part of `ipc` assumes with `Deadline = TRUE` that the SHARCs finish a
block before the next one is routed.  Nothing in the code enforces or detects it; with
`FALSE`, `NoSharedBuffer` fails, so that it says nothing of the timeout hazard at
`sharc_audio.c:52`.  The control part does not assume it.

*Codec.*  The two codec SPORTs alternate: they have one clock and are started
synchronously by enabling it (`main.c:646`, "Enable main MCLK/BCLK for a synchronous start").

*Overlapping commands.*  None is excluded.  `SystemServed` says that the system domain is
routed for ever if commands do not overlap (`OneCommand`), and if they do, unless they leave a
stopped SPORT in it for good (`SystemRuns` fails): then the domain waits for that SPORT
and is silent, which is a state the code can reach.

*Interrupts on the ARM.*  The codec, SAE and UART interrupts share one
priority (`init.c`, the GIC priorities), so none preempts another.  `SaeIpc` does not rely on it.
USB is above them (`init.c:482`): `UsbAudio` lets it in anywhere.

*The I2C and Ethernet controllers* are external and behave as the code takes
them to.  I2C: as the comments of the interrupt say (`twi_simple.c:739`, `:758`).
Ethernet: a controller that finds a descriptor it does not own reads as suspended
at once; `resume_tx` and `resume_rx` poll only one that does, so if there were time
between the two, a buffer activated then would wait for the next one.  The worker's
mailbox (20 events) is never full.

## 5. What is proved

TLAPS proves the following for every set of cores, levels, messages, streams and every bound,
from the ASSUMEs of the modules, which say no more than the code's types and
start-up do (`QSize >= 2`, finite sets, `1 <= MaxRefs <= RefMax`).

* `TypeCorrect`, `LockExcludes`, `LockIsNotPreempted` (`SaeIpc_proofs`): types,
  mutual exclusion, and that no interrupt runs above a level that holds the
  lock.  None of them is inductive alone.  `LockInv` adds that a thread in the
  critical labels has its core's interrupts off and nothing active above it
  (`MaskInv`), how the label of a call restricts its arguments (`CallInv`), what
  the handler's stage implies (`HandlerInv`), that queued elements are messages
  (`QueueInv`), and that a reference about to be given up is there (`OwnInv`).
  Mutual exclusion needs masking, since it is masking that keeps one core's
  levels from passing the same lock; types need the references (`own` would
  become negative).  Each part has its own step lemma with a case per action.
* `CountersAreRight`, `NothingFreedIsUsed` (`SaeIpcCount_proofs`): the counter
  of a message is the number of its holders, and nothing that was freed is used.  The counter is
  compared with the cardinality of a set of holders: one element per reference
  of a thread, per occupied ring slot and per lost reference.  The lemmas
  `AddHolder`, `RemoveHolder`, `ExchangeHolder` say how the set changes, and
  `MsgOK` carries the room for references that were tested but not yet counted,
  which is what the unlocked test in `sae_refMsgBuffer` needs: the theorem holds
  under the clients' bound `MaxRefs`, not for 255 references on two cores.
* `Inductive`: the whole invariant `IndInv` those follow from, which the run
  `sae_cores` checks too.
* `WakeupsAreKept` (`SaeIpc_proofs`): no message waits in a queue that nobody is about to look
  at, provided every send asks for the interrupt (`Signal = {TRUE}`; the calls in
  the repository all do).  It needs of the handler only what its stages say: a
  handler that will look again has not yet seen the queue empty.
* `BusImplemented` (`SaeIpcCount_proofs`): `SaeIpc` implements `MsgBus`.  The ring
  of a core, read from tail to head, is the abstract queue; the step that
  changes a counter or an index is the abstract step, by `RingStores` and
  `RingTakes`, and every other step stutters.  That a counter reaches zero with
  the last reference is `RefCount`.

The heap (`SaeAlloc_proofs`), for any size, any requests and anything clients write:

* `WalkIsChain`: the walk of the heap is a recursive function, and what it
  computes would need induction over data.  It is had from a set instead: `Chain(C, m)` says
  that a set of units starts at 0, that each block ends where the next begins, and
  that no other lies between; the least unit at which walk and chain differ cannot exist.
* `HeapChecks`, `HeapCoalesced`, `ShortcutIsBlock`, `PayloadIsKept` follow from one
  invariant, `HeapInv`: the walk is a chain, no two neighbours are free, the
  shortcut is a block or NULL.  `SplitInTwo` and `Join` are the two ways a chain changes;
  `TakeEffect`, `FreeEffect` and `WriteEffect` say what each operation does to it.
  `Coalesced` is needed to bound a merge to three blocks.
* `HeapImplemented`: regions stay disjoint and inside the heap, at most a unit larger than
  asked, and a request is refused only when no gap holds it.  The last needs
  `Coalesced` again: a gap between allocated blocks is one block.

Clock domains (`AudioDomain_proofs`), for any clockless streams and any number of commands:

* `StreamsHaveOneDomain`, `ArrivedStreamsAreStored`, `TypeCorrect`, with the commands of
  any tasks overlapping.  The second needs the first.

The UART driver (`UartSimple_proofs`), for any tasks, rings, bursts and FIFO:

* `TypeCorrect`, in both builds.
* `BytesLeaveInOrder`, `BytesAreReadInOrder`, where the byte is stored before the
  index (`IndexFirst = FALSE`; with `TRUE` the run `uart_index` refutes the first).
  The invariants place every byte: those sent and those in the ring are the bytes
  written so far, the k-th place after the read index holds the k-th byte not sent, and
  a token is given only when there is room; likewise for reading, with the FIFO.

The application (`IpcApp_proofs`, the invariants in `IpcAppInv`), for any queues, heap and number
of blocks and rounds:

* `NothingIsMissed`, `NothingDangles`, `NothingLeaks`, from `IndInv`, which
  `Inductive` states.  Its parts: `Stages`, how far each core's start-up is, read off
  the calls it has left; `Flow`, which messages a call or a queue of each core may
  carry; and `Counted`.  A thread is a list of calls, so its claim to a message is
  counted on that list: the references it will give away, less those it will take
  first.  A counter is the sum of those claims, the places of the message in the queues
  and, for a persistent one, its creator's reference.  No claim is ever negative on the rest of
  a list (`Balanced`), which is why nothing is freed between two calls that use it;
  and with every list empty nothing is left to hold a reference, which is `NothingLeaks`:
  in an idle system only the persistent messages exist, with a count of one.
  Refused sends and failed creations are in: each drops the reference it was given.
* `BlocksComeBack` and `BuffersAreApart` state `BlocksReturn` and `NoSharedBuffer`, the
  latter for any two interrupts.  They have two hypotheses, and both are needed.  `Deadline`: a SHARC deals
  with a block before the one after it is complete; the code has nothing that enforces it
  (the timeout hazard at `sharc_audio.c:52`).  `Accepted`, of every state: the sends of the
  ARM's audio interrupt find room in the queue of the SHARC and a process message can be created, since
  a refused buffer or process message is a block the SHARC never sees, by design.  It holds in
  every state of the audio part of run `ipc`.  Everything else is free: sizes, rounds
  of pings and cycle requests that overflow the ARM's queue, the order of cores and threads.
  The invariant is `AudioInv`, used with `IndInv`.  What is under way to a SHARC is a line:
  the call its interrupt works on, then the messages in its queue.  `Phase` names the
  fourteen stages of a block by what is in the list of the ARM's interrupt, and says for each
  stage which buffers and which process message stand in the two lines, in which order and with the
  samples of which block (`Pipe`); `Pair` reads the part of each pair the ARM keeps off the number
  of the block.
* `AnswersFindRoom` states `RoomForReply` for a heap of `3 * QSize + 10` short messages.  A
  SHARC answers a ping with a message it does not check was created (`sharc0_main.c:175`).
  A short message is in a queue or given away by a call of a thread's list (`ShortHeld`, from
  `Counted`), and a list has few such calls: `Limits` gives the main thread of the ARM 4, its audio interrupt
  3, other interrupts 2 and other threads 1.  That is 13, one less when a thread is about to
  create, and `QSize - 1` in each queue.  With the code's 16 places that is 58
  messages; how many `MCAPI_SIZE` holds (`sae.c:108`) is decided by the tool chain's
  header, which is not in the repository, so it stays a hypothesis.
* `OnlyQueuesLoseBlocks`: in such a heap `Accepted` can be weakened to `Delivered`, that sends of
  the ARM's audio interrupt find room in a queue; a process message can always be created.
* `TypeCorrect` states `TypeOK`, whose substance is that a reference counter fits its byte
  (`sae_priv.h:30`): a message is once in each place of a queue, at most three times in a list of
  calls, and has one reference of its creator, `3 * QSize + 16` in all, which is 64 for 16 places.  So
  `sae_refMsgBuffer` never refuses (`sae.c:165`), and it is right that no caller asks.  Of the other types
  only those of the audio's variables need an argument: a block is routed while there is one to
  route, between buffers that are there or about to be transferred (`Turn`).

Log, files, serial port, I2C and streams (`Services_proofs`), for any tasks, rings, packets and tables:

* `LogIsAccounted`: a line printed was shown once, counted as dropped, or is in
  the ring in its order, with the writers' and the dumps' steps interleaved.
* `FilesAreReached`: a descriptor in use reaches the file it was opened for, although a
  close takes its first steps outside the lock: two descriptors never share a
  slot, and the slot of a closing one stays taken until its last step.
* `SerialIsInOrder`: until a ring is full to the brim, which is as far as the property
  goes, what was sent or taken and
  what is still in the ring are the bytes of that direction in turn.  Callback and
  task see the ring at different moments, so the invariant says where its first byte
  is relative to what was taken out so far (`Gone`), and that the stretch either of
  them is about to copy holds only what is there (`Reaches`).
* `TransfersAreExact`: an I2C call moves what it was asked for, whenever the
  interrupt comes.  `InTransfer` relates the three places that count: what was moved
  and what `slen`, `rlen` and the FIFO have left is the request, and the controller's
  count is what is left, or it does not count (`Counts`); a long read is told its
  count while more than a FIFO's worth is still to come.
* `RingsAreQueues`: every audio ring implements `SampleFifo`, wherever the SPORT interrupt
  falls between the task's steps, and the USB interrupt between the SPORT's.  What a side
  has copied and not yet put is behind the rest in the ring, what it has copied and not
  yet taken is still at its head (`Filling`, `Draining`), though the other side
  moves its own index meanwhile: `WroteKeeps` and `TakingKeeps` say that neither disturbs
  the other.  A flush of a task's ring meets no transfer, for the task has the mutex and the
  stream is off; one of USB audio may, and what is claimed ends there (`torn`).
* `TypesAreKept` states `TypesOK`, of all seven parts, Ethernet included.  `PartsInv` puts
  together their invariants and, for each, the few facts only the types need.  What could go
  wrong there is a size: the log's numbers stop at the last line printed, a dump's count at
  `Max`; the number of devices is that of the entries in use (`DevicesCounted`); a chunk of the
  serial port is no longer than the DMA's buffer; an I2C transfer is refilled with no more than
  it had left (`FillsNoMore`), and its counter is never set beyond what it can count; a
  stream's chunk, packet or block fits its ring; and descriptors that the chain leaves are
  descriptors (`ChainTyped`).

The Ethernet interface (`EtherNetif_proofs`), for any numbers of buffers and
descriptors, in either direction:

* `FramesAreKept`: a buffer is in one place, frames pass in order, the controller's next
  descriptor is the next to be used, the worker sees a list that is not empty, and
  nothing is left in the driver when all is quiet.  `EtherInv` has a witness for what no
  variable says: the list `d` of the descriptors as they are linked, and the number `k`
  of active buffers the controller is done with and no interrupt has seen.  `Chained`
  says that active buffers, pending ones and free descriptors divide `d` in that order
  and that the controller is at place `k + 1`; `process_int` turns `d` round by what it
  finished (`Turned`), every other step keeps it.  `EtherFrames` says that the buffers
  read through all queues in order, from the worker's to the driver's, are the frames on
  their way: for transmission the consecutive slots of its ring, one left empty, for
  reception each buffer once.  `EtherWakes` is what makes a wake-up safe: a suspended
  controller that was given a descriptor, or left work in a queue, has a status bit up,
  or a call or an interrupt on its way to `resume`.

Hypotheses on constants stand in the statements or in the modules' ASSUMEs.  Those not already
named are the shapes of the code's types and start-up: `Writer \cap Reader = {}`, a burst
that fits the ring, two frames or more in a USB packet, room in a queue for both ready messages, a finite set of devices.

Every invariant of a passing run is thus a theorem.  Left to TLC alone: liveness and anything
with fairness, and of course what does not hold, in the runs that expect a violation.

## 6. Findings and observations

Five disagreements, each with a run that finds it and a property that states
what the repository says:

1. `sae_alloc_last`: an allocation that takes a block without splitting it
   makes NULL the "last free" block, and the next call reads the header before NULL.
2. `audio_freed`: A2B leaves main mode, its DMA buffers are freed, and a block
   of it that had already arrived is still in `STREAMS[]` when the system domain
   is routed.
3. `uart_index`: `tx_buffer[tx_buffer_writeptr++] = out[i]` is neither atomic nor
   volatile.  With the index stored first, as gcc compiles it, an interrupt in
   between sends what the slot held before.  With bytes stored first the run
   `uart` shows the protocol to be right.
4. `audio_callback`: the slave task opens the A2B SPORTs while the shell is leaving sub
   mode (`init.c:1378`); the shell then takes them out of their domain, and their
   callbacks, which are there for "sources/sinks with inherent clocks"
   (`process_audio.c:196`), index the domains' arrays past their end.
5. `serial_brim`: a write that has room up to the read index fills the ring to its last
   byte (`uart_simple_cdc.c:319`).  The full ring reads as empty; what was not sent is
   overwritten and does not go out as the "contiguous stream of bytes" of
   `uart_simple_cdc.h:196`.  The receiving interrupt does the same with its ring.

Observed while modelling, and not runs of their own:

* `sae_refMsgBuffer` tests the counter before it takes the lock; two cores at
  254 references could wrap it.  No client comes near.
* The SHARCs never register `msgRxStreamCB`: a stream message that reached a
  core would not be unreferenced.  None is sent.
* Overlapping commands can leave a SPORT in the system domain that is stopped; the
  domain then waits for it and is silent.  `SystemServed` excepts it.
* A stream without a clock that is moved to the A2B domain waits for an A2B
  that does not run and stalls that domain.
* A read that times out just as the interrupt gives its semaphore leaves a
  token; a later read that may block for ever returns no bytes
  (`uart_simple.c:285`; the steps are in `UartSimple`).
* `uart_setProtocol` tests for even parity twice and `uart_deinit` deletes the
  receive lock twice.

Streams and USB audio:

* A stream switched off and on before its task's next turn keeps its ring
  (`rtp_audio.c:87`).  A receiver then pre-rolls on a ring that may be nearly full: no packet fits,
  pre-roll never ends, the stream is silent.  `Progress` holds only for streams
  that were flushed (`fresh`).
* `usb_audio.c:250` flushes the ring when the host closes an endpoint, in the USB interrupt, although
  `pa_ringbuffer.c:92` says "Should only be called when buffer is NOT being read
  or written": inside a SPORT transfer the stored index is then off.
* `usb_audio.c:200` may ask for a frame more than is there when it adjusts the rate.
* `wav_audio.c:63` keeps the size read in an unsigned variable, so that a failed
  read is a large one; `wav_file.c:374` rewinds a file without samples for ever;
  the data size of a sink is not reset when it is opened again.
* `vban_stream.c:297`: a refused packet leaves its samples for the next call.

Drivers and services:

* `uart_simple_cdc.c:147`: when the USB library refuses the next chunk,
  `transmitting` stays true with nothing in flight and nothing is sent again.
* `twi_simple.c:652`: opening a port that is open uninstalls its handler first; a
  `twi_writeWrite` whose first part is empty never ends.
* `fs_dev_fatfs.c:102`: an open that FatFs refuses does not give its slot back;
  `fs_devio.c:170` lets through a descriptor one past the table; a format
  leaves the open files of the flash with a device that is gone.
* `syslog.c:187` steps back before the text of a line of white space only.
* `a2b_irq.c:128` uses an index that a failed read left without a value; nothing
  calls `a2b_irq_register`.
* No application registers for IEEE 1722 frames: the buffers of any that arrive
  are never returned (`lwip_adi_ether_netif.c:482`), and reception stops after as
  many as there are buffers.
* The Ethernet worker is posted only when its list was empty and the result is not
  looked at (`lwip_adi_ether_netif.c:574`): were the mailbox full, by 18 changes
  of the link while the worker is held up, it would never be posted again.

## 7. What is not modelled

* VU meter: its task reads a buffer without knowing which the interrupt fills
  (`vu_audio.c:67`), and shows a level from either; no property of it is exact.
* SPI: a batch under a lock, each transfer started by the interrupt that ends the one
  before, one semaphore at the end: the steps have one order.
* CPU load: counters for display; an interrupt adds cycles of those above it.
* A2B interrupts: their listeners register with a call nothing makes.
* SPORT driver: only what `AudioDomain` needs of it.
* Clock generator, SD card and flash drivers, board start-up: register
  sequences whose correctness is a data sheet's.
* A2B discovery, XML and command lists, codec tables, packet and file headers:
  sequential conversions of data.
* USB descriptors and class requests: tables and answers for the vendor's
  library, which is not in the repository.
* Ethernet: other channels than the first, PTP time, the PHY, address filters,
  underflow and bus errors, start-up and shutdown.
* Files: SPIFFS's table, unlink, rename, directories and seeks.
* Shell and telnet: line editing and all commands but those named in section 2.
* Vendored and generated code (FreeRTOS, lwIP, FatFs, SPIFFS, umm_malloc,
  libtelnet, the rest of the vendor's drivers, start-up code), which is most of
  the repository's lines, is used as published: external where a module needs it.
* Caches and memory ordering: the models assume coherent, ordered memory; the
  ARM maps the L2 region of the SAE structures strongly ordered (`apt-sc589.c:69`).
* Of the modelled parts: the samples, cycle counts and texts that are carried,
  SPDIF (a stream that never leaves the system domain), opening and closing the
  UARTs and the I2C port, failing WAV files and malformed packets.

## 8. Plan

The plan is done: what is not modelled is in section 7 with its reason, and of the
properties of the passing runs only the liveness ones have no theorem, which TLAPS
cannot prove.  When the firmware changes, the hazards in `PROJECT.json` without a
property are where to go on, the timeouts of SHARC and UART first.
