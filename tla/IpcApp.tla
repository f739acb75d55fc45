------------------------------- MODULE IpcApp -------------------------------
(***************************************************************************)
(* The application messages between the ARM and the two SHARCs: startup,   *)
(* housekeeping and audio transfer in src/ARM/src/main.c, init.c,          *)
(* sharc_audio.c and process_audio.c, and src/SHARC0/src/sharc0_main.c     *)
(* with its twin sharc1_main.c.                                            *)
(*                                                                         *)
(* A call of the SAE library is one step, as MsgBus promises and SaeIpc    *)
(* implements: create, ref, unref, send.  A thread is the list of the      *)
(* calls it has yet to make; interrupts preempt the task of their core     *)
(* between two calls and do not nest, since the codec and the SAE          *)
(* interrupt of the ARM have one priority.  The SHARCs' streams are in the *)
(* system clock domain, where clock_domain_init puts them.                 *)
(***************************************************************************)
EXTENDS Integers, Sequences, FiniteSets

CONSTANTS
  QSize,       \* IPC_MAX_MSG_QUEUE_SIZE
  Heap,        \* short messages that fit in the heap beside the persistent ones
  Deadline,    \* the SHARCs finish a block before the next one is routed
  MaxBlocks,   \* bound: audio blocks routed
  MaxRounds    \* bound: rounds of the housekeeping task

ASSUME QSizeAssumption == QSize \in Nat /\ QSize >= 3  \* room for two ready messages
ASSUME HeapAssumption  == Heap \in Nat
ASSUME DeadlineAssumption == Deadline \in BOOLEAN
ASSUME BoundAssumption == MaxBlocks \in Nat /\ MaxRounds \in Nat

Sharcs  == {"SHARC0", "SHARC1"}
Core    == Sharcs \cup {"ARM"}
Thread  == Core \X {"task", "irq"}

\* A message: its type, the core it belongs to or comes from, and which of
\* that core's it is.
Message(t, c, i) == [type |-> t, core |-> c, id |-> i]
Audio == {Message(t, s, i) : t \in {"IN", "OUT"}, s \in Sharcs, i \in 0 .. 1}
Cycles(s) == Message("CYCLES", s, 0)
Persistent == Audio \cup {Cycles(s) : s \in Sharcs}
Short == {Message(t, c, i) : t \in {"PING", "CYCLES", "READY", "PROCESS"}, c \in Core, i \in 1 .. Heap}

VARIABLES
  ref,       \* the reference counter of every message that exists
  queue,     \* the message queue of each core
  ready,     \* the cores sae_initialize has set up
  callback,  \* the cores with a message callback
  enabled,   \* the cores that run
  todo,      \* the calls each thread has yet to make
  heard,     \* sharc0Ready, sharc1Ready
  running,   \* the ARM has left its startup wait: clocks and tasks run
  active,    \* clockDomainActive: the codec streams that have arrived
  pp,        \* the ping-pong index of each SHARC stream
  stream,    \* STREAMS[] of the ARM: the buffer it holds of each SHARC stream
  info,      \* streamInfo[] of each SHARC: its latest buffers
  data,      \* the number of the audio block in each buffer, 0 for silence
  got,       \* history: the block each SHARC returned last
  block,     \* history: blocks routed
  rounds     \* history: housekeeping rounds

busVars   == <<ref, queue>>
bootVars  == <<ready, callback, enabled, heard, running>>
armVars   == <<active, pp, stream, got, block>>
appVars   == <<armVars, info, data, rounds>>
vars      == <<busVars, bootVars, todo, appVars>>

None == -1    \* no buffer
-----------------------------------------------------------------------------
(* The library's calls, as MsgBus has them *)

Op(op, m, c) == [op |-> op, msg |-> m, core |-> c]
Nil          == Message("NULL", "ARM", 0)
Plain(op)    == Op(op, Nil, "ARM")
Ref(m)       == Op("ref", m, "ARM")
Unref(m)     == Op("unref", m, "ARM")
Send(m, c)   == Op("send", m, c)

\* A short message the heap has room for, or Nil: sae_createMsgBuffer.
FreeIds == {i \in 1 .. Heap : \A m \in DOMAIN ref \ Persistent : m.id # i}
Fresh(t, c) == IF FreeIds = {} THEN Nil
               ELSE Message(t, c, CHOOSE i \in FreeIds : \A j \in FreeIds : i <= j)

\* The messages of S come into being with one reference each.
Created(S)   == [m \in S \cup DOMAIN ref |-> IF m \in S THEN 1 ELSE ref[m]]
Unreffed(m)  == IF m \notin DOMAIN ref THEN ref
                ELSE IF ref[m] = 1 THEN [k \in DOMAIN ref \ {m} |-> ref[k]]
                ELSE [ref EXCEPT ![m] = @ - 1]

QueueFull(c) == Len(queue[c]) = QSize - 1

\* The call op of thread t is done and it goes on with "then".
Continue(t, then) == todo' = [todo EXCEPT ![t] = then \o Tail(@)]

DoRef(t, op) ==
  /\ op.op = "ref"
  /\ ref' = IF op.msg \in DOMAIN ref THEN [ref EXCEPT ![op.msg] = @ + 1] ELSE ref
  /\ Continue(t, <<>>)
  /\ UNCHANGED <<queue, bootVars, appVars>>

DoUnref(t, op) ==
  /\ op.op = "unref"
  /\ ref' = Unreffed(op.msg)
  /\ Continue(t, <<>>)
  /\ UNCHANGED <<queue, bootVars, appVars>>

\* ipcToCore, sendMsg: a message that is not accepted is unreferenced.
ipcToCore(t, op) ==
  /\ op.op = "send"
  /\ IF op.core \in ready /\ ~QueueFull(op.core)
     THEN /\ queue' = [queue EXCEPT ![op.core] = Append(@, op.msg)]
          /\ Continue(t, <<>>)
     ELSE /\ Continue(t, <<Unref(op.msg)>>)
          /\ UNCHANGED queue
  /\ UNCHANGED <<ref, bootVars, appVars>>

-----------------------------------------------------------------------------
(* Startup *)

\* Mutants of the startups: the SHARCs start, or say so, before the callback
\* is registered.
ArmStartupEarly   == <<Plain("initialize"), Plain("buffers"),
                       Plain("enable"), Plain("register"), Plain("wait")>>
SharcStartupEarly == <<Plain("initialize"), Plain("cycles"), Plain("announce"), Plain("register")>>

ArmStartup   == <<Plain("initialize"), Plain("register"), Plain("buffers"),
                  Plain("enable"), Plain("wait")>>
SharcStartup == <<Plain("initialize"), Plain("cycles"), Plain("register"), Plain("announce")>>

\* sae_initialize and sae_registerMsgReceivedCallback
Initialize(t, op) ==
  /\ op.op = "initialize"
  /\ ready' = ready \cup {t[1]}
  /\ Continue(t, <<>>)
  /\ UNCHANGED <<busVars, callback, enabled, heard, running, appVars>>

Register(t, op) ==
  /\ op.op = "register"
  /\ callback' = callback \cup {t[1]}
  /\ Continue(t, <<>>)
  /\ UNCHANGED <<busVars, ready, enabled, heard, running, appVars>>

sae_buffer_init(t, op) ==
  /\ op.op = "buffers"
  /\ ref' = Created(Audio)
  /\ data' = [m \in Audio |-> 0]
  /\ Continue(t, <<>>)
  /\ UNCHANGED <<queue, bootVars, armVars, info, rounds>>

EnableSharcs(t, op) ==
  /\ op.op = "enable"
  /\ enabled' = Core
  /\ Continue(t, <<>>)
  /\ UNCHANGED <<busVars, ready, callback, heard, running, appVars>>

\* The ARM polls until it has heard both SHARCs; then comes the rest of the
\* startup task.
WaitForSharcs(t, op) ==
  /\ op.op = "wait"
  /\ \/ heard # Sharcs /\ UNCHANGED vars
     \/ /\ heard = Sharcs
        /\ running' = TRUE
        /\ Continue(t, <<>>)
        /\ UNCHANGED <<busVars, ready, callback, enabled, heard, appVars>>

CreateCycles(t, op) ==
  /\ op.op = "cycles"
  /\ ref' = Created({Cycles(t[1])})
  /\ Continue(t, <<>>)
  /\ UNCHANGED <<queue, bootVars, appVars>>

\* A short message is created and, if the heap has room, handed to "calls".
Create(t, m, calls) ==
  /\ ref' = IF m = Nil THEN ref ELSE Created({m})
  /\ Continue(t, IF m = Nil THEN <<>> ELSE calls)
  /\ UNCHANGED <<queue, bootVars, appVars>>

\* quickIpcToCore(IPC_TYPE_SHARCn_READY)
Announce(t, op) ==
  LET m == Fresh("READY", t[1])
  IN op.op = "announce" /\ Create(t, m, <<Send(m, "ARM")>>)

-----------------------------------------------------------------------------
(* The housekeeping task pings both SHARCs and asks both for their cycles *)

\* Mutants of ToBoth: one reference for two recipients; one for each and the
\* creator's.
ToBothUnreffed(m) == <<Send(m, "SHARC0"), Send(m, "SHARC1")>>
ToBothKept(m) == <<Ref(m), Send(m, "SHARC0"), Ref(m), Send(m, "SHARC1")>>

ToBoth(m) == <<Ref(m), Send(m, "SHARC0"), Send(m, "SHARC1")>>


houseKeepingTask ==
  LET t == <<"ARM", "task">> IN
  /\ running /\ todo[t] = <<>> /\ rounds < MaxRounds
  /\ todo' = [todo EXCEPT ![t] = <<Plain("ping"), Plain("ask")>>]
  /\ rounds' = rounds + 1
  /\ UNCHANGED <<busVars, bootVars, armVars, info, data>>

Ping(t, op) == LET m == Fresh("PING", t[1])   IN op.op = "ping" /\ Create(t, m, ToBoth(m))
Ask(t, op)  == LET m == Fresh("CYCLES", t[1]) IN op.op = "ask" /\ Create(t, m, ToBoth(m))

-----------------------------------------------------------------------------
(* The codec interrupts of the ARM: processAudio and sharc_audio.c *)

Buffer(dir, s, i) == Message(dir, s, i)

\* processAudio for the codec stream d, with the SHARC streams it brings in.
\* The codec's two SPORTs have one clock and start together, so they alternate.
codecAudio(d) ==
  LET t == <<"ARM", "irq">>
      dir == IF d = "CODEC_IN" THEN "OUT" ELSE "IN"
      OnTime == \A s \in Sharcs :
                  /\ \A i \in 1 .. Len(queue[s]) : queue[s][i].type # "PROCESS"
                  /\ \A i \in 1 .. Len(todo[<<s, "irq">>]) : todo[<<s, "irq">>][i].op # "process"
  IN /\ running /\ todo[t] = <<>> /\ block < MaxBlocks
     /\ d \notin active
     /\ Deadline /\ active # {} => OnTime
     /\ active' = active \cup {d}
     /\ todo' = [todo EXCEPT ![t] = <<Op("xfer", Buffer(dir, "SHARC0", 0), "SHARC0"),
                                      Op("xfer", Buffer(dir, "SHARC1", 0), "SHARC1"),
                                      Plain("domain")>>]
     /\ UNCHANGED <<busVars, bootVars, pp, stream, got, block, info, data, rounds>>

\* Mutants of Swap: the buffer the ARM keeps is the one it sends; the index
\* stays; the index counts on.
SwapCounts(i)    == [keep |-> i, send |-> 1 - i, next |-> i + 1]
SwapKeepsSent(i) == [keep |-> 1 - i, send |-> 1 - i, next |-> 1 - i]
SwapStays(i)     == [keep |-> i, send |-> 1 - i, next |-> i]

\* The ARM keeps one buffer of the pair and sends the other.
Swap(i) == [keep |-> i, send |-> 1 - i, next |-> 1 - i]

xferSharcAudio(t, op) ==
  LET dir == op.msg.type
      swap == Swap(pp[dir][op.core])
      m == Buffer(dir, op.core, swap.send)
  IN /\ op.op = "xfer"
     /\ stream' = [stream EXCEPT ![dir][op.core] = swap.keep]
     /\ pp' = [pp EXCEPT ![dir][op.core] = swap.next]
     /\ Continue(t, <<Ref(m), Send(m, op.core)>>)
     /\ UNCHANGED <<busVars, bootVars, active, got, block, info, data, rounds>>

ProcessCalls(m) == <<Ref(m), Send(m, "SHARC0"), Ref(m), Send(m, "SHARC1"), Unref(m)>>

\* clock_domain_ready: the SHARCs are told to process and the domain is routed.
DomainReady(t, op) ==
  LET m == Fresh("PROCESS", "ARM")
      complete == active = {"CODEC_IN", "CODEC_OUT"}
  IN /\ op.op = "domain"
     /\ active' = IF complete THEN {} ELSE active
     /\ ref' = IF complete /\ m # Nil THEN Created({m}) ELSE ref
     /\ Continue(t, IF ~complete THEN <<>>
                    ELSE (IF m = Nil THEN <<>> ELSE ProcessCalls(m)) \o <<Plain("route")>>)
     /\ UNCHANGED <<queue, bootVars, pp, stream, got, block, info, data, rounds>>

\* routeAudio, with routes from the codec to each SHARC and back.
RouteAudio(t, op) ==
  /\ op.op = "route"
  /\ block' = block + 1
  /\ got' = [s \in Sharcs |-> data[Buffer("OUT", s, stream["OUT"][s])]]
  /\ data' = [m \in Audio |-> IF m.type = "IN" /\ stream["IN"][m.core] = m.id
                              THEN block + 1 ELSE data[m]]
  /\ stream' = [d \in {"IN", "OUT"} |-> [s \in Sharcs |-> None]]
  /\ Continue(t, <<>>)
  /\ UNCHANGED <<busVars, bootVars, active, pp, info, rounds>>

-----------------------------------------------------------------------------
(* The message callbacks: ipcMsgHandler on the ARM, ipcMsgRx on a SHARC *)

Work(c, m) ==
  CASE c \in Sharcs /\ m.type = "PING"          -> <<Plain("reply")>>
    [] c \in Sharcs /\ m.type \in {"IN", "OUT"} -> <<Op("audio", m, c)>>
    [] c \in Sharcs /\ m.type = "PROCESS"       -> <<Plain("process")>>
    [] c \in Sharcs /\ m.type = "CYCLES"        -> <<Ref(Cycles(c)), Send(Cycles(c), "ARM")>>
    [] c = "ARM" /\ m.type = "READY"            -> <<Op("heard", m, c)>>
    [] OTHER                                    -> <<>>

\* Mutant of Handle: the ARM keeps the reference of every message.
HandleKeeps(c, m) == IF c = "ARM" THEN Work(c, m) ELSE Work(c, m) \o <<Unref(m)>>

Handle(c, m) == Work(c, m) \o <<Unref(m)>>

\* sae_interruptHandler: a message that finds no callback is lost.
Receive(c) ==
  LET t == <<c, "irq">>
      m == Head(queue[c])
  IN /\ c \in ready /\ todo[t] = <<>> /\ queue[c] # <<>>
     /\ queue' = [queue EXCEPT ![c] = Tail(@)]
     /\ todo' = IF c \in callback THEN [todo EXCEPT ![t] = Handle(c, m)] ELSE todo
     /\ UNCHANGED <<ref, bootVars, appVars>>

Heard(t, op) ==
  /\ op.op = "heard"
  /\ heard' = heard \cup {op.msg.core}
  /\ Continue(t, <<>>)
  /\ UNCHANGED <<busVars, ready, callback, enabled, running, appVars>>

\* A SHARC uses the reply without asking whether it was created.
Reply(t, op) ==
  LET m == Fresh("PING", t[1])
  IN op.op = "reply" /\ FreeIds # {} /\ Create(t, m, <<Send(m, "ARM")>>)

newAudio(t, op) ==
  /\ op.op = "audio"
  /\ info' = [info EXCEPT ![op.core][op.msg.type] = op.msg.id]
  /\ data' = IF op.msg.type = "OUT" THEN [data EXCEPT ![op.msg] = 0] ELSE data
  /\ Continue(t, <<>>)
  /\ UNCHANGED <<busVars, bootVars, armVars, rounds>>

Both(s) == info[s]["IN"] # None /\ info[s]["OUT"] # None

\* processAudio of a SHARC copies its input to its output, when it has both,
\* and forgets them.
sharcProcessAudio(t, op) ==
  LET s == t[1] IN
  /\ op.op = "process"
  /\ IF Both(s)
     THEN /\ data' = [data EXCEPT ![Buffer("OUT", s, info[s]["OUT"])]
                                    = data[Buffer("IN", s, info[s]["IN"])]]
          /\ info' = [info EXCEPT ![s] = [d \in {"IN", "OUT"} |-> None]]
     ELSE UNCHANGED <<data, info>>
  /\ Continue(t, <<>>)
  /\ UNCHANGED <<busVars, bootVars, armVars, rounds>>

-----------------------------------------------------------------------------
CanRun(t) ==
  /\ todo[t] # <<>>
  /\ t[1] \in enabled
  /\ t[2] = "task" => todo[<<t[1], "irq">>] = <<>>

Step(t) ==
  LET op == Head(todo[t]) IN
  /\ CanRun(t)
  /\ \/ DoRef(t, op) \/ DoUnref(t, op) \/ ipcToCore(t, op)
     \/ Initialize(t, op) \/ Register(t, op) \/ sae_buffer_init(t, op)
     \/ EnableSharcs(t, op) \/ WaitForSharcs(t, op) \/ CreateCycles(t, op)
     \/ Announce(t, op) \/ Ping(t, op) \/ Ask(t, op) \/ Reply(t, op)
     \/ xferSharcAudio(t, op) \/ DomainReady(t, op) \/ RouteAudio(t, op)
     \/ Heard(t, op) \/ newAudio(t, op) \/ sharcProcessAudio(t, op)

Init ==
  /\ ref = [m \in {} |-> 0]
  /\ queue = [c \in Core |-> <<>>]
  /\ ready = {} /\ callback = {} /\ enabled = {"ARM"} /\ heard = {} /\ running = FALSE
  /\ todo = [t \in Thread |-> IF t[2] = "irq" THEN <<>>
                              ELSE IF t[1] = "ARM" THEN ArmStartup ELSE SharcStartup]
  /\ active = {}
  /\ pp = [d \in {"IN", "OUT"} |-> [s \in Sharcs |-> 0]]
  /\ stream = [d \in {"IN", "OUT"} |-> [s \in Sharcs |-> None]]
  /\ info = [s \in Sharcs |-> [d \in {"IN", "OUT"} |-> None]]
  /\ data = [m \in Audio |-> 0]
  /\ got = [s \in Sharcs |-> 0]
  /\ block = 0 /\ rounds = 0

Idle == /\ \A t \in Thread : todo[t] = <<>>
        /\ \A c \in Core : queue[c] = <<>>

\* The bounds are used up and nothing is left to do.
Finished == /\ Idle /\ block = MaxBlocks /\ rounds = MaxRounds
            /\ UNCHANGED vars

Next ==
  \/ \E t \in Thread : Step(t)
  \/ \E c \in Core : Receive(c)
  \/ \E d \in {"CODEC_IN", "CODEC_OUT"} : codecAudio(d)
  \/ houseKeepingTask
  \/ Finished

Spec == Init /\ [][Next]_vars

\* Every thread goes on, every queued message is taken, and the codec's clock
\* and the housekeeping task do not stop.
FairSpec ==
  /\ Spec
  /\ \A t \in Thread : WF_vars(Step(t))
  /\ \A c \in Core : WF_vars(Receive(c))
  /\ \A d \in {"CODEC_IN", "CODEC_OUT"} : WF_vars(codecAudio(d))
  /\ WF_vars(houseKeepingTask)

-----------------------------------------------------------------------------
(* Properties *)

TypeOK ==
  /\ DOMAIN ref \subseteq Persistent \cup Short /\ \A m \in DOMAIN ref : ref[m] \in 1 .. 255
  /\ \A c \in Core : Len(queue[c]) < QSize
  /\ ready \subseteq Core /\ callback \subseteq Core /\ enabled \subseteq Core
  /\ heard \subseteq Sharcs /\ running \in BOOLEAN
  /\ active \subseteq {"CODEC_IN", "CODEC_OUT"}
  /\ pp \in [{"IN", "OUT"} -> [Sharcs -> 0 .. 1]]
  /\ stream \in [{"IN", "OUT"} -> [Sharcs -> {None, 0, 1}]]
  /\ info \in [Sharcs -> [{"IN", "OUT"} -> {None, 0, 1}]]
  /\ data \in [Audio -> 0 .. MaxBlocks] /\ got \in [Sharcs -> 0 .. MaxBlocks]

\* The messages a thread has in its hands or will send.
InHand(t) == {todo[t][i].msg : i \in 1 .. Len(todo[t])}
Queued(c) == {queue[c][i] : i \in 1 .. Len(queue[c])}

\* No queue and no call to come refers to a message that was freed: the
\* references the senders take cover every core a message is sent to, and the
\* persistent messages are never given away for good (sharc_audio.c:19).
NoDangling ==
  /\ \A c \in Core : Queued(c) \subseteq DOMAIN ref
  /\ \A t \in Thread : \A m \in InHand(t) :
       m = Nil \/ m \in DOMAIN ref \/ \E i \in 1 .. Len(todo[t]) : todo[t][i].op = "xfer"
  /\ running => Audio \subseteq DOMAIN ref

\* No message reaches a core whose callback is not registered, which would
\* lose it and its reference: the ready messages keep the ARM from sending.
NothingMissed == \A c \in Core : queue[c] # <<>> => c \in callback

\* A SHARC that is about to answer a ping finds room for the answer, which it
\* does not ask for (sharc0_main.c:175).
RoomForReply ==
  \A t \in Thread : todo[t] # <<>> /\ Head(todo[t]).op = "reply" => FreeIds # {}

\* The audio buffers the next call of a thread reads or writes.
Touches(t) ==
  IF todo[t] = <<>> THEN {}
  ELSE LET op == Head(todo[t]) IN
       CASE op.op = "route"   -> {Buffer(d, s, stream[d][s]) : d \in {"IN", "OUT"}, s \in Sharcs}
         [] op.op = "audio" /\ op.msg.type = "OUT" -> {op.msg}
         [] op.op = "process" /\ Both(t[1]) -> {Buffer(d, t[1], info[t[1]][d]) : d \in {"IN", "OUT"}}
         [] OTHER             -> {}

\* The ARM's routing and the SHARCs' processing, which run at the same time,
\* never touch one buffer: that is what the ping-pong pairs are for.
NoSharedBuffer ==
  \A t, u \in Thread : t # u => Touches(t) \cap Touches(u) = {}

\* Every block sent to a SHARC comes back two blocks later, once, in order and
\* whole.
BlocksReturn == \A s \in Sharcs : got[s] = IF block <= 2 THEN 0 ELSE block - 2

\* The system starts: the wait for the SHARCs ends (main.c:571).
Started == <>running

\* When the messages have been dealt with, accepted or refused, only the
\* persistent ones are left, each with its creator's reference.
AllReturned ==
  <>[](Idle /\ ref = [m \in Persistent |-> 1])

=============================================================================
