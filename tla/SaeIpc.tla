------------------------------- MODULE SaeIpc -------------------------------
(***************************************************************************)
(* The SHARC Audio Engine's inter-core messages: src/ALL/src/sae/sae.c,    *)
(* sae_irq.c, sae_util.c and sae_lock.c.                                   *)
(*                                                                         *)
(* Cores share one L2 structure: a spin lock, a message queue per core and *)
(* the heap the messages live in.  Each library call runs as the code runs *)
(* it: a test made before the lock is taken, local interrupts off, the     *)
(* spin, the locked section, the unlock, interrupts on, and what follows   *)
(* the lock.  On one core the calls of thread mode (level 0) are preempted *)
(* by the calls of interrupt handlers (higher levels), one of which is the *)
(* SAE interrupt handler itself.  Who calls what is left open: any client  *)
(* that uses only references it holds.                                     *)
(***************************************************************************)
EXTENDS Integers, FiniteSets

CONSTANTS
  Core,       \* the participating cores (SAE_CORE_IDX)
  Master,     \* the ipcMaster core
  Level,      \* preemption levels of a core, 0 is thread mode
  IrqLevel,   \* the level sae_interruptHandler runs at
  Msg,        \* the message buffers the shared heap has room for
  NoMsg,      \* the NULL message
  Kind,       \* the msgType values clients give their messages
  Signal,     \* the signalDstCore values clients pass to sae_sendMsgBuffer
  Sends,      \* the cores the client code of a thread sends to: a thread that
              \* sends to none makes no calls of its own
  QSize,      \* IPC_MAX_MSG_QUEUE_SIZE
  RefMax,     \* the largest value of the reference counter, a uint8_t
  MaxRefs     \* bound: references a client lets one message have

ASSUME CoreAssumption   == IsFiniteSet(Core) /\ Master \in Core
ASSUME LevelAssumption  == /\ IsFiniteSet(Level) /\ Level \subseteq Nat
                           /\ 0 \in Level /\ IrqLevel \in Level \ {0}
ASSUME MsgAssumption    == IsFiniteSet(Msg) /\ NoMsg \notin Msg
ASSUME KindAssumption   == Kind \subseteq {"user", "stream", "unknown"}
ASSUME SignalAssumption == Signal \subseteq BOOLEAN
ASSUME SendsAssumption  == Sends \in [Core \X Level -> SUBSET Core]
ASSUME QSizeAssumption  == QSize \in Nat /\ QSize >= 2
ASSUME RefAssumption    == RefMax \in Nat \ {0} /\ MaxRefs \in Nat

VARIABLES
  lock,       \* saeSharcArmIPC->lock
  masked,     \* the cores with local interrupts disabled
  ready,      \* the cores whose idx2trigger entry is set
  callback,   \* the cores with msgRxUsrCB registered
  slots,      \* msgQueues[core].queue
  head,       \* msgQueues[core].head
  tail,       \* msgQueues[core].tail
  pending,    \* the cores with the SAE interrupt edge latched
  alive,      \* the message buffers allocated from the heap
  ref,        \* msg->ref
  kind,       \* msg->msgType
  pc,         \* where each thread is in its library call
  call,       \* the call's arguments and result
  stage,      \* sae_interruptHandler of each core: off, loop or callback
  buffer,     \* the handler's local "buffer", while its callback runs
  own,        \* history: references each thread holds to each message
  lost        \* history: references dropped without an unref

shared == <<slots, head, tail>>
heap   == <<alive, ref, kind>>
setup  == <<ready, callback>>
irq    == <<stage, buffer>>
ghost  == <<own, lost>>
vars   == <<lock, masked, setup, shared, pending, heap, pc, call, irq, ghost>>

-----------------------------------------------------------------------------
(* Threads of control and preemption *)

Thread     == Core \X Level
Handler(c) == <<c, IrqLevel>>

NoCall == [op |-> "none", msg |-> NoMsg, dst |-> Master, signal |-> FALSE,
           result |-> "none"]

Active(t) == \/ pc[t] # "idle"
             \/ t[2] = IrqLevel /\ stage[t[1]] # "off"

\* A thread runs while no higher level of its core is active.
CanRun(t) == \A u \in Thread : u[1] = t[1] /\ u[2] > t[2] => ~Active(u)

\* Entering an interrupt level needs interrupts enabled.
CanStart(t) ==
  /\ CanRun(t)
  /\ t[1] \in ready
  /\ t[2] = 0 \/ Active(t) \/ t[1] \notin masked

\* Client code runs in thread mode, in interrupt handlers other than the
\* SAE one, and in the callback the SAE handler makes.
InClient(t) == /\ pc[t] = "idle" /\ CanStart(t) /\ Sends[t] # {}
               /\ t[2] = IrqLevel => stage[t[1]] = "callback"

Begin(t, op, m, d, s) ==
  /\ pc'   = [pc EXCEPT ![t] = "enter"]
  /\ call' = [call EXCEPT ![t] = [op |-> op, msg |-> m, dst |-> d,
                                  signal |-> s, result |-> "none"]]

At(t, label, op) == pc[t] = label /\ call[t].op = op /\ CanRun(t)
Goto(t, label)   == pc' = [pc EXCEPT ![t] = label]
Return(t)        == Goto(t, "idle") /\ call' = [call EXCEPT ![t] = NoCall]
Result(t, r, m)  ==
  call' = [call EXCEPT ![t] = [op |-> @.op, msg |-> m, dst |-> @.dst,
                               signal |-> @.signal, result |-> r]]

-----------------------------------------------------------------------------
(* The queues *)

\* (i + 1) & (IPC_MAX_MSG_QUEUE_SIZE - 1): the size is a power of two.
Inc(i) == IF i = QSize - 1 THEN 0 ELSE i + 1

\* Mutant of queueFull: nobody tests for a full queue.
queueNeverFull(c) == FALSE

queueFull(c)  == Inc(head[c]) = tail[c]
queueEmpty(c) == head[c] = tail[c]

\* The slots of c's queue that hold a message.
Occupied(c) == {i \in 0 .. QSize - 1 :
                  IF tail[c] <= head[c] THEN tail[c] <= i /\ i < head[c]
                                        ELSE tail[c] <= i \/ i < head[c]}

-----------------------------------------------------------------------------
(* Who refers to a message *)

\* One element per reference to m: held by a thread, in a queue, or lost.
Held(m)    == UNION {{<<"thread", t, i>> : i \in 1 .. own[t][m]} : t \in Thread}
Queued(m)  == UNION {{<<"queue", c, i>> : i \in {j \in Occupied(c) : slots[c][j] = m}}
                       : c \in Core}
Dropped(m) == {<<"lost", m, i>> : i \in 1 .. lost[m]}
Holders(m) == Held(m) \cup Queued(m) \cup Dropped(m)

\* A call to sae_refMsgBuffer that passed the test and has not counted yet.
Counting(t, m) == /\ call[t].op = "ref" /\ call[t].msg = m
                  /\ pc[t] \in {"enter", "spin", "body"}
Refs(m)        == {t \in Thread : Counting(t, m)}

\* malloc has returned m and sae_createMsgBuffer has yet to initialise it.
Initialising(t, m) == /\ call[t].op = "create" /\ call[t].msg = m
                      /\ pc[t] \in {"unlock", "exit", "after"}
Fresh(m)           == \E t \in Thread : Initialising(t, m)

\* A thread may use a reference of its own or of a level it preempts, once
\* the message is initialised.
Reaches(t, m) == /\ \E l \in Level : l <= t[2] /\ own[<<t[1], l>>][m] > 0
                 /\ ~Fresh(m)

\* The references t may give away: a callback keeps the one of its buffer,
\* which it drops when it returns.
Spare(t, m) == own[t][m] - (IF t[2] = IrqLevel /\ buffer[t[1]] = m THEN 1 ELSE 0)

Take(t, m) == own' = [own EXCEPT ![t][m] = @ + 1]
Give(t, m) == own' = [own EXCEPT ![t][m] = @ - 1]

-----------------------------------------------------------------------------
(* Initialisation: sae_initialize, sae_registerMsgReceivedCallback *)

Init ==
  /\ lock = "unlocked" /\ masked = {}
  /\ ready = {} /\ callback = {}
  /\ slots = [c \in Core |-> [i \in 0 .. QSize - 1 |-> NoMsg]]
  /\ head = [c \in Core |-> 0] /\ tail = [c \in Core |-> 0]
  /\ pending = {}
  /\ alive = {}
  /\ ref = [m \in Msg |-> 0]
  /\ kind = [m \in Msg |-> "unknown"]
  /\ pc = [t \in Thread |-> "idle"]
  /\ call = [t \in Thread |-> NoCall]
  /\ stage = [c \in Core |-> "off"]
  /\ buffer = [c \in Core |-> NoMsg]
  /\ own = [t \in Thread |-> [m \in Msg |-> 0]]
  /\ lost = [m \in Msg |-> 0]

\* The master clears the shared structure before any other core runs; a core
\* clears its context (no callback), then publishes its trigger.
Initialize(c) ==
  /\ c \notin ready
  /\ c = Master \/ Master \in ready
  /\ ready' = ready \cup {c}
  /\ UNCHANGED <<lock, masked, callback, shared, pending, heap, pc, call, irq, ghost>>

RegisterCallback(c) ==
  /\ c \in ready \ callback
  /\ pc[<<c, 0>>] = "idle" /\ CanStart(<<c, 0>>)
  /\ callback' = callback \cup {c}
  /\ UNCHANGED <<lock, masked, ready, shared, pending, heap, pc, call, irq, ghost>>

-----------------------------------------------------------------------------
(* sae_lockIpc and sae_unLockIpc, common to all calls *)

\* Mutant of EnterCritical: SAE_ENTER_CRITICAL left empty.
EnterUnmasked(t) ==
  /\ pc[t] = "enter" /\ CanRun(t)
  /\ Goto(t, "spin")
  /\ UNCHANGED <<lock, masked, setup, shared, pending, heap, call, irq, ghost>>

\* SAE_ENTER_CRITICAL: local interrupts off.
EnterCritical(t) ==
  /\ pc[t] = "enter" /\ CanRun(t)
  /\ masked' = masked \cup {t[1]}
  /\ Goto(t, "spin")
  /\ UNCHANGED <<lock, setup, shared, pending, heap, call, irq, ghost>>

\* Mutant of AcquireLock: the exchange does not compare.
AcquireAnyway(t) ==
  /\ pc[t] = "spin" /\ CanRun(t)
  /\ lock' = "locked"
  /\ Goto(t, "body")
  /\ UNCHANGED <<masked, setup, shared, pending, heap, call, irq, ghost>>

\* Mutant of AcquireLock: interrupts are disabled for the spin only.
AcquireUnmasks(t) ==
  /\ pc[t] = "spin" /\ CanRun(t)
  /\ lock = "unlocked"
  /\ lock' = "locked"
  /\ masked' = masked \ {t[1]}
  /\ Goto(t, "body")
  /\ UNCHANGED <<setup, shared, pending, heap, call, irq, ghost>>

\* while (!sae_lock(...)): the attempt that succeeds.
AcquireLock(t) ==
  /\ pc[t] = "spin" /\ CanRun(t)
  /\ lock = "unlocked"
  /\ lock' = "locked"
  /\ Goto(t, "body")
  /\ UNCHANGED <<masked, setup, shared, pending, heap, call, irq, ghost>>

ReleaseLock(t) ==
  /\ pc[t] = "unlock" /\ CanRun(t)
  /\ lock' = "unlocked"
  /\ Goto(t, "exit")
  /\ UNCHANGED <<masked, setup, shared, pending, heap, call, irq, ghost>>

\* What a call still does after the lock.
Remaining(t) ==
  \/ call[t].op = "create" /\ call[t].msg # NoMsg
  \/ call[t].op = "send" /\ call[t].result = "ok" /\ call[t].signal
  \/ call[t].op = "receive"

\* SAE_EXIT_CRITICAL: local interrupts on.
ExitCritical(t) ==
  /\ pc[t] = "exit" /\ CanRun(t)
  /\ masked' = masked \ {t[1]}
  /\ IF Remaining(t) THEN Goto(t, "after") /\ UNCHANGED call ELSE Return(t)
  /\ UNCHANGED <<lock, setup, shared, pending, heap, irq, ghost>>

-----------------------------------------------------------------------------
(* sae_createMsgBuffer *)

BeginCreate(t) ==
  /\ InClient(t)
  /\ Begin(t, "create", NoMsg, Master, FALSE)
  /\ UNCHANGED <<lock, masked, setup, shared, pending, heap, irq, ghost>>

\* sae_safeMalloc: any free buffer, or NULL when the heap is exhausted.
CreateBody(t) ==
  /\ At(t, "body", "create")
  /\ \/ \E m \in Msg \ alive :
          /\ alive' = alive \cup {m}
          /\ Result(t, "ok", m)
          /\ Take(t, m)
     \/ /\ alive = Msg
        /\ Result(t, "noMem", NoMsg)
        /\ UNCHANGED <<alive, own>>
  /\ Goto(t, "unlock")
  /\ UNCHANGED <<lock, masked, setup, shared, pending, ref, kind, irq, lost>>

\* Mutant of InitMsg: the buffer is cleared and its count left at zero.
InitMsgCleared(t) ==
  /\ At(t, "after", "create")
  /\ ref' = [ref EXCEPT ![call[t].msg] = 0]
  /\ \E k \in Kind : kind' = [kind EXCEPT ![call[t].msg] = k]
  /\ Return(t)
  /\ UNCHANGED <<lock, masked, setup, shared, pending, alive, irq, ghost>>

\* The buffer is initialised after the lock is released.  The type is USER,
\* or what the caller then makes of it (sae_broadcastEvent).
InitMsg(t) ==
  /\ At(t, "after", "create")
  /\ ref' = [ref EXCEPT ![call[t].msg] = 1]
  /\ \E k \in Kind : kind' = [kind EXCEPT ![call[t].msg] = k]
  /\ Return(t)
  /\ UNCHANGED <<lock, masked, setup, shared, pending, alive, irq, ghost>>

-----------------------------------------------------------------------------
(* sae_refMsgBuffer, sae_unRefMsgBuffer *)

\* The test of the counter comes before the lock; a call it refuses changes
\* nothing.
BeginRef(t, m) ==
  /\ InClient(t)
  /\ Reaches(t, m)
  /\ Cardinality(Holders(m)) + Cardinality(Refs(m)) < MaxRefs
  /\ ref[m] # RefMax
  /\ Begin(t, "ref", m, Master, FALSE)
  /\ UNCHANGED <<lock, masked, setup, shared, pending, heap, irq, ghost>>

RefBody(t) ==
  LET m == call[t].msg IN
  /\ At(t, "body", "ref")
  /\ ref' = [ref EXCEPT ![m] = IF @ = RefMax THEN 0 ELSE @ + 1]
  /\ Take(t, m)
  /\ Goto(t, "unlock")
  /\ UNCHANGED <<lock, masked, setup, shared, pending, alive, kind, call, irq, lost>>

BeginUnRef(t, m) ==
  /\ InClient(t)
  /\ Spare(t, m) > 0
  /\ ref[m] # 0
  /\ Begin(t, "unref", m, Master, FALSE)
  /\ UNCHANGED <<lock, masked, setup, shared, pending, heap, irq, ghost>>

\* Mutant of UnRefBody: the buffer is freed one reference early.
UnRefEarly(t) ==
  LET m == call[t].msg IN
  /\ At(t, "body", "unref")
  /\ ref' = [ref EXCEPT ![m] = IF @ = 0 THEN RefMax ELSE @ - 1]
  /\ alive' = IF ref[m] <= 2 THEN alive \ {m} ELSE alive
  /\ Give(t, m)
  /\ Goto(t, "unlock")
  /\ UNCHANGED <<lock, masked, setup, shared, pending, kind, call, irq, lost>>

\* The last reference frees the buffer.
UnRefBody(t) ==
  LET m == call[t].msg IN
  /\ At(t, "body", "unref")
  /\ ref' = [ref EXCEPT ![m] = IF @ = 0 THEN RefMax ELSE @ - 1]
  /\ alive' = IF ref'[m] = 0 THEN alive \ {m} ELSE alive
  /\ Give(t, m)
  /\ Goto(t, "unlock")
  /\ UNCHANGED <<lock, masked, setup, shared, pending, kind, call, irq, lost>>

-----------------------------------------------------------------------------
(* sae_sendMsgBuffer: the reference goes to the queue, unless it fails *)

BeginSend(t, m, d) ==
  /\ InClient(t)
  /\ Spare(t, m) > 0
  /\ \E s \in Signal : Begin(t, "send", m, d, s)
  /\ UNCHANGED <<lock, masked, setup, shared, pending, heap, irq, ghost>>

\* Mutant of SendBody: a failing call returns without unlocking.
SendKeepsLock(t) ==
  LET m == call[t].msg
      d == call[t].dst IN
  /\ At(t, "body", "send")
  /\ \/ /\ d \notin ready \/ queueFull(d)
        /\ Result(t, "full", m)
        /\ Goto(t, "exit")
        /\ UNCHANGED <<slots, head, own>>
     \/ /\ d \in ready /\ ~queueFull(d)
        /\ slots' = [slots EXCEPT ![d][head[d]] = m]
        /\ head'  = [head EXCEPT ![d] = Inc(@)]
        /\ Result(t, "ok", m)
        /\ Give(t, m)
        /\ Goto(t, "unlock")
  /\ UNCHANGED <<lock, masked, setup, tail, pending, heap, irq, lost>>

\* sae_queueMsgBuffer
SendBody(t) ==
  LET m == call[t].msg
      d == call[t].dst IN
  /\ At(t, "body", "send")
  /\ \/ /\ d \notin ready
        /\ Result(t, "notReady", m)
        /\ UNCHANGED <<slots, head, own>>
     \/ /\ d \in ready /\ queueFull(d)
        /\ Result(t, "full", m)
        /\ UNCHANGED <<slots, head, own>>
     \/ /\ d \in ready /\ ~queueFull(d)
        /\ slots' = [slots EXCEPT ![d][head[d]] = m]
        /\ head'  = [head EXCEPT ![d] = Inc(@)]
        /\ Result(t, "ok", m)
        /\ Give(t, m)
  /\ Goto(t, "unlock")
  /\ UNCHANGED <<lock, masked, setup, tail, pending, heap, irq, lost>>

\* Mutant of RaiseInterrupt: a core that is in its handler is not signalled.
RaiseIfIdle(t) ==
  /\ At(t, "after", "send")
  /\ pending' = IF stage[call[t].dst] = "off" THEN pending \cup {call[t].dst}
                                              ELSE pending
  /\ Return(t)
  /\ UNCHANGED <<lock, masked, setup, shared, heap, irq, ghost>>

\* sae_raiseInterrupt: after the unlock.
RaiseInterrupt(t) ==
  /\ At(t, "after", "send")
  /\ pending' = IF call[t].dst \in ready THEN pending \cup {call[t].dst}
                                         ELSE pending
  /\ Return(t)
  /\ UNCHANGED <<lock, masked, setup, shared, heap, irq, ghost>>

-----------------------------------------------------------------------------
(* sae_interruptHandler *)

\* The latched edge is consumed when the handler is entered.
EnterHandler(c) ==
  LET h == Handler(c) IN
  /\ c \in pending /\ stage[c] = "off" /\ pc[h] = "idle"
  /\ CanStart(h)
  /\ pending' = pending \ {c}
  /\ stage' = [stage EXCEPT ![c] = "loop"]
  /\ UNCHANGED <<lock, masked, setup, shared, heap, pc, call, buffer, ghost>>

\* do { result = sae_receiveMsgBuffer(context, &buffer); ...
BeginReceive(c) ==
  LET h == Handler(c) IN
  /\ stage[c] = "loop" /\ pc[h] = "idle" /\ CanRun(h)
  /\ Begin(h, "receive", NoMsg, Master, FALSE)
  /\ UNCHANGED <<lock, masked, setup, shared, pending, heap, irq, ghost>>

\* sae_dequeueMsgBuffer
ReceiveBody(t) ==
  LET c == t[1]
      m == slots[c][tail[c]] IN
  /\ At(t, "body", "receive")
  /\ \/ /\ queueEmpty(c)
        /\ Result(t, "empty", NoMsg)
        /\ UNCHANGED <<tail, own>>
     \/ /\ ~queueEmpty(c)
        /\ tail' = [tail EXCEPT ![c] = Inc(@)]
        /\ Result(t, "ok", m)
        /\ Take(t, m)
  /\ Goto(t, "unlock")
  /\ UNCHANGED <<lock, masked, setup, slots, head, pending, heap, irq, lost>>

\* Mutant of LeaveHandler: the edge is acknowledged when the handler returns.
LeaveAcknowledges(c) ==
  LET h == Handler(c) IN
  /\ At(h, "after", "receive") /\ call[h].result = "empty"
  /\ stage' = [stage EXCEPT ![c] = "off"]
  /\ pending' = pending \ {c}
  /\ Return(h)
  /\ UNCHANGED <<lock, masked, setup, shared, heap, buffer, ghost>>

\* } while (result == SAE_RESULT_OK)
LeaveHandler(c) ==
  LET h == Handler(c) IN
  /\ At(h, "after", "receive") /\ call[h].result = "empty"
  /\ stage' = [stage EXCEPT ![c] = "off"]
  /\ Return(h)
  /\ UNCHANGED <<lock, masked, setup, shared, pending, heap, buffer, ghost>>

\* A user message goes to the callback.
CallUser(c) ==
  LET h == Handler(c)
      m == call[h].msg IN
  /\ At(h, "after", "receive") /\ call[h].result = "ok"
  /\ kind[m] = "user" /\ c \in callback
  /\ stage'  = [stage EXCEPT ![c] = "callback"]
  /\ buffer' = [buffer EXCEPT ![c] = m]
  /\ Return(h)
  /\ UNCHANGED <<lock, masked, setup, shared, pending, heap, ghost>>

\* With no callback registered the message is passed over, its reference with
\* it; msgRxStreamCB is never registered.
PassOver(c) ==
  LET h == Handler(c)
      m == call[h].msg IN
  /\ At(h, "after", "receive") /\ call[h].result = "ok"
  /\ \/ kind[m] = "user" /\ c \notin callback
     \/ kind[m] = "stream"
  /\ Give(h, m)
  /\ lost' = [lost EXCEPT ![m] = @ + 1]
  /\ Return(h)
  /\ UNCHANGED <<lock, masked, setup, shared, pending, heap, irq>>

\* A message of another type is released.
Discard(c) ==
  LET h == Handler(c)
      m == call[h].msg IN
  /\ At(h, "after", "receive") /\ call[h].result = "ok"
  /\ kind[m] = "unknown"
  /\ ref[m] # 0
  /\ Begin(h, "unref", m, Master, FALSE)
  /\ UNCHANGED <<lock, masked, setup, shared, pending, heap, irq, ghost>>

\* The callbacks of the code end with sae_unRefMsgBuffer of their buffer.
EndCallback(c) ==
  LET h == Handler(c)
      m == buffer[c] IN
  /\ stage[c] = "callback" /\ pc[h] = "idle" /\ CanRun(h)
  /\ ref[m] # 0
  /\ Begin(h, "unref", m, Master, FALSE)
  /\ stage'  = [stage EXCEPT ![c] = "loop"]
  /\ buffer' = [buffer EXCEPT ![c] = NoMsg]
  /\ UNCHANGED <<lock, masked, setup, shared, pending, heap, ghost>>

-----------------------------------------------------------------------------
(* The specification *)

Client(t) ==
  \/ BeginCreate(t)
  \/ \E m \in Msg : BeginRef(t, m) \/ BeginUnRef(t, m)
  \/ \E m \in Msg, d \in Sends[t] : BeginSend(t, m, d)

\* The steps of a call once it has begun.
Continue(t) ==
  \/ EnterCritical(t) \/ AcquireLock(t) \/ ReleaseLock(t) \/ ExitCritical(t)
  \/ CreateBody(t) \/ InitMsg(t)
  \/ RefBody(t) \/ UnRefBody(t)
  \/ SendBody(t) \/ RaiseInterrupt(t)
  \/ ReceiveBody(t)

Handle(c) ==
  \/ EnterHandler(c) \/ BeginReceive(c) \/ LeaveHandler(c)
  \/ CallUser(c) \/ PassOver(c) \/ Discard(c) \/ EndCallback(c)

Next ==
  \/ \E c \in Core : Initialize(c) \/ RegisterCallback(c) \/ Handle(c)
  \/ \E t \in Thread : Client(t) \/ Continue(t)

Spec == Init /\ [][Next]_vars

-----------------------------------------------------------------------------
(* Properties *)

Labels == {"idle", "enter", "spin", "body", "unlock", "exit", "after"}
Calls  == [op     : {"none", "create", "ref", "unref", "send", "receive"},
           msg    : Msg \cup {NoMsg},
           dst    : Core,
           signal : BOOLEAN,
           result : {"none", "ok", "noMem", "notReady", "full", "empty"}]

\* The variables hold values of their types.
TypeOK ==
  /\ lock \in {"unlocked", "locked"}
  /\ masked \subseteq Core /\ ready \subseteq Core
  /\ callback \subseteq Core /\ pending \subseteq Core
  /\ slots \in [Core -> [0 .. QSize - 1 -> Msg \cup {NoMsg}]]
  /\ head \in [Core -> 0 .. QSize - 1]
  /\ tail \in [Core -> 0 .. QSize - 1]
  /\ alive \subseteq Msg
  /\ ref \in [Msg -> 0 .. RefMax]
  /\ kind \in [Msg -> {"user", "stream", "unknown"}]
  /\ pc \in [Thread -> Labels]
  /\ call \in [Thread -> Calls]
  /\ stage \in [Core -> {"off", "loop", "callback"}]
  /\ buffer \in [Core -> Msg \cup {NoMsg}]
  /\ own \in [Thread -> [Msg -> Nat]]
  /\ lost \in [Msg -> Nat]

Locked(t) == pc[t] \in {"body", "unlock"}

\* The spin lock admits one thread of the whole system to the shared
\* structure, whatever the interleaving of cores and interrupt levels
\* (sae_lockIpc, sae_unLockIpc).
MutualExclusion ==
  /\ \A t, u \in Thread : Locked(t) /\ Locked(u) => t = u
  /\ \A t \in Thread : Locked(t) => lock = "locked"

\* No interrupt handler runs on a core while a lower level of that core
\* holds the lock: it would spin for ever on a lock its own core holds.
\* This is what disabling local interrupts around the spin lock is for.
NoSelfDeadlock ==
  \A t, u \in Thread :
     t[1] = u[1] /\ t[2] < u[2] /\ Active(u) => ~Locked(t)

\* The counter of every buffer in use is the number of references to it:
\* held by threads, in queues or lost.  A buffer nobody refers to is free,
\* one somebody refers to is not.
RefCount ==
  \A m \in Msg :
     /\ m \in alive /\ ~Fresh(m) => /\ ref[m] = Cardinality(Holders(m))
                                   /\ ref[m] # 0
     /\ m \notin alive => Holders(m) = {}

\* The message a call in progress is going to read or write.
Touches(t) == IF call[t].op \in {"ref", "unref", "send"} /\ pc[t] \in {"enter", "spin", "body"}
              THEN {call[t].msg} ELSE {}

\* No call, handler or queue refers to a buffer that has been freed: not a
\* sae_refMsgBuffer between its test and its lock, not a handler between the
\* dequeue and the end of the callback.
NoUseAfterFree ==
  /\ \A t \in Thread : Touches(t) \subseteq alive
  /\ \A t \in Thread : pc[t] # "idle" /\ call[t].op = "receive" /\ call[t].result = "ok"
                          => call[t].msg \in alive
  /\ \A c \in Core : stage[c] = "callback" => buffer[c] \in alive
  /\ \A c \in Core : \A i \in Occupied(c) : slots[c][i] \in alive

\* The handler of c has yet to make the dequeue that ends its loop.
WillReceive(c) ==
  LET h == Handler(c) IN
  /\ stage[c] # "off"
  /\ \/ call[h].op # "receive"
     \/ pc[h] \in {"enter", "spin", "body"}
     \/ call[h].result = "ok"

\* A sender has queued a message to c and has yet to raise the interrupt.
WillRaise(c) ==
  \E t \in Thread : /\ call[t].op = "send" /\ call[t].dst = c
                    /\ call[t].result = "ok"
                    /\ pc[t] \in {"unlock", "exit", "after"}

\* The interrupt is edge sensitive, the queue is emptied in a loop and the
\* edge is raised after the unlock: a queue with a message in it is never
\* left with nobody about to look at it.
NoLostWakeup ==
  \A c \in Core : ~queueEmpty(c) => \/ c \in pending
                                    \/ WillReceive(c)
                                    \/ WillRaise(c)

-----------------------------------------------------------------------------
(* What the calls promise together *)

Length(c)   == IF tail[c] <= head[c] THEN head[c] - tail[c]
                                     ELSE QSize + head[c] - tail[c]
Contents(c) == [i \in 1 .. Length(c) |->
                  slots[c][IF tail[c] + i - 1 < QSize THEN tail[c] + i - 1
                                                      ELSE tail[c] + i - 1 - QSize]]

Bus == INSTANCE MsgBus WITH
         Holder   <- Thread,
         Capacity <- QSize - 1,
         live     <- alive,
         held     <- own,
         queue    <- [c \in Core |-> Contents(c)],
         leaked   <- lost

\* Counters, rings, the lock and the interrupts together implement messages
\* shared by reference and delivered in order: a message is freed by the step
\* that removes the last reference to it and by no other.
ImplementsMsgBus == Bus!Spec

=============================================================================
