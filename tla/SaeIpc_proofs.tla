---------------------------- MODULE SaeIpc_proofs ----------------------------
(***************************************************************************)
(* Proofs about SaeIpc, for any number of cores, levels and messages, any  *)
(* queue size and any client.                                              *)
(***************************************************************************)
EXTENDS SaeIpcInv, TLAPS

USE CoreAssumption, LevelAssumption, MsgAssumption, KindAssumption,
    SignalAssumption, SendsAssumption, QSizeAssumption, RefAssumption,
    BoundAssumption

-----------------------------------------------------------------------------
(* Threads, indices and calls *)

LEMMA HandlerThread == \A c \in Core : Handler(c) \in Thread
BY DEF Handler, Thread

LEMMA ThreadParts ==
  \A t \in Thread : t[1] \in Core /\ t[2] \in Level /\ t[2] \in Nat
BY DEF Thread

LEMMA ThreadPair == \A t \in Thread : t = <<t[1], t[2]>>
BY DEF Thread

LEMMA ThreadsEqual ==
  \A t, u \in Thread : t[1] = u[1] /\ t[2] = u[2] => t = u
BY DEF Thread

LEMMA HandlerOnly ==
  /\ \A c \in Core : Handler(c)[1] = c /\ Handler(c)[2] = IrqLevel
  /\ \A t \in Thread : t[2] = IrqLevel => t = Handler(t[1])
BY ThreadPair DEF Handler

LEMMA IncType == \A i \in 0 .. QSize - 1 : Inc(i) \in 0 .. QSize - 1
BY DEF Inc

LEMMA CallsNoCall == NoCall \in Calls
BY DEF NoCall, Calls

LEMMA CallsFields ==
  ASSUME NEW r \in Calls
  PROVE  /\ r.op \in {"none", "create", "ref", "unref", "send", "receive"}
         /\ r.msg \in Msg \cup {NoMsg}
         /\ r.dst \in Core
         /\ r.signal \in BOOLEAN
         /\ r.result \in {"none", "ok", "noMem", "notReady", "full", "empty"}
BY DEF Calls

-----------------------------------------------------------------------------
(* What the parts of the actions do *)

LEMMA BeginType ==
  ASSUME TypeOK, NEW t \in Thread,
         NEW op \in {"create", "ref", "unref", "send", "receive"},
         NEW m \in Msg \cup {NoMsg}, NEW d \in Core, NEW s \in BOOLEAN,
         Begin(t, op, m, d, s)
  PROVE  /\ pc' \in [Thread -> Labels] /\ call' \in [Thread -> Calls]
         /\ pc'[t] = "enter"
         /\ call'[t].op = op /\ call'[t].msg = m /\ call'[t].dst = d
         /\ call'[t].signal = s /\ call'[t].result = "none"
         /\ \A u \in Thread : u # t => pc'[u] = pc[u] /\ call'[u] = call[u]
BY DEF Begin, TypeOK, Labels, Calls

LEMMA GotoType ==
  ASSUME TypeOK, NEW t \in Thread, NEW l \in Labels, Goto(t, l)
  PROVE  /\ pc' \in [Thread -> Labels]
         /\ pc'[t] = l
         /\ \A u \in Thread : u # t => pc'[u] = pc[u]
BY DEF Goto, TypeOK

LEMMA ReturnType ==
  ASSUME TypeOK, NEW t \in Thread, Return(t)
  PROVE  /\ pc' \in [Thread -> Labels] /\ call' \in [Thread -> Calls]
         /\ pc'[t] = "idle" /\ call'[t] = NoCall
         /\ \A u \in Thread : u # t => pc'[u] = pc[u] /\ call'[u] = call[u]
BY CallsNoCall DEF Return, Goto, TypeOK, Labels

LEMMA ResultType ==
  ASSUME TypeOK, NEW t \in Thread,
         NEW r \in {"ok", "noMem", "notReady", "full", "empty"},
         NEW m \in Msg \cup {NoMsg}, Result(t, r, m)
  PROVE  /\ call' \in [Thread -> Calls]
         /\ call'[t].op = call[t].op /\ call'[t].msg = m
         /\ call'[t].dst = call[t].dst /\ call'[t].signal = call[t].signal
         /\ call'[t].result = r
         /\ \A u \in Thread : u # t => call'[u] = call[u]
<1> DEFINE new == [op |-> call[t].op, msg |-> m, dst |-> call[t].dst,
                   signal |-> call[t].signal, result |-> r]
<1>1. call[t] \in Calls
  BY DEF TypeOK
<1>2. /\ new \in Calls
      /\ new.op = call[t].op /\ new.msg = m /\ new.dst = call[t].dst
      /\ new.signal = call[t].signal /\ new.result = r
  BY <1>1 DEF Calls
<1>3. call' = [call EXCEPT ![t] = new]
  BY DEF Result
<1> HIDE DEF new
<1>4. QED
  BY <1>2, <1>3 DEF TypeOK

LEMMA TakeType ==
  ASSUME TypeOK, NEW t \in Thread, NEW m \in Msg, Take(t, m)
  PROVE  /\ own' \in [Thread -> [Msg -> Nat]]
         /\ own'[t][m] = own[t][m] + 1
         /\ \A u \in Thread, n \in Msg : <<u, n>> # <<t, m>> => own'[u][n] = own[u][n]
BY DEF Take, TypeOK

LEMMA GiveType ==
  ASSUME TypeOK, NEW t \in Thread, NEW m \in Msg, own[t][m] > 0, Give(t, m)
  PROVE  /\ own' \in [Thread -> [Msg -> Nat]]
         /\ own'[t][m] = own[t][m] - 1
         /\ \A u \in Thread, n \in Msg : <<u, n>> # <<t, m>> => own'[u][n] = own[u][n]
BY DEF Give, TypeOK

-----------------------------------------------------------------------------
(* The queue's indices *)

LEMMA TailOccupied ==
  ASSUME TypeOK, NEW c \in Core, ~queueEmpty(c)
  PROVE  tail[c] \in Occupied(c)
BY DEF TypeOK, queueEmpty, Occupied

LEMMA HeadFree ==
  ASSUME TypeOK, NEW c \in Core
  PROVE  head[c] \notin Occupied(c)
BY DEF TypeOK, Occupied

LEMMA SendOccupies ==
  ASSUME TypeOK, NEW c \in Core, ~queueFull(c), tail' = tail,
         head' = [head EXCEPT ![c] = Inc(@)]
  PROVE  /\ Occupied(c)' = Occupied(c) \cup {head[c]}
         /\ \A d \in Core : d # c => Occupied(d)' = Occupied(d)
BY DEF TypeOK, queueFull, Occupied, Inc

LEMMA ReceiveVacates ==
  ASSUME TypeOK, NEW c \in Core, ~queueEmpty(c), head' = head,
         tail' = [tail EXCEPT ![c] = Inc(@)]
  PROVE  /\ Occupied(c)' = Occupied(c) \ {tail[c]}
         /\ \A d \in Core : d # c => Occupied(d)' = Occupied(d)
BY DEF TypeOK, queueEmpty, Occupied, Inc

\* A thread that gives a reference away has it.
LEMMA BodyOwns ==
  ASSUME TypeOK, CallInv, OwnInv, NEW t \in Thread,
         pc[t] = "body", call[t].op \in {"unref", "send"}
  PROVE  call[t].msg \in Msg /\ own[t][call[t].msg] > 0
<1>1. call[t].msg \in Msg
  BY DEF CallInv, CallOK
<1>2. own[t][call[t].msg] >= 1 + Reserved(t, call[t].msg)
  BY <1>1 DEF OwnInv, OwnOK, Before
<1>3. QED
  BY <1>1, <1>2 DEF Reserved, TypeOK

-----------------------------------------------------------------------------
(* Every step keeps the variables in their types *)

LEMMA InitType == Init => TypeOK
BY CallsNoCall DEF Init, TypeOK, Labels, Thread

LEMMA StepType == LockInv /\ [Next]_vars => TypeOK'
<1> SUFFICES ASSUME LockInv, [Next]_vars PROVE TypeOK'
  OBVIOUS
<1> USE DEF shared, heap, setup, irq, ghost
<1>0. TypeOK /\ CallInv /\ HandlerInv /\ QueueInv /\ OwnInv
  BY DEF LockInv
<1>l. \A l \in {"idle", "enter", "spin", "body", "unlock", "exit", "after"} : l \in Labels
  BY DEF Labels
<1>1. ASSUME NEW c \in Core, Initialize(c) PROVE TypeOK'
  BY <1>0, <1>1 DEF Initialize, TypeOK
<1>2. ASSUME NEW c \in Core, RegisterCallback(c) PROVE TypeOK'
  BY <1>0, <1>2 DEF RegisterCallback, TypeOK
<1>3. ASSUME NEW t \in Thread, Client(t) PROVE TypeOK'
  <2>1. pc' \in [Thread -> Labels] /\ call' \in [Thread -> Calls]
    <3>1. CASE BeginCreate(t)
      BY <1>0, <3>1, BeginType DEF BeginCreate
    <3>2. ASSUME NEW m \in Msg, BeginRef(t, m) \/ BeginUnRef(t, m)
          PROVE  pc' \in [Thread -> Labels] /\ call' \in [Thread -> Calls]
      BY <1>0, <3>2, BeginType DEF BeginRef, BeginUnRef
    <3>3. ASSUME NEW m \in Msg, NEW d \in Sends[t], BeginSend(t, m, d)
          PROVE  pc' \in [Thread -> Labels] /\ call' \in [Thread -> Calls]
      <4>1. d \in Core
        BY DEF Thread
      <4>2. PICK s \in Signal : Begin(t, "send", m, d, s)
        BY <3>3 DEF BeginSend
      <4>3. QED
        BY <1>0, <4>1, <4>2, BeginType
    <3>4. QED
      BY <1>3, <3>1, <3>2, <3>3 DEF Client
  <2>2. UNCHANGED <<lock, masked, setup, shared, pending, heap, irq, ghost>>
    BY <1>3 DEF Client, BeginCreate, BeginRef, BeginUnRef, BeginSend
  <2>3. QED
    BY <1>0, <2>1, <2>2 DEF TypeOK
<1>4. ASSUME NEW t \in Thread, EnterCritical(t) PROVE TypeOK'
  <2>1. pc' \in [Thread -> Labels]
    BY <1>0, <1>l, <1>4, GotoType DEF EnterCritical
  <2>2. t[1] \in Core
    BY ThreadParts
  <2>3. QED
    BY <1>0, <1>4, <2>1, <2>2 DEF EnterCritical, TypeOK
<1>5. ASSUME NEW t \in Thread, AcquireLock(t) PROVE TypeOK'
  BY <1>0, <1>l, <1>5, GotoType DEF AcquireLock, TypeOK
<1>6. ASSUME NEW t \in Thread, ReleaseLock(t) PROVE TypeOK'
  BY <1>0, <1>l, <1>6, GotoType DEF ReleaseLock, TypeOK
<1>7. ASSUME NEW t \in Thread, ExitCritical(t) PROVE TypeOK'
  BY <1>0, <1>l, <1>7, GotoType, ReturnType DEF ExitCritical, TypeOK
<1>8. ASSUME NEW t \in Thread, CreateBody(t) PROVE TypeOK'
  <2>1. pc' \in [Thread -> Labels]
    BY <1>0, <1>l, <1>8, GotoType DEF CreateBody
  <2>2. CASE \E m \in Msg \ alive :
               alive' = alive \cup {m} /\ Result(t, "ok", m) /\ Take(t, m)
    <3>1. PICK m \in Msg \ alive :
            alive' = alive \cup {m} /\ Result(t, "ok", m) /\ Take(t, m)
      BY <2>2
    <3>2. call' \in [Thread -> Calls] /\ own' \in [Thread -> [Msg -> Nat]]
      BY <1>0, <3>1, ResultType, TakeType
    <3>3. QED
      BY <1>0, <1>8, <2>1, <3>1, <3>2 DEF CreateBody, TypeOK
  <2>3. CASE Result(t, "noMem", NoMsg) /\ UNCHANGED <<alive, own>>
    <3>1. call' \in [Thread -> Calls]
      BY <1>0, <2>3, ResultType
    <3>2. QED
      BY <1>0, <1>8, <2>1, <2>3, <3>1 DEF CreateBody, TypeOK
  <2>4. QED
    BY <1>8, <2>2, <2>3 DEF CreateBody
<1>9. ASSUME NEW t \in Thread, InitMsg(t) PROVE TypeOK'
  <2>1. pc' \in [Thread -> Labels] /\ call' \in [Thread -> Calls]
    BY <1>0, <1>9, ReturnType DEF InitMsg
  <2>2. ref' \in [Msg -> 0 .. RefMax]
    <3>1. ref' = [ref EXCEPT ![call[t].msg] = 1] /\ 1 \in 0 .. RefMax
      BY <1>9 DEF InitMsg
    <3>2. QED
      BY <1>0, <3>1 DEF TypeOK
  <2>3. kind' \in [Msg -> {"user", "stream", "unknown"}]
    BY <1>0, <1>9 DEF InitMsg, TypeOK
  <2>4. QED
    BY <1>0, <1>9, <2>1, <2>2, <2>3 DEF InitMsg, TypeOK
<1>10. ASSUME NEW t \in Thread, RefBody(t) PROVE TypeOK'
  <2>1. call[t].msg \in Msg
    BY <1>0, <1>10 DEF RefBody, At, CallInv, CallOK
  <2>2. pc' \in [Thread -> Labels] /\ own' \in [Thread -> [Msg -> Nat]]
    BY <1>0, <1>l, <1>10, <2>1, GotoType, TakeType DEF RefBody
  <2>3. ref' \in [Msg -> 0 .. RefMax]
    BY <1>0, <1>10, <2>1 DEF RefBody, TypeOK
  <2>4. QED
    BY <1>0, <1>10, <2>2, <2>3 DEF RefBody, TypeOK
<1>11. ASSUME NEW t \in Thread, UnRefBody(t) PROVE TypeOK'
  <2>1. call[t].msg \in Msg /\ own[t][call[t].msg] > 0
    BY <1>0, <1>11, BodyOwns DEF UnRefBody, At
  <2>2. pc' \in [Thread -> Labels] /\ own' \in [Thread -> [Msg -> Nat]]
    BY <1>0, <1>l, <1>11, <2>1, GotoType, GiveType DEF UnRefBody
  <2>3. ref' \in [Msg -> 0 .. RefMax]
    BY <1>0, <1>11, <2>1 DEF UnRefBody, TypeOK
  <2>4. alive' \subseteq Msg
    BY <1>0, <1>11 DEF UnRefBody, TypeOK
  <2>5. QED
    BY <1>0, <1>11, <2>2, <2>3, <2>4 DEF UnRefBody, TypeOK
<1>12. ASSUME NEW t \in Thread, SendBody(t) PROVE TypeOK'
  <2>1. /\ call[t].msg \in Msg /\ own[t][call[t].msg] > 0
        /\ call[t].dst \in Core
    BY <1>0, <1>12, BodyOwns, CallsFields DEF SendBody, At, TypeOK
  <2>2. pc' \in [Thread -> Labels] /\ call' \in [Thread -> Calls]
    BY <1>0, <1>l, <1>12, <2>1, GotoType, ResultType DEF SendBody
  <2>3. own' \in [Thread -> [Msg -> Nat]]
    BY <1>0, <1>12, <2>1, GiveType DEF SendBody, TypeOK
  <2>4. slots' \in [Core -> [0 .. QSize - 1 -> Msg \cup {NoMsg}]]
    <3>1. ASSUME NEW m \in Msg, NEW d \in Core,
                 slots' = [slots EXCEPT ![d][head[d]] = m]
          PROVE  slots' \in [Core -> [0 .. QSize - 1 -> Msg \cup {NoMsg}]]
      BY <1>0, <3>1 DEF TypeOK
    <3>2. QED
      BY <1>0, <1>12, <2>1, <3>1 DEF SendBody, TypeOK
  <2>5. head' \in [Core -> 0 .. QSize - 1]
    <3>1. ASSUME NEW d \in Core, head' = [head EXCEPT ![d] = Inc(@)]
          PROVE  head' \in [Core -> 0 .. QSize - 1]
      BY <1>0, <3>1, IncType DEF TypeOK
    <3>2. QED
      BY <1>0, <1>12, <2>1, <3>1 DEF SendBody, TypeOK
  <2>6. QED
    BY <1>0, <1>12, <2>2, <2>3, <2>4, <2>5 DEF SendBody, TypeOK
<1>13. ASSUME NEW t \in Thread, RaiseInterrupt(t) PROVE TypeOK'
  BY <1>0, <1>13, ReturnType DEF RaiseInterrupt, TypeOK
<1>14. ASSUME NEW t \in Thread, ReceiveBody(t) PROVE TypeOK'
  <2> DEFINE c == t[1]
             m == slots[c][tail[c]]
  <2>1. c \in Core
    BY ThreadParts
  <2>2. pc' \in [Thread -> Labels]
    BY <1>0, <1>l, <1>14, GotoType DEF ReceiveBody
  <2>3. CASE ~queueEmpty(c) /\ tail' = [tail EXCEPT ![c] = Inc(@)]
             /\ Result(t, "ok", m) /\ Take(t, m)
    <3>1. m \in Msg
      BY <1>0, <2>1, <2>3, TailOccupied DEF QueueInv
    <3> HIDE DEF m
    <3>2. call' \in [Thread -> Calls] /\ own' \in [Thread -> [Msg -> Nat]]
      BY <1>0, <2>3, <3>1, ResultType, TakeType
    <3>3. tail' \in [Core -> 0 .. QSize - 1]
      BY <1>0, <2>1, <2>3, IncType DEF TypeOK
    <3>4. QED
      BY <1>0, <1>14, <2>2, <3>2, <3>3 DEF ReceiveBody, TypeOK
  <2>4. CASE Result(t, "empty", NoMsg) /\ UNCHANGED <<tail, own>>
    <3>1. call' \in [Thread -> Calls]
      BY <1>0, <2>4, ResultType
    <3>2. QED
      BY <1>0, <1>14, <2>2, <2>4, <3>1 DEF ReceiveBody, TypeOK
  <2>5. QED
    BY <1>14, <2>3, <2>4 DEF ReceiveBody
<1>15. ASSUME NEW c \in Core, EnterHandler(c) PROVE TypeOK'
  BY <1>0, <1>15 DEF EnterHandler, TypeOK
<1>16. ASSUME NEW c \in Core, BeginReceive(c) PROVE TypeOK'
  BY <1>0, <1>16, HandlerThread, BeginType DEF BeginReceive, TypeOK
<1>17. ASSUME NEW c \in Core, LeaveHandler(c) PROVE TypeOK'
  BY <1>0, <1>17, HandlerThread, ReturnType DEF LeaveHandler, TypeOK
<1>18. ASSUME NEW c \in Core, CallUser(c) PROVE TypeOK'
  BY <1>0, <1>18, HandlerThread, ReturnType, CallsFields DEF CallUser, TypeOK
<1>19. ASSUME NEW c \in Core, PassOver(c) PROVE TypeOK'
  <2> DEFINE h == Handler(c)
             m == call[h].msg
  <2>1. h \in Thread /\ m \in Msg /\ own[h][m] > 0
    BY <1>0, <1>19, HandlerThread DEF PassOver, At, CallInv, CallOK, OwnInv, OwnOK, TypeOK
  <2>2. pc' \in [Thread -> Labels] /\ call' \in [Thread -> Calls]
    BY <1>0, <1>19, <2>1, ReturnType DEF PassOver
  <2>3. own' \in [Thread -> [Msg -> Nat]]
    BY <1>0, <1>19, <2>1, GiveType DEF PassOver
  <2>4. lost' \in [Msg -> Nat]
    BY <1>0, <1>19, <2>1 DEF PassOver, TypeOK
  <2>5. QED
    BY <1>0, <1>19, <2>2, <2>3, <2>4 DEF PassOver, TypeOK
<1>20. ASSUME NEW c \in Core, Discard(c) PROVE TypeOK'
  BY <1>0, <1>20, HandlerThread, BeginType DEF Discard, At, TypeOK, CallInv, CallOK
<1>21. ASSUME NEW c \in Core, EndCallback(c) PROVE TypeOK'
  BY <1>0, <1>21, HandlerThread, BeginType DEF EndCallback, TypeOK, HandlerInv, HandlerOK
<1>22. CASE UNCHANGED vars
  BY <1>0, <1>22 DEF vars, TypeOK
<1>23. QED
  BY <1>1, <1>2, <1>3, <1>4, <1>5, <1>6, <1>7, <1>8, <1>9, <1>10, <1>11, <1>12,
     <1>13, <1>14, <1>15, <1>16, <1>17, <1>18, <1>19, <1>20, <1>21, <1>22
     DEF Next, Continue, Handle

-----------------------------------------------------------------------------
(* The lock, the interrupt masks and preemption *)

\* What a step of a call does to the labels, the lock and the masks.
Moves(t) ==
  /\ CanRun(t)
  /\ \A u \in Thread : u # t => pc'[u] = pc[u] /\ (Active(u)' <=> Active(u))
  /\ \/ /\ pc[t] = "idle" /\ pc'[t] = "enter"
        /\ CanStart(t) \/ Active(t)
        /\ UNCHANGED <<lock, masked>>
     \/ /\ pc[t] = "enter" /\ pc'[t] = "spin"
        /\ masked' = masked \cup {t[1]} /\ UNCHANGED lock
     \/ /\ pc[t] = "spin" /\ pc'[t] = "body"
        /\ lock = "unlocked" /\ lock' = "locked" /\ UNCHANGED masked
     \/ /\ pc[t] = "body" /\ pc'[t] = "unlock"
        /\ UNCHANGED <<lock, masked>>
     \/ /\ pc[t] = "unlock" /\ pc'[t] = "exit"
        /\ lock' = "unlocked" /\ UNCHANGED masked
     \/ /\ pc[t] = "exit" /\ pc'[t] \in {"after", "idle"}
        /\ masked' = masked \ {t[1]} /\ UNCHANGED lock
     \/ /\ pc[t] = "after" /\ pc'[t] \in {"idle", "enter"}
        /\ UNCHANGED <<lock, masked>>

\* The steps that leave the labels, the lock and the masks alone.
Rests == /\ UNCHANGED <<pc, lock, masked>>
         /\ \/ UNCHANGED stage
            \/ \E c \in Core : /\ CanStart(Handler(c)) /\ ~Active(Handler(c))
                               /\ \A u \in Thread : u # Handler(c) =>
                                                    (Active(u)' <=> Active(u))

\* A step of t that leaves the handlers alone concerns the activity of t only.
LEMMA OthersActive ==
  ASSUME NEW t \in Thread, UNCHANGED stage
  PROVE  \A u \in Thread : pc'[u] = pc[u] => (Active(u)' <=> Active(u))
BY DEF Active

\* So does a step of a handler.
LEMMA OthersActiveHandler ==
  ASSUME TypeOK, NEW c \in Core, NEW s, stage' = [stage EXCEPT ![c] = s]
  PROVE  \A u \in Thread : u # Handler(c) /\ pc'[u] = pc[u] => (Active(u)' <=> Active(u))
<1> SUFFICES ASSUME NEW u \in Thread, u # Handler(c), pc'[u] = pc[u]
             PROVE  Active(u)' <=> Active(u)
  OBVIOUS
<1>1. u[1] \in Core /\ (u[2] = IrqLevel => u[1] # c)
  BY ThreadParts, HandlerOnly
<1>2. u[2] = IrqLevel => stage'[u[1]] = stage[u[1]]
  BY <1>1 DEF TypeOK
<1>3. QED
  BY <1>2 DEF Active

LEMMA StepMoves ==
  ASSUME LockInv, [Next]_vars
  PROVE  Rests \/ \E t \in Thread : Moves(t)
<1> USE DEF shared, heap, setup, irq, ghost
<1>0. TypeOK /\ CallInv /\ HandlerInv
  BY DEF LockInv
<1>f. ASSUME NEW t \in Thread, NEW l, pc' = [pc EXCEPT ![t] = l]
      PROVE  pc'[t] = l /\ \A u \in Thread : u # t => pc'[u] = pc[u]
  BY <1>0, <1>f DEF TypeOK
<1> USE DEF Goto, Return, Begin
<1>1. ASSUME NEW c \in Core, Initialize(c) \/ RegisterCallback(c) PROVE Rests
  BY <1>1 DEF Initialize, RegisterCallback, Rests
<1>2. ASSUME NEW t \in Thread, Client(t) PROVE Moves(t)
  <2>1. /\ pc' = [pc EXCEPT ![t] = "enter"]
        /\ pc[t] = "idle" /\ CanStart(t) /\ CanRun(t)
        /\ UNCHANGED <<lock, masked, stage>>
    BY <1>2 DEF Client, BeginCreate, BeginRef, BeginUnRef, BeginSend, InClient, CanStart
  <2>2. QED
    BY <1>f, <2>1, OthersActive DEF Moves
<1>3. ASSUME NEW t \in Thread,
             EnterCritical(t) \/ AcquireLock(t) \/ ReleaseLock(t) \/ ExitCritical(t)
      PROVE  Moves(t)
  <2>1. UNCHANGED stage
    BY <1>3 DEF EnterCritical, AcquireLock, ReleaseLock, ExitCritical
  <2>2. \A u \in Thread : u # t => pc'[u] = pc[u]
    BY <1>3, <1>f DEF EnterCritical, AcquireLock, ReleaseLock, ExitCritical
  <2>3. CanRun(t) /\ \A u \in Thread : u # t => pc'[u] = pc[u] /\ (Active(u)' <=> Active(u))
    BY <1>3, <2>1, <2>2, OthersActive DEF EnterCritical, AcquireLock, ReleaseLock, ExitCritical
  <2>4. QED
    BY <1>3, <1>f, <2>3
       DEF EnterCritical, AcquireLock, ReleaseLock, ExitCritical, Moves
<1>4. ASSUME NEW t \in Thread,
             CreateBody(t) \/ RefBody(t) \/ UnRefBody(t) \/ SendBody(t) \/ ReceiveBody(t)
      PROVE  Moves(t)
  <2>1. /\ pc' = [pc EXCEPT ![t] = "unlock"] /\ pc[t] = "body" /\ CanRun(t)
        /\ UNCHANGED <<lock, masked, stage>>
    BY <1>4 DEF CreateBody, RefBody, UnRefBody, SendBody, ReceiveBody, At
  <2>2. QED
    BY <1>f, <2>1, OthersActive DEF Moves
<1>5. ASSUME NEW t \in Thread, InitMsg(t) \/ RaiseInterrupt(t)
      PROVE  Moves(t)
  <2>1. /\ pc' = [pc EXCEPT ![t] = "idle"] /\ pc[t] = "after" /\ CanRun(t)
        /\ UNCHANGED <<lock, masked, stage>>
    BY <1>5 DEF InitMsg, RaiseInterrupt, At
  <2>2. QED
    BY <1>f, <2>1, OthersActive DEF Moves
<1>6. ASSUME NEW c \in Core, EnterHandler(c) PROVE Rests
  <2>1. /\ UNCHANGED <<pc, lock, masked>>
        /\ stage[c] = "off" /\ pc[Handler(c)] = "idle" /\ CanStart(Handler(c))
        /\ stage' = [stage EXCEPT ![c] = "loop"]
    BY <1>6 DEF EnterHandler
  <2>2. ~Active(Handler(c))
    BY <2>1, HandlerOnly DEF Active
  <2>3. QED
    BY <1>0, <2>1, <2>2, OthersActiveHandler DEF Rests
<1>7. ASSUME NEW c \in Core, BeginReceive(c) \/ EndCallback(c)
      PROVE  Moves(Handler(c))
  <2>1. /\ pc' = [pc EXCEPT ![Handler(c)] = "enter"]
        /\ pc[Handler(c)] = "idle" /\ CanRun(Handler(c)) /\ stage[c] # "off"
        /\ UNCHANGED <<lock, masked>>
        /\ UNCHANGED stage \/ stage' = [stage EXCEPT ![c] = "loop"]
    BY <1>7 DEF BeginReceive, EndCallback
  <2>2. Active(Handler(c))
    BY <2>1, HandlerOnly DEF Active
  <2>3. QED
    BY <1>0, <1>f, <2>1, <2>2, HandlerThread, OthersActive, OthersActiveHandler DEF Moves
<1>8. ASSUME NEW c \in Core, LeaveHandler(c) \/ CallUser(c) \/ PassOver(c) \/ Discard(c)
      PROVE  Moves(Handler(c))
  <2>1. /\ \/ pc' = [pc EXCEPT ![Handler(c)] = "idle"]
           \/ pc' = [pc EXCEPT ![Handler(c)] = "enter"]
        /\ pc[Handler(c)] = "after" /\ CanRun(Handler(c))
        /\ UNCHANGED <<lock, masked>>
        /\ \/ UNCHANGED stage
           \/ stage' = [stage EXCEPT ![c] = "off"]
           \/ stage' = [stage EXCEPT ![c] = "callback"]
    BY <1>8 DEF LeaveHandler, CallUser, PassOver, Discard, At
  <2>2. QED
    BY <1>0, <1>f, <2>1, HandlerThread, OthersActive, OthersActiveHandler DEF Moves
<1>9. CASE UNCHANGED vars
  BY <1>9 DEF vars, Rests
<1>10. QED
  BY <1>1, <1>2, <1>3, <1>4, <1>5, <1>6, <1>7, <1>8, <1>9, HandlerThread
     DEF Next, Continue, Handle

LEMMA StepMutualExclusion ==
  LockInv /\ [Next]_vars => MutualExclusion'
<1> SUFFICES ASSUME LockInv, [Next]_vars PROVE MutualExclusion'
  OBVIOUS
<1>1. MutualExclusion
  BY DEF LockInv
<1>2. CASE Rests
  BY <1>1, <1>2 DEF Rests, MutualExclusion, Locked
<1>3. ASSUME NEW t \in Thread, Moves(t) PROVE MutualExclusion'
  <2>1. \A u \in Thread : u # t => (Locked(u)' <=> Locked(u))
    BY <1>3 DEF Moves, Locked
  <2>2. CASE Locked(t)' /\ ~Locked(t)
    <3>1. lock = "unlocked" /\ lock' = "locked"
      BY <1>3, <2>2 DEF Moves, Locked
    <3>2. QED
      BY <1>1, <2>1, <3>1 DEF MutualExclusion
  <2>3. CASE Locked(t)' /\ Locked(t)
    BY <1>1, <1>3, <2>1, <2>3 DEF MutualExclusion, Moves, Locked
  <2>4. CASE ~Locked(t)'
    BY <1>1, <1>3, <2>1, <2>4 DEF MutualExclusion, Moves, Locked
  <2>5. QED
    BY <2>2, <2>3, <2>4
<1>4. QED
  BY <1>2, <1>3, StepMoves

LEMMA StepMask == LockInv /\ [Next]_vars => MaskInv'
<1> SUFFICES ASSUME LockInv, [Next]_vars PROVE MaskInv'
  OBVIOUS
<1>1. MaskInv /\ TypeOK
  BY DEF LockInv
<1>2. CASE Rests
  <2> SUFFICES ASSUME NEW s \in Thread, pc[s] \in Critical
               PROVE  \A u \in Thread : u[1] = s[1] /\ u[2] > s[2] => ~Active(u)'
    BY <1>1, <1>2 DEF Rests, MaskInv
  <2>1. /\ s[1] \in masked
        /\ \A u \in Thread : u[1] = s[1] /\ u[2] > s[2] => ~Active(u)
    BY <1>1 DEF MaskInv
  <2>2. CASE UNCHANGED stage
    BY <1>2, <2>1, <2>2, OthersActive DEF Rests
  <2>3. ASSUME NEW c \in Core, CanStart(Handler(c)), ~Active(Handler(c)),
               \A u \in Thread : u # Handler(c) => (Active(u)' <=> Active(u))
        PROVE  \A u \in Thread : u[1] = s[1] /\ u[2] > s[2] => ~Active(u)'
    <3>1. s[1] # c
      BY <2>1, <2>3, HandlerOnly DEF CanStart
    <3>2. QED
      BY <2>1, <2>3, <3>1, HandlerOnly
  <2>4. QED
    BY <1>2, <2>2, <2>3 DEF Rests
<1>3. ASSUME NEW t \in Thread, Moves(t) PROVE MaskInv'
  <2> SUFFICES ASSUME NEW s \in Thread, pc'[s] \in Critical
               PROVE  /\ s[1] \in masked'
                      /\ \A u \in Thread : u[1] = s[1] /\ u[2] > s[2] => ~Active(u)'
    BY DEF MaskInv
  <2>1. CASE s = t
    <3>1. \A u \in Thread : u[1] = s[1] /\ u[2] > s[2] => ~Active(u)'
      BY <1>3, <2>1, ThreadParts DEF Moves, CanRun
    <3>2. s[1] \in masked'
      BY <1>1, <1>3, <2>1 DEF Moves, MaskInv, Critical
    <3>3. QED
      BY <3>1, <3>2
  <2>2. CASE s # t
    <3>1. /\ pc[s] \in Critical /\ s[1] \in masked
          /\ \A u \in Thread : u[1] = s[1] /\ u[2] > s[2] => ~Active(u)
      BY <1>1, <1>3, <2>2 DEF Moves, MaskInv
    <3>2. Active(s)
      BY <3>1 DEF Active, Critical
    <3>3. s[1] = t[1] => s[2] < t[2]
      BY <1>3, <2>2, <3>2, ThreadParts, ThreadsEqual DEF Moves, CanRun
    <3>4. s[1] = t[1] => ~Active(t)
      BY <3>1, <3>3, ThreadParts
    <3>5. s[1] = t[1] => pc[t] = "idle"
      BY <3>4 DEF Active
    <3>6. s[1] # t[1]
      BY <1>3, <3>1, <3>3, <3>4, <3>5, ThreadParts DEF Moves, CanStart
    <3>7. QED
      BY <1>3, <3>1, <3>6 DEF Moves
  <2>3. QED
    BY <2>1, <2>2
<1>4. QED
  BY <1>2, <1>3, StepMoves

-----------------------------------------------------------------------------
(* How far the calls and the handlers are *)

\* A step that is not about u leaves its call alone.
LEMMA OthersCall ==
  ASSUME CallInv, NEW u \in Thread, pc'[u] = pc[u], call'[u] = call[u],
         u[2] = IrqLevel => stage'[u[1]] = stage[u[1]]
  PROVE  CallOK(u)'
BY DEF CallInv, CallOK

LEMMA StepCall == LockInv /\ [Next]_vars => CallInv'
<1> SUFFICES ASSUME LockInv, [Next]_vars, NEW u \in Thread PROVE CallOK(u)'
  BY DEF CallInv
<1> USE DEF shared, heap, setup, irq, ghost
<1>0. TypeOK /\ CallInv /\ HandlerInv /\ QueueInv /\ CallOK(u) /\ call[u] \in Calls
  BY DEF LockInv, CallInv, TypeOK
<1>n. NoCall.op = "none"
  BY DEF NoCall
<1>l. \A l \in {"idle", "enter", "spin", "body", "unlock", "exit", "after"} : l \in Labels
  BY DEF Labels
<1>1. ASSUME NEW c \in Core, Initialize(c) \/ RegisterCallback(c) PROVE CallOK(u)'
  BY <1>0, <1>1, OthersCall DEF Initialize, RegisterCallback
<1>2. ASSUME NEW t \in Thread, Client(t) PROVE CallOK(u)'
  <2> USE <1>0
  <2>1. UNCHANGED stage
    BY <1>2 DEF Client, BeginCreate, BeginRef, BeginUnRef, BeginSend
  <2>2. CASE BeginCreate(t)
    <3>1. /\ pc'[t] = "enter" /\ call'[t].op = "create" /\ call'[t].msg = NoMsg
          /\ \A v \in Thread : v # t => pc'[v] = pc[v] /\ call'[v] = call[v]
      BY <2>2 DEF BeginCreate, Begin, TypeOK
    <3>2. QED
      BY <2>1, <3>1, OthersCall DEF CallOK
  <2>3. ASSUME NEW m \in Msg, BeginRef(t, m) \/ BeginUnRef(t, m) PROVE CallOK(u)'
    <3>1. /\ pc'[t] = "enter" /\ call'[t].op \in {"ref", "unref"} /\ call'[t].msg = m
          /\ \A v \in Thread : v # t => pc'[v] = pc[v] /\ call'[v] = call[v]
      BY <2>3 DEF BeginRef, BeginUnRef, Begin, TypeOK
    <3>2. QED
      BY <2>1, <3>1, OthersCall DEF CallOK
  <2>4. ASSUME NEW m \in Msg, NEW d \in Sends[t], BeginSend(t, m, d) PROVE CallOK(u)'
    <3>1. d \in Core
      BY DEF Thread
    <3>2. PICK s \in Signal : Begin(t, "send", m, d, s)
      BY <2>4 DEF BeginSend
    <3>3. QED
      BY <2>1, <3>1, <3>2, BeginType, OthersCall DEF CallOK
  <2>5. QED
    BY <1>2, <2>2, <2>3, <2>4 DEF Client
<1>3. ASSUME NEW t \in Thread,
             EnterCritical(t) \/ AcquireLock(t) \/ ReleaseLock(t)
             \/ RefBody(t) \/ UnRefBody(t)
      PROVE  CallOK(u)'
  <2>1. /\ UNCHANGED <<stage, call>>
        /\ \/ pc[t] = "enter" /\ Goto(t, "spin")
           \/ pc[t] = "spin" /\ Goto(t, "body")
           \/ pc[t] = "body" /\ Goto(t, "unlock")
           \/ pc[t] = "unlock" /\ Goto(t, "exit")
    BY <1>3 DEF EnterCritical, AcquireLock, ReleaseLock, RefBody, UnRefBody, At
  <2>2. QED
    BY <1>0, <1>l, <2>1, GotoType, OthersCall DEF CallOK, Before
<1>4. ASSUME NEW t \in Thread, ExitCritical(t) PROVE CallOK(u)'
  <2>1. UNCHANGED stage /\ pc[t] = "exit"
    BY <1>4 DEF ExitCritical
  <2>2. CASE Return(t)
    BY <1>0, <1>n, <2>1, <2>2, ReturnType, OthersCall DEF CallOK
  <2>3. CASE Remaining(t) /\ Goto(t, "after") /\ UNCHANGED call
    BY <1>0, <1>l, <2>1, <2>3, GotoType, CallsFields, OthersCall DEF CallOK, Remaining, Before
  <2>4. QED
    BY <1>4, <2>2, <2>3 DEF ExitCritical
<1>5. ASSUME NEW t \in Thread, CreateBody(t) PROVE CallOK(u)'
  <2>1. /\ call[t].op = "create" /\ Goto(t, "unlock") /\ UNCHANGED stage
        /\ \E r \in {"ok", "noMem"}, m \in Msg \cup {NoMsg} : Result(t, r, m)
    BY <1>5 DEF CreateBody, At
  <2>2. QED
    BY <1>0, <1>l, <2>1, GotoType, ResultType, OthersCall DEF CallOK, Before
<1>6. ASSUME NEW t \in Thread, InitMsg(t) \/ RaiseInterrupt(t) PROVE CallOK(u)'
  <2>1. Return(t) /\ UNCHANGED stage
    BY <1>6 DEF InitMsg, RaiseInterrupt
  <2>2. QED
    BY <1>0, <1>n, <2>1, ReturnType, OthersCall DEF CallOK
<1>7. ASSUME NEW t \in Thread, SendBody(t) PROVE CallOK(u)'
  <2>1. /\ call[t].op = "send" /\ call[t].msg \in Msg
        /\ Goto(t, "unlock") /\ UNCHANGED stage
        /\ \E r \in {"ok", "notReady", "full"} : Result(t, r, call[t].msg)
    BY <1>0, <1>7 DEF SendBody, At, CallInv, CallOK
  <2>2. QED
    BY <1>0, <1>l, <2>1, GotoType, ResultType, OthersCall DEF CallOK, Before
<1>8. ASSUME NEW t \in Thread, ReceiveBody(t) PROVE CallOK(u)'
  <2> DEFINE c == t[1]
             m == slots[c][tail[c]]
  <2>1. call[t].op = "receive" /\ Goto(t, "unlock") /\ UNCHANGED stage
    BY <1>8 DEF ReceiveBody, At
  <2>2. \/ Result(t, "empty", NoMsg)
        \/ Result(t, "ok", m) /\ m \in Msg
    <3>1. c \in Core
      BY ThreadParts
    <3>2. QED
      BY <1>0, <1>8, <3>1, TailOccupied DEF ReceiveBody, QueueInv
  <2> HIDE DEF m
  <2>3. u # t => CallOK(u)'
    BY <1>0, <1>l, <2>1, <2>2, GotoType, ResultType, OthersCall
  <2>4. CASE u = t
    BY <1>0, <1>l, <2>1, <2>2, <2>4, GotoType, ResultType DEF CallOK, Before
  <2>5. QED
    BY <2>3, <2>4
<1>9. ASSUME NEW c \in Core, EnterHandler(c) PROVE CallOK(u)'
  <2>1. CASE u = Handler(c)
    BY <1>0, <1>9, <1>n, <2>1 DEF EnterHandler, CallOK
  <2>2. CASE u # Handler(c)
    <3>1. u[2] = IrqLevel => stage'[u[1]] = stage[u[1]]
      BY <1>0, <1>9, <2>2, HandlerOnly, ThreadParts DEF EnterHandler, TypeOK
    <3>2. QED
      BY <1>0, <1>9, <3>1, OthersCall DEF EnterHandler
  <2>3. QED
    BY <2>1, <2>2
<1>10. ASSUME NEW c \in Core, BeginReceive(c) PROVE CallOK(u)'
  <2>1. stage[c] = "loop" /\ UNCHANGED stage
    BY <1>10 DEF BeginReceive
  <2>2. LET h == Handler(c) IN
        /\ pc'[h] = "enter" /\ call'[h].op = "receive" /\ call'[h].result = "none"
        /\ \A v \in Thread : v # h => pc'[v] = pc[v] /\ call'[v] = call[v]
    BY <1>0, <1>10, HandlerThread DEF BeginReceive, Begin, TypeOK
  <2>3. QED
    BY <1>0, <2>1, <2>2, HandlerThread, HandlerOnly, OthersCall DEF CallOK
<1>11. ASSUME NEW c \in Core, LeaveHandler(c) \/ CallUser(c) \/ PassOver(c) PROVE CallOK(u)'
  <2>1. /\ Return(Handler(c))
        /\ \/ UNCHANGED stage
           \/ stage' = [stage EXCEPT ![c] = "off"]
           \/ stage' = [stage EXCEPT ![c] = "callback"]
    BY <1>11 DEF LeaveHandler, CallUser, PassOver
  <2>2. CASE u = Handler(c)
    BY <1>0, <1>n, <2>1, <2>2, ReturnType, HandlerThread DEF CallOK
  <2>3. CASE u # Handler(c)
    <3>1. u[2] = IrqLevel => stage'[u[1]] = stage[u[1]]
      BY <1>0, <2>1, <2>3, HandlerOnly, ThreadParts DEF TypeOK
    <3>2. QED
      BY <1>0, <2>1, <2>3, <3>1, ReturnType, HandlerThread, OthersCall
  <2>4. QED
    BY <2>2, <2>3
<1>12. ASSUME NEW c \in Core, Discard(c) PROVE CallOK(u)'
  <2>1. call[Handler(c)].msg \in Msg /\ UNCHANGED stage
    BY <1>0, <1>12, HandlerThread DEF Discard, At, CallInv, CallOK
  <2>2. LET h == Handler(c) IN
        /\ pc'[h] = "enter" /\ call'[h].op = "unref" /\ call'[h].msg = call[h].msg
        /\ \A v \in Thread : v # h => pc'[v] = pc[v] /\ call'[v] = call[v]
    BY <1>0, <1>12, HandlerThread DEF Discard, Begin, TypeOK
  <2>3. QED
    BY <1>0, <2>1, <2>2, HandlerThread, OthersCall DEF CallOK
<1>13. ASSUME NEW c \in Core, EndCallback(c) PROVE CallOK(u)'
  <2>1. buffer[c] \in Msg /\ stage' = [stage EXCEPT ![c] = "loop"]
    BY <1>0, <1>13 DEF EndCallback, HandlerInv, HandlerOK
  <2>b. LET h == Handler(c) IN
        /\ pc'[h] = "enter" /\ call'[h].op = "unref" /\ call'[h].msg = buffer[c]
        /\ \A v \in Thread : v # h => pc'[v] = pc[v] /\ call'[v] = call[v]
    BY <1>0, <1>13, HandlerThread DEF EndCallback, Begin, TypeOK
  <2>2. CASE u = Handler(c)
    BY <1>0, <2>1, <2>b, <2>2, HandlerThread DEF CallOK
  <2>3. CASE u # Handler(c)
    <3>1. u[2] = IrqLevel => stage'[u[1]] = stage[u[1]]
      BY <1>0, <2>1, <2>3, HandlerOnly, ThreadParts DEF TypeOK
    <3>2. QED
      BY <1>0, <2>1, <2>b, <2>3, <3>1, HandlerThread, OthersCall
  <2>4. QED
    BY <2>2, <2>3
<1>14. CASE UNCHANGED vars
  BY <1>0, <1>14, OthersCall DEF vars
<1>15. QED
  BY <1>1, <1>2, <1>3, <1>4, <1>5, <1>6, <1>7, <1>8, <1>9, <1>10, <1>11, <1>12,
     <1>13, <1>14 DEF Next, Continue, Handle

LEMMA StepHandler == LockInv /\ [Next]_vars => HandlerInv'
<1> SUFFICES ASSUME LockInv, [Next]_vars, NEW d \in Core PROVE HandlerOK(d)'
  BY DEF HandlerInv
<1> USE DEF shared, heap, setup, irq, ghost, Goto, Return, Begin
<1>0. /\ TypeOK /\ CallInv /\ HandlerOK(d) /\ Handler(d) \in Thread
      /\ CallOK(Handler(d))
  BY HandlerThread DEF LockInv, HandlerInv, CallInv
<1>1. ASSUME NEW c \in Core, Initialize(c) \/ RegisterCallback(c) PROVE HandlerOK(d)'
  BY <1>0, <1>1 DEF Initialize, RegisterCallback, HandlerOK
<1>2. ASSUME NEW t \in Thread, Client(t) PROVE HandlerOK(d)'
  <2>1. UNCHANGED <<stage, buffer>> /\ pc' = [pc EXCEPT ![t] = "enter"] /\ InClient(t)
    BY <1>2 DEF Client, BeginCreate, BeginRef, BeginUnRef, BeginSend
  <2>2. t = Handler(d) => stage[d] = "callback"
    BY <2>1, HandlerOnly DEF InClient
  <2>3. QED
    BY <1>0, <2>1, <2>2 DEF HandlerOK, TypeOK
<1>3. ASSUME NEW t \in Thread, Continue(t) PROVE HandlerOK(d)'
  <2>1. /\ UNCHANGED <<stage, buffer>> /\ pc[t] # "idle"
        /\ \E l \in Labels : pc' = [pc EXCEPT ![t] = l]
    BY <1>3 DEF Continue, EnterCritical, AcquireLock, ReleaseLock, ExitCritical,
                CreateBody, InitMsg, RefBody, UnRefBody, SendBody, RaiseInterrupt,
                ReceiveBody, At, Labels
  <2>2. QED
    BY <1>0, <2>1 DEF HandlerOK, TypeOK
<1>4. ASSUME NEW c \in Core, Handle(c) PROVE HandlerOK(d)'
  <2>1. CASE c # d
    <3>1. /\ Handler(c) # Handler(d)
          /\ \/ UNCHANGED pc
             \/ \E l \in Labels : pc' = [pc EXCEPT ![Handler(c)] = l]
          /\ UNCHANGED stage \/ \E k : stage' = [stage EXCEPT ![c] = k]
          /\ UNCHANGED buffer \/ \E k : buffer' = [buffer EXCEPT ![c] = k]
      BY <1>4, <2>1 DEF Handle, EnterHandler, BeginReceive, LeaveHandler, CallUser,
                        PassOver, Discard, EndCallback, Handler, Labels
    <3>2. pc'[Handler(d)] = pc[Handler(d)] /\ stage'[d] = stage[d] /\ buffer'[d] = buffer[d]
      BY <1>0, <2>1, <3>1 DEF TypeOK
    <3>3. QED
      BY <1>0, <3>2 DEF HandlerOK
  <2>2. CASE c = d
    <3>1. CASE EnterHandler(c)
      BY <1>0, <2>2, <3>1 DEF EnterHandler, HandlerOK, TypeOK
    <3>2. CASE BeginReceive(c)
      BY <1>0, <2>2, <3>2 DEF BeginReceive, HandlerOK, TypeOK
    <3>3. CASE LeaveHandler(c) \/ CallUser(c) \/ PassOver(c) \/ Discard(c)
      <4>1. stage[c] = "loop" /\ buffer[c] = NoMsg
        BY <1>0, <2>2, <3>3, HandlerOnly
           DEF LeaveHandler, CallUser, PassOver, Discard, At, CallOK, HandlerOK, TypeOK
      <4>2. CASE LeaveHandler(c)
        BY <1>0, <2>2, <4>1, <4>2 DEF LeaveHandler, HandlerOK, TypeOK
      <4>3. CASE CallUser(c)
        BY <1>0, <2>2, <4>1, <4>3 DEF CallUser, At, CallOK, HandlerOK, TypeOK
      <4>4. CASE PassOver(c) \/ Discard(c)
        BY <1>0, <2>2, <4>1, <4>4 DEF PassOver, Discard, HandlerOK, TypeOK
      <4>5. QED
        BY <3>3, <4>2, <4>3, <4>4
    <3>4. CASE EndCallback(c)
      BY <1>0, <2>2, <3>4 DEF EndCallback, HandlerOK, TypeOK
    <3>5. QED
      BY <1>4, <3>1, <3>2, <3>3, <3>4 DEF Handle
  <2>3. QED
    BY <2>1, <2>2
<1>5. CASE UNCHANGED vars
  BY <1>0, <1>5 DEF vars, HandlerOK
<1>6. QED
  BY <1>1, <1>2, <1>3, <1>4, <1>5 DEF Next

-----------------------------------------------------------------------------
(* The queues hold messages *)

LEMMA OthersOccupied ==
  ASSUME UNCHANGED <<head, tail>>
  PROVE  \A c \in Core : Occupied(c)' = Occupied(c)
BY DEF Occupied

LEMMA StepQueue == LockInv /\ [Next]_vars => QueueInv'
<1> SUFFICES ASSUME LockInv, [Next]_vars PROVE QueueInv'
  OBVIOUS
<1> USE DEF shared, heap, setup, irq, ghost
<1>0. TypeOK /\ CallInv /\ QueueInv
  BY DEF LockInv
<1>1. CASE UNCHANGED <<slots, head, tail>>
  BY <1>0, <1>1, OthersOccupied DEF QueueInv
<1>2. ASSUME NEW t \in Thread, SendBody(t) PROVE QueueInv'
  <2>1. PICK d \in Core, m \in Msg : d = call[t].dst /\ m = call[t].msg
    BY <1>0, <1>2, CallsFields DEF SendBody, At, CallInv, CallOK, TypeOK
  <2>2. CASE UNCHANGED <<slots, head, tail>>
    BY <1>1, <2>2
  <2>3. CASE /\ ~queueFull(d) /\ UNCHANGED tail
             /\ slots' = [slots EXCEPT ![d][head[d]] = m]
             /\ head'  = [head EXCEPT ![d] = Inc(@)]
    <3>1. /\ Occupied(d)' = Occupied(d) \cup {head[d]}
          /\ \A c \in Core : c # d => Occupied(c)' = Occupied(c)
      BY <1>0, <2>3, SendOccupies
    <3>2. /\ slots'[d][head[d]] = m
          /\ \A i \in 0 .. QSize - 1 : i # head[d] => slots'[d][i] = slots[d][i]
          /\ \A c \in Core : c # d => slots'[c] = slots[c]
      BY <1>0, <2>3 DEF TypeOK
    <3>3. \A i \in Occupied(d) : i \in 0 .. QSize - 1
      BY DEF Occupied
    <3>4. QED
      BY <1>0, <3>1, <3>2, <3>3 DEF QueueInv
  <2>4. QED
    BY <1>2, <2>1, <2>2, <2>3 DEF SendBody
<1>3. ASSUME NEW t \in Thread, ReceiveBody(t) PROVE QueueInv'
  <2>1. CASE UNCHANGED <<slots, head, tail>>
    BY <1>1, <2>1
  <2>2. CASE /\ ~queueEmpty(t[1]) /\ UNCHANGED <<slots, head>>
             /\ tail' = [tail EXCEPT ![t[1]] = Inc(@)]
    <3>1. PICK c \in Core : c = t[1]
      BY ThreadParts
    <3>2. \A d \in Core : Occupied(d)' \subseteq Occupied(d)
      BY <1>0, <2>2, <3>1, ReceiveVacates
    <3>3. QED
      BY <1>0, <2>2, <3>2 DEF QueueInv
  <2>3. QED
    BY <1>3, <2>1, <2>2 DEF ReceiveBody
<1>4. QED
  BY <1>1, <1>2, <1>3
     DEF Next, Continue, Handle, Client, Initialize, RegisterCallback, BeginCreate,
         BeginRef, BeginUnRef, BeginSend, EnterCritical, AcquireLock, ReleaseLock,
         ExitCritical, CreateBody, InitMsg, RefBody, UnRefBody, RaiseInterrupt,
         EnterHandler, BeginReceive, LeaveHandler, CallUser, PassOver, Discard,
         EndCallback, vars

-----------------------------------------------------------------------------
(* A call or a handler that is to give up a reference has it *)

\* A step that is not about u leaves what it holds alone.
LEMMA OthersOwn ==
  ASSUME OwnInv, NEW u \in Thread, pc'[u] = pc[u], call'[u] = call[u],
         own'[u] = own[u], u[2] = IrqLevel => buffer'[u[1]] = buffer[u[1]]
  PROVE  OwnOK(u)'
BY DEF OwnInv, OwnOK, Reserved

LEMMA StepOwn == LockInv /\ [Next]_vars => OwnInv'
<1> SUFFICES ASSUME LockInv, [Next]_vars, NEW u \in Thread PROVE OwnOK(u)'
  BY DEF OwnInv
<1> USE DEF shared, heap, setup, irq, ghost
<1>0. /\ TypeOK /\ CallInv /\ HandlerInv /\ QueueInv /\ OwnInv /\ OwnOK(u)
      /\ own[u] \in [Msg -> Nat]
  BY DEF LockInv, OwnInv, TypeOK
<1>f. ASSUME NEW t \in Thread, NEW l \in Labels, pc' = [pc EXCEPT ![t] = l]
      PROVE  pc'[t] = l /\ \A v \in Thread : v # t => pc'[v] = pc[v]
  BY <1>0, <1>f DEF TypeOK
<1>l. \A l \in {"idle", "enter", "spin", "body", "unlock", "exit", "after"} : l \in Labels
  BY DEF Labels
<1>n. NoCall.op = "none"
  BY DEF NoCall
<1>1. ASSUME NEW c \in Core, Initialize(c) \/ RegisterCallback(c) \/ EnterHandler(c)
      PROVE  OwnOK(u)'
  BY <1>0, <1>1, OthersOwn DEF Initialize, RegisterCallback, EnterHandler
<1>2. ASSUME NEW t \in Thread, Client(t) PROVE OwnOK(u)'
  <2>1. UNCHANGED <<own, buffer>> /\ pc' = [pc EXCEPT ![t] = "enter"]
        /\ \E r : call' = [call EXCEPT ![t] = r]
    BY <1>2 DEF Client, BeginCreate, BeginRef, BeginUnRef, BeginSend, Begin
  <2>2. CASE u # t
    BY <1>0, <1>f, <1>l, <2>1, <2>2, OthersOwn DEF TypeOK
  <2>3. CASE u = t
    <3>1. CASE BeginCreate(t)
      <4>1. call'[t].op = "create"
        BY <1>0, <3>1 DEF BeginCreate, Begin, TypeOK
      <4>2. QED
        BY <1>0, <2>1, <2>3, <4>1 DEF OwnOK, Reserved
    <3>2. ASSUME NEW m \in Msg, BeginRef(t, m) PROVE OwnOK(u)'
      <4>1. call'[t].op = "ref"
        BY <1>0, <3>2 DEF BeginRef, Begin, TypeOK
      <4>2. QED
        BY <1>0, <2>1, <2>3, <4>1 DEF OwnOK, Reserved
    <3>3. ASSUME NEW m \in Msg, BeginUnRef(t, m) PROVE OwnOK(u)'
      <4>1. call'[t].op = "unref" /\ call'[t].msg = m
        BY <1>0, <3>3 DEF BeginUnRef, Begin, TypeOK
      <4>2. own[t][m] >= 1 + Reserved(t, m)
        BY <1>0, <2>3, <3>3 DEF BeginUnRef, Spare, Reserved
      <4>3. QED
        BY <1>0, <2>1, <2>3, <4>1, <4>2 DEF OwnOK, Reserved
    <3>4. ASSUME NEW m \in Msg, NEW d \in Sends[t], BeginSend(t, m, d) PROVE OwnOK(u)'
      <4>1. call'[t].op = "send" /\ call'[t].msg = m
        BY <1>0, <3>4 DEF BeginSend, Begin, TypeOK
      <4>2. own[t][m] >= 1 + Reserved(t, m)
        BY <1>0, <2>3, <3>4 DEF BeginSend, Spare, Reserved
      <4>3. QED
        BY <1>0, <2>1, <2>3, <4>1, <4>2 DEF OwnOK, Reserved
    <3>5. QED
      BY <1>2, <3>1, <3>2, <3>3, <3>4 DEF Client
  <2>4. QED
    BY <2>2, <2>3
<1>3. ASSUME NEW t \in Thread, EnterCritical(t) \/ AcquireLock(t) \/ ReleaseLock(t)
      PROVE  OwnOK(u)'
  <2>1. /\ UNCHANGED <<own, buffer, call>>
        /\ \/ pc[t] = "enter" /\ Goto(t, "spin")
           \/ pc[t] = "spin" /\ Goto(t, "body")
           \/ pc[t] = "unlock" /\ Goto(t, "exit")
    BY <1>3 DEF EnterCritical, AcquireLock, ReleaseLock
  <2>2. QED
    BY <1>0, <1>l, <2>1, GotoType DEF OwnOK, Reserved, Before
<1>4. ASSUME NEW t \in Thread, ExitCritical(t) PROVE OwnOK(u)'
  <2>1. UNCHANGED <<own, buffer>> /\ pc[t] = "exit"
    BY <1>4 DEF ExitCritical
  <2>2. CASE Return(t)
    BY <1>0, <1>n, <2>1, <2>2, ReturnType DEF OwnOK, Reserved
  <2>3. CASE Goto(t, "after") /\ UNCHANGED call
    BY <1>0, <1>l, <2>1, <2>3, GotoType DEF OwnOK, Reserved, Before
  <2>4. QED
    BY <1>4, <2>2, <2>3 DEF ExitCritical
<1>5. ASSUME NEW t \in Thread, CreateBody(t) PROVE OwnOK(u)'
  <2>1. call[t].op = "create" /\ UNCHANGED buffer /\ Goto(t, "unlock")
    BY <1>5 DEF CreateBody, At
  <2>2. ASSUME NEW m \in Msg, Result(t, "ok", m), Take(t, m) PROVE OwnOK(u)'
    BY <1>0, <1>l, <2>1, <2>2, GotoType, ResultType, TakeType DEF OwnOK, Reserved
  <2>3. CASE Result(t, "noMem", NoMsg) /\ UNCHANGED own
    BY <1>0, <1>l, <2>1, <2>3, GotoType, ResultType DEF OwnOK, Reserved
  <2>4. QED
    BY <1>5, <2>2, <2>3 DEF CreateBody
<1>6. ASSUME NEW t \in Thread, InitMsg(t) \/ RaiseInterrupt(t) PROVE OwnOK(u)'
  <2>1. Return(t) /\ UNCHANGED <<own, buffer>>
    BY <1>6 DEF InitMsg, RaiseInterrupt
  <2>2. QED
    BY <1>0, <1>n, <2>1, ReturnType DEF OwnOK, Reserved
<1>7. ASSUME NEW t \in Thread, RefBody(t) PROVE OwnOK(u)'
  <2>1. /\ call[t].op = "ref" /\ call[t].msg \in Msg /\ UNCHANGED <<buffer, call>>
        /\ Goto(t, "unlock") /\ Take(t, call[t].msg)
    BY <1>0, <1>7 DEF RefBody, At, CallInv, CallOK
  <2>2. QED
    BY <1>0, <1>l, <2>1, GotoType, TakeType DEF OwnOK, Reserved
<1>8. ASSUME NEW t \in Thread, NEW m \in Msg, m = call[t].msg,
             pc[t] = "body", call[t].op \in {"unref", "send"},
             Goto(t, "unlock"), Give(t, m), UNCHANGED buffer,
             call' = call \/ Result(t, "ok", m)
      PROVE  OwnOK(u)'
  <2>1. own[t][m] >= 1 + Reserved(t, m) /\ own[t][m] > 0
    BY <1>0, <1>8, BodyOwns DEF OwnInv, OwnOK, Before
  <2>2. /\ own'[t][m] = own[t][m] - 1
        /\ \A v \in Thread, n \in Msg : <<v, n>> # <<t, m>> => own'[v][n] = own[v][n]
    BY <1>0, <1>8, <2>1, GiveType
  <2>3. /\ pc'[t] = "unlock" /\ call'[t].op = call[t].op
        /\ \A v \in Thread : v # t => pc'[v] = pc[v] /\ call'[v] = call[v]
    BY <1>0, <1>l, <1>8, GotoType, ResultType
  <2>4. QED
    BY <1>0, <1>8, <2>1, <2>2, <2>3 DEF OwnOK, Reserved, Before
<1>9. ASSUME NEW t \in Thread, UnRefBody(t) PROVE OwnOK(u)'
  BY <1>0, <1>8, <1>9 DEF UnRefBody, At, CallInv, CallOK
<1>10. ASSUME NEW t \in Thread, SendBody(t) PROVE OwnOK(u)'
  <2>1. PICK m \in Msg : m = call[t].msg
    BY <1>0, <1>10 DEF SendBody, At, CallInv, CallOK
  <2>2. CASE Give(t, m) /\ Result(t, "ok", m)
    BY <1>8, <1>10, <2>1, <2>2 DEF SendBody, At
  <2>3. CASE UNCHANGED own
    <3>1. /\ call[t].op = "send" /\ Goto(t, "unlock") /\ UNCHANGED <<own, buffer>>
          /\ \E r \in {"ok", "notReady", "full"} : Result(t, r, m)
      BY <1>10, <2>1, <2>3 DEF SendBody, At
    <3>2. QED
      BY <1>0, <1>l, <2>1, <3>1, GotoType, ResultType DEF OwnOK, Reserved, Before
  <2>4. QED
    BY <1>10, <2>1, <2>2, <2>3 DEF SendBody
<1>11. ASSUME NEW t \in Thread, ReceiveBody(t) PROVE OwnOK(u)'
  <2>1. /\ call[t].op = "receive" /\ UNCHANGED buffer /\ Goto(t, "unlock")
        /\ t[1] \in Core
    BY <1>11, ThreadParts DEF ReceiveBody, At
  <2>2. CASE Result(t, "empty", NoMsg) /\ UNCHANGED own
    BY <1>0, <1>l, <2>1, <2>2, GotoType, ResultType DEF OwnOK, Reserved
  <2>3. ASSUME NEW m \in Msg, Result(t, "ok", m), Take(t, m) PROVE OwnOK(u)'
    BY <1>0, <1>l, <2>1, <2>3, GotoType, ResultType, TakeType DEF OwnOK, Reserved
  <2>4. QED
    BY <1>0, <1>11, <2>1, <2>2, <2>3, TailOccupied DEF ReceiveBody, QueueInv
<1>12. ASSUME NEW c \in Core, BeginReceive(c) \/ LeaveHandler(c) PROVE OwnOK(u)'
  <2>1. LET h == Handler(c) IN
        /\ UNCHANGED <<own, buffer>>
        /\ call'[h].op \in {"receive", "none"} /\ pc'[h] \in {"enter", "idle"}
        /\ call'[h].op = "receive" => call'[h].result = "none"
        /\ \A v \in Thread : v # h => pc'[v] = pc[v] /\ call'[v] = call[v]
    BY <1>0, <1>12, HandlerThread
       DEF BeginReceive, LeaveHandler, Begin, Return, Goto, NoCall, TypeOK
  <2>2. QED
    BY <1>0, <2>1, HandlerThread DEF OwnOK, Reserved
<1>13. ASSUME NEW c \in Core, CallUser(c) \/ PassOver(c) \/ Discard(c) PROVE OwnOK(u)'
  <2>1. PICK h \in Thread : h = Handler(c)
    BY HandlerThread
  <2>2. PICK m \in Msg : m = call[h].msg
    BY <1>0, <1>13, <2>1 DEF CallUser, PassOver, Discard, At, CallInv, CallOK
  <2>3. buffer[c] \notin Msg /\ own[h][m] >= 1
    <3>1. call[h].op = "receive" /\ call[h].result = "ok"
      BY <1>13, <2>1 DEF CallUser, PassOver, Discard, At
    <3>2. stage[c] = "loop"
      BY <1>0, <2>1, <3>1, HandlerOnly DEF CallInv, CallOK
    <3>3. buffer[c] \notin Msg
      BY <1>0, <3>2 DEF HandlerInv, HandlerOK
    <3>4. own[h][m] >= 1
      BY <1>0, <2>2, <3>1 DEF OwnInv, OwnOK
    <3>5. QED
      BY <3>3, <3>4
  <2>4. CASE CallUser(c)
    <3>1. /\ UNCHANGED own /\ buffer'[c] = m /\ call'[h].op = "none"
          /\ \A d \in Core : d # c => buffer'[d] = buffer[d]
          /\ \A v \in Thread : v # h => pc'[v] = pc[v] /\ call'[v] = call[v]
      BY <1>0, <1>n, <2>1, <2>2, <2>4, ReturnType DEF CallUser, TypeOK
    <3>2. CASE u = h
      BY <1>0, <2>1, <2>3, <3>1, <3>2, HandlerOnly DEF OwnOK, Reserved
    <3>3. CASE u # h
      BY <1>0, <2>1, <3>1, <3>3, HandlerOnly, ThreadParts, OthersOwn
    <3>4. QED
      BY <3>2, <3>3
  <2>5. CASE PassOver(c)
    <3>1. /\ own'[h][m] = own[h][m] - 1 /\ call'[h].op = "none" /\ UNCHANGED buffer
          /\ \A v \in Thread, n \in Msg : <<v, n>> # <<h, m>> => own'[v][n] = own[v][n]
          /\ \A v \in Thread : v # h => pc'[v] = pc[v] /\ call'[v] = call[v]
      <4>1. Return(h) /\ Give(h, m) /\ UNCHANGED buffer
        BY <2>1, <2>2, <2>5 DEF PassOver
      <4>2. own[h][m] > 0
        BY <1>0, <2>3 DEF TypeOK
      <4>3. QED
        BY <1>0, <1>n, <4>1, <4>2, ReturnType, GiveType
    <3>2. CASE u = h
      BY <1>0, <2>1, <2>3, <3>1, <3>2, HandlerOnly DEF OwnOK, Reserved
    <3>3. CASE u # h
      BY <1>0, <2>1, <3>1, <3>3 DEF OwnOK, Reserved
    <3>4. QED
      BY <3>2, <3>3
  <2>6. CASE Discard(c)
    <3>1. /\ UNCHANGED <<own, buffer>> /\ call'[h].op = "unref" /\ call'[h].msg = m
          /\ \A v \in Thread : v # h => pc'[v] = pc[v] /\ call'[v] = call[v]
      BY <1>0, <2>1, <2>2, <2>6 DEF Discard, Begin, TypeOK
    <3>2. CASE u = h
      BY <1>0, <2>1, <2>3, <3>1, <3>2, HandlerOnly DEF OwnOK, Reserved
    <3>3. CASE u # h
      BY <1>0, <3>1, <3>3, OthersOwn
    <3>4. QED
      BY <3>2, <3>3
  <2>7. QED
    BY <1>13, <2>4, <2>5, <2>6
<1>14. ASSUME NEW c \in Core, EndCallback(c) PROVE OwnOK(u)'
  <2>1. PICK h \in Thread : h = Handler(c)
    BY HandlerThread
  <2>2. PICK m \in Msg : m = buffer[c]
    BY <1>0, <1>14 DEF EndCallback, HandlerInv, HandlerOK
  <2>3. own[h][m] >= 1
    BY <1>0, <2>1, <2>2, HandlerOnly DEF OwnInv, OwnOK, Reserved
  <2>4. /\ UNCHANGED own /\ call'[h].op = "unref" /\ call'[h].msg = m /\ buffer'[c] = NoMsg
        /\ \A d \in Core : d # c => buffer'[d] = buffer[d]
        /\ \A v \in Thread : v # h => pc'[v] = pc[v] /\ call'[v] = call[v]
    BY <1>0, <1>14, <2>1, <2>2 DEF EndCallback, Begin, TypeOK
  <2>5. CASE u = h
    BY <1>0, <2>1, <2>3, <2>4, <2>5, HandlerOnly DEF OwnOK, Reserved
  <2>6. CASE u # h
    BY <1>0, <2>1, <2>4, <2>6, HandlerOnly, ThreadParts, OthersOwn
  <2>7. QED
    BY <2>5, <2>6
<1>15. CASE UNCHANGED vars
  BY <1>0, <1>15, OthersOwn DEF vars
<1>16. QED
  BY <1>1, <1>2, <1>3, <1>4, <1>5, <1>6, <1>7, <1>9, <1>10, <1>11, <1>12, <1>13,
     <1>14, <1>15 DEF Next, Continue, Handle

-----------------------------------------------------------------------------
(* The first inductive invariant and what follows from it *)

LEMMA InitLock == Init => LockInv
<1> SUFFICES ASSUME Init PROVE LockInv
  OBVIOUS
<1>1. TypeOK
  BY InitType
<1>2. MutualExclusion /\ MaskInv
  BY DEF Init, MutualExclusion, Locked, MaskInv, Critical
<1>3. CallInv
  BY DEF Init, CallInv, CallOK, NoCall
<1>4. HandlerInv
  BY HandlerThread DEF Init, HandlerInv, HandlerOK
<1>5. QueueInv
  BY DEF Init, QueueInv, Occupied
<1>6. OwnInv
  BY ThreadParts DEF Init, OwnInv, OwnOK, Reserved, NoCall
<1>7. QED
  BY <1>1, <1>2, <1>3, <1>4, <1>5, <1>6 DEF LockInv

LEMMA StepLock == LockInv /\ [Next]_vars => LockInv'
BY StepType, StepMutualExclusion, StepMask, StepCall, StepHandler, StepQueue, StepOwn
   DEF LockInv

LEMMA LockInvariant == Spec => []LockInv
BY InitLock, StepLock, PTL DEF Spec

\* The variables keep their types: in particular no thread gives away more
\* references than it holds and no index leaves its queue.
THEOREM TypeCorrect == Spec => []TypeOK
<1>1. LockInv => TypeOK
  BY DEF LockInv
<1>2. QED
  BY <1>1, LockInvariant, PTL

\* The spin lock of sae_lock.c, taken with local interrupts disabled, admits
\* one thread of the system to the shared structure, however many cores and
\* interrupt levels compete for it.
THEOREM LockExcludes == Spec => []MutualExclusion
<1>1. LockInv => MutualExclusion
  BY DEF LockInv
<1>2. QED
  BY <1>1, LockInvariant, PTL

\* No level of a core is active above one that holds the lock: nobody ever
\* spins on a lock that its own core holds.
THEOREM LockIsNotPreempted == Spec => []NoSelfDeadlock
<1>1. LockInv => NoSelfDeadlock
  BY DEF LockInv, MaskInv, Critical, NoSelfDeadlock, Locked
<1>2. QED
  BY <1>1, LockInvariant, PTL

-----------------------------------------------------------------------------
(* A queue with a message in it has somebody about to look at it *)

\* A send succeeds only to a core that is ready, and no core stops being so.
LEMMA StepSend ==
  ASSUME Signal = {TRUE}, LockInv, SendInv, [Next]_vars
  PROVE  SendInv'
<1> SUFFICES ASSUME NEW u \in Thread PROVE SendOK(u)'
  BY DEF SendInv
<1> USE DEF shared, heap, setup, irq, ghost
<1>0. TypeOK /\ CallInv /\ HandlerInv /\ QueueInv /\ SendOK(u) /\ call[u] \in Calls
  BY DEF LockInv, SendInv, TypeOK
<1>n. NoCall.op = "none"
  BY DEF NoCall
<1>r. ready \subseteq ready'
  BY DEF Next, Client, Continue, Handle, Initialize, RegisterCallback, BeginCreate,
         BeginRef, BeginUnRef, BeginSend, EnterCritical, AcquireLock, ReleaseLock,
         ExitCritical, CreateBody, InitMsg, RefBody, UnRefBody, SendBody,
         RaiseInterrupt, ReceiveBody, EnterHandler, BeginReceive, LeaveHandler,
         CallUser, PassOver, Discard, EndCallback, vars
<1>o. call'[u] = call[u] \/ call'[u].op # "send" => SendOK(u)'
  BY <1>0, <1>r DEF SendOK
<1>1. ASSUME NEW c \in Core,
             Initialize(c) \/ RegisterCallback(c) \/ EnterHandler(c)
      PROVE  SendOK(u)'
  BY <1>o, <1>1 DEF Initialize, RegisterCallback, EnterHandler
<1>2. ASSUME NEW t \in Thread, Client(t) PROVE SendOK(u)'
  <2>1. CASE BeginCreate(t)
    BY <1>0, <1>o, <2>1, BeginType DEF BeginCreate
  <2>2. ASSUME NEW m \in Msg, BeginRef(t, m) \/ BeginUnRef(t, m) PROVE SendOK(u)'
    BY <1>0, <1>o, <2>2, BeginType DEF BeginRef, BeginUnRef
  <2>3. ASSUME NEW m \in Msg, NEW d \in Sends[t], BeginSend(t, m, d) PROVE SendOK(u)'
    <3>1. d \in Core
      BY DEF Thread
    <3>2. Begin(t, "send", m, d, TRUE)
      BY <2>3 DEF BeginSend
    <3>3. QED
      BY <1>0, <1>o, <3>1, <3>2, BeginType DEF SendOK
  <2>4. QED
    BY <1>2, <2>1, <2>2, <2>3 DEF Client
<1>3. ASSUME NEW t \in Thread,
             EnterCritical(t) \/ AcquireLock(t) \/ ReleaseLock(t)
             \/ RefBody(t) \/ UnRefBody(t)
      PROVE  SendOK(u)'
  BY <1>o, <1>3 DEF EnterCritical, AcquireLock, ReleaseLock, RefBody, UnRefBody
<1>4. ASSUME NEW t \in Thread, ExitCritical(t) \/ InitMsg(t) \/ RaiseInterrupt(t)
      PROVE  SendOK(u)'
  <2>1. Return(t) \/ UNCHANGED call
    BY <1>4 DEF ExitCritical, InitMsg, RaiseInterrupt
  <2>2. QED
    BY <1>0, <1>n, <1>o, <2>1, ReturnType
<1>5. ASSUME NEW t \in Thread, CreateBody(t) PROVE SendOK(u)'
  <2>1. /\ call[t].op = "create"
        /\ \E r \in {"ok", "noMem"}, m \in Msg \cup {NoMsg} : Result(t, r, m)
    BY <1>5 DEF CreateBody, At
  <2>2. QED
    BY <1>0, <1>o, <2>1, ResultType
<1>6. ASSUME NEW t \in Thread, SendBody(t) PROVE SendOK(u)'
  <2>1. /\ call[t].op = "send" /\ call[t].msg \in Msg
        /\ \/ \E r \in {"notReady", "full"} : Result(t, r, call[t].msg)
           \/ Result(t, "ok", call[t].msg) /\ call[t].dst \in ready
    BY <1>0, <1>6 DEF SendBody, At, CallInv, CallOK
  <2>2. u # t => SendOK(u)'
    BY <1>0, <1>o, <2>1, ResultType
  <2>3. CASE u = t
    BY <1>0, <1>r, <2>1, <2>3, ResultType DEF SendOK
  <2>4. QED
    BY <2>2, <2>3
<1>7. ASSUME NEW t \in Thread, ReceiveBody(t) PROVE SendOK(u)'
  <2> DEFINE m == slots[t[1]][tail[t[1]]]
  <2>1. call[t].op = "receive" /\ t[1] \in Core
    BY <1>7, ThreadParts DEF ReceiveBody, At
  <2>2. Result(t, "empty", NoMsg) \/ (Result(t, "ok", m) /\ m \in Msg)
    BY <1>0, <1>7, <2>1, TailOccupied DEF ReceiveBody, QueueInv
  <2> HIDE DEF m
  <2>3. QED
    BY <1>0, <1>o, <2>1, <2>2, ResultType
<1>8. ASSUME NEW c \in Core, BeginReceive(c) \/ Discard(c) \/ EndCallback(c)
      PROVE  SendOK(u)'
  <2>1. PICK h \in Thread : h = Handler(c)
    BY HandlerThread
  <2>2. ASSUME NEW m \in Msg \cup {NoMsg}, NEW op \in {"receive", "unref"},
               Begin(h, op, m, Master, FALSE)
        PROVE  SendOK(u)'
    <3>1. call'[h].op = op /\ \A v \in Thread : v # h => call'[v] = call[v]
      BY <1>0, <2>2 DEF Begin, TypeOK
    <3>2. QED
      BY <1>o, <3>1
  <2>3. call[h].msg \in Msg \cup {NoMsg} /\ buffer[c] \in Msg \cup {NoMsg}
    BY <1>0, CallsFields DEF TypeOK
  <2>4. QED
    BY <1>8, <2>1, <2>2, <2>3 DEF BeginReceive, Discard, EndCallback
<1>9. ASSUME NEW c \in Core, LeaveHandler(c) \/ CallUser(c) \/ PassOver(c)
      PROVE  SendOK(u)'
  <2>1. Return(Handler(c))
    BY <1>9 DEF LeaveHandler, CallUser, PassOver
  <2>2. QED
    BY <1>0, <1>n, <1>o, <2>1, HandlerThread, ReturnType
<1>10. CASE UNCHANGED vars
  BY <1>o, <1>10 DEF vars
<1>11. QED
  BY <1>1, <1>2, <1>3, <1>4, <1>5, <1>6, <1>7, <1>8, <1>9, <1>10
     DEF Next, Continue, Handle

\* A message is queued only by a send that is then going to raise the
\* interrupt.
LEMMA StaysEmpty ==
  ASSUME LockInv, [Next]_vars, NEW c \in Core, queueEmpty(c)
  PROVE  queueEmpty(c)' \/ WillRaise(c)'
<1> USE DEF shared, heap, setup, irq, ghost
<1>0. TypeOK /\ CallInv
  BY DEF LockInv
<1>1. CASE UNCHANGED <<head, tail>>
  BY <1>1 DEF queueEmpty
<1>2. ASSUME NEW t \in Thread, SendBody(t) PROVE queueEmpty(c)' \/ WillRaise(c)'
  <2>1. /\ Goto(t, "unlock") /\ call[t].op = "send" /\ call[t].msg \in Msg
        /\ call[t].dst \in Core
    BY <1>0, <1>2, CallsFields DEF SendBody, At, CallInv, CallOK, TypeOK
  <2>2. CASE UNCHANGED <<head, tail>>
    BY <1>1, <2>2
  <2>3. CASE /\ head' = [head EXCEPT ![call[t].dst] = Inc(@)] /\ UNCHANGED tail
             /\ Result(t, "ok", call[t].msg)
    <3>1. CASE call[t].dst = c
      <4>1. pc'[t] = "unlock"
        BY <1>0, <2>1, GotoType DEF Labels
      <4>2. call'[t].op = "send" /\ call'[t].dst = c /\ call'[t].result = "ok"
        BY <1>0, <2>1, <2>3, <3>1, ResultType
      <4>3. QED
        BY <4>1, <4>2 DEF WillRaise
    <3>2. CASE call[t].dst # c
      BY <1>0, <2>1, <2>3, <3>2 DEF queueEmpty, TypeOK
    <3>3. QED
      BY <3>1, <3>2
  <2>4. QED
    BY <1>2, <2>2, <2>3 DEF SendBody
<1>3. ASSUME NEW t \in Thread, ReceiveBody(t) PROVE queueEmpty(c)' \/ WillRaise(c)'
  <2>1. CASE UNCHANGED <<head, tail>>
    BY <1>1, <2>1
  <2>2. CASE /\ ~queueEmpty(t[1]) /\ UNCHANGED head
             /\ tail' = [tail EXCEPT ![t[1]] = Inc(@)]
    <3>1. t[1] # c
      BY <2>2
    <3>2. QED
      BY <1>0, <2>2, <3>1, ThreadParts DEF queueEmpty, TypeOK
  <2>3. QED
    BY <1>3, <2>1, <2>2 DEF ReceiveBody
<1>4. QED
  BY <1>1, <1>2, <1>3
     DEF Next, Continue, Handle, Client, Initialize, RegisterCallback, BeginCreate,
         BeginRef, BeginUnRef, BeginSend, EnterCritical, AcquireLock, ReleaseLock,
         ExitCritical, CreateBody, InitMsg, RefBody, UnRefBody, RaiseInterrupt,
         EnterHandler, BeginReceive, LeaveHandler, CallUser, PassOver, Discard,
         EndCallback, vars

\* A sender that has queued its message goes on until it raises the interrupt.
LEMMA RaiseComes ==
  ASSUME LockInv, SendInv, [Next]_vars, NEW c \in Core, WillRaise(c)
  PROVE  WillRaise(c)' \/ c \in pending'
<1> USE DEF shared, heap, setup, irq, ghost
<1>0. TypeOK /\ CallInv
  BY DEF LockInv
<1>1. PICK u \in Thread :
        /\ call[u].op = "send" /\ call[u].dst = c /\ call[u].result = "ok"
        /\ pc[u] \in {"unlock", "exit", "after"}
  BY DEF WillRaise
<1>2. call[u].signal /\ c \in ready
  BY <1>1 DEF SendInv, SendOK
<1>o. call'[u] = call[u] /\ pc'[u] \in {"unlock", "exit", "after"} => WillRaise(c)'
  BY <1>1 DEF WillRaise
<1>3. ASSUME NEW d \in Core, Initialize(d) \/ RegisterCallback(d) \/ EnterHandler(d)
      PROVE  WillRaise(c)'
  BY <1>1, <1>o, <1>3 DEF Initialize, RegisterCallback, EnterHandler
<1>4. ASSUME NEW t \in Thread, Client(t) PROVE WillRaise(c)'
  <2>1. /\ t # u /\ pc' = [pc EXCEPT ![t] = "enter"]
        /\ \E r : call' = [call EXCEPT ![t] = r]
    BY <1>1, <1>4 DEF Client, BeginCreate, BeginRef, BeginUnRef, BeginSend, Begin, InClient
  <2>2. QED
    BY <1>0, <1>1, <1>o, <2>1 DEF TypeOK
<1>5. ASSUME NEW t \in Thread, EnterCritical(t) \/ AcquireLock(t) \/ ReleaseLock(t)
      PROVE  WillRaise(c)'
  <2>1. /\ UNCHANGED call
        /\ \/ pc[t] = "enter" /\ pc' = [pc EXCEPT ![t] = "spin"]
           \/ pc[t] = "spin" /\ pc' = [pc EXCEPT ![t] = "body"]
           \/ pc[t] = "unlock" /\ pc' = [pc EXCEPT ![t] = "exit"]
    BY <1>5 DEF EnterCritical, AcquireLock, ReleaseLock, Goto
  <2>2. QED
    BY <1>0, <1>1, <1>o, <2>1 DEF TypeOK
<1>6. ASSUME NEW t \in Thread, ExitCritical(t) PROVE WillRaise(c)'
  <2>1. Remaining(u)
    BY <1>1, <1>2 DEF Remaining
  <2>2. \/ /\ call' = [call EXCEPT ![t] = NoCall] /\ t # u
           /\ pc' = [pc EXCEPT ![t] = "idle"]
        \/ UNCHANGED call /\ pc' = [pc EXCEPT ![t] = "after"]
    BY <1>6, <2>1 DEF ExitCritical, Return, Goto
  <2>3. QED
    BY <1>0, <1>1, <1>o, <2>2 DEF TypeOK
<1>7. ASSUME NEW t \in Thread,
             CreateBody(t) \/ RefBody(t) \/ UnRefBody(t) \/ SendBody(t) \/ ReceiveBody(t)
      PROVE  WillRaise(c)'
  <2>1. t # u /\ pc' = [pc EXCEPT ![t] = "unlock"]
    BY <1>1, <1>7 DEF CreateBody, RefBody, UnRefBody, SendBody, ReceiveBody, At, Goto
  <2>2. UNCHANGED call \/ \E r : call' = [call EXCEPT ![t] = r]
    BY <1>7 DEF CreateBody, RefBody, UnRefBody, SendBody, ReceiveBody, Result
  <2>3. QED
    BY <1>0, <1>1, <1>o, <2>1, <2>2 DEF TypeOK
<1>8. ASSUME NEW t \in Thread, InitMsg(t) PROVE WillRaise(c)'
  <2>1. t # u /\ Return(t)
    BY <1>1, <1>8 DEF InitMsg, At
  <2>2. QED
    BY <1>0, <1>1, <1>o, <2>1, ReturnType
<1>9. ASSUME NEW t \in Thread, RaiseInterrupt(t) PROVE WillRaise(c)' \/ c \in pending'
  <2>1. CASE t = u
    BY <1>1, <1>2, <1>9, <2>1 DEF RaiseInterrupt
  <2>2. CASE t # u
    BY <1>0, <1>1, <1>o, <1>9, <2>2, ReturnType DEF RaiseInterrupt
  <2>3. QED
    BY <2>1, <2>2
<1>10. ASSUME NEW d \in Core,
              BeginReceive(d) \/ LeaveHandler(d) \/ CallUser(d) \/ PassOver(d)
              \/ Discard(d) \/ EndCallback(d)
       PROVE  WillRaise(c)'
  <2>1. u # Handler(d)
    BY <1>1, <1>10 DEF BeginReceive, LeaveHandler, CallUser, PassOver, Discard,
                       EndCallback, At
  <2>2. /\ \E l : pc' = [pc EXCEPT ![Handler(d)] = l]
        /\ \E r : call' = [call EXCEPT ![Handler(d)] = r]
    BY <1>10 DEF BeginReceive, LeaveHandler, CallUser, PassOver, Discard,
                 EndCallback, Begin, Return, Goto
  <2>3. QED
    BY <1>0, <1>1, <1>o, <2>1, <2>2 DEF TypeOK
<1>11. CASE UNCHANGED vars
  BY <1>1, <1>o, <1>11 DEF vars
<1>12. QED
  BY <1>3, <1>4, <1>5, <1>6, <1>7, <1>8, <1>9, <1>10, <1>11
     DEF Next, Continue, Handle

\* A handler gives up only when its dequeue has found the queue empty.
LEMMA HandlerLooks ==
  ASSUME LockInv, [Next]_vars, NEW c \in Core, WillReceive(c)
  PROVE  WillReceive(c)' \/ queueEmpty(c)'
<1> USE DEF shared, heap, setup, irq, ghost
<1> DEFINE h == Handler(c)
<1>0. /\ TypeOK /\ CallInv /\ HandlerInv /\ CallOK(h) /\ h \in Thread
      /\ h[1] = c /\ h[2] = IrqLevel
  BY HandlerThread, HandlerOnly DEF LockInv, CallInv
<1>i. /\ stage[c] # "off"
      /\ \/ call[h].op # "receive" \/ pc[h] \in {"enter", "spin", "body"}
         \/ call[h].result = "ok"
  BY DEF WillReceive
<1>n. NoCall.op = "none"
  BY DEF NoCall
<1>o. /\ stage'[c] # "off" /\ call'[h] = call[h] /\ pc'[h] = pc[h] => WillReceive(c)'
      /\ stage'[c] # "off" /\ call'[h].op # "receive" => WillReceive(c)'
      /\ stage'[c] # "off" /\ pc'[h] = "enter" => WillReceive(c)'
  BY <1>i DEF WillReceive
<1>p. stage'[c] # "off" /\ call'[h] = call[h]
         /\ (pc'[h] \in {"enter", "spin", "body"} \/ pc[h] \in {"unlock", "exit", "after"})
      => WillReceive(c)'
  BY <1>i DEF WillReceive
<1> HIDE DEF h
<1>3. ASSUME NEW d \in Core, Initialize(d) \/ RegisterCallback(d) PROVE WillReceive(c)'
  BY <1>i, <1>o, <1>3 DEF Initialize, RegisterCallback
<1>4. ASSUME NEW t \in Thread, Client(t) PROVE WillReceive(c)'
  <2>1. /\ pc' = [pc EXCEPT ![t] = "enter"] /\ UNCHANGED stage
        /\ \E r : call' = [call EXCEPT ![t] = r]
    BY <1>4 DEF Client, BeginCreate, BeginRef, BeginUnRef, BeginSend, Begin
  <2>2. QED
    BY <1>0, <1>i, <1>o, <2>1 DEF TypeOK
<1>5. ASSUME NEW t \in Thread, EnterCritical(t) \/ AcquireLock(t) \/ ReleaseLock(t)
      PROVE  WillReceive(c)'
  <2>1. /\ UNCHANGED <<call, stage>>
        /\ \/ pc[t] = "enter" /\ pc' = [pc EXCEPT ![t] = "spin"]
           \/ pc[t] = "spin" /\ pc' = [pc EXCEPT ![t] = "body"]
           \/ pc[t] = "unlock" /\ pc' = [pc EXCEPT ![t] = "exit"]
    BY <1>5 DEF EnterCritical, AcquireLock, ReleaseLock, Goto
  <2>2. QED
    BY <1>0, <1>i, <1>o, <1>p, <2>1 DEF TypeOK
<1>6. ASSUME NEW t \in Thread, ExitCritical(t) PROVE WillReceive(c)'
  <2>1. /\ UNCHANGED stage /\ pc[t] = "exit"
        /\ \/ /\ call' = [call EXCEPT ![t] = NoCall]
              /\ pc' = [pc EXCEPT ![t] = "idle"]
           \/ UNCHANGED call /\ pc' = [pc EXCEPT ![t] = "after"]
    BY <1>6 DEF ExitCritical, Return, Goto
  <2>2. QED
    BY <1>0, <1>i, <1>n, <1>o, <1>p, <2>1 DEF TypeOK
<1>7. ASSUME NEW t \in Thread,
             CreateBody(t) \/ RefBody(t) \/ UnRefBody(t) \/ SendBody(t)
      PROVE  WillReceive(c)'
  <2>1. /\ UNCHANGED stage /\ pc' = [pc EXCEPT ![t] = "unlock"]
        /\ call[t].op # "receive"
    BY <1>7 DEF CreateBody, RefBody, UnRefBody, SendBody, At, Goto
  <2>2. \/ UNCHANGED call
        \/ \E m, r : call' = [call EXCEPT ![t] =
                               [op |-> @.op, msg |-> m, dst |-> @.dst,
                                signal |-> @.signal, result |-> r]]
    BY <1>7 DEF CreateBody, RefBody, UnRefBody, SendBody, Result
  <2>3. QED
    BY <1>0, <1>i, <1>o, <2>1, <2>2 DEF TypeOK
<1>8. ASSUME NEW t \in Thread, ReceiveBody(t) PROVE WillReceive(c)' \/ queueEmpty(c)'
  <2>1. UNCHANGED <<stage, head>> /\ pc' = [pc EXCEPT ![t] = "unlock"]
    BY <1>8 DEF ReceiveBody, Goto
  <2>2. CASE t # h
    <3>1. \E r : call' = [call EXCEPT ![t] = r]
      BY <1>8 DEF ReceiveBody, Result
    <3>2. QED
      BY <1>0, <1>i, <1>o, <2>1, <2>2, <3>1 DEF TypeOK
  <2>3. CASE t = h
    <3>1. CASE queueEmpty(c) /\ UNCHANGED tail
      BY <2>1, <3>1 DEF queueEmpty
    <3>2. CASE \E m : Result(t, "ok", m)
      <4>1. call'[h].result = "ok"
        BY <1>0, <2>3, <3>2 DEF Result, TypeOK
      <4>2. QED
        BY <1>i, <2>1, <4>1 DEF WillReceive, h
    <3>3. QED
      BY <1>0, <1>8, <2>3, <3>1, <3>2 DEF ReceiveBody
  <2>4. QED
    BY <2>2, <2>3
<1>9. ASSUME NEW t \in Thread, InitMsg(t) \/ RaiseInterrupt(t) PROVE WillReceive(c)'
  BY <1>0, <1>i, <1>n, <1>o, <1>9, ReturnType DEF InitMsg, RaiseInterrupt
<1>10. ASSUME NEW d \in Core, Handle(d) PROVE WillReceive(c)'
  <2>1. CASE d # c
    <3>1. /\ Handler(d) # h
          /\ UNCHANGED stage \/ \E s : stage' = [stage EXCEPT ![d] = s]
          /\ \/ UNCHANGED <<pc, call>>
             \/ /\ \E l : pc' = [pc EXCEPT ![Handler(d)] = l]
                /\ \E r : call' = [call EXCEPT ![Handler(d)] = r]
      BY <1>10, <2>1
         DEF Handle, EnterHandler, BeginReceive, LeaveHandler, CallUser, PassOver,
             Discard, EndCallback, Begin, Return, Goto, Handler, h
    <3>2. stage'[c] = stage[c] /\ pc'[h] = pc[h] /\ call'[h] = call[h]
      BY <1>0, <2>1, <3>1 DEF TypeOK
    <3>3. QED
      BY <1>i, <1>o, <3>2
  <2>2. CASE d = c
    <3>1. ~EnterHandler(c) /\ ~LeaveHandler(c)
      BY <1>i DEF EnterHandler, LeaveHandler, At, h
    <3>2. /\ \/ UNCHANGED stage /\ Return(h)
             \/ stage' = [stage EXCEPT ![c] = "callback"] /\ Return(h)
             \/ UNCHANGED stage /\ pc' = [pc EXCEPT ![h] = "enter"]
             \/ stage' = [stage EXCEPT ![c] = "loop"] /\ pc' = [pc EXCEPT ![h] = "enter"]
      BY <1>10, <2>2, <3>1
         DEF Handle, BeginReceive, CallUser, PassOver, Discard, EndCallback, Begin, h
    <3>3. stage'[c] # "off" /\ (pc'[h] = "enter" \/ call'[h].op # "receive")
      <4>1. Return(h) => call'[h].op # "receive"
        BY <1>0, <1>n, ReturnType
      <4>2. pc' = [pc EXCEPT ![h] = "enter"] => pc'[h] = "enter"
        BY <1>0 DEF TypeOK
      <4>3. stage'[c] # "off"
        BY <1>0, <1>i, <3>2 DEF TypeOK
      <4>4. QED
        BY <3>2, <4>1, <4>2, <4>3
    <3>4. QED
      BY <1>o, <3>3
  <2>3. QED
    BY <2>1, <2>2
<1>11. CASE UNCHANGED vars
  BY <1>i, <1>o, <1>11 DEF vars
<1>12. QED
  BY <1>3, <1>4, <1>5, <1>6, <1>7, <1>8, <1>9, <1>10, <1>11 DEF Next, Continue

\* The edge is consumed only by the handler it starts.
LEMMA EdgeStarts ==
  ASSUME LockInv, [Next]_vars, NEW c \in Core, c \in pending
  PROVE  c \in pending' \/ WillReceive(c)'
<1> USE DEF shared, heap, setup, irq, ghost
<1>1. ASSUME NEW d \in Core, EnterHandler(d) PROVE c \in pending' \/ WillReceive(c)'
  <2>1. CASE d # c
    BY <1>1, <2>1 DEF EnterHandler
  <2>2. CASE d = c
    <3>1. /\ stage' = [stage EXCEPT ![c] = "loop"] /\ UNCHANGED call
          /\ pc[Handler(c)] = "idle"
      BY <1>1, <2>2 DEF EnterHandler
    <3>2. call[Handler(c)].op = "none"
      BY <3>1, HandlerThread DEF LockInv, CallInv, CallOK, NoCall
    <3>3. stage'[c] = "loop"
      BY <3>1 DEF LockInv, TypeOK
    <3>4. QED
      BY <3>1, <3>2, <3>3 DEF WillReceive
  <2>3. QED
    BY <2>1, <2>2
<1>2. CASE pending \subseteq pending'
  BY <1>2
<1>3. ASSUME NEW t \in Thread, Client(t) \/ Continue(t) PROVE pending \subseteq pending'
  BY <1>3
     DEF Client, Continue, BeginCreate, BeginRef, BeginUnRef, BeginSend, EnterCritical,
         AcquireLock, ReleaseLock, ExitCritical, CreateBody, InitMsg, RefBody,
         UnRefBody, SendBody, RaiseInterrupt, ReceiveBody
<1>4. QED
  BY <1>1, <1>2, <1>3
     DEF Next, Handle, Initialize, RegisterCallback, BeginReceive, LeaveHandler,
         CallUser, PassOver, Discard, EndCallback, vars

LEMMA StepWake ==
  ASSUME Signal = {TRUE}, WakeInv, [Next]_vars PROVE WakeInv'
<1>1. LockInv' /\ SendInv'
  BY StepLock, StepSend DEF WakeInv
<1>2. ASSUME NEW c \in Core
      PROVE  queueEmpty(c)' \/ c \in pending' \/ WillReceive(c)' \/ WillRaise(c)'
  BY StaysEmpty, RaiseComes, HandlerLooks, EdgeStarts DEF WakeInv, NoLostWakeup
<1>3. NoLostWakeup'
  BY <1>2 DEF NoLostWakeup
<1>4. QED
  BY <1>1, <1>3 DEF WakeInv

\* The interrupt is edge sensitive and raised after the unlock, the queue is
\* emptied in a loop: when every send asks for the signal, as all of the
\* repository's do, a queue with a message in it always has an interrupt
\* pending or about to be raised, or a handler that has yet to look.
THEOREM WakeupsAreKept == Signal = {TRUE} => (Spec => []NoLostWakeup)
<1> SUFFICES ASSUME Signal = {TRUE} PROVE Spec => []NoLostWakeup
  OBVIOUS
<1>1. Init => WakeInv
  <2>1. Init => SendInv
    BY DEF Init, SendInv, SendOK, NoCall
  <2>2. Init => NoLostWakeup
    BY DEF Init, NoLostWakeup, queueEmpty
  <2>3. QED
    BY <2>1, <2>2, InitLock DEF WakeInv
<1>2. WakeInv /\ [Next]_vars => WakeInv'
  BY StepWake
<1>3. WakeInv => NoLostWakeup
  BY DEF WakeInv
<1>4. QED
  BY <1>1, <1>2, <1>3, PTL DEF Spec

=============================================================================
