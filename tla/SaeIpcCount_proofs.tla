------------------------- MODULE SaeIpcCount_proofs -------------------------
(***************************************************************************)
(* Proofs about the reference counters of SaeIpc: each step adds, removes  *)
(* or moves at most one reference, so the set of references and the        *)
(* counter change together.  So SaeIpc implements MsgBus: its rings are    *)
(* queues, and the step that brings a counter to zero is the one that      *)
(* removes the last reference.                                             *)
(***************************************************************************)
EXTENDS SaeIpc_proofs, FiniteSetTheorems, Sequences

-----------------------------------------------------------------------------
(* The references to a message *)

LEMMA HeldMember ==
  \A m, x : x \in Held(m) <=> \E t \in Thread : \E i \in 1 .. own[t][m] : x = <<"thread", t, i>>
BY DEF Held

LEMMA QueuedMember ==
  \A m, x : x \in Queued(m) <=>
              \E c \in Core : \E i \in Occupied(c) : slots[c][i] = m /\ x = <<"queue", c, i>>
BY DEF Queued

LEMMA DroppedMember ==
  \A m, x : x \in Dropped(m) <=> \E i \in 1 .. lost[m] : x = <<"lost", m, i>>
BY DEF Dropped

LEMMA OwnHolder ==
  ASSUME TypeOK, NEW t \in Thread, NEW m \in Msg, own[t][m] > 0
  PROVE  <<"thread", t, 1>> \in Holders(m) /\ <<"thread", t, own[t][m]>> \in Holders(m)
<1>1. own[t][m] \in Nat
  BY DEF TypeOK
<1>2. 1 \in 1 .. own[t][m] /\ own[t][m] \in 1 .. own[t][m]
  BY <1>1
<1>3. QED
  BY <1>2, HeldMember DEF Holders

LEMMA SlotHolder ==
  ASSUME NEW c \in Core, NEW i \in Occupied(c)
  PROVE  <<"queue", c, i>> \in Holders(slots[c][i])
BY QueuedMember DEF Holders

\* The three sorts of references are apart.
LEMMA HoldersApart ==
  /\ \A t, i, m : /\ <<"thread", t, i>> \notin Queued(m)
                  /\ <<"thread", t, i>> \notin Dropped(m)
  /\ \A c, i, m : /\ <<"queue", c, i>> \notin Held(m)
                  /\ <<"queue", c, i>> \notin Dropped(m)
  /\ \A n, i, m : /\ <<"lost", n, i>> \notin Held(m)
                  /\ <<"lost", n, i>> \notin Queued(m)
BY HeldMember, QueuedMember, DroppedMember

-----------------------------------------------------------------------------
(* How a step changes them *)

LEMMA SameHeld    == \A m : own' = own => Held(m)' = Held(m)
BY DEF Held
LEMMA SameQueued  == \A m : UNCHANGED <<slots, head, tail>> => Queued(m)' = Queued(m)
BY DEF Queued, Occupied
LEMMA SameDropped == \A m : lost' = lost => Dropped(m)' = Dropped(m)
BY DEF Dropped

LEMMA SameHolders ==
  ASSUME UNCHANGED <<own, slots, head, tail, lost>>
  PROVE  \A m : Holders(m)' = Holders(m)
BY SameHeld, SameQueued, SameDropped DEF Holders

LEMMA TakeHeld ==
  ASSUME TypeOK, NEW t \in Thread, NEW m \in Msg, Take(t, m)
  PROVE  /\ Held(m)' = Held(m) \cup {<<"thread", t, own[t][m] + 1>>}
         /\ <<"thread", t, own[t][m] + 1>> \notin Held(m)
         /\ \A n \in Msg : n # m => Held(n)' = Held(n)
<1>0. own \in [Thread -> [Msg -> Nat]]
  BY DEF TypeOK
<1>1. /\ own'[t][m] = own[t][m] + 1
      /\ \A u \in Thread, n \in Msg : <<u, n>> # <<t, m>> => own'[u][n] = own[u][n]
  BY TakeType
<1>2. 1 .. own'[t][m] = (1 .. own[t][m]) \cup {own[t][m] + 1}
  BY <1>0, <1>1
<1>3. \A x : x \in Held(m)' <=> x \in Held(m) \/ x = <<"thread", t, own[t][m] + 1>>
  BY <1>1, <1>2, HeldMember DEF Held
<1>4. <<"thread", t, own[t][m] + 1>> \notin Held(m)
  BY <1>0, HeldMember
<1>5. \A n \in Msg : n # m => Held(n)' = Held(n)
  BY <1>1 DEF Held
<1>6. QED
  BY <1>3, <1>4, <1>5

LEMMA GiveHeld ==
  ASSUME TypeOK, NEW t \in Thread, NEW m \in Msg, own[t][m] > 0, Give(t, m)
  PROVE  /\ Held(m)' = Held(m) \ {<<"thread", t, own[t][m]>>}
         /\ <<"thread", t, own[t][m]>> \in Held(m)
         /\ \A n \in Msg : n # m => Held(n)' = Held(n)
<1>0. own \in [Thread -> [Msg -> Nat]]
  BY DEF TypeOK
<1>1. /\ own'[t][m] = own[t][m] - 1
      /\ \A u \in Thread, n \in Msg : <<u, n>> # <<t, m>> => own'[u][n] = own[u][n]
  BY GiveType
<1>2. 1 .. own'[t][m] = (1 .. own[t][m]) \ {own[t][m]}
  BY <1>0, <1>1
<1>3. \A x : x \in Held(m)' <=> x \in Held(m) /\ x # <<"thread", t, own[t][m]>>
  BY <1>1, <1>2, HeldMember DEF Held
<1>4. <<"thread", t, own[t][m]>> \in Held(m)
  BY <1>0, HeldMember
<1>5. \A n \in Msg : n # m => Held(n)' = Held(n)
  BY <1>1 DEF Held
<1>6. QED
  BY <1>3, <1>4, <1>5

LEMMA EnqueueQueued ==
  ASSUME TypeOK, NEW d \in Core, NEW m \in Msg, ~queueFull(d), tail' = tail,
         slots' = [slots EXCEPT ![d][head[d]] = m],
         head'  = [head EXCEPT ![d] = Inc(@)]
  PROVE  /\ Queued(m)' = Queued(m) \cup {<<"queue", d, head[d]>>}
         /\ <<"queue", d, head[d]>> \notin Queued(m)
         /\ \A n \in Msg : n # m => Queued(n)' = Queued(n)
<1>1. /\ Occupied(d)' = Occupied(d) \cup {head[d]}
      /\ \A c \in Core : c # d => Occupied(c)' = Occupied(c)
      /\ head[d] \notin Occupied(d)
  BY SendOccupies, HeadFree
<1>2. /\ slots'[d][head[d]] = m
      /\ \A i \in 0 .. QSize - 1 : i # head[d] => slots'[d][i] = slots[d][i]
      /\ \A c \in Core : c # d => slots'[c] = slots[c]
  BY DEF TypeOK
<1>3. \A c \in Core : \A i \in Occupied(c) : i \in 0 .. QSize - 1
  BY DEF Occupied
<1>4. \A c \in Core : \A i : i \in Occupied(c)' <=> i \in Occupied(c) \/ (c = d /\ i = head[d])
  BY <1>1
<1>5. \A c \in Core : \A i \in Occupied(c) : slots'[c][i] = slots[c][i]
  BY <1>1, <1>2, <1>3
<1>6. \A n, x : x \in Queued(n)' <=>
        \E c \in Core : \E i \in Occupied(c)' : slots'[c][i] = n /\ x = <<"queue", c, i>>
  BY QueuedMember DEF Queued
<1>7. \A n, x : x \in Queued(n)' <=>
        x \in Queued(n) \/ (n = m /\ x = <<"queue", d, head[d]>>)
  BY <1>2, <1>4, <1>5, <1>6, QueuedMember
<1>8. <<"queue", d, head[d]>> \notin Queued(m)
  BY <1>1, QueuedMember
<1>9. \A x : x \in Queued(m)' <=> x \in Queued(m) \/ x = <<"queue", d, head[d]>>
  BY <1>7
<1>10. ASSUME NEW n \in Msg, n # m PROVE Queued(n)' = Queued(n)
  <2>1. \A x : x \in Queued(n)' <=> x \in Queued(n)
    BY <1>7, <1>10
  <2>2. QED
    BY <2>1
<1>11. QED
  BY <1>8, <1>9, <1>10

LEMMA DequeueQueued ==
  ASSUME TypeOK, NEW c \in Core, NEW m \in Msg, ~queueEmpty(c), m = slots[c][tail[c]],
         UNCHANGED <<slots, head>>, tail' = [tail EXCEPT ![c] = Inc(@)]
  PROVE  /\ Queued(m)' = Queued(m) \ {<<"queue", c, tail[c]>>}
         /\ <<"queue", c, tail[c]>> \in Queued(m)
         /\ \A n \in Msg : n # m => Queued(n)' = Queued(n)
<1>1. /\ Occupied(c)' = Occupied(c) \ {tail[c]}
      /\ \A d \in Core : d # c => Occupied(d)' = Occupied(d)
      /\ tail[c] \in Occupied(c)
  BY ReceiveVacates, TailOccupied
<1>2. \A d \in Core : \A i : i \in Occupied(d)' <=> i \in Occupied(d) /\ ~(d = c /\ i = tail[c])
  BY <1>1
<1>3. \A n, x : x \in Queued(n)' <=>
        \E d \in Core : \E i \in Occupied(d)' : slots[d][i] = n /\ x = <<"queue", d, i>>
  BY DEF Queued
<1>4. \A n, x : x \in Queued(n)' <=> x \in Queued(n) /\ x # <<"queue", c, tail[c]>>
  BY <1>2, <1>3, QueuedMember
<1>5. <<"queue", c, tail[c]>> \in Queued(m)
  BY <1>1, QueuedMember
<1>6. \A n \in Msg : n # m => <<"queue", c, tail[c]>> \notin Queued(n)
  BY QueuedMember
<1>7. \A x : x \in Queued(m)' <=> x \in Queued(m) /\ x # <<"queue", c, tail[c]>>
  BY <1>4
<1>8. ASSUME NEW n \in Msg, n # m PROVE Queued(n)' = Queued(n)
  <2>1. \A x : x \in Queued(n)' <=> x \in Queued(n)
    BY <1>4, <1>6, <1>8
  <2>2. QED
    BY <2>1
<1>9. QED
  BY <1>5, <1>7, <1>8

LEMMA DropDropped ==
  ASSUME TypeOK, NEW m \in Msg, lost' = [lost EXCEPT ![m] = @ + 1]
  PROVE  /\ Dropped(m)' = Dropped(m) \cup {<<"lost", m, lost[m] + 1>>}
         /\ <<"lost", m, lost[m] + 1>> \notin Dropped(m)
         /\ \A n \in Msg : n # m => Dropped(n)' = Dropped(n)
<1>1. /\ lost[m] \in Nat /\ lost'[m] = lost[m] + 1
      /\ \A n \in Msg : n # m => lost'[n] = lost[n]
  BY DEF TypeOK
<1>2. 1 .. lost'[m] = (1 .. lost[m]) \cup {lost[m] + 1}
  BY <1>1
<1>3. \A x : x \in Dropped(m)' <=> x \in Dropped(m) \/ x = <<"lost", m, lost[m] + 1>>
  BY <1>2, DroppedMember DEF Dropped
<1>4. <<"lost", m, lost[m] + 1>> \notin Dropped(m)
  BY <1>1, DroppedMember
<1>5. \A n \in Msg : n # m => Dropped(n)' = Dropped(n)
  BY <1>1 DEF Dropped
<1>6. QED
  BY <1>3, <1>4, <1>5

-----------------------------------------------------------------------------
(* What the invariant says of a message somebody refers to *)

\* A message a thread other than its creator, or a queue, refers to is
\* initialised and its counter is right.
LEMMA Counted ==
  ASSUME NEW m \in Msg, MsgOK(m), NEW x \in Holders(m),
         \A t \in Thread : Initialising(t, m) => x # <<"thread", t, 1>>
  PROVE  /\ m \in alive /\ ~Fresh(m)
         /\ ref[m] = Cardinality(Holders(m)) /\ ref[m] # 0
BY DEF MsgOK, Fresh

\* A step of t that leaves the references to m and its counter alone keeps
\* what the invariant says of m.
LEMMA Quiet ==
  ASSUME NEW m \in Msg, MsgOK(m), NEW t \in Thread,
         Holders(m)' = Holders(m), m \in alive' <=> m \in alive, ref'[m] = ref[m],
         \A u \in Thread : u # t => pc'[u] = pc[u] /\ call'[u] = call[u],
         Counting(t, m)' <=> Counting(t, m),
         Initialising(t, m)' <=> Initialising(t, m)
  PROVE  MsgOK(m)' /\ (Fresh(m)' <=> Fresh(m)) /\ Refs(m)' = Refs(m)
<1>1. \A u \in Thread : (Counting(u, m)' <=> Counting(u, m))
                        /\ (Initialising(u, m)' <=> Initialising(u, m))
  BY DEF Counting, Initialising
<1>2. Refs(m)' = Refs(m) /\ (Fresh(m)' <=> Fresh(m))
  BY <1>1 DEF Refs, Fresh
<1>3. QED
  BY <1>1, <1>2 DEF MsgOK

\* A call that is about to count a reference is backed by one in Holders.
LEMMA BackedOwned ==
  ASSUME TypeOK, NEW u \in Thread, BackedOK(u), NEW m \in Msg, Counting(u, m)
  PROVE  Holders(m) # {} /\ ~Fresh(m)
<1>1. PICK l \in Level : own[<<u[1], l>>][m] > 0
  BY DEF BackedOK, Reaches
<1>2. <<u[1], l>> \in Thread
  BY ThreadParts DEF Thread
<1>3. QED
  BY <1>1, <1>2, OwnHolder DEF BackedOK, Reaches

LEMMA ThreadExists == \E t : t \in Thread
BY CoreAssumption, HandlerThread

LEMMA RefsFinite ==
  \A m : IsFiniteSet(Refs(m)) /\ Cardinality(Refs(m)) \in Nat
<1>1. IsFiniteSet(Thread)
  <2>1. IsFiniteSet(Core) /\ IsFiniteSet(Level)
    BY CoreAssumption, LevelAssumption
  <2>2. IsFiniteSet(Core \X Level)
    BY <2>1, FS_Product, Zenon
  <2>3. QED
    BY <2>2 DEF Thread
<1>2. \A m : Refs(m) \in SUBSET Thread
  BY DEF Refs
<1>3. QED
  BY <1>1, <1>2, FS_Subset, FS_CardinalityType

-----------------------------------------------------------------------------
(* Every step keeps what the invariant says of each message *)

\* One reference is added to a message that has its counter, or removed from
\* it, or exchanged for another.
LEMMA AddHolder ==
  ASSUME NEW m, NEW x, IsFiniteSet(Holders(m)), x \notin Holders(m),
         Holders(m)' = Holders(m) \cup {x}
  PROVE  IsFiniteSet(Holders(m)') /\ Cardinality(Holders(m)') = Cardinality(Holders(m)) + 1
BY FS_AddElement

LEMMA RemoveHolder ==
  ASSUME NEW m, NEW x, IsFiniteSet(Holders(m)), x \in Holders(m),
         Holders(m)' = Holders(m) \ {x}
  PROVE  IsFiniteSet(Holders(m)') /\ Cardinality(Holders(m)') = Cardinality(Holders(m)) - 1
BY FS_RemoveElement

LEMMA ExchangeHolder ==
  ASSUME NEW m, NEW x, NEW y, IsFiniteSet(Holders(m)),
         x \in Holders(m), y \notin Holders(m),
         Holders(m)' = (Holders(m) \ {x}) \cup {y}
  PROVE  IsFiniteSet(Holders(m)') /\ Cardinality(Holders(m)') = Cardinality(Holders(m))
<1> DEFINE rest == Holders(m) \ {x}
<1>1. IsFiniteSet(rest) /\ Cardinality(rest) = Cardinality(Holders(m)) - 1 /\ y \notin rest
  BY FS_RemoveElement
<1>2. Cardinality(Holders(m)) \in Nat
  BY FS_CardinalityType
<1>3. Holders(m)' = rest \cup {y}
  OBVIOUS
<1> HIDE DEF rest
<1>4. IsFiniteSet(rest \cup {y}) /\ Cardinality(rest \cup {y}) = Cardinality(rest) + 1
  BY <1>1, FS_AddElement
<1>5. IsFiniteSet(Holders(m)') /\ Cardinality(Holders(m)') = Cardinality(rest) + 1
  BY <1>3, <1>4, Zenon
<1>6. QED
  BY <1>1, <1>2, <1>5

\* A step of t moves one reference to m; m is initialised and keeps its counter.
LEMMA Exchange ==
  ASSUME NEW m \in Msg, MsgOK(m), NEW t \in Thread, NEW x, NEW y,
         x \in Holders(m), y \notin Holders(m),
         \A u \in Thread : Initialising(u, m) => x # <<"thread", u, 1>>,
         Holders(m)' = (Holders(m) \ {x}) \cup {y},
         UNCHANGED <<alive, ref>>,
         \A u \in Thread : u # t => pc'[u] = pc[u] /\ call'[u] = call[u],
         Counting(t, m)' <=> Counting(t, m),
         Initialising(t, m)' <=> Initialising(t, m)
  PROVE  MsgOK(m)'
<1>1. \A u \in Thread : (Counting(u, m)' <=> Counting(u, m))
                        /\ (Initialising(u, m)' <=> Initialising(u, m))
  BY DEF Counting, Initialising
<1>2. Refs(m)' = Refs(m) /\ (Fresh(m)' <=> Fresh(m))
  BY <1>1 DEF Refs, Fresh
<1>3. IsFiniteSet(Holders(m)') /\ Cardinality(Holders(m)') = Cardinality(Holders(m))
  BY ExchangeHolder DEF MsgOK
<1>4. m \in alive /\ ~Fresh(m) /\ ref[m] = Cardinality(Holders(m)) /\ ref[m] # 0
  BY Counted
<1>5. Cardinality(Holders(m)) + Cardinality(Refs(m)) <= MaxRefs
  BY DEF MsgOK
<1>6. QED
  BY <1>1, <1>2, <1>3, <1>4, <1>5 DEF MsgOK, Fresh

LEMMA InitCount == Init => CountInv
<1> SUFFICES ASSUME Init PROVE CountInv
  OBVIOUS
<1>1. ASSUME NEW m \in Msg PROVE MsgOK(m)
  <2>1. \A t \in Thread : ~Counting(t, m) /\ ~Initialising(t, m)
    BY DEF Init, Counting, Initialising
  <2>2. Refs(m) = {} /\ ~Fresh(m)
    BY <2>1 DEF Refs, Fresh
  <2>3. Holders(m) = {}
    BY <1>1, HeldMember, QueuedMember, DroppedMember DEF Init, Holders, Occupied
  <2>4. QED
    BY <2>1, <2>2, <2>3, FS_EmptySet, BoundAssumption, RefAssumption DEF MsgOK, Init
<1>2. ASSUME NEW t \in Thread PROVE BackedOK(t)
  BY <1>2 DEF Init, BackedOK, Counting
<1>3. QED
  BY <1>1, <1>2 DEF CountInv

LEMMA StepMsg ==
  ASSUME IndInv, [Next]_vars, NEW m \in Msg
  PROVE  MsgOK(m)'
<1> USE DEF shared, heap, setup, irq, ghost
<1>0. /\ TypeOK /\ CallInv /\ HandlerInv /\ QueueInv /\ OwnInv /\ MsgOK(m)
      /\ \A t \in Thread : call[t] \in Calls
  BY DEF IndInv, LockInv, CountInv, TypeOK
<1>n. NoCall.op = "none"
  BY DEF NoCall
<1>l. \A l \in {"idle", "enter", "spin", "body", "unlock", "exit", "after"} : l \in Labels
  BY DEF Labels
<1>q. ASSUME NEW t \in Thread, UNCHANGED <<own, lost, slots, head, tail, alive>>,
             ref'[m] = ref[m],
             \A u \in Thread : u # t => pc'[u] = pc[u] /\ call'[u] = call[u],
             Counting(t, m)' <=> Counting(t, m),
             Initialising(t, m)' <=> Initialising(t, m)
      PROVE  MsgOK(m)'
  BY <1>0, <1>q, SameHolders, Quiet
<1>1. ASSUME NEW c \in Core, Initialize(c) \/ RegisterCallback(c) \/ EnterHandler(c)
      PROVE  MsgOK(m)'
  BY <1>1, <1>q, HandlerThread
     DEF Initialize, RegisterCallback, EnterHandler, Counting, Initialising
<1>2. ASSUME NEW t \in Thread, BeginCreate(t) PROVE MsgOK(m)'
  <2>1. /\ pc[t] = "idle" /\ pc'[t] = "enter" /\ call'[t].op = "create"
        /\ \A u \in Thread : u # t => pc'[u] = pc[u] /\ call'[u] = call[u]
    BY <1>0, <1>2 DEF BeginCreate, InClient, Begin, TypeOK
  <2>2. QED
    BY <1>2, <1>q, <2>1 DEF BeginCreate, Counting, Initialising
<1>3. ASSUME NEW t \in Thread, NEW n \in Msg, BeginUnRef(t, n) PROVE MsgOK(m)'
  <2>1. /\ pc[t] = "idle" /\ pc'[t] = "enter" /\ call'[t].op = "unref"
        /\ \A u \in Thread : u # t => pc'[u] = pc[u] /\ call'[u] = call[u]
    BY <1>0, <1>3 DEF BeginUnRef, InClient, Begin, TypeOK
  <2>2. QED
    BY <1>3, <1>q, <2>1 DEF BeginUnRef, Counting, Initialising
<1>4. ASSUME NEW t \in Thread, NEW n \in Msg, NEW d \in Sends[t], BeginSend(t, n, d)
      PROVE  MsgOK(m)'
  <2>1. /\ pc[t] = "idle" /\ pc'[t] = "enter" /\ call'[t].op = "send"
        /\ \A u \in Thread : u # t => pc'[u] = pc[u] /\ call'[u] = call[u]
    BY <1>0, <1>4 DEF BeginSend, InClient, Begin, TypeOK
  <2>2. QED
    BY <1>4, <1>q, <2>1 DEF BeginSend, Counting, Initialising
<1>5. ASSUME NEW t \in Thread, EnterCritical(t) \/ AcquireLock(t) \/ ReleaseLock(t)
      PROVE  MsgOK(m)'
  <2>1. /\ UNCHANGED <<own, lost, slots, head, tail, alive, ref, call>>
        /\ \/ pc[t] = "enter" /\ Goto(t, "spin")
           \/ pc[t] = "spin" /\ Goto(t, "body")
           \/ pc[t] = "unlock" /\ Goto(t, "exit")
    BY <1>5 DEF EnterCritical, AcquireLock, ReleaseLock
  <2>2. QED
    BY <1>0, <1>l, <1>q, <2>1, GotoType DEF Counting, Initialising
<1>6. ASSUME NEW t \in Thread, ExitCritical(t) PROVE MsgOK(m)'
  <2>1. /\ UNCHANGED <<own, lost, slots, head, tail, alive, ref>> /\ pc[t] = "exit"
    BY <1>6 DEF ExitCritical
  <2>2. CASE Return(t) /\ ~Remaining(t)
    BY <1>0, <1>n, <1>q, <2>1, <2>2, ReturnType, MsgAssumption
       DEF Counting, Initialising, Remaining
  <2>3. CASE Goto(t, "after") /\ UNCHANGED call
    BY <1>0, <1>l, <1>q, <2>1, <2>3, GotoType DEF Counting, Initialising
  <2>4. QED
    BY <1>6, <2>2, <2>3 DEF ExitCritical
<1>7. ASSUME NEW t \in Thread, RaiseInterrupt(t) PROVE MsgOK(m)'
  BY <1>0, <1>7, <1>n, <1>q, ReturnType DEF RaiseInterrupt, At, Counting, Initialising
<1>8. ASSUME NEW c \in Core,
             \/ BeginReceive(c) \/ LeaveHandler(c) \/ CallUser(c) \/ Discard(c)
             \/ EndCallback(c)
      PROVE  MsgOK(m)'
  <2>1. PICK h \in Thread : h = Handler(c)
    BY HandlerThread
  <2>2. pc[h] = "idle" \/ call[h].op = "receive"
    BY <1>8, <2>1
       DEF BeginReceive, LeaveHandler, CallUser, Discard, EndCallback, At
  <2>3. call[h].op \notin {"create", "ref"}
    BY <1>0, <1>n, <2>2 DEF CallInv, CallOK
  <2>4. /\ call'[h].op \notin {"create", "ref"}
        /\ \A u \in Thread : u # h => pc'[u] = pc[u] /\ call'[u] = call[u]
    <3>1. CASE LeaveHandler(c) \/ CallUser(c)
      BY <1>0, <1>n, <2>1, <3>1, ReturnType DEF LeaveHandler, CallUser
    <3>2. CASE BeginReceive(c) \/ Discard(c) \/ EndCallback(c)
      BY <1>0, <2>1, <3>2 DEF BeginReceive, Discard, EndCallback, Begin, TypeOK
    <3>3. QED
      BY <1>8, <3>1, <3>2
  <2>5. QED
    BY <1>8, <1>q, <2>3, <2>4
       DEF BeginReceive, LeaveHandler, CallUser, Discard, EndCallback, Counting,
           Initialising
<1>9. CASE UNCHANGED vars
  BY <1>9, <1>q, ThreadExists DEF vars, Counting, Initialising
<1>10. ASSUME NEW t \in Thread, NEW n \in Msg, BeginRef(t, n) PROVE MsgOK(m)'
  <2>1. /\ pc[t] = "idle" /\ pc'[t] = "enter"
        /\ call'[t].op = "ref" /\ call'[t].msg = n
        /\ \A u \in Thread : u # t => pc'[u] = pc[u] /\ call'[u] = call[u]
    BY <1>0, <1>10 DEF BeginRef, InClient, Begin, TypeOK
  <2>2. UNCHANGED <<own, lost, slots, head, tail, alive, ref>>
    BY <1>10 DEF BeginRef
  <2>3. CASE n # m
    BY <1>q, <2>1, <2>2, <2>3 DEF Counting, Initialising
  <2>4. CASE n = m
    <3>1. Refs(m)' = Refs(m) \cup {t} /\ t \notin Refs(m)
      BY <2>1, <2>4 DEF Refs, Counting
    <3>2. \A u \in Thread : Initialising(u, m)' <=> Initialising(u, m)
      BY <2>1 DEF Initialising
    <3>3. Holders(m)' = Holders(m) /\ (Fresh(m)' <=> Fresh(m))
      BY <2>2, <3>2, SameHolders DEF Fresh
    <3>4. Cardinality(Refs(m)') = Cardinality(Refs(m)) + 1
      BY <3>1, RefsFinite, FS_AddElement
    <3>5. Cardinality(Holders(m)) + Cardinality(Refs(m)) < MaxRefs
      BY <1>10, <2>4 DEF BeginRef
    <3>6. Cardinality(Holders(m)) \in Nat
      BY <1>0, FS_CardinalityType DEF MsgOK
    <3>7. Cardinality(Holders(m)') + Cardinality(Refs(m)') <= MaxRefs
      BY <3>3, <3>4, <3>5, <3>6, RefsFinite, RefAssumption
    <3>8. QED
      BY <1>0, <2>2, <3>2, <3>3, <3>7 DEF MsgOK
  <2>5. QED
    BY <2>3, <2>4
<1>11. ASSUME NEW t \in Thread, CreateBody(t) PROVE MsgOK(m)'
  <2>1. /\ call[t].op = "create" /\ pc[t] = "body" /\ call[t].msg = NoMsg
        /\ pc'[t] = "unlock" /\ \A u \in Thread : u # t => pc'[u] = pc[u]
        /\ UNCHANGED <<slots, head, tail, ref, lost>>
    BY <1>0, <1>11, <1>l, GotoType DEF CreateBody, At, CallInv, CallOK, Before
  <2>2. CASE Result(t, "noMem", NoMsg) /\ UNCHANGED <<alive, own>>
    <3>1. /\ call'[t].op = "create" /\ call'[t].msg = NoMsg
          /\ \A u \in Thread : u # t => call'[u] = call[u]
      BY <1>0, <2>1, <2>2, ResultType
    <3>2. QED
      BY <1>q, <2>1, <2>2, <3>1, MsgAssumption DEF Counting, Initialising
  <2>3. ASSUME NEW n \in Msg \ alive, alive' = alive \cup {n}, Result(t, "ok", n), Take(t, n)
        PROVE  MsgOK(m)'
    <3>1. /\ call'[t].op = "create" /\ call'[t].msg = n
          /\ \A u \in Thread : u # t => call'[u] = call[u]
      BY <1>0, <2>1, <2>3, ResultType
    <3>2. CASE n # m
      <4>1. Holders(m)' = Holders(m)
        BY <1>0, <2>1, <2>3, <3>2, TakeHeld, SameQueued, SameDropped DEF Holders
      <4>2. QED
        BY <1>0, <2>1, <2>3, <3>1, <3>2, <4>1, Quiet, MsgAssumption DEF Counting, Initialising
    <3>3. CASE n = m
      <4>1. Holders(m) = {}
        BY <1>0, <2>3, <3>3 DEF MsgOK
      <4>2. own[t][m] = 0
        <5>1. ~(own[t][m] > 0)
          BY <1>0, <4>1, OwnHolder
        <5>2. own[t][m] \in Nat
          BY <1>0 DEF TypeOK
        <5>3. QED
          BY <5>1, <5>2
      <4>3. Holders(m)' = {<<"thread", t, 1>>}
        <5>1. Held(m)' = Held(m) \cup {<<"thread", t, 1>>}
          <6>1. own[t][m] + 1 = 1 /\ Take(t, m)
            BY <2>3, <3>3, <4>2
          <6>2. QED
            BY <1>0, <6>1, TakeHeld
        <5>2. QED
          BY <2>1, <4>1, <5>1, SameQueued, SameDropped DEF Holders
      <4>4. \A u \in Thread : ~Counting(u, m)
        BY <4>1, BackedOwned DEF IndInv, LockInv, CountInv
      <4>5. Refs(m)' = {}
        BY <2>1, <3>1, <4>4 DEF Refs, Counting
      <4>6. \A u \in Thread : Initialising(u, m)' => u = t
        BY <1>0, <2>1, <2>3, <3>1, <3>3 DEF MsgOK, Initialising
      <4>7. m \in alive' /\ Fresh(m)'
        BY <2>1, <2>3, <3>1, <3>3 DEF Fresh, Initialising
      <4>8. IsFiniteSet(Holders(m)') /\ Cardinality(Holders(m)') = 1 /\ Cardinality(Refs(m)') = 0
        <5>1. IsFiniteSet({<<"thread", t, 1>>}) /\ Cardinality({<<"thread", t, 1>>}) = 1
          BY FS_Singleton
        <5>2. QED
          BY <4>3, <4>5, <5>1, FS_EmptySet, Zenon
      <4>9. QED
        BY <4>3, <4>6, <4>7, <4>8, BoundAssumption, RefAssumption DEF MsgOK
    <3>4. QED
      BY <3>2, <3>3
  <2>4. QED
    BY <1>11, <2>2, <2>3 DEF CreateBody
<1>12. ASSUME NEW t \in Thread, InitMsg(t) PROVE MsgOK(m)'
  <2>1. PICK n \in Msg : n = call[t].msg
    BY <1>0, <1>12 DEF InitMsg, At, CallInv, CallOK
  <2>2. /\ Initialising(t, n)
        /\ call'[t].op = "none" /\ \A u \in Thread : u # t => pc'[u] = pc[u] /\ call'[u] = call[u]
        /\ UNCHANGED <<own, slots, head, tail, lost, alive>>
        /\ ref' = [ref EXCEPT ![n] = 1]
    BY <1>0, <1>12, <1>n, <2>1, ReturnType DEF InitMsg, At, Initialising
  <2>3. CASE n # m
    <3>1. ref'[m] = ref[m]
      BY <1>0, <2>2, <2>3 DEF TypeOK
    <3>2. QED
      BY <1>q, <2>1, <2>2, <2>3, <3>1 DEF Counting, Initialising
  <2>4. CASE n = m
    <3>1. m \in alive /\ Holders(m) = {<<"thread", t, 1>>}
      BY <1>0, <2>2, <2>4 DEF MsgOK
    <3>2. Holders(m)' = Holders(m) /\ ref'[m] = 1
      BY <1>0, <2>2, <2>4, SameHolders DEF TypeOK
    <3>3. Refs(m)' = Refs(m)
      BY <2>2 DEF Refs, Counting, Initialising
    <3>4. \A u \in Thread : Initialising(u, m)' => Initialising(u, m)
      BY <2>2 DEF Initialising
    <3>5. Cardinality(Holders(m)') = 1
      BY <3>1, <3>2, FS_Singleton
    <3>6. QED
      BY <1>0, <2>2, <3>1, <3>2, <3>3, <3>4, <3>5 DEF MsgOK
  <2>5. QED
    BY <2>3, <2>4
<1>13. ASSUME NEW t \in Thread, RefBody(t) PROVE MsgOK(m)'
  <2>1. PICK n \in Msg : n = call[t].msg
    BY <1>0, <1>13 DEF RefBody, At, CallInv, CallOK
  <2>2. /\ Counting(t, n) /\ Take(t, n)
        /\ pc'[t] = "unlock" /\ \A u \in Thread : u # t => pc'[u] = pc[u]
        /\ UNCHANGED <<slots, head, tail, lost, alive, call>>
        /\ ref' = [ref EXCEPT ![n] = IF @ = RefMax THEN 0 ELSE @ + 1]
    BY <1>0, <1>13, <1>l, <2>1, GotoType DEF RefBody, At, Counting
  <2>3. CASE n # m
    <3>1. Holders(m)' = Holders(m)
      BY <1>0, <2>2, <2>3, TakeHeld, SameQueued, SameDropped DEF Holders
    <3>2. ref'[m] = ref[m]
      BY <1>0, <2>2, <2>3 DEF TypeOK
    <3>3. QED
      BY <1>0, <2>1, <2>2, <2>3, <3>1, <3>2, Quiet DEF Counting, Initialising
  <2>4. CASE n = m
    <3> DEFINE x == <<"thread", t, own[t][m] + 1>>
    <3>1. Holders(m)' = Holders(m) \cup {x} /\ x \notin Holders(m)
      BY <1>0, <2>2, <2>4, TakeHeld, SameQueued, SameDropped, HoldersApart DEF Holders
    <3>2. Holders(m) # {} /\ ~Fresh(m)
      BY <2>2, <2>4, BackedOwned DEF IndInv, LockInv, CountInv
    <3>3. m \in alive /\ ref[m] = Cardinality(Holders(m))
      BY <1>0, <3>2 DEF MsgOK
    <3>4. \A u \in Thread : Initialising(u, m)' <=> Initialising(u, m)
      BY <2>2 DEF Initialising, Counting
    <3>5. ~Fresh(m)' /\ \A u \in Thread : ~Initialising(u, m)'
      BY <3>2, <3>4 DEF Fresh
    <3>6. Refs(m)' = Refs(m) \ {t} /\ t \in Refs(m)
      BY <2>2, <2>4 DEF Refs, Counting
    <3>7. Cardinality(Refs(m)') = Cardinality(Refs(m)) - 1
      BY <3>6, RefsFinite, FS_RemoveElement
    <3>8. IsFiniteSet(Holders(m)') /\ Cardinality(Holders(m)') = Cardinality(Holders(m)) + 1
      BY <1>0, <3>1, AddHolder DEF MsgOK
    <3>9. Cardinality(Refs(m)') \in Nat /\ Cardinality(Holders(m)) \in Nat
      <4>1. IsFiniteSet(Refs(m)')
        BY <3>6, RefsFinite, FS_RemoveElement
      <4>2. QED
        BY <1>0, <4>1, FS_CardinalityType DEF MsgOK
    <3>10. Cardinality(Holders(m)) + Cardinality(Refs(m)) <= MaxRefs
      BY <1>0 DEF MsgOK
    <3>11. Cardinality(Holders(m)) < RefMax
      BY <3>7, <3>9, <3>10, RefsFinite, BoundAssumption, RefAssumption
    <3>12. ref'[m] = ref[m] + 1
      BY <1>0, <2>2, <2>4, <3>3, <3>9, <3>11, RefAssumption DEF TypeOK
    <3>13. ref'[m] = Cardinality(Holders(m)') /\ ref'[m] # 0
      BY <3>3, <3>8, <3>9, <3>12
    <3>14. Cardinality(Holders(m)') + Cardinality(Refs(m)') <= MaxRefs
      BY <3>7, <3>8, <3>9, <3>10, RefsFinite, RefAssumption
    <3>15. QED
      BY <2>2, <3>3, <3>5, <3>8, <3>13, <3>14 DEF MsgOK
  <2>5. QED
    BY <2>3, <2>4
<1>14. ASSUME NEW t \in Thread, UnRefBody(t) PROVE MsgOK(m)'
  <2>1. PICK n \in Msg : n = call[t].msg
    BY <1>0, <1>14 DEF UnRefBody, At, CallInv, CallOK
  <2>2. /\ call[t].op = "unref" /\ own[t][n] > 0 /\ Give(t, n)
        /\ pc'[t] = "unlock" /\ \A u \in Thread : u # t => pc'[u] = pc[u]
        /\ UNCHANGED <<slots, head, tail, lost, call>>
        /\ ref' = [ref EXCEPT ![n] = IF @ = 0 THEN RefMax ELSE @ - 1]
        /\ alive' = IF ref'[n] = 0 THEN alive \ {n} ELSE alive
    BY <1>0, <1>14, <1>l, <2>1, GotoType, BodyOwns DEF UnRefBody, At
  <2>3. CASE n # m
    <3>1. Holders(m)' = Holders(m)
      BY <1>0, <2>2, <2>3, GiveHeld, SameQueued, SameDropped DEF Holders
    <3>2. ref'[m] = ref[m] /\ (m \in alive' <=> m \in alive)
      BY <1>0, <2>2, <2>3 DEF TypeOK
    <3>3. QED
      BY <1>0, <2>1, <2>2, <2>3, <3>1, <3>2, Quiet DEF Counting, Initialising
  <2>4. CASE n = m
    <3> DEFINE x == <<"thread", t, own[t][m]>>
    <3>1. Holders(m)' = Holders(m) \ {x} /\ x \in Holders(m)
      BY <1>0, <2>2, <2>4, GiveHeld, SameQueued, SameDropped, HoldersApart DEF Holders
    <3>2. \A u \in Thread : Initialising(u, m) => x # <<"thread", u, 1>>
      BY <2>2 DEF Initialising
    <3>3. m \in alive /\ ~Fresh(m) /\ ref[m] = Cardinality(Holders(m)) /\ ref[m] # 0
      BY <1>0, <3>1, <3>2, Counted
    <3>4. \A u \in Thread : ~Initialising(u, m)'
      BY <2>2, <3>3 DEF Initialising, Fresh
    <3>5. Refs(m)' = Refs(m)
      BY <2>2 DEF Refs, Counting
    <3>6. IsFiniteSet(Holders(m)') /\ Cardinality(Holders(m)') = Cardinality(Holders(m)) - 1
      BY <1>0, <3>1, RemoveHolder DEF MsgOK
    <3>7. ref'[m] = Cardinality(Holders(m)')
      BY <1>0, <2>2, <2>4, <3>3, <3>6 DEF TypeOK
    <3>8. Cardinality(Holders(m)') + Cardinality(Refs(m)') <= MaxRefs
      <4>1. Cardinality(Holders(m)) \in Nat /\ Cardinality(Holders(m)) + Cardinality(Refs(m)) <= MaxRefs
        BY <1>0, FS_CardinalityType DEF MsgOK
      <4>2. QED
        BY <3>5, <3>6, <4>1, RefsFinite, RefAssumption
    <3>9. ref'[m] = 0 => Holders(m)' = {}
      BY <3>6, <3>7, FS_EmptySet
    <3>10. m \in alive' <=> ref'[m] # 0
      BY <2>2, <2>4, <3>3
    <3>11. QED
      BY <3>4, <3>6, <3>7, <3>8, <3>9, <3>10 DEF MsgOK
  <2>5. QED
    BY <2>3, <2>4
<1>15. ASSUME NEW t \in Thread, SendBody(t) PROVE MsgOK(m)'
  <2>1. PICK n \in Msg, d \in Core : n = call[t].msg /\ d = call[t].dst
    BY <1>0, <1>15, CallsFields DEF SendBody, At, CallInv, CallOK
  <2>2. /\ call[t].op = "send" /\ own[t][n] > 0
        /\ pc'[t] = "unlock" /\ \A u \in Thread : u # t => pc'[u] = pc[u]
        /\ UNCHANGED <<tail, lost, alive, ref>>
    BY <1>0, <1>15, <1>l, <2>1, GotoType, BodyOwns DEF SendBody, At
  <2>3. call'[t].op = "send" /\ \A u \in Thread : u # t => call'[u] = call[u]
    <3>1. \E r \in {"ok", "notReady", "full"} : Result(t, r, n)
      BY <1>15, <2>1 DEF SendBody
    <3>2. QED
      BY <1>0, <2>2, <3>1, ResultType
  <2>4. CASE UNCHANGED <<slots, head, own>>
    BY <1>q, <2>2, <2>3, <2>4 DEF Counting, Initialising
  <2>5. CASE /\ ~queueFull(d) /\ Give(t, n)
             /\ slots' = [slots EXCEPT ![d][head[d]] = n]
             /\ head'  = [head EXCEPT ![d] = Inc(@)]
    <3> DEFINE x == <<"thread", t, own[t][n]>>
               y == <<"queue", d, head[d]>>
    <3>1. /\ Held(n)' = Held(n) \ {x} /\ x \in Held(n)
          /\ \A k \in Msg : k # n => Held(k)' = Held(k)
      BY <1>0, <2>2, <2>5, GiveHeld
    <3>2. /\ Queued(n)' = Queued(n) \cup {y} /\ y \notin Queued(n)
          /\ \A k \in Msg : k # n => Queued(k)' = Queued(k)
      BY <1>0, <2>2, <2>5, EnqueueQueued
    <3>3. \A k \in Msg : Dropped(k)' = Dropped(k)
      BY <2>2, SameDropped
    <3>4. CASE n # m
      <4>1. Holders(m)' = Holders(m)
        BY <3>1, <3>2, <3>3, <3>4 DEF Holders
      <4>2. QED
        BY <1>0, <2>2, <2>3, <4>1, Quiet DEF Counting, Initialising
    <3>5. CASE n = m
      <4>1. /\ x \in Holders(m) /\ y \notin Holders(m)
            /\ Holders(m)' = (Holders(m) \ {x}) \cup {y}
        BY <3>1, <3>2, <3>3, <3>5, HoldersApart DEF Holders
      <4>2. \A u \in Thread : Initialising(u, m) => x # <<"thread", u, 1>>
        BY <2>2 DEF Initialising
      <4> HIDE DEF x, y
      <4>3. QED
        BY <1>0, <2>2, <2>3, <4>1, <4>2, Exchange DEF Counting, Initialising
    <3>6. QED
      BY <3>4, <3>5
  <2>6. QED
    BY <1>15, <2>1, <2>4, <2>5 DEF SendBody
<1>16. ASSUME NEW t \in Thread, ReceiveBody(t) PROVE MsgOK(m)'
  <2>1. PICK c \in Core : c = t[1]
    BY ThreadParts
  <2>2. /\ call[t].op = "receive" /\ pc'[t] = "unlock"
        /\ \A u \in Thread : u # t => pc'[u] = pc[u]
        /\ UNCHANGED <<slots, head, lost, alive, ref>>
    BY <1>0, <1>16, <1>l, GotoType DEF ReceiveBody, At
  <2>3. CASE Result(t, "empty", NoMsg) /\ UNCHANGED <<tail, own>>
    <3>1. call'[t].op = "receive" /\ \A u \in Thread : u # t => call'[u] = call[u]
      BY <1>0, <2>2, <2>3, ResultType
    <3>2. QED
      BY <1>q, <2>2, <2>3, <3>1 DEF Counting, Initialising
  <2>4. CASE /\ ~queueEmpty(c) /\ tail' = [tail EXCEPT ![c] = Inc(@)]
             /\ Result(t, "ok", slots[c][tail[c]]) /\ Take(t, slots[c][tail[c]])
    <3>1. PICK n \in Msg : n = slots[c][tail[c]]
      BY <1>0, <2>4, TailOccupied DEF QueueInv
    <3> DEFINE x == <<"queue", c, tail[c]>>
               y == <<"thread", t, own[t][n] + 1>>
    <3>2. Take(t, n) /\ Result(t, "ok", n)
      BY <2>4, <3>1
    <3>3. call'[t].op = "receive" /\ \A u \in Thread : u # t => call'[u] = call[u]
      BY <1>0, <2>2, <3>2, ResultType
    <3>4. /\ Held(n)' = Held(n) \cup {y} /\ y \notin Held(n)
          /\ \A k \in Msg : k # n => Held(k)' = Held(k)
      BY <1>0, <3>2, TakeHeld
    <3>5. /\ Queued(n)' = Queued(n) \ {x} /\ x \in Queued(n)
          /\ \A k \in Msg : k # n => Queued(k)' = Queued(k)
      BY <1>0, <2>2, <2>4, <3>1, DequeueQueued
    <3>6. \A k \in Msg : Dropped(k)' = Dropped(k)
      BY <2>2, SameDropped
    <3>7. CASE n # m
      <4>1. Holders(m)' = Holders(m)
        BY <3>4, <3>5, <3>6, <3>7 DEF Holders
      <4>2. QED
        BY <1>0, <2>2, <3>3, <4>1, Quiet DEF Counting, Initialising
    <3>8. CASE n = m
      <4>1. /\ x \in Holders(m) /\ y \notin Holders(m)
            /\ Holders(m)' = (Holders(m) \ {x}) \cup {y}
        BY <3>4, <3>5, <3>6, <3>8, HoldersApart DEF Holders
      <4>2. \A u \in Thread : x # <<"thread", u, 1>>
        OBVIOUS
      <4> HIDE DEF x, y
      <4>3. QED
        BY <1>0, <2>2, <3>3, <4>1, <4>2, Exchange DEF Counting, Initialising
    <3>9. QED
      BY <3>7, <3>8
  <2>5. QED
    BY <1>16, <2>1, <2>3, <2>4 DEF ReceiveBody
<1>17. ASSUME NEW c \in Core, PassOver(c) PROVE MsgOK(m)'
  <2>1. PICK t \in Thread : t = Handler(c)
    BY HandlerThread
  <2>2. PICK n \in Msg : n = call[t].msg
    BY <1>0, <1>17, <2>1 DEF PassOver, At, CallInv, CallOK
  <2>3. /\ call[t].op = "receive" /\ call[t].result = "ok"
        /\ Return(t) /\ Give(t, n) /\ lost' = [lost EXCEPT ![n] = @ + 1]
        /\ UNCHANGED <<slots, head, tail, alive, ref>>
    BY <1>17, <2>1, <2>2 DEF PassOver, At
  <2>4. own[t][n] > 0
    BY <1>0, <2>2, <2>3 DEF OwnInv, OwnOK, TypeOK
  <2>5. /\ call'[t].op = "none"
        /\ \A u \in Thread : u # t => pc'[u] = pc[u] /\ call'[u] = call[u]
    BY <1>0, <1>n, <2>3, ReturnType
  <2> DEFINE x == <<"thread", t, own[t][n]>>
             y == <<"lost", n, lost[n] + 1>>
  <2>6. /\ Held(n)' = Held(n) \ {x} /\ x \in Held(n)
        /\ \A k \in Msg : k # n => Held(k)' = Held(k)
    BY <1>0, <2>3, <2>4, GiveHeld
  <2>7. /\ Dropped(n)' = Dropped(n) \cup {y} /\ y \notin Dropped(n)
        /\ \A k \in Msg : k # n => Dropped(k)' = Dropped(k)
    BY <1>0, <2>3, DropDropped
  <2>8. \A k \in Msg : Queued(k)' = Queued(k)
    BY <2>3, SameQueued
  <2>9. CASE n # m
    <3>1. Holders(m)' = Holders(m)
      BY <2>6, <2>7, <2>8, <2>9 DEF Holders
    <3>2. QED
      BY <1>0, <2>3, <2>5, <3>1, Quiet DEF Counting, Initialising
  <2>10. CASE n = m
    <3>1. /\ x \in Holders(m) /\ y \notin Holders(m)
          /\ Holders(m)' = (Holders(m) \ {x}) \cup {y}
      BY <2>6, <2>7, <2>8, <2>10, HoldersApart DEF Holders
    <3>2. \A u \in Thread : Initialising(u, m) => x # <<"thread", u, 1>>
      BY <2>3 DEF Initialising
    <3> HIDE DEF x, y
    <3>3. QED
      BY <1>0, <2>3, <2>5, <3>1, <3>2, Exchange DEF Counting, Initialising
  <2>11. QED
    BY <2>9, <2>10
<1>18. QED
  BY <1>1, <1>2, <1>3, <1>4, <1>5, <1>6, <1>7, <1>8, <1>9, <1>10, <1>11, <1>12,
     <1>13, <1>14, <1>15, <1>16, <1>17 DEF Next, Client, Continue, Handle

-----------------------------------------------------------------------------
(* Every step keeps a reference about to be counted backed *)

\* Nobody but a thread that runs gives a reference away, and not while it is
\* counting another.
LEMMA OwnDrops ==
  ASSUME IndInv, [Next]_vars, NEW v \in Thread, NEW m \in Msg, own'[v][m] < own[v][m]
  PROVE  CanRun(v) /\ call[v].op # "ref"
<1> USE DEF shared, heap, setup, irq, ghost
<1>0. TypeOK /\ CallInv /\ own[v][m] \in Nat
  BY DEF IndInv, LockInv, TypeOK
<1>1. own' # own
  BY <1>0
<1>2. ASSUME NEW t \in Thread, NEW n \in Msg, Take(t, n) PROVE FALSE
  BY <1>0, <1>2 DEF Take, TypeOK
<1>3. ASSUME NEW t \in Thread, CreateBody(t) PROVE FALSE
  BY <1>1, <1>2, <1>3 DEF CreateBody
<1>4. ASSUME NEW t \in Thread, RefBody(t) PROVE FALSE
  BY <1>0, <1>2, <1>4 DEF RefBody, At, CallInv, CallOK
<1>5. ASSUME NEW t \in Thread, ReceiveBody(t) PROVE FALSE
  <2>1. ~queueEmpty(t[1]) /\ Take(t, slots[t[1]][tail[t[1]]])
    BY <1>1, <1>5 DEF ReceiveBody
  <2>2. slots[t[1]][tail[t[1]]] \in Msg
    BY <1>0, <2>1, ThreadParts, TailOccupied DEF IndInv, LockInv, QueueInv
  <2>3. QED
    BY <1>2, <2>1, <2>2
<1>6. ASSUME NEW t \in Thread, NEW n, Give(t, n), CanRun(t), call[t].op # "ref"
      PROVE  CanRun(v) /\ call[v].op # "ref"
  <2>1. v # t => own'[v] = own[v]
    BY <1>0, <1>6 DEF Give, TypeOK
  <2>2. QED
    BY <1>0, <1>6, <2>1
<1>7. ASSUME NEW t \in Thread, UnRefBody(t) \/ SendBody(t)
      PROVE  CanRun(v) /\ call[v].op # "ref"
  BY <1>1, <1>6, <1>7 DEF UnRefBody, SendBody, At
<1>8. ASSUME NEW c \in Core, PassOver(c) PROVE CanRun(v) /\ call[v].op # "ref"
  BY <1>6, <1>8, HandlerThread DEF PassOver, At
<1>9. QED
  BY <1>1, <1>3, <1>4, <1>5, <1>7, <1>8
     DEF Next, Continue, Handle, Client, Initialize, RegisterCallback, BeginCreate,
         BeginRef, BeginUnRef, BeginSend, EnterCritical, AcquireLock, ReleaseLock,
         ExitCritical, InitMsg, RaiseInterrupt, EnterHandler, BeginReceive,
         LeaveHandler, CallUser, Discard, EndCallback, vars

\* Only sae_createMsgBuffer makes a message fresh, and only one that was free;
\* only sae_refMsgBuffer starts to count a reference.
LEMMA Starts ==
  ASSUME IndInv, [Next]_vars, NEW u \in Thread, NEW m \in Msg
  PROVE  /\ Initialising(u, m)' => Initialising(u, m) \/ m \notin alive
         /\ Counting(u, m)' => Counting(u, m) \/ BeginRef(u, m)
<1> DEFINE Goal == /\ Initialising(u, m)' => Initialising(u, m) \/ m \notin alive
                   /\ Counting(u, m)' => Counting(u, m) \/ BeginRef(u, m)
<1> USE DEF shared, heap, setup, irq, ghost
<1>0. TypeOK /\ CallInv
  BY DEF IndInv, LockInv
<1>n. NoCall.op = "none"
  BY DEF NoCall
<1>l. \A l \in {"idle", "enter", "spin", "body", "unlock", "exit", "after"} : l \in Labels
  BY DEF Labels
<1>1. ASSUME UNCHANGED <<pc, call>> PROVE Goal
  BY <1>1 DEF Initialising, Counting
<1>2. ASSUME NEW t \in Thread, Return(t) PROVE Goal
  BY <1>0, <1>2, <1>n, ReturnType DEF Initialising, Counting
<1>3. ASSUME NEW t \in Thread, UNCHANGED call,
             \/ pc[t] = "enter" /\ Goto(t, "spin")
             \/ pc[t] = "spin" /\ Goto(t, "body")
             \/ pc[t] = "body" /\ Goto(t, "unlock") /\ call[t].op # "create"
             \/ pc[t] = "unlock" /\ Goto(t, "exit")
             \/ pc[t] = "exit" /\ Goto(t, "after")
      PROVE  Goal
  BY <1>0, <1>3, <1>l, GotoType DEF Initialising, Counting
<1>4. ASSUME NEW t \in Thread, pc'[t] = "enter", call'[t].op # "ref",
             \A v \in Thread : v # t => pc'[v] = pc[v] /\ call'[v] = call[v]
      PROVE  Goal
  BY <1>4 DEF Initialising, Counting
<1>5. ASSUME NEW t \in Thread, Client(t) PROVE Goal
  <2>1. CASE BeginCreate(t)
    BY <1>0, <1>4, <2>1 DEF BeginCreate, Begin, TypeOK
  <2>2. ASSUME NEW n \in Msg, BeginRef(t, n) PROVE Goal
    <3>1. /\ pc'[t] = "enter" /\ call'[t].op = "ref" /\ call'[t].msg = n
          /\ \A v \in Thread : v # t => pc'[v] = pc[v] /\ call'[v] = call[v]
      BY <1>0, <2>2 DEF BeginRef, Begin, TypeOK
    <3>2. QED
      BY <2>2, <3>1 DEF Initialising, Counting
  <2>3. ASSUME NEW n \in Msg, BeginUnRef(t, n) PROVE Goal
    BY <1>0, <1>4, <2>3 DEF BeginUnRef, Begin, TypeOK
  <2>4. ASSUME NEW n \in Msg, NEW d \in Sends[t], BeginSend(t, n, d) PROVE Goal
    BY <1>0, <1>4, <2>4 DEF BeginSend, Begin, TypeOK
  <2>5. QED
    BY <1>5, <2>1, <2>2, <2>3, <2>4 DEF Client
<1>6. ASSUME NEW t \in Thread, CreateBody(t) PROVE Goal
  <2>1. /\ call[t].op = "create"
        /\ pc'[t] = "unlock" /\ \A v \in Thread : v # t => pc'[v] = pc[v]
    BY <1>0, <1>6, <1>l, GotoType DEF CreateBody, At
  <2>2. ASSUME NEW n \in Msg \cup {NoMsg}, NEW r \in {"ok", "noMem"}, Result(t, r, n),
               n \in Msg => n \notin alive
        PROVE  Goal
    <3>1. /\ call'[t].op = "create" /\ call'[t].msg = n
          /\ \A v \in Thread : v # t => call'[v] = call[v]
      BY <1>0, <2>1, <2>2, ResultType
    <3>2. QED
      BY <2>1, <2>2, <3>1 DEF Initialising, Counting
  <2>3. QED
    BY <1>6, <2>2, MsgAssumption DEF CreateBody
<1>7. ASSUME NEW t \in Thread, SendBody(t) \/ ReceiveBody(t) PROVE Goal
  <2>1. /\ call[t].op \in {"send", "receive"}
        /\ pc'[t] = "unlock" /\ \A v \in Thread : v # t => pc'[v] = pc[v]
    BY <1>0, <1>7, <1>l, GotoType DEF SendBody, ReceiveBody, At
  <2>2. call'[t].op = call[t].op /\ \A v \in Thread : v # t => call'[v] = call[v]
    BY <1>0, <1>7 DEF SendBody, ReceiveBody, Result, TypeOK
  <2>3. QED
    BY <2>1, <2>2 DEF Initialising, Counting
<1>8. ASSUME NEW c \in Core, BeginReceive(c) \/ Discard(c) \/ EndCallback(c) PROVE Goal
  <2>1. PICK h \in Thread : h = Handler(c)
    BY HandlerThread
  <2>2. /\ pc'[h] = "enter" /\ call'[h].op # "ref"
        /\ \A v \in Thread : v # h => pc'[v] = pc[v] /\ call'[v] = call[v]
    BY <1>0, <1>8, <2>1 DEF BeginReceive, Discard, EndCallback, Begin, TypeOK
  <2>3. QED
    BY <1>4, <2>2
<1>9. ASSUME NEW t \in Thread, ExitCritical(t) PROVE Goal
  BY <1>2, <1>3, <1>9 DEF ExitCritical
<1>10. ASSUME NEW t \in Thread,
              \/ EnterCritical(t) \/ AcquireLock(t) \/ ReleaseLock(t)
              \/ RefBody(t) \/ UnRefBody(t)
       PROVE  Goal
  BY <1>3, <1>10 DEF EnterCritical, AcquireLock, ReleaseLock, RefBody, UnRefBody, At
<1>11. QED
  BY <1>1, <1>2, <1>5, <1>6, <1>7, <1>8, <1>9, <1>10, HandlerThread
     DEF Next, Continue, Handle, Initialize, RegisterCallback, InitMsg, RaiseInterrupt,
         EnterHandler, LeaveHandler, CallUser, PassOver, vars

LEMMA StepBacked ==
  ASSUME IndInv, [Next]_vars, NEW u \in Thread
  PROVE  BackedOK(u)'
<1> SUFFICES ASSUME NEW m \in Msg, Counting(u, m)' PROVE Reaches(u, m)'
  BY DEF BackedOK
<1>0. TypeOK /\ TypeOK' /\ BackedOK(u)
  BY StepType DEF IndInv, LockInv, CountInv
<1>1. /\ Reaches(u, m)
      /\ \A l \in Level : l <= u[2] => own'[<<u[1], l>>][m] >= own[<<u[1], l>>][m]
  <2>1. CASE Counting(u, m)
    <3>1. Reaches(u, m)
      BY <1>0, <2>1 DEF BackedOK
    <3>2. ASSUME NEW l \in Level, l <= u[2]
          PROVE  own'[<<u[1], l>>][m] >= own[<<u[1], l>>][m]
      <4>1. PICK v \in Thread : v = <<u[1], l>>
        BY ThreadParts DEF Thread
      <4>2. CanRun(v) => v = u
        <5>1. v[1] = u[1] /\ v[2] = l /\ Active(u)
          BY <2>1, <4>1 DEF Counting, Active
        <5>2. v[2] < u[2] => ~CanRun(v)
          BY <5>1 DEF CanRun
        <5>3. QED
          BY <3>2, <5>1, <5>2, ThreadParts, ThreadsEqual
      <4>3. ~(own'[v][m] < own[v][m])
        BY <2>1, <4>2, OwnDrops DEF Counting
      <4>4. own[v][m] \in Nat /\ own'[v][m] \in Nat
        BY <1>0 DEF TypeOK
      <4>5. QED
        BY <4>1, <4>3, <4>4
    <3>3. QED
      BY <3>1, <3>2
  <2>2. CASE BeginRef(u, m)
    <3>1. Reaches(u, m) /\ UNCHANGED own
      BY <2>2 DEF BeginRef, ghost
    <3>2. \A l \in Level : l <= u[2] => own[<<u[1], l>>][m] \in Nat
      BY <1>0, ThreadParts DEF TypeOK, Thread
    <3>3. QED
      BY <3>1, <3>2
  <2>3. QED
    BY <2>1, <2>2, Starts
<1>2. PICK l \in Level : l <= u[2] /\ own[<<u[1], l>>][m] > 0
  BY <1>1 DEF Reaches
<1>3. <<u[1], l>> \in Thread
  BY ThreadParts DEF Thread
<1>4. m \in alive
  <2>1. Holders(m) # {}
    BY <1>0, <1>2, <1>3, OwnHolder
  <2>2. QED
    BY <2>1 DEF IndInv, CountInv, MsgOK
<1>5. ~Fresh(m)'
  BY <1>1, <1>4, Starts DEF Fresh, Reaches
<1>6. own'[<<u[1], l>>][m] > 0
  BY <1>0, <1>1, <1>2, <1>3 DEF TypeOK
<1>7. QED
  BY <1>2, <1>5, <1>6 DEF Reaches

-----------------------------------------------------------------------------
(* The whole invariant and what follows from it *)

\* The counters, the lock, the calls, the handlers and the queues of sae.c agree
\* in every state: the invariant the theorems below follow from is inductive.
THEOREM Inductive == Spec => []IndInv
<1>1. Init => IndInv
  BY InitLock, InitCount DEF IndInv
<1>2. IndInv /\ [Next]_vars => IndInv'
  BY StepLock, StepMsg, StepBacked DEF IndInv, CountInv
<1>3. QED
  BY <1>1, <1>2, PTL DEF Spec

\* In every state the counter of a message in use is the number of references
\* to it and a message without references is free, for any number of cores,
\* interrupt levels and messages: nothing is freed twice, early or never.
THEOREM CountersAreRight == Spec => []RefCount
<1>1. IndInv => RefCount
  BY DEF IndInv, CountInv, MsgOK, RefCount
<1>2. QED
  BY <1>1, Inductive, PTL

\* No call, handler or queue ever refers to a message that has been freed.
THEOREM NothingFreedIsUsed == Spec => []NoUseAfterFree
<1>1. IndInv => NoUseAfterFree
  <2> SUFFICES ASSUME IndInv PROVE NoUseAfterFree
    OBVIOUS
  <2>0. TypeOK /\ CallInv /\ HandlerInv /\ QueueInv /\ OwnInv
    BY DEF IndInv, LockInv
  <2>1. \A m \in Msg : Holders(m) # {} => m \in alive
    BY DEF IndInv, CountInv, MsgOK
  <2>2. \A t \in Thread, m \in Msg : own[t][m] > 0 => m \in alive
    BY <2>0, <2>1, OwnHolder
  <2>3. ASSUME NEW t \in Thread PROVE Touches(t) \subseteq alive
    <3>1. CASE call[t].op = "ref" /\ pc[t] \in Before
      <4>1. call[t].msg \in Msg
        BY <2>0, <3>1 DEF CallInv, CallOK
      <4>2. Counting(t, call[t].msg)
        BY <3>1 DEF Counting, Before
      <4>3. Holders(call[t].msg) # {}
        BY <2>0, <4>1, <4>2, BackedOwned DEF IndInv, CountInv
      <4>4. QED
        BY <2>1, <4>1, <4>3 DEF Touches
    <3>2. CASE call[t].op \in {"unref", "send"} /\ pc[t] \in Before
      <4>1. call[t].msg \in Msg
        BY <2>0, <3>2 DEF CallInv, CallOK
      <4>2. own[t][call[t].msg] > 0
        <5>1. own[t][call[t].msg] >= 1 + Reserved(t, call[t].msg)
          BY <2>0, <3>2, <4>1 DEF OwnInv, OwnOK
        <5>2. own[t][call[t].msg] \in Nat
          BY <2>0, <4>1 DEF TypeOK
        <5>3. QED
          BY <5>1, <5>2 DEF Reserved
      <4>3. QED
        BY <2>2, <4>1, <4>2 DEF Touches
    <3>3. QED
      BY <3>1, <3>2 DEF Touches, Before
  <2>4. ASSUME NEW t \in Thread, call[t].op = "receive", call[t].result = "ok"
        PROVE  call[t].msg \in alive
    <3>1. call[t].msg \in Msg
      BY <2>0, <2>4 DEF CallInv, CallOK
    <3>2. own[t][call[t].msg] > 0
      BY <2>0, <2>4, <3>1 DEF OwnInv, OwnOK, TypeOK
    <3>3. QED
      BY <2>2, <3>1, <3>2
  <2>5. ASSUME NEW c \in Core, stage[c] = "callback" PROVE buffer[c] \in alive
    <3>1. buffer[c] \in Msg
      BY <2>0, <2>5 DEF HandlerInv, HandlerOK
    <3>2. own[Handler(c)][buffer[c]] > 0
      <4>1. own[Handler(c)][buffer[c]] >= Reserved(Handler(c), buffer[c])
        BY <2>0, <3>1, HandlerThread DEF OwnInv, OwnOK
      <4>2. Reserved(Handler(c), buffer[c]) = 1
        BY HandlerOnly DEF Reserved
      <4>3. own[Handler(c)][buffer[c]] \in Nat
        BY <2>0, <3>1, HandlerThread DEF TypeOK
      <4>4. QED
        BY <4>1, <4>2, <4>3
    <3>3. QED
      BY <2>2, <3>1, <3>2, HandlerThread
  <2>6. ASSUME NEW c \in Core, NEW i \in Occupied(c) PROVE slots[c][i] \in alive
    BY <2>0, <2>1, <2>6, SlotHolder DEF QueueInv
  <2>7. QED
    BY <2>3, <2>4, <2>5, <2>6 DEF NoUseAfterFree
<1>2. QED
  BY <1>1, Inductive, PTL

-----------------------------------------------------------------------------
(* A ring as a sequence                                                    *)

Used(h, t)     == IF t <= h THEN h - t ELSE QSize + h - t
Place(t, i)    == IF t + i - 1 < QSize THEN t + i - 1 ELSE t + i - 1 - QSize
Ring(sl, h, t) == [i \in 1 .. Used(h, t) |-> sl[Place(t, i)]]

Index == 0 .. QSize - 1
Slot  == Msg \cup {NoMsg}

LEMMA ContentsAreRing ==
  \A c \in Core : Contents(c) = Ring(slots[c], head[c], tail[c])
BY DEF Contents, Length, Ring, Used, Place

\* The places of a ring are its occupied slots.
LEMMA RingPlaces ==
  ASSUME NEW h \in Index, NEW t \in Index
  PROVE  /\ Used(h, t) \in Index
         /\ \A i \in 1 .. Used(h, t) : /\ Place(t, i) \in Index
                                       /\ IF t <= h THEN t <= Place(t, i) /\ Place(t, i) < h
                                                    ELSE t <= Place(t, i) \/ Place(t, i) < h
         /\ \A j \in Index : (IF t <= h THEN t <= j /\ j < h ELSE t <= j \/ j < h)
               => \E i \in 1 .. Used(h, t) : Place(t, i) = j
<1>1. Used(h, t) \in Index
  BY QSizeAssumption DEF Index, Used
<1>2. ASSUME NEW i \in 1 .. Used(h, t)
      PROVE  /\ Place(t, i) \in Index
             /\ IF t <= h THEN t <= Place(t, i) /\ Place(t, i) < h
                          ELSE t <= Place(t, i) \/ Place(t, i) < h
  BY QSizeAssumption DEF Index, Used, Place
<1>3. ASSUME NEW j \in Index, IF t <= h THEN t <= j /\ j < h ELSE t <= j \/ j < h
      PROVE  \E i \in 1 .. Used(h, t) : Place(t, i) = j
  <2>1. CASE t <= j
    <3>1. j - t + 1 \in 1 .. Used(h, t) /\ Place(t, j - t + 1) = j
      BY <1>3, <2>1, QSizeAssumption DEF Index, Used, Place
    <3> QED BY <3>1
  <2>2. CASE ~(t <= j)
    <3>1. j - t + 1 + QSize \in 1 .. Used(h, t) /\ Place(t, j - t + 1 + QSize) = j
      BY <1>3, <2>2, QSizeAssumption DEF Index, Used, Place
    <3> QED BY <3>1
  <2> QED BY <2>1, <2>2
<1> QED BY <1>1, <1>2, <1>3

LEMMA RingType ==
  ASSUME NEW sl \in [Index -> Slot], NEW h \in Index, NEW t \in Index
  PROVE  /\ Ring(sl, h, t) \in [1 .. Used(h, t) -> Slot]
         /\ Len(Ring(sl, h, t)) = Used(h, t)
         /\ \A i \in 1 .. Used(h, t) : Ring(sl, h, t)[i] = sl[Place(t, i)]
<1>1. Used(h, t) \in Nat /\ \A i \in 1 .. Used(h, t) : Place(t, i) \in Index
  BY RingPlaces DEF Index
<1>2. Ring(sl, h, t) \in [1 .. Used(h, t) -> Slot]
  BY <1>1 DEF Ring
<1>3. \A n \in Nat : \A f \in [1 .. n -> Slot] : Len(f) = n
  OBVIOUS
<1> QED BY <1>1, <1>2, <1>3 DEF Ring

\* A store at the head appends, unless the ring is full.
LEMMA RingStores ==
  ASSUME NEW sl \in [Index -> Slot], NEW h \in Index, NEW t \in Index, NEW m \in Slot, Inc(h) # t
  PROVE  /\ Used(h, t) < QSize - 1
         /\ Ring([sl EXCEPT ![h] = m], Inc(h), t) = Append(Ring(sl, h, t), m)
<1> DEFINE n == Used(h, t)
           f == Ring(sl, h, t)
           g == Ring([sl EXCEPT ![h] = m], Inc(h), t)
<1>1. n \in Nat /\ n < QSize - 1 /\ Used(Inc(h), t) = n + 1 /\ Inc(h) \in Index
  BY QSizeAssumption DEF Index, Used, Inc
<1>2. f \in [1 .. n -> Slot] /\ \A i \in 1 .. n : f[i] = sl[Place(t, i)]
  BY RingType
<1>3. [sl EXCEPT ![h] = m] \in [Index -> Slot]
  OBVIOUS
<1>4. g \in [1 .. n + 1 -> Slot] /\ \A i \in 1 .. n + 1 : g[i] = [sl EXCEPT ![h] = m][Place(t, i)]
  <2>1. /\ g \in [1 .. Used(Inc(h), t) -> Slot]
        /\ \A i \in 1 .. Used(Inc(h), t) : g[i] = [sl EXCEPT ![h] = m][Place(t, i)]
    BY <1>1, <1>3, RingType
  <2> QED BY <1>1, <2>1
<1>5. Place(t, n + 1) = h /\ \A i \in 1 .. n : Place(t, i) \in Index /\ Place(t, i) # h
  BY QSizeAssumption DEF Index, Used, Place
<1> HIDE DEF n, f, g
<1>6. g[n + 1] = m
  BY <1>1, <1>4, <1>5
<1>7. \A i \in 1 .. n : g[i] = f[i]
  BY <1>1, <1>2, <1>4, <1>5
<1>8. \A S : \A x \in S, k \in Nat : \A a \in [1 .. k -> S] : \A b \in [1 .. k + 1 -> S] :
        (\A i \in 1 .. k : b[i] = a[i]) /\ b[k + 1] = x => b = Append(a, x)
  OBVIOUS
<1>9. g = Append(f, m)
  BY <1>1, <1>2, <1>4, <1>6, <1>7, <1>8
<1> QED BY <1>1, <1>9 DEF n, f, g

\* A take at the tail is the head of the sequence.
LEMMA RingTakes ==
  ASSUME NEW sl \in [Index -> Slot], NEW h \in Index, NEW t \in Index, h # t
  PROVE  /\ Ring(sl, h, t) # <<>> /\ Head(Ring(sl, h, t)) = sl[t]
         /\ Tail(Ring(sl, h, t)) = Ring(sl, h, Inc(t))
<1> DEFINE n == Used(h, t)
           f == Ring(sl, h, t)
           g == Ring(sl, h, Inc(t))
<1>1. n \in Nat /\ n > 0 /\ Used(h, Inc(t)) = n - 1 /\ Inc(t) \in Index
  BY QSizeAssumption DEF Index, Used, Inc
<1>2. f \in [1 .. n -> Slot] /\ \A i \in 1 .. n : f[i] = sl[Place(t, i)]
  BY RingType
<1>3. g \in [1 .. n - 1 -> Slot] /\ \A i \in 1 .. n - 1 : g[i] = sl[Place(Inc(t), i)]
  BY <1>1, RingType
<1>4. Place(t, 1) = t /\ \A i \in 1 .. n - 1 : Place(Inc(t), i) = Place(t, i + 1)
  BY QSizeAssumption DEF Index, Used, Place, Inc
<1> HIDE DEF n, f, g
<1>5. f[1] = sl[t] /\ \A i \in 1 .. n - 1 : g[i] = f[i + 1]
  BY <1>1, <1>2, <1>3, <1>4
<1>6. \A S : \A k \in Nat : \A a \in [1 .. k -> S] : \A b \in [1 .. k - 1 -> S] :
        k > 0 /\ (\A i \in 1 .. k - 1 : b[i] = a[i + 1]) => Tail(a) = b /\ Head(a) = a[1] /\ a # <<>>
  OBVIOUS
<1>7. Tail(f) = g /\ Head(f) = f[1] /\ f # <<>>
  BY <1>1, <1>2, <1>3, <1>5, <1>6
<1> QED BY <1>5, <1>7 DEF f, g

-----------------------------------------------------------------------------
(* The state of the bus                                                    *)

Queues == [c \in Core |-> Contents(c)]

\* Somebody refers to m, as the bus sees it.
Referred(m) ==
  \/ \E t \in Thread : own[t][m] > 0
  \/ \E c \in Core : \E i \in 1 .. Len(Queues[c]) : Queues[c][i] = m
  \/ lost[m] > 0

LEMMA ReferredHasHolder == TypeOK => \A m \in Msg : Referred(m) <=> Holders(m) # {}
<1> SUFFICES ASSUME TypeOK, NEW m \in Msg PROVE Referred(m) <=> Holders(m) # {}
  OBVIOUS
<1>1. (\E t \in Thread : own[t][m] > 0) <=> Held(m) # {}
  <2>1. \A t \in Thread : own[t][m] \in Nat
    BY DEF TypeOK
  <2>2. ASSUME NEW t \in Thread, own[t][m] > 0 PROVE Held(m) # {}
    <3>1. 1 \in 1 .. own[t][m]
      BY <2>1, <2>2
    <3> QED BY <3>1, HeldMember
  <2>3. ASSUME NEW x \in Held(m) PROVE \E t \in Thread : own[t][m] > 0
    <3>1. PICK t \in Thread : \E i \in 1 .. own[t][m] : x = <<"thread", t, i>>
      BY <2>3, HeldMember
    <3>2. own[t][m] > 0
      BY <2>1, <3>1
    <3> QED BY <3>2
  <2> QED BY <2>2, <2>3
<1>2. (\E c \in Core : \E i \in 1 .. Len(Queues[c]) : Queues[c][i] = m) <=> Queued(m) # {}
  <2>1. ASSUME NEW c \in Core
        PROVE  (\E i \in 1 .. Len(Queues[c]) : Queues[c][i] = m)
                 <=> \E j \in Occupied(c) : slots[c][j] = m
    <3>1. slots[c] \in [Index -> Slot] /\ head[c] \in Index /\ tail[c] \in Index
      BY DEF TypeOK, Index, Slot
    <3>2. Queues[c] = Ring(slots[c], head[c], tail[c])
      BY ContentsAreRing DEF Queues
    <3>3. /\ Len(Queues[c]) = Used(head[c], tail[c])
          /\ \A i \in 1 .. Used(head[c], tail[c]) : Queues[c][i] = slots[c][Place(tail[c], i)]
      BY <3>1, <3>2, RingType
    <3>4. Occupied(c) = {j \in Index : IF tail[c] <= head[c] THEN tail[c] <= j /\ j < head[c]
                                                             ELSE tail[c] <= j \/ j < head[c]}
      BY DEF Occupied, Index
    <3>5. \A i \in 1 .. Used(head[c], tail[c]) : Place(tail[c], i) \in Occupied(c)
      BY <3>1, <3>4, RingPlaces
    <3>6. \A j \in Occupied(c) : \E i \in 1 .. Used(head[c], tail[c]) : Place(tail[c], i) = j
      BY <3>1, <3>4, RingPlaces
    <3> QED BY <3>3, <3>5, <3>6
  <2>2. Queued(m) # {} <=> \E c \in Core : \E j \in Occupied(c) : slots[c][j] = m
    <3>1. ASSUME NEW x \in Queued(m) PROVE \E c \in Core : \E j \in Occupied(c) : slots[c][j] = m
      BY <3>1, QueuedMember
    <3>2. ASSUME NEW c \in Core, NEW j \in Occupied(c), slots[c][j] = m PROVE Queued(m) # {}
      BY <3>2, QueuedMember
    <3> QED BY <3>1, <3>2
  <2> QED BY <2>1, <2>2
<1>3. lost[m] > 0 <=> Dropped(m) # {}
  <2>1. lost[m] \in Nat
    BY DEF TypeOK
  <2>2. lost[m] > 0 => 1 \in 1 .. lost[m]
    BY <2>1
  <2>3. Dropped(m) # {} => \E i : i \in 1 .. lost[m]
    BY DroppedMember
  <2>4. (\E i : i \in 1 .. lost[m]) => lost[m] > 0
    BY <2>1
  <2> QED BY <2>2, <2>3, <2>4, DroppedMember
<1> QED BY <1>1, <1>2, <1>3 DEF Referred, Holders

\* A message exists exactly as long as somebody refers to it.
AliveReferred == \A m \in Msg : m \in alive <=> Referred(m)

LEMMA AliveIsReferred == IndInv => AliveReferred
<1> SUFFICES ASSUME IndInv, NEW m \in Msg PROVE m \in alive <=> Referred(m)
  BY DEF AliveReferred
<1>1. TypeOK /\ MsgOK(m)
  BY DEF IndInv, LockInv, CountInv
<1>2. Referred(m) <=> Holders(m) # {}
  BY <1>1, ReferredHasHolder
<1>3. m \notin alive => Holders(m) = {}
  BY <1>1 DEF MsgOK
<1>4. ASSUME m \in alive PROVE Holders(m) # {}
  <2>1. CASE Fresh(m)
    BY <1>1, <2>1 DEF MsgOK, Fresh
  <2>2. CASE ~Fresh(m)
    <3>1. Cardinality(Holders(m)) # 0
      BY <1>1, <1>4, <2>2 DEF MsgOK
    <3> QED BY <3>1, FS_EmptySet
  <2> QED BY <2>1, <2>2
<1> QED BY <1>2, <1>3, <1>4

LEMMA AliveIsReferredNext == IndInv' => \A m \in Msg : m \in alive' <=> Referred(m)'
<1>1. IndInv' => AliveReferred'
  BY AliveIsReferred, PTL
<1> QED BY <1>1 DEF AliveReferred

LEMMA OwnedIsAlive ==
  ASSUME IndInv, NEW t \in Thread, NEW m \in Msg, own[t][m] > 0
  PROVE  m \in alive
BY AliveIsReferred DEF AliveReferred, Referred

LEMMA BusReferredNext == \A m : Bus!ReferredNext(m) <=> Referred(m)'
BY DEF Bus!ReferredNext, Referred, Queues

-----------------------------------------------------------------------------
(* Every step is a step of the bus, or none                                *)

LEMMA QueuesStay == UNCHANGED <<slots, head, tail>> => Queues' = Queues
BY DEF Queues, Contents, Length

\* What the steps outside the locked sections leave alone.
LEMMA Stutters ==
  ASSUME UNCHANGED <<alive, own, slots, head, tail, lost>>
  PROVE  UNCHANGED Bus!busVars
<1>1. Queues' = Queues
  BY QueuesStay
<1> QED BY <1>1 DEF Bus!busVars, Queues

LEMMA CreateRefines ==
  ASSUME IndInv, NEW t \in Thread, CreateBody(t)
  PROVE  (\E m \in Msg : Bus!Create(t, m)) \/ UNCHANGED Bus!busVars
<1>1. Queues' = Queues /\ UNCHANGED lost
  BY QueuesStay DEF CreateBody, shared
<1>2. TypeOK
  BY DEF IndInv, LockInv
<1>3. CASE \E m \in Msg \ alive : alive' = alive \cup {m} /\ Take(t, m)
  <2>1. PICK m \in Msg \ alive : alive' = alive \cup {m} /\ Take(t, m)
    BY <1>3
  <2>2. own[t][m] = 0
    <3>1. own[t][m] \in Nat
      BY <1>2 DEF TypeOK
    <3> QED BY <2>1, <3>1, OwnedIsAlive
  <2>3. own' = [own EXCEPT ![t][m] = 1]
    BY <1>2, <2>1, <2>2 DEF Take, TypeOK
  <2>4. Bus!Create(t, m)
    BY <1>1, <2>1, <2>3 DEF Bus!Create, Queues
  <2> QED BY <2>4
<1>4. CASE UNCHANGED <<alive, own>>
  BY <1>1, <1>4 DEF Bus!busVars, Queues
<1> QED BY <1>3, <1>4 DEF CreateBody

LEMMA RefRefines ==
  ASSUME IndInv, NEW t \in Thread, RefBody(t)
  PROVE  \E m \in Msg : Bus!Share(t, m)
<1> DEFINE m == call[t].msg
<1>1. Queues' = Queues /\ UNCHANGED <<lost, alive>> /\ Take(t, m)
  BY QueuesStay DEF RefBody, shared
<1>2. TypeOK /\ CallInv /\ CountInv /\ At(t, "body", "ref")
  BY DEF IndInv, LockInv, RefBody
<1>3. m \in Msg /\ Counting(t, m)
  BY <1>2 DEF CallInv, CallOK, At, Counting
<1>4. Holders(m) # {} /\ MsgOK(m)
  BY <1>2, <1>3, BackedOwned DEF CountInv
<1>5. m \in alive
  BY <1>4 DEF MsgOK
<1>6. Bus!Share(t, m)
  BY <1>1, <1>5 DEF Bus!Share, Queues, Take
<1> QED BY <1>3, <1>6

LEMMA UnRefRefines ==
  ASSUME IndInv, IndInv', NEW t \in Thread, UnRefBody(t)
  PROVE  \E m \in Msg : Bus!Drop(t, m)
<1> DEFINE m == call[t].msg
<1>1. /\ Queues' = Queues /\ UNCHANGED lost /\ Give(t, m)
      /\ alive' = IF ref'[m] = 0 THEN alive \ {m} ELSE alive
  BY QueuesStay DEF UnRefBody, shared
<1>2. m \in Msg /\ own[t][m] > 0
  BY BodyOwns DEF IndInv, LockInv, UnRefBody, At
<1>3. m \in alive
  BY <1>2, OwnedIsAlive
<1>4. m \in alive' <=> Bus!ReferredNext(m)
  BY <1>2, AliveIsReferredNext, BusReferredNext
<1>5. alive' = IF Bus!ReferredNext(m) THEN alive ELSE alive \ {m}
  BY <1>1, <1>3, <1>4
<1> HIDE DEF m
<1>6. Bus!Drop(t, m)
  BY <1>1, <1>2, <1>5 DEF Bus!Drop, Queues, Give
<1> QED BY <1>2, <1>6

LEMMA SendRefines ==
  ASSUME IndInv, NEW t \in Thread, SendBody(t)
  PROVE  (\E m \in Msg, d \in Core : Bus!Send(t, m, d)) \/ UNCHANGED Bus!busVars
<1> DEFINE m == call[t].msg
           d == call[t].dst
<1>1. TypeOK /\ UNCHANGED <<alive, lost, tail>>
  BY DEF IndInv, LockInv, SendBody, heap
<1>2. m \in Msg /\ own[t][m] > 0
  BY BodyOwns DEF IndInv, LockInv, SendBody, At
<1>3. d \in Core
  BY <1>1, CallsFields DEF TypeOK
<1>4. CASE UNCHANGED <<slots, head, own>>
  BY <1>1, <1>4, Stutters
<1>5. CASE /\ ~queueFull(d) /\ Give(t, m)
           /\ slots' = [slots EXCEPT ![d][head[d]] = m]
           /\ head' = [head EXCEPT ![d] = Inc(@)]
  <2> HIDE DEF m, d
  <2>1. slots[d] \in [Index -> Slot] /\ head[d] \in Index /\ tail[d] \in Index /\ m \in Slot
    BY <1>1, <1>2, <1>3 DEF TypeOK, Index, Slot
  <2>2. Inc(head[d]) # tail[d]
    BY <1>5 DEF queueFull
  <2>3. Queues[d] = Ring(slots[d], head[d], tail[d])
    BY <1>3, ContentsAreRing DEF Queues
  <2>4. Queues'[d] = Ring([slots[d] EXCEPT ![head[d]] = m], Inc(head[d]), tail[d])
    <3>1. Queues'[d] = Ring(slots'[d], head'[d], tail'[d])
      BY <1>3 DEF Queues, Contents, Length, Ring, Used, Place
    <3>2. slots'[d] = [slots[d] EXCEPT ![head[d]] = m] /\ head'[d] = Inc(head[d])
      BY <1>1, <1>3, <1>5 DEF TypeOK
    <3> QED BY <1>1, <3>1, <3>2
  <2>5. Queues'[d] = Append(Queues[d], m)
    <3>1. Ring([slots[d] EXCEPT ![head[d]] = m], Inc(head[d]), tail[d])
            = Append(Ring(slots[d], head[d], tail[d]), m)
      BY <2>1, <2>2, RingStores
    <3> HIDE DEF Ring
    <3> QED BY <2>3, <2>4, <3>1
  <2>6. \A c \in Core \ {d} : Queues'[c] = Queues[c]
    <3>1. \A c \in Core \ {d} : slots'[c] = slots[c] /\ head'[c] = head[c] /\ tail'[c] = tail[c]
      BY <1>1, <1>5 DEF TypeOK
    <3> QED BY <3>1 DEF Queues, Contents, Length
  <2>7. Queues' = [Queues EXCEPT ![d] = Append(@, m)]
    BY <1>3, <2>5, <2>6 DEF Queues
  <2>8. Len(Queues[d]) < QSize - 1
    BY <2>1, <2>2, <2>3, RingStores, RingType
  <2>9. Bus!Send(t, m, d)
    BY <1>1, <1>2, <1>5, <2>7, <2>8 DEF Bus!Send, Queues, Give
  <2> QED BY <1>2, <1>3, <2>9
<1> QED BY <1>4, <1>5 DEF SendBody

LEMMA ReceiveRefines ==
  ASSUME IndInv, NEW t \in Thread, ReceiveBody(t)
  PROVE  (\E c \in Core : Bus!Receive(t, c)) \/ UNCHANGED Bus!busVars
<1> DEFINE c == t[1]
           m == slots[c][tail[c]]
<1>1. TypeOK /\ UNCHANGED <<alive, lost, slots, head>> /\ c \in Core
  BY ThreadParts DEF IndInv, LockInv, ReceiveBody, heap
<1>2. CASE UNCHANGED <<tail, own>>
  BY <1>1, <1>2, Stutters
<1>3. CASE ~queueEmpty(c) /\ tail' = [tail EXCEPT ![c] = Inc(@)] /\ Take(t, m)
  <2> HIDE DEF c
  <2>1. slots[c] \in [Index -> Slot] /\ head[c] \in Index /\ tail[c] \in Index /\ head[c] # tail[c]
    BY <1>1, <1>3 DEF TypeOK, Index, Slot, queueEmpty
  <2>2. Queues[c] = Ring(slots[c], head[c], tail[c])
    BY <1>1, ContentsAreRing DEF Queues
  <2>3. Queues'[c] = Ring(slots[c], head[c], Inc(tail[c]))
    <3>1. Queues'[c] = Ring(slots'[c], head'[c], tail'[c])
      BY <1>1 DEF Queues, Contents, Length, Ring, Used, Place
    <3>2. tail'[c] = Inc(tail[c])
      BY <1>1, <1>3 DEF TypeOK
    <3> QED BY <1>1, <3>1, <3>2
  <2>4. Queues[c] # <<>> /\ Head(Queues[c]) = m /\ Queues'[c] = Tail(Queues[c])
    BY <2>1, <2>2, <2>3, RingTakes
  <2>5. \A e \in Core \ {c} : Queues'[e] = Queues[e]
    <3>1. \A e \in Core \ {c} : tail'[e] = tail[e]
      BY <1>1, <1>3 DEF TypeOK
    <3> QED BY <1>1, <3>1 DEF Queues, Contents, Length
  <2>6. Queues' = [Queues EXCEPT ![c] = Tail(@)]
    BY <1>1, <2>4, <2>5 DEF Queues
  <2> HIDE DEF m
  <2>7. Bus!Receive(t, c)
    BY <1>1, <1>3, <2>4, <2>6 DEF Bus!Receive, Queues, Take
  <2> QED BY <1>1, <2>7
<1> QED BY <1>2, <1>3 DEF ReceiveBody

LEMMA PassOverRefines ==
  ASSUME IndInv, NEW c \in Core, PassOver(c)
  PROVE  \E m \in Msg : Bus!Leak(Handler(c), m)
<1> DEFINE h == Handler(c)
           m == call[h].msg
<1>1. /\ Queues' = Queues /\ UNCHANGED alive /\ Give(h, m)
      /\ lost' = [lost EXCEPT ![m] = @ + 1]
  BY QueuesStay DEF PassOver, shared, heap
<1>2. TypeOK /\ CallInv /\ OwnInv /\ h \in Thread
  BY HandlerThread DEF IndInv, LockInv
<1>3. call[h].op = "receive" /\ call[h].result = "ok"
  BY DEF PassOver, At
<1>4. m \in Msg /\ own[h][m] > 0
  <2>1. m \in Msg
    BY <1>2, <1>3 DEF CallInv, CallOK
  <2>2. own[h][m] \in Nat /\ own[h][m] >= 1
    BY <1>2, <1>3, <2>1 DEF OwnInv, OwnOK, TypeOK
  <2> QED BY <2>1, <2>2
<1> HIDE DEF h, m
<1>5. Bus!Leak(h, m)
  BY <1>1, <1>4 DEF Bus!Leak, Queues, Give
<1> QED BY <1>4, <1>5 DEF h

LEMMA StepRefines == IndInv /\ IndInv' /\ [Next]_vars => [Bus!Next]_Bus!busVars
<1> SUFFICES ASSUME IndInv, IndInv', [Next]_vars PROVE Bus!Next \/ UNCHANGED Bus!busVars
  OBVIOUS
<1>1. ASSUME NEW t \in Thread, CreateBody(t) PROVE Bus!Next \/ UNCHANGED Bus!busVars
  BY <1>1, CreateRefines DEF Bus!Next
<1>2. ASSUME NEW t \in Thread, RefBody(t) \/ UnRefBody(t) PROVE Bus!Next
  BY <1>2, RefRefines, UnRefRefines DEF Bus!Next
<1>3. ASSUME NEW t \in Thread, SendBody(t) \/ ReceiveBody(t) PROVE Bus!Next \/ UNCHANGED Bus!busVars
  BY <1>3, SendRefines, ReceiveRefines DEF Bus!Next
<1>4. ASSUME NEW c \in Core, PassOver(c) PROVE Bus!Next
  BY <1>4, PassOverRefines, HandlerThread DEF Bus!Next
<1>5. ASSUME NEW t \in Thread,
             \/ Client(t) \/ EnterCritical(t) \/ AcquireLock(t) \/ ReleaseLock(t)
             \/ ExitCritical(t) \/ InitMsg(t) \/ RaiseInterrupt(t)
      PROVE  UNCHANGED Bus!busVars
  <2>1. UNCHANGED <<alive, own, slots, head, tail, lost>>
    BY <1>5 DEF Client, BeginCreate, BeginRef, BeginUnRef, BeginSend, EnterCritical, AcquireLock,
                ReleaseLock, ExitCritical, InitMsg, RaiseInterrupt, heap, shared, ghost
  <2> QED BY <2>1, Stutters
<1>6. ASSUME NEW c \in Core,
             \/ Initialize(c) \/ RegisterCallback(c) \/ EnterHandler(c) \/ BeginReceive(c)
             \/ LeaveHandler(c) \/ CallUser(c) \/ Discard(c) \/ EndCallback(c)
      PROVE  UNCHANGED Bus!busVars
  <2>1. UNCHANGED <<alive, own, slots, head, tail, lost>>
    BY <1>6 DEF Initialize, RegisterCallback, EnterHandler, BeginReceive, LeaveHandler, CallUser,
                Discard, EndCallback, heap, shared, ghost
  <2> QED BY <2>1, Stutters
<1>7. CASE UNCHANGED vars
  BY <1>7, Stutters DEF vars, heap, shared, ghost
<1> QED BY <1>1, <1>2, <1>3, <1>4, <1>5, <1>6, <1>7 DEF Next, Continue, Handle

\* Counters, rings, the lock and the interrupts of sae.c implement messages
\* shared by reference and delivered first in first out: for any number of
\* cores, levels and messages, any queue and any client.
THEOREM BusImplemented == Spec => ImplementsMsgBus
<1>1. Init => Bus!Init
  <2> SUFFICES ASSUME Init PROVE Bus!Init
    OBVIOUS
  <2>1. \A c \in Core : Contents(c) = <<>>
    BY DEF Init, Contents, Length
  <2> QED BY <2>1 DEF Init, Bus!Init
<1> QED BY <1>1, StepRefines, Inductive, PTL DEF Spec, ImplementsMsgBus, Bus!Spec

=============================================================================
