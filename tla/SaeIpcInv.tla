----------------------------- MODULE SaeIpcInv -----------------------------
(***************************************************************************)
(* The inductive invariant of SaeIpc, part by part.                        *)
(***************************************************************************)
EXTENDS SaeIpc

\* The client bound must leave room for one reference and for the counter.
ASSUME BoundAssumption == 1 <= MaxRefs /\ MaxRefs <= RefMax

\* Inside sae_lockIpc .. sae_unLockIpc, spinning included.
Critical == {"spin", "body", "unlock", "exit"}
Before   == {"enter", "spin", "body"}

\* A thread in a critical section has interrupts disabled on its core, and
\* no higher level of the core is active.
MaskInv ==
  \A t \in Thread : pc[t] \in Critical =>
    /\ t[1] \in masked
    /\ \A u \in Thread : u[1] = t[1] /\ u[2] > t[2] => ~Active(u)

\* How far a call is and what it is about.
CallOK(t) ==
  /\ pc[t] = "idle" => call[t] = NoCall
  /\ pc[t] # "idle" => call[t].op # "none"
  /\ call[t].op = "create" =>
       /\ pc[t] \in Before => call[t].msg = NoMsg
       /\ pc[t] = "after"  => call[t].msg \in Msg
  /\ call[t].op \in {"ref", "unref", "send"} => call[t].msg \in Msg
  /\ call[t].op = "receive" =>
       /\ t[2] = IrqLevel /\ stage[t[1]] = "loop"
       /\ pc[t] \in Before => call[t].result = "none"
       /\ call[t].result = "ok" => call[t].msg \in Msg
  /\ pc[t] = "after" => call[t].op \in {"create", "send", "receive"}

CallInv == \A t \in Thread : CallOK(t)

\* The handler's stage, its call and its buffer go together.
HandlerOK(c) ==
  /\ stage[c] = "off" => pc[Handler(c)] = "idle"
  /\ stage[c] = "callback" <=> buffer[c] \in Msg

HandlerInv == \A c \in Core : HandlerOK(c)

\* The queued elements are messages.
QueueInv == \A c \in Core : \A i \in Occupied(c) : slots[c][i] \in Msg

\* The reference a call or a handler is going to give up is there.
Reserved(t, m) == IF t[2] = IrqLevel /\ buffer[t[1]] = m THEN 1 ELSE 0

OwnOK(t) ==
  \A m \in Msg :
    /\ own[t][m] >= Reserved(t, m)
    /\ call[t].op \in {"unref", "send"} /\ call[t].msg = m /\ pc[t] \in Before
         => own[t][m] >= 1 + Reserved(t, m)
    /\ call[t].op = "receive" /\ call[t].result = "ok" /\ call[t].msg = m
         => own[t][m] >= 1

OwnInv == \A t \in Thread : OwnOK(t)

\* When clients ask for the signal: a send that has queued its message was to
\* a core that is ready, whose interrupt it is going to raise.
SendOK(t) ==
  call[t].op = "send" =>
    call[t].signal /\ (call[t].result = "ok" => call[t].dst \in ready)

SendInv == \A t \in Thread : SendOK(t)

LockInv ==
  /\ TypeOK /\ MutualExclusion /\ MaskInv /\ CallInv
  /\ HandlerInv /\ QueueInv /\ OwnInv

WakeInv == LockInv /\ SendInv /\ NoLostWakeup

\* A message that does not exist has no references; one that is yet to be
\* initialised has its creator's only; the counter of any other is right,
\* and there is room to count the references about to be added.
MsgOK(m) ==
  /\ IsFiniteSet(Holders(m))
  /\ m \notin alive => Holders(m) = {}
  /\ \A t \in Thread : Initialising(t, m) =>
                       m \in alive /\ Holders(m) = {<<"thread", t, 1>>}
  /\ m \in alive /\ ~Fresh(m) => ref[m] = Cardinality(Holders(m)) /\ ref[m] # 0
  /\ Cardinality(Holders(m)) + Cardinality(Refs(m)) <= MaxRefs

\* A reference about to be counted is backed by one its core holds.
BackedOK(t) == \A m \in Msg : Counting(t, m) => Reaches(t, m)

CountInv == /\ \A m \in Msg : MsgOK(m)
            /\ \A t \in Thread : BackedOK(t)

IndInv == LockInv /\ CountInv
=============================================================================
