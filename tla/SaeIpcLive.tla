----------------------------- MODULE SaeIpcLive -----------------------------
(***************************************************************************)
(* SaeIpc with clients that make finitely many calls, to see every call    *)
(* return and every message reach its core.  The spin lock promises no     *)
(* order among the cores that spin on it: with clients that call for ever  *)
(* one of them could starve, so the number of client calls is bounded.     *)
(***************************************************************************)
EXTENDS SaeIpc

CONSTANT MaxCalls   \* bound: calls the clients make
ASSUME MaxCallsAssumption == MaxCalls \in Nat

VARIABLE calls      \* calls the clients have made

liveVars == <<vars, calls>>

LiveInit == Init /\ calls = 0

ClientCalls == /\ calls < MaxCalls
               /\ calls' = calls + 1
               /\ \E t \in Thread : Client(t)

Runs(A) == A /\ UNCHANGED calls

LiveNext ==
  \/ ClientCalls
  \/ \E c \in Core : Runs(Initialize(c) \/ RegisterCallback(c) \/ Handle(c))
  \/ \E t \in Thread : Runs(Continue(t))

\* Each core executes its instructions and takes its pending interrupts.
\* Nothing makes a client start a call.
LiveSpec ==
  /\ LiveInit /\ [][LiveNext]_liveVars
  /\ \A t \in Thread : WF_liveVars(Runs(Continue(t)))
  /\ \A c \in Core : WF_liveVars(Runs(Handle(c)))

\* Every library call returns: no core waits for ever for the lock, alone or
\* with the others.
CallsReturn == \A t \in Thread : pc[t] # "idle" ~> pc[t] = "idle"

\* A core whose queue has a message in it goes on to empty the queue: no
\* interrupt edge is lost between the raise and the handler's loop.
MessagesDelivered == \A c \in Core : ~queueEmpty(c) ~> queueEmpty(c)
=============================================================================
