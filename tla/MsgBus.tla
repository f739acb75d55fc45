------------------------------- MODULE MsgBus -------------------------------
(***************************************************************************)
(* What the message functions of sae.h promise, without locks, counters,   *)
(* rings or interrupts: messages are shared by reference, a core's queue   *)
(* delivers references first in first out, and a message exists exactly as *)
(* long as somebody refers to it.                                          *)
(***************************************************************************)
EXTENDS Naturals, Sequences

CONSTANTS Core, Holder, Msg, Capacity

VARIABLES
  live,     \* the messages that exist
  held,     \* the number of references each holder has to each message
  queue,    \* the references each core has yet to receive
  leaked    \* the number of references given up without being dropped

busVars == <<live, held, queue, leaked>>

\* Somebody refers to m, after the step that is being taken.
ReferredNext(m) ==
  \/ \E h \in Holder : held'[h][m] > 0
  \/ \E c \in Core : \E i \in 1 .. Len(queue'[c]) : queue'[c][i] = m
  \/ leaked'[m] > 0

Init ==
  /\ live = {}
  /\ held = [h \in Holder |-> [m \in Msg |-> 0]]
  /\ queue = [c \in Core |-> <<>>]
  /\ leaked = [m \in Msg |-> 0]

Create(h, m) ==
  /\ m \notin live
  /\ live' = live \cup {m}
  /\ held' = [held EXCEPT ![h][m] = 1]
  /\ UNCHANGED <<queue, leaked>>

Share(h, m) ==
  /\ m \in live
  /\ held' = [held EXCEPT ![h][m] = @ + 1]
  /\ UNCHANGED <<live, queue, leaked>>

Drop(h, m) ==
  /\ held[h][m] > 0
  /\ held' = [held EXCEPT ![h][m] = @ - 1]
  /\ UNCHANGED <<queue, leaked>>
  /\ live' = IF ReferredNext(m) THEN live ELSE live \ {m}

Send(h, m, c) ==
  /\ held[h][m] > 0
  /\ Len(queue[c]) < Capacity
  /\ held' = [held EXCEPT ![h][m] = @ - 1]
  /\ queue' = [queue EXCEPT ![c] = Append(@, m)]
  /\ UNCHANGED <<live, leaked>>

Receive(h, c) ==
  /\ queue[c] # <<>>
  /\ held' = [held EXCEPT ![h][Head(queue[c])] = @ + 1]
  /\ queue' = [queue EXCEPT ![c] = Tail(@)]
  /\ UNCHANGED <<live, leaked>>

Leak(h, m) ==
  /\ held[h][m] > 0
  /\ held' = [held EXCEPT ![h][m] = @ - 1]
  /\ leaked' = [leaked EXCEPT ![m] = @ + 1]
  /\ UNCHANGED <<live, queue>>

Next ==
  \E h \in Holder :
    \/ \E m \in Msg : Create(h, m) \/ Share(h, m) \/ Drop(h, m) \/ Leak(h, m)
    \/ \E c \in Core : Receive(h, c) \/ \E m \in Msg : Send(h, m, c)

Spec == Init /\ [][Next]_busVars

=============================================================================
