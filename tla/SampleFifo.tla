----------------------------- MODULE SampleFifo -----------------------------
(***************************************************************************)
(* What a stream promises of its ring: a bounded queue of samples that is  *)
(* filled and drained, each in one step, while the stream is on, and       *)
(* cleared only while it is off or as it goes off.                         *)
(***************************************************************************)
EXTENDS Naturals, Sequences

CONSTANTS
  Size,    \* the samples the queue holds
  Samples  \* samples are numbered in turn, modulo Samples

VARIABLES
  on,      \* the stream is enabled
  queue,   \* samples put and not taken
  next,    \* the number of the next sample
  out      \* the samples taken last

fifoVars == <<on, queue, next, out>>

Numbered(n) == [k \in 1 .. n |-> (next + k - 1) % Samples]

Init ==
  /\ on = FALSE
  /\ queue = <<>>
  /\ next = 0
  /\ out = <<>>

Put(n) ==
  /\ on /\ Len(queue) + n <= Size
  /\ queue' = queue \o Numbered(n)
  /\ next' = (next + n) % Samples
  /\ UNCHANGED <<on, out>>

Get(n) ==
  /\ on /\ n <= Len(queue)
  /\ out' = SubSeq(queue, 1, n)
  /\ queue' = SubSeq(queue, n + 1, Len(queue))
  /\ UNCHANGED <<on, next>>

Clear ==
  /\ ~on
  /\ queue' = <<>>
  /\ UNCHANGED <<on, next, out>>

Switch ==
  /\ on' = ~on
  /\ queue' \in {queue} \cup (IF on THEN {<<>>} ELSE {})
  /\ UNCHANGED <<next, out>>

Next ==
  \/ \E n \in 1 .. Size : Put(n) \/ Get(n)
  \/ Clear
  \/ Switch

Spec == Init /\ [][Next]_fifoVars

=============================================================================
