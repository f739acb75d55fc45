------------------------------- MODULE Syslog -------------------------------
(***************************************************************************)
(* The system log: src/ARM/src/simple-services/syslog/syslog.c.            *)
(*                                                                         *)
(* Lines go round a ring; a print into a full ring drops the oldest line.  *)
(* Shells dump the log, or take it line by line.  The mutex is given back  *)
(* between two lines of a dump, while the line is printed.                 *)
(***************************************************************************)
EXTENDS Naturals

CONSTANTS
  Writers, Dumpers,  \* the tasks that print, and the shells
  Nobody,            \* the holder of a free mutex
  MaxLines,          \* SYSLOG_MAX_LINES
  Max,               \* the lines a dump prints at most
  MaxSeq             \* bound: lines printed in a behaviour

VARIABLES
  headIdx, tailIdx, seq, logDropped, logData,  \* SYSLOG_CONTEXT; a line is its number
  lock,         \* the holder of the mutex
  at,           \* where each task is
  count,        \* the lines each dump printed
  taken, last   \* history: lines taken from the log, and the last of them

log   == <<headIdx, tailIdx, seq, logDropped, logData>>
dumps == <<count, taken, last>>
vars  == <<log, lock, at, dumps>>

Goto(t, place) == at' = [at EXCEPT ![t] = place]
Empty          == tailIdx = headIdx

\* Mutant of Wrap: an index wraps one line late.
WrapLate(i) == IF i > MaxLines THEN 0 ELSE i

Wrap(i) == IF i = MaxLines THEN 0 ELSE i

-----------------------------------------------------------------------------
(* syslog_print                                                            *)

\* Mutant of Free: the mutex is not waited for.
FreeAlways == TRUE

Free == lock = Nobody

StartPrint(w) ==
  /\ at[w] = "idle" /\ Free /\ seq < MaxSeq
  /\ lock' = w
  /\ Goto(w, "head")
  /\ UNCHANGED <<log, dumps>>

AdvanceHead(w) ==
  /\ at[w] = "head"
  /\ headIdx' = Wrap(headIdx + 1)
  /\ Goto(w, "drop")
  /\ UNCHANGED <<tailIdx, seq, logDropped, logData, lock, dumps>>

Drop(w) ==
  /\ at[w] = "drop"
  /\ IF Empty
     THEN tailIdx' = Wrap(tailIdx + 1) /\ logDropped' = logDropped + 1
     ELSE UNCHANGED <<tailIdx, logDropped>>
  /\ Goto(w, "store")
  /\ UNCHANGED <<headIdx, seq, logData, lock, dumps>>

\* The line, its time and its number.
Store(w) ==
  /\ at[w] = "store"
  /\ logData' = [logData EXCEPT ![headIdx] = seq + 1]
  /\ seq' = seq + 1
  /\ lock' = Nobody
  /\ Goto(w, "idle")
  /\ UNCHANGED <<headIdx, tailIdx, logDropped, dumps>>

-----------------------------------------------------------------------------
(* syslog_dump; syslog_next is a dump of one line                          *)

\* syslog_dump(max), or syslog_next.
StartDump(d) ==
  /\ at[d] = "idle" /\ Free
  /\ lock' = d
  /\ \E n \in {0, Max - 1} : count' = [count EXCEPT ![d] = n]
  /\ Goto(d, "more?")
  /\ UNCHANGED <<log, taken, last>>

More(d) ==
  /\ at[d] = "more?"
  /\ IF Empty \/ count[d] = Max
     THEN lock' = Nobody /\ Goto(d, "idle")
     ELSE UNCHANGED lock /\ Goto(d, "tail")
  /\ UNCHANGED <<log, dumps>>

AdvanceTail(d) ==
  /\ at[d] = "tail"
  /\ tailIdx' = Wrap(tailIdx + 1)
  /\ Goto(d, "copy")
  /\ UNCHANGED <<headIdx, seq, logDropped, logData, lock, dumps>>

Copy(d) ==
  /\ at[d] = "copy"
  /\ taken' = taken + 1
  /\ last' = logData[tailIdx]
  /\ lock' = Nobody
  /\ Goto(d, "print")
  /\ UNCHANGED <<log, count>>

\* The line is printed, and the mutex taken for the next.
Again(d) ==
  /\ at[d] = "print" /\ Free
  /\ lock' = d
  /\ count' = [count EXCEPT ![d] = @ + 1]
  /\ Goto(d, "more?")
  /\ UNCHANGED <<log, taken, last>>

-----------------------------------------------------------------------------
Init ==
  /\ headIdx = 0 /\ tailIdx = 0 /\ seq = 0 /\ logDropped = 0
  /\ logData = [i \in 0 .. MaxLines - 1 |-> 0]
  /\ lock = Nobody
  /\ at = [t \in Writers \cup Dumpers |-> "idle"]
  /\ count = [d \in Dumpers |-> 0]
  /\ taken = 0 /\ last = 0

PrintLine(w) == StartPrint(w) \/ AdvanceHead(w) \/ Drop(w) \/ Store(w)
Dump(d)  == StartDump(d) \/ More(d) \/ AdvanceTail(d) \/ Copy(d) \/ Again(d)

Next ==
  \/ \E w \in Writers : PrintLine(w)
  \/ \E d \in Dumpers : Dump(d)

Spec == Init /\ [][Next]_vars

-----------------------------------------------------------------------------
TypeOK ==
  /\ {headIdx, tailIdx} \subseteq 0 .. MaxLines - 1
  /\ logData \in [0 .. MaxLines - 1 -> 0 .. MaxSeq]
  /\ {seq, logDropped, taken, last} \subseteq 0 .. MaxSeq
  /\ lock \in Writers \cup Dumpers \cup {Nobody}
  /\ DOMAIN at = Writers \cup Dumpers
  /\ count \in [Dumpers -> 0 .. Max]

Queued == (headIdx + MaxLines - tailIdx) % MaxLines

\* Every line printed was taken by one dump, counted as dropped, or waits, and
\* those that wait are the latest, in order, after any taken: dumps that share
\* the log with each other and with prints, line by line, repeat none and
\* miss none that was not counted.
LogAccounted ==
  Free =>
    /\ taken + logDropped + Queued = seq
    /\ \A k \in 1 .. Queued : logData[(tailIdx + k) % MaxLines] = seq - Queued + k
    /\ last <= seq - Queued

=============================================================================
