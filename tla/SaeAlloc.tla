------------------------------ MODULE SaeAlloc ------------------------------
(***************************************************************************)
(* The shared heap of the SAE library: src/ALL/src/sae/sae_alloc.c.        *)
(*                                                                         *)
(* The heap is a chain of blocks in one array of 32-bit words.  Offsets    *)
(* are in units of ALIGNMENT (8 bytes, two words) from sae_heap_start: the *)
(* block at p has its header in the word before p and its footer in the    *)
(* first word of the last unit, so the words between belong to the client. *)
(* Every call runs under the IPC lock (see SaeIpc), so each is one step.   *)
(***************************************************************************)
EXTENDS Integers, FiniteSetsExt

CONSTANTS
  Size,       \* units between sae_heap_start and the end marker
  Requests,   \* block sizes asked for: (bytes + BOOK_KEEPING) rounded up
  Junk,       \* values clients leave in the words of their blocks
  NullWords,  \* what the word before address NULL may read as
  Nil         \* NULL

\* ALIGN_UP(ALIGNMENT + BOOK_KEEPING, ALIGNMENT), in units.
MinSplit == 2

Word == [size : 0 .. Size, alloc : BOOLEAN]

ASSUME SizeAssumption    == Size \in Nat /\ Size >= 2
ASSUME RequestAssumption == Requests \subseteq 2 .. Size
ASSUME JunkAssumption    == Junk \subseteq Word

\* A read before NULL that does not stop the core finds no usable block.
ASSUME NullAssumption    == /\ NullWords \subseteq Word
                            /\ \A w \in NullWords : w.alloc \/ w.size = 0
                            /\ Nil \notin Int

VARIABLES
  mem,      \* the words of the heap, by index
  lastFree, \* the word at LAST_FREE(sae_heap_start), as the address it denotes
  answer    \* history: the last call and what it returned

vars == <<mem, lastFree, answer>>

-----------------------------------------------------------------------------
(* Words, headers and footers *)

Cells        == -3 .. 2 * Size - 1
BLK_START(p) == 2 * p - 1
BLK_PREV(p)  == 2 * p - 2

BLK_SIZE(m, p) == m[BLK_START(p)].size
BLK_FREE(m, p) == ~m[BLK_START(p)].alloc
NEXT(m, p)     == p + BLK_SIZE(m, p)
PREV(m, p)     == p - m[BLK_PREV(p)].size

\* Mutant of MARK_BLK: only the header is written.
MARK_HEADER(m, p, n, a) == [m EXCEPT ![BLK_START(p)] = [size |-> n, alloc |-> a]]

\* BLK_END(p), the footer, is the word before the next block's header.
MARK_BLK(m, p, n, a) ==
  [m EXCEPT ![BLK_START(p)]    = [size |-> n, alloc |-> a],
            ![BLK_PREV(p + n)] = [size |-> n, alloc |-> a]]

\* The header of the "last free" block: anything when the shortcut is NULL.
LastHeaders == IF lastFree = Nil THEN NullWords ELSE {mem[BLK_START(lastFree)]}

\* The blocks met from p on, the end marker included.
Walk(m) == LET from[p \in 0 .. Size] ==
                 {p} \cup IF BLK_SIZE(m, p) > 0 /\ NEXT(m, p) <= Size
                          THEN from[NEXT(m, p)] ELSE {}
           IN from[0]
Blocks    == {p \in Walk(mem) : BLK_SIZE(mem, p) > 0}
Allocated == {p \in Blocks : ~BLK_FREE(mem, p)}

-----------------------------------------------------------------------------
(* Initial heap: one free block between two allocated markers *)

Init ==
  /\ mem \in {MARK_BLK([i \in Cells |->
                 CASE i \in {BLK_PREV(0), BLK_START(-1)} -> [size |-> 1, alloc |-> TRUE]
                   [] i = BLK_START(Size)               -> [size |-> 0, alloc |-> TRUE]
                   [] OTHER -> w], 0, Size, FALSE) : w \in Junk}
  /\ lastFree = 0
  /\ answer = [op |-> "none", size |-> 0, ptr |-> Nil]

-----------------------------------------------------------------------------
(* sae_alloc_malloc *)

\* Where malloc finds room for n units: the last free block, else first fit.
Candidates(w, n) ==
  IF ~w.alloc /\ w.size >= n THEN {lastFree}
  ELSE LET fits == {p \in Blocks : BLK_FREE(mem, p) /\ BLK_SIZE(mem, p) >= n}
       IN IF fits = {} THEN {} ELSE {Min(fits)}

\* Mutant of Split: no remainder is ever split off.
SplitNone(p, n) == FALSE

Split(p, n) == BLK_SIZE(mem, p) >= n + MinSplit

\* Mutant of Take: the remainder keeps the size of the whole block.
TakeKeepsSize(p, n) ==
  IF Split(p, n)
  THEN /\ mem' = MARK_BLK(MARK_BLK(mem, p, n, TRUE), p + n,
                          Min({BLK_SIZE(mem, p), Size - p - n}), FALSE)
       /\ lastFree' = p + n
  ELSE /\ mem' = MARK_BLK(mem, p, BLK_SIZE(mem, p), TRUE)
       /\ lastFree' = Nil

\* sae_alloc_set_last_free(ptr, next) always stores next: NULL without a split.
Take(p, n) ==
  IF Split(p, n)
  THEN /\ mem' = MARK_BLK(MARK_BLK(mem, p, n, TRUE), p + n, BLK_SIZE(mem, p) - n, FALSE)
       /\ lastFree' = p + n
  ELSE /\ mem' = MARK_BLK(mem, p, BLK_SIZE(mem, p), TRUE)
       /\ lastFree' = Nil

Malloc(n) ==
  \E w \in LastHeaders :
    \/ \E p \in Candidates(w, n) :
         Take(p, n) /\ answer' = [op |-> "malloc", size |-> n, ptr |-> p]
    \/ /\ Candidates(w, n) = {}
       /\ answer' = [op |-> "malloc", size |-> n, ptr |-> Nil]
       /\ UNCHANGED <<mem, lastFree>>

-----------------------------------------------------------------------------
(* sae_alloc_free and sae_alloc_coalesce *)

\* Mutant of Merge: the previous block is not merged.
MergeNext(m, p) ==
  [start |-> p,
   size  |-> BLK_SIZE(m, p) +
             IF BLK_FREE(m, NEXT(m, p)) THEN BLK_SIZE(m, NEXT(m, p)) ELSE 0]

\* The block that p and its free neighbours make.
Merge(m, p) ==
  LET prev == PREV(m, p)
      next == NEXT(m, p)
  IN [start |-> IF BLK_FREE(m, prev) THEN prev ELSE p,
      size  |-> BLK_SIZE(m, p)
                + (IF BLK_FREE(m, prev) THEN BLK_SIZE(m, prev) ELSE 0)
                + (IF BLK_FREE(m, next) THEN BLK_SIZE(m, next) ELSE 0)]

\* Mutant of Free: the shortcut keeps its value.
FreeKeepsLast(p) ==
  LET freed == MARK_BLK(mem, p, BLK_SIZE(mem, p), FALSE)
      b     == Merge(freed, p)
  IN /\ mem' = MARK_BLK(freed, b.start, b.size, FALSE)
     /\ UNCHANGED lastFree
     /\ answer' = [op |-> "free", size |-> 0, ptr |-> p]

\* sae_alloc_set_last_free(NULL, ptr): the header it compares with is read
\* after the merge, so it may be that of a block the merge has absorbed.
Free(p) ==
  LET freed  == MARK_BLK(mem, p, BLK_SIZE(mem, p), FALSE)
      b      == Merge(freed, p)
      merged == MARK_BLK(freed, b.start, b.size, FALSE)
      last   == IF lastFree = Nil THEN NullWords ELSE {merged[BLK_START(lastFree)]}
  IN /\ mem' = merged
     /\ \E w \in last : lastFree' = IF b.size > w.size \/ w.alloc THEN b.start ELSE lastFree
     /\ answer' = [op |-> "free", size |-> 0, ptr |-> p]

-----------------------------------------------------------------------------
(* The owner of a block writes in it *)

Payload(p) == BLK_START(p) + 1 .. BLK_PREV(NEXT(mem, p)) - 1

Write(p) == \E w \in Junk :
  /\ mem' = [i \in Cells |-> IF i \in Payload(p) THEN w ELSE mem[i]]
  /\ UNCHANGED <<lastFree, answer>>

Next == \/ \E n \in Requests : Malloc(n)
        \/ \E p \in Allocated : Free(p) \/ Write(p)

Spec == Init /\ [][Next]_vars

-----------------------------------------------------------------------------
(* Properties *)

\* The heap is a function of words, and the shortcut an offset in it or NULL.
TypeOK ==
  /\ mem \in [Cells -> Word]
  /\ lastFree \in 0 .. Size \cup {Nil}
  /\ answer.size \in 0 .. Size /\ answer.ptr \in 0 .. Size \cup {Nil}

\* sae_alloc_checkheap finds nothing wrong, whatever clients wrote in their
\* blocks: the chain ends at the end marker and footers equal headers.
checkheap ==
  /\ mem[BLK_START(-1)] = [size |-> 1, alloc |-> TRUE]
  /\ Size \in Walk(mem)
  /\ mem[BLK_START(Size)] = [size |-> 0, alloc |-> TRUE]
  /\ \A p \in Blocks : mem[BLK_START(p)] = mem[BLK_PREV(NEXT(mem, p))]

\* No two neighbouring blocks are both free: freed space is never fragmented
\* by the order in which cores drop their messages.
Coalesced ==
  \A p \in Blocks : BLK_FREE(mem, p) => ~BLK_FREE(mem, NEXT(mem, p))

\* The shortcut names a block of the chain, never a place inside a block
\* that absorbed it, unless it is NULL.
LastFreeIsBlock == lastFree \in Blocks \cup {Nil}

\* The comment at line 95: the shortcut is to the "last free" block, so
\* there is always a block to look at.
LastFreeExists == lastFree # Nil

\* A call changes no word of a block allocated before and after it.
PayloadKept ==
  [][answer' # answer =>
       \A p \in Allocated : p # answer'.ptr =>
         \A i \in Payload(p) : mem'[i] = mem[i]]_vars

\* The chain of blocks implements a heap of disjoint allocated regions.
Heap == INSTANCE SaeHeap WITH used <- [p \in Allocated |-> BLK_SIZE(mem, p)],
                              Slack <- MinSplit - 1
ImplementsHeap == Heap!Spec
=============================================================================
