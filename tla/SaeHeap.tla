------------------------------ MODULE SaeHeap ------------------------------
(***************************************************************************)
(* What sae_malloc and sae_free promise, without headers, footers or a     *)
(* chain of blocks: allocated blocks lie inside the heap and never         *)
(* overlap, and a request fails only when no gap between them can hold it. *)
(***************************************************************************)
EXTENDS Integers, Functions

CONSTANTS Size,     \* units in the heap
          Requests, \* the block sizes clients ask for
          Slack,    \* the most a block can be larger than asked for
          Nil

VARIABLES used,     \* the length of each allocated block, by its start
          answer    \* the last call and what it returned

Overlap(p, n, q, k) == p < q + k /\ q < p + n
Fits(p, n) == /\ p + n <= Size
              /\ \A q \in DOMAIN used : ~Overlap(p, n, q, used[q])

Init == used = [p \in {} |-> 0] /\ answer = [op |-> "none", size |-> 0, ptr |-> Nil]

Malloc(n) ==
  \/ \E p \in 0 .. Size, extra \in 0 .. Slack :
       /\ Fits(p, n + extra)
       /\ used' = [q \in DOMAIN used \cup {p} |-> IF q = p THEN n + extra ELSE used[q]]
       /\ answer' = [op |-> "malloc", size |-> n, ptr |-> p]
  \/ /\ \A p \in 0 .. Size : ~Fits(p, n)
     /\ answer' = [op |-> "malloc", size |-> n, ptr |-> Nil]
     /\ UNCHANGED used

Free(p) ==
  /\ used' = Restrict(used, DOMAIN used \ {p})
  /\ answer' = [op |-> "free", size |-> 0, ptr |-> p]

Next == \/ \E n \in Requests : Malloc(n)
        \/ \E p \in DOMAIN used : Free(p)

Spec == Init /\ [][Next]_<<used, answer>>
=============================================================================
