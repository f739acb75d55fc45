----------------------------- MODULE MCSaeAlloc -----------------------------
(* SaeAlloc for TLC. *)
EXTENDS SaeAlloc

\* Client data that looks like a free block and like an allocated one.
JunkWords == {[size |-> 3, alloc |-> FALSE], [size |-> 0, alloc |-> TRUE]}

\* Unmapped space reads as zeros or as ones.
Unmapped == {[size |-> 0, alloc |-> FALSE], [size |-> Size, alloc |-> TRUE]}
=============================================================================
