SPECIFICATION Spec
CONSTANTS
  Size = 7
  Requests = {2, 3, 4}
  Junk <- JunkWords
  NullWords <- Unmapped
  Nil = Nil
INVARIANTS checkheap Coalesced LastFreeIsBlock
PROPERTIES PayloadKept ImplementsHeap
