SPECIFICATION Spec
CONSTANTS
  Size = 7
  Requests = {2, 3, 4}
  Junk <- JunkWords
  NullWords <- Unmapped
  Nil = Nil
INVARIANTS LastFreeExists
