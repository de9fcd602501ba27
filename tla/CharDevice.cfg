SPECIFICATION Spec
CONSTANTS
  Size = 6
  EIO = 5
  Files = {a, b}
  Chars = {c}
  NUL = NUL
  MaxCount = 2
  MaxOff = 7
INVARIANTS
  Terminated
  ReadsInside
  EndOfText
PROPERTY
  NoStaleTail
