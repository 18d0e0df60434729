CONSTANTS
  top = top
  sub = sub
  ax = ax
  bx = bx
  x = x
  a = a
  b = b
  Ctx = {top, sub}
  Chain <- MCChain
  Caching <- MCCaching
  File = {ax, bx}
  Base <- MCBase
  Dir <- MCDir
  Location <- MCLocation
  Symbol = {s}
  NULL = NULL
  Initial <- MCSameInitial
  MaxVersion = 3
  MaxEntries = 2
SPECIFICATION Spec
INVARIANTS UniqueKeys SameBaseName
PROPERTIES SavedIsFound
