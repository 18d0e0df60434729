CONSTANTS
  a = a
  b = b
  c = c
  d = d
  x = x
  p = p
  q = q
  Nothing = Nothing
  Garbage = Garbage
  Directory = {a, b, c, d}
  Base = {x}
  Volume <- MCVolume
  Locked = {d}
  Version = {p, q}
  Initial <- MCInitial
  MaxLoop = 1
SPECIFICATION FileSpec
PROPERTIES SourceKept MoveLosesNothing
