CONSTANTS
  top = top
  m1 = m1
  m2 = m2
  m3 = m3
  m4 = m4
  e = e
  s1 = s1
  s2 = s2
  s3 = s3
  s4 = s4
  sys = sys
  Make = {top, m1, m2, m3, m4, e}
  Top = top
  Items <- MCItems
  Threaded = {top, m1}
  Inline = {e}
  NewContext = {m1, m2, m4}
  System = {sys}
  Library = "pthread"
  CreateFails = TRUE
  MaxWait = 2
  NULL = NULL
  Garbage = Garbage
SPECIFICATION FairSpec
INVARIANTS TypeOK ContextPrivate ContextRooted
PROPERTIES ForkJoinSpec Terminates
