CONSTANTS
  t1 = t1
  t2 = t2
  t3 = t3
  c1 = c1
  c2 = c2
  None = None
  Threads = {t1, t2, t3}
  Chans = {c1, c2}
  Ops <- Mixed
  MaxOps = 4
  MaxSyncs = 2
SPECIFICATION Spec
CHECK_DEADLOCK FALSE
INVARIANTS TypeOK OnceUnlessChoice NoMissedMatch MessageIntegrity WaitersKept
PROPERTY Fifo
SYMMETRY Alike
