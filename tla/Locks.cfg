\* Four threads, two locks of one bucket, fat locks made one at a time; three
\* contexts, objects and scopes.  No symmetry: a liveness property is checked.
CONSTANTS
  t1 = t1
  t2 = t2
  t3 = t3
  t4 = t4
  k1 = k1
  k2 = k2
  f1 = f1
  f2 = f2
  c1 = c1
  c2 = c2
  c3 = c3
  o1 = o1
  o2 = o2
  o3 = o3
  s1 = s1
  s2 = s2
  s3 = s3
  None = None
  Threads = {t1, t2, t3, t4}
  Locks = {k1, k2}
  Fats = {f1, f2}
  ListLen = 1
  Nil = Nil
  ShareContexts = {c1, c2, c3}
  Objects = {o1, o2, o3}
  Scopes = {s1, s2, s3}
  HomeOf <- MCHomeOf
  MapAtStart <- MCMapAtStart
  OwnerAtStart <- MCOwnerAtStart
  MaxNest = 2
SPECIFICATION LocksSpec
INVARIANTS
  MutualExclusion
  DequeueAsserts
  FatLocksExact
  NoLostWakeup
  LockInv
  WakeInv
  HoldersHold
  ClaimsEnd
PROPERTIES
  WaitersProgress
