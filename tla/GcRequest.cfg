\* Safety: three threads with one context each; threads are interchangeable.
CONSTANTS
  t1 = t1
  t2 = t2
  t3 = t3
  c1 = c1
  c2 = c2
  c3 = c3
  None = None
  ListHead = ListHead
  Threads = {t1, t2, t3}
  Contexts = {c1, c2, c3}
  ThreadOf <- MCThreadOf
  MaxDepth = 2
  MaxLevel = 2
SYMMETRY MCSymmetry
SPECIFICATION Spec
INVARIANTS
  RequestCountExact
  GcRunsAlone
  IteratorSafe
  LifecycleAgrees
