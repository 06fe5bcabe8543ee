SPECIFICATION Spec
CONSTANTS
  ThreadMax = 3
  ThreadMin = 1
  QueueMax = 2
  RetireBatch = 2
  Events = {e1, e2, e3, e4}
  NoTask = NoTask
  CreateFails = TRUE
SYMMETRY EventSymmetry
INVARIANTS TypeOK CountersExact AliveBounds NoLostWakeup NoLostSpace
PROPERTY ImplementsFifo
