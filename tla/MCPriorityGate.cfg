\* A partitioned gate (one interactive slot, one other) with deadlines.
SPECIFICATION Spec
CONSTANTS
  t1 = t1
  t2 = t2
  t3 = t3
  Threads = {t1, t2, t3}
  Nobody = Nobody
  Capacity = 2
  InteractiveReserve = 1
  AgingPeriod = 2
  AgeBound = 1
  Budgets <- MCDeadlines
INVARIANTS
  NextWaiterAwake
PROPERTIES
  FifoWithinPriority
SYMMETRY MCSymmetry
