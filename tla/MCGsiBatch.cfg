\* Every report comes in time: two batches of up to two MADs, two callers.
SPECIFICATION Spec
CONSTANTS
  Callers = {c1, c2}
  Workers = {w1, w2}
  Addrs = {a1, a2}
  NoOne = NoOne
  MaxMads = 2
  MaxBatches = 2
  Lateness = {FALSE}
SYMMETRY ThreadSymmetry
CHECK_DEADLOCK FALSE
INVARIANTS TypeOK OutstandingExact SuccessIsComplete UsesLiveContext
