\* Waits may run out, or not: reports of a batch that is gone, its memory used
\* again, and the progress of the callers.
SPECIFICATION FairSpec
CONSTANTS
  Callers = {c1}
  Workers = {w1}
  Addrs = {a1}
  NoOne = NoOne
  MaxMads = 2
  MaxBatches = 2
  Lateness = {TRUE, FALSE}
CHECK_DEADLOCK FALSE
INVARIANTS MapLeadsToContext
PROPERTIES EveryCallReturns
