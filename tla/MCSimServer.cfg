\* Two clients that connect, bind twice, disconnect and close, and a worker.
SPECIFICATION FairSpec
CONSTANTS
  Threads = {t1, t2}
  Socks = {s1, s2}
  Conns = {c1, c2}
  Nodes = {n1}
  Workers = {w1}
  None = None
  MaxBinds = 2
  MaxMads = 1
CHECK_DEADLOCK FALSE
INVARIANTS TypeOK ProcessorsMatch ConnHasOneHolder EveryThreadListed
PROPERTIES ListStable EveryRequestAnswered
