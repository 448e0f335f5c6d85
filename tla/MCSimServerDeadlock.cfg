\* A client closes while another binds at the same node.
SPECIFICATION Spec
CONSTANTS
  Threads = {t1, t2}
  Socks = {s1, s2}
  Conns = {c1, c2}
  Nodes = {n1}
  Workers = {w1}
  None = None
  MaxBinds = 1
  MaxMads = 1
SYMMETRY Symmetry
CHECK_DEADLOCK FALSE
INVARIANT NoLockCycle
