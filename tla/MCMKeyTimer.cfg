\* Two nodes with one port each, leases 0 to 2.
SPECIFICATION FairSpec
CONSTANTS
  n1 = n1
  n2 = n2
  p1 = p1
  p2 = p2
  Nodes <- MCNodes
  Ports <- MCPorts
  NodeOf <- MCNodeOf
  Keys = {k1}
  MaxLease = 2
  Wrapped = 1000
CHECK_DEADLOCK FALSE
INVARIANTS TypeOK OneEntryPerPort FlagMatchesList LeaseKept SecondUnlockHarmless
PROPERTIES KeyProtected EveryLeaseEnds
