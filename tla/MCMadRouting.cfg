\* A MAD by LID under every forwarding table and state of the links; and on a third
\* fabric a directed route out and back while links go down and up.
SPECIFICATION Spec
CONSTANTS
  s1 = s1
  s2 = s2
  h1 = h1
  h2 = h2
  Switches = {s1, s2}
  Hcas = {h1, h2}
  PortNums = {1, 2, 3}
  Cables <- Fabrics
  LidOf <- MCLidOf
  Lids = {1}
  LinkStates <- MCLinkStates
  Tables <- MCTables
  MaxPath <- MCMaxPath
  Calm <- Still
CHECK_DEADLOCK FALSE
INVARIANTS TypeOK FollowsTables RoundTrip
