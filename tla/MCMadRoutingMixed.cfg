\* A directed route with dr_dlid set.
SPECIFICATION Spec
CONSTANTS
  s1 = s1
  s2 = s2
  h1 = h1
  h2 = h2
  Switches = {s1, s2}
  Hcas = {h1, h2}
  PortNums = {1, 2, 3}
  Cables <- Loop
  LidOf <- MCLidOf
  Lids = {}
  LinkStates <- MCLinkStates
  Tables <- MCTables
  MaxPath <- MCMaxPath
  Calm <- Loop
CHECK_DEADLOCK FALSE
INVARIANT NoResponseRefused
