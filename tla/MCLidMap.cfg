\* Two switches, and an HCA of two ports.
SPECIFICATION Spec
CONSTANTS
  s1 = s1
  s2 = s2
  h1 = h1
  Switches = {s1, s2}
  Hcas = {h1}
  NumPorts <- MCNumPorts
  MaxLid = 2
  Growth = 1
SYMMETRY SwitchSymmetry
CHECK_DEADLOCK FALSE
INVARIANTS MapInverse RecordAgrees
