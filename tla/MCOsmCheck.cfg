SPECIFICATION Spec
CONSTANTS
  NumNodes = 7
  Switches = {4, 5, 6, 7}
  NumPorts <- MCNumPorts
  SystemOf <- MCSystemOf
  Wirings <- MCWirings
  DesignOptions <- MCDesignOptions
  Groups = {1, 2}
  MaxHops = 4
  CountedHops = 3
  ComparedSwitches = 3
  Verifications <- MCVerifications
INVARIANT TypeOK LidsDisjoint HopsAreDistances RoutesArrive UpDownRoutes RoutesVerdict GroupVerdict LoopVerdict
PROPERTY Terminates
