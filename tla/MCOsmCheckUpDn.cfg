\* Design mode with up/down hops on one fabric of three ranks.
SPECIFICATION Spec
CONSTANTS
  NumNodes = 8
  Switches = {3, 4, 5, 6, 7, 8}
  NumPorts <- TallNumPorts
  SystemOf <- TallSystemOf
  Wirings <- TallWirings
  DesignOptions <- TallOptions
  Groups = {}
  MaxHops = 4
  CountedHops = 3
  ComparedSwitches = 3
  Verifications = {}
INVARIANT UpDownRuleKept
