SPECIFICATION FairSpec
CONSTANTS
  Networks = {n1, n2}
  DeadStrikes = 3
  Skip = 2
  Wrap = 6
INVARIANTS NeverTheWrongName
PROPERTIES NotSetAsideEarly DeadNetworkLeft
