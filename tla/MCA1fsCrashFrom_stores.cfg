CONSTANTS
  InodeCount = 5
  DBlockCount = 9
  FirstData = 5
  DentriesPerBlock = 5
  n1 = n1
  n2 = n2
  n3 = n3
  Names <- Three
  Prefix <- Wide
  MaxCalls = 4
  CounterSlack = 1
  FollowDamage = FALSE

SPECIFICATION FromSpec
INVARIANTS
  OthersKept
  OthersUntouched
PROPERTY
  ImplementsA1fs
