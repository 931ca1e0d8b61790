CONSTANTS
  InodeCount = 5
  DBlockCount = 10
  FirstData = 5
  DentriesPerBlock = 4
  n1 = n1
  n2 = n2
  n3 = n3
  Names <- Three
  Prefix <- LastBlock
  MaxCalls = 4
  CounterSlack = 1
  FollowDamage = TRUE

SPECIFICATION FromSpec
INVARIANTS
  TypeOK
  RootSafe
