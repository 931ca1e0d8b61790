CONSTANTS
  InodeCount = 5
  DBlockCount = 10
  FirstData = 5
  DentriesPerBlock = 4
  n1 = n1
  n2 = n2
  n3 = n3
  Names <- Two
  Prefix <- Nested
  MaxCalls = 3
  CounterSlack = 1
  FollowDamage = FALSE

  Chars = {"a", "b"}
  Spelling <- MCSpelling
  NameMax = 3
  PathMax = 16
  MaxDepth = 4

SPECIFICATION FromSpec
INVARIANTS
  StatIsTree
  WalksAgree
