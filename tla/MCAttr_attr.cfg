CONSTANTS
  InodeCount = 4
  DBlockCount = 7
  FirstData = 5
  DentriesPerBlock = 4
  n1 = n1
  n2 = n2
  Names <- Two
  CounterSlack = 1
  FollowDamage = FALSE
  Chars = {"a", "b"}
  Spelling <- MCSpelling
  NameMax = 3
  PathMax = 16
  MaxDepth = 2
  MaxCalls = 5

SPECIFICATION AttrSpec
INVARIANTS
  StatShowsOwnTime
  ReaddirIsTree
  DotDotOfBirth
PROPERTY
  RoomIsRoom
