CONSTANTS
  InodeCount = 4
  DBlockCount = 8
  FirstData = 5
  DentriesPerBlock = 3
  Names = {a, b}
  CounterSlack = 1
  FollowDamage = FALSE

SPECIFICATION Spec
SYMMETRY NameSymmetry
INVARIANT
  EntriesInOwnBlock
