CONSTANTS
  InodeCount = 3
  DBlockCount = 6
  FirstData = 5
  DentriesPerBlock = 4
  Names = {a, b}
  CounterSlack = 1
  FollowDamage = FALSE

SPECIFICATION Spec
SYMMETRY NameSymmetry
PROPERTY
  RenameArrives
