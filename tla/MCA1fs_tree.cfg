CONSTANTS
  InodeCount = 4
  DBlockCount = 7
  FirstData = 5
  DentriesPerBlock = 4
  Names = {a, b}
  CounterSlack = 1
  FollowDamage = FALSE

SPECIFICATION Spec
SYMMETRY NameSymmetry
INVARIANTS
  Consistent
  NamedOnce
  BlocksAccounted
  InodesAccounted
  CountersExact
  SoundInv
  FilesNameless
PROPERTY
  ImplementsNamespace
