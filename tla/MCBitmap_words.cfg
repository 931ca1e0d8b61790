CONSTANTS
  Words = 2
  Size = 34
  Filled <- MCFilled
  Freed <- MCFreed

SPECIFICATION Spec
INVARIANTS
  TypeOK
  SearchSound
PROPERTIES
  ImplementsBitSet
  SearchEnds
