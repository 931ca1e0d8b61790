SPECIFICATION Spec
CONSTANTS
  N = 2
  Procs = {p1, p2}
  MaxStores = 4
  MaxCuts = 1
SYMMETRY Symmetry
INVARIANT TypeOK
INVARIANT SyncedSurvives
PROPERTY ImplementsStableFile
