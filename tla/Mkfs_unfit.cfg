SPECIFICATION Spec
CONSTANTS
  BlockSize = 8
  BitsPerByte = 1
  WordBits = 2
  InodeSize = 8
  IntMod = 216
  MaxDrift = 1
  Sizes = {8, 13}
  Counts = {0, 2, 3, 5, 7, 8, 14, 21, 27}
INVARIANT RefusesWhatDoesNotFit
