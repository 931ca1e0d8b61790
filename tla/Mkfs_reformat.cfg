SPECIFICATION Spec
CONSTANTS
  BlockSize = 8
  BitsPerByte = 1
  WordBits = 2
  InodeSize = 8
  IntMod = 216
  MaxDrift = 1
  Sizes = {13}
  Counts = {3}
INVARIANT OverwrittenIsFree
