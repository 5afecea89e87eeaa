SPECIFICATION RaceSpec
CONSTANTS
  TaskNum = 3
  HENum = 1
  Attempts = 1
  EpochFreq = 1
  Freq = 1
  MaxEpoch = 3
  MaxTag = 1
  Objs = {o1, o2}
  Cells = {c1}
  Adders = {2, 3}
  Removers = {3}
  Readers = {1}
  Reservers = {}
  NULL = NULL
  INVPTR = INVPTR
SYMMETRY Symmetry
VIEW View
INVARIANT HeldNeverFreed
