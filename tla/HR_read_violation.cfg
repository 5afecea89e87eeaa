SPECIFICATION Spec
CONSTANTS
  TaskNum = 2
  HRNum = 1
  EpochFreq = 2
  Freq = 1
  MaxHRC = 1
  Objs = {o1, o2, o3}
  Cells = {c1}
  Readers = {1}
  Reservers = {}
  Updaters = {2}
  NULL = NULL
  INVPTR = INVPTR
  MaxEpoch = 2
SYMMETRY Symmetry
VIEW View
INVARIANT HeldNeverFreed
