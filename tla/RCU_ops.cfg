SPECIFICATION Spec
CONSTANTS
  TaskNum = 2
  EpochFreq = 1
  Freq = 2
  MaxEpoch = 3
  Objs = {o1, o2, o3}
  Cells = {c1}
  Updaters = {1, 2}
  NULL = NULL
SYMMETRY Symmetry
VIEW View
INVARIANTS
  TypeOK
  AnnouncedNeverFreed
PROPERTY Refines
