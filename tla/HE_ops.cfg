SPECIFICATION Spec
CONSTANTS
  TaskNum = 2
  HENum = 2
  EpochFreq = 2
  Freq = 1
  MaxEpoch = 3
  Objs = {o1, o2}
  Cells = {c1}
  Readers = {1}
  Reservers = {1}
  Updaters = {2}
  NULL = NULL
SYMMETRY Symmetry
VIEW View
INVARIANTS
  TypeOK
  HeldNeverFreed
PROPERTY Refines
