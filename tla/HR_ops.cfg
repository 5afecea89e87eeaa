SPECIFICATION Spec
CONSTANTS
  TaskNum = 2
  HRNum = 2
  EpochFreq = 2
  Freq = 1
  MaxHRC = 1
  Objs = {o1, o2, o3}
  Cells = {c1}
  Readers = {1}
  Reservers = {1}
  Updaters = {1, 2}
  NULL = NULL
  INVPTR = INVPTR
  MaxEpoch = 2
SYMMETRY Symmetry
VIEW View
ACTION_CONSTRAINT Bounds
INVARIANTS
  TypeOK
  SlotProtects
  RefsExact
  WalkSafe
  FreedOnce
  StallBounded
