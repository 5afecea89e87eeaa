SPECIFICATION MCSpec
CONSTANTS
  TaskNum = 2
  HENum = 2
  Attempts = 1
  EpochFreq = 1
  Freq = 1
  MaxEpoch = 4
  MaxTag = 2
  Objs = {o1, o2}
  Cells = {c1}
  Adders = {1,2}
  Removers = {1,2}
  Readers = {1}
  Reservers = {1}
  NULL = NULL
  INVPTR = INVPTR
SYMMETRY Symmetry
VIEW View
INVARIANTS
  TypeOK
  OwnReadsSafe
  ParentSafe
  HelpBeforeAdvance
PROPERTIES
  LateHelpHarmless
  Refines
