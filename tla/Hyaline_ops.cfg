SPECIFICATION Spec
CONSTANTS
  TaskNum = 2
  Objs = {o1, o2, o3, o4}
  Cells = {c1}
  NULL = NULL
  Builds <- OpsBuilds
  CounterMod = 16
  EpochMod = 8
  EpochFreq = 2
  StartEpoch = 7
  MaxAdvance = 3
  StallLimit = 1
  FlushLimit = 1
  Updaters = {1, 2}
SYMMETRY Symmetry
VIEW View
ACTION_CONSTRAINT OpsBounds
INVARIANTS
  HyalineTypeOK
  WalkSafe
  RefsExact
  QueuedUntouched
  NothingLost
  EraCovers
  StallBounded
PROPERTY Refines
