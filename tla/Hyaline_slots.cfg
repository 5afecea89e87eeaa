SPECIFICATION Spec
CONSTANTS
  TaskNum = 3
  Objs = {1, 2, 3, 4, 5, 6, 7, 8}
  Cells = {c1}
  NULL = NULL
  Builds <- SlotsBuilds
  CounterMod = 64
  EpochMod = 8
  EpochFreq = 8
  StartEpoch = 7
  MaxAdvance = 0
  StallLimit = 1
  FlushLimit = 1
  Updaters = {2}
VIEW View
ACTION_CONSTRAINTS
  SlotsBounds
  FirstFit
INVARIANTS
  WalkSafe
  RefsExact
  NothingLost
  CounterNodeSpared
  AckExact
