SPECIFICATION Spec
CONSTANTS
  TaskNum = 2
  HPNum = 2
  Freq = 1
  Objs = {o1, o2, o3, o4}
  Cells = {c1}
  Readers = {1}
  Reservers = {1}
  Updaters = {1, 2}
  NULL = NULL
SYMMETRY Symmetry
INVARIANTS
  TypeOK
  HeldNeverFreed
  GarbageBounded
PROPERTY Refines
