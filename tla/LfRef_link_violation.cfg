SPECIFICATION LfRefSpec
CONSTANTS
  Threads = {t1}
  RefMod = 2
  PtrVals = {0, 16}
  Unknown = Unknown
  Builds <- MCGccBuild
INVARIANT LinkReadsPointer
