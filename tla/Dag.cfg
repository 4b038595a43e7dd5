CONSTANTS
  root = root
  left = left
  right = right
  t1 = t1
  t2 = t2
  NoHash = NoHash
  Hash <- MCHash
  Parents <- MCParents
  Threads = {t1, t2}
  MaxRecent = 2
  MaxRestarts = 1
SYMMETRY MCSymmetry
SPECIFICATION DagSpec
INVARIANTS Wavefront KnownIsSaved DiskWavefront
CHECK_DEADLOCK FALSE
