SPECIFICATION Spec
CONSTANTS
  N = 3
  Bytes = {x, y}
  NoFile = nofile
  top = top
  sub = sub
  Dirs = {top, sub}
  DirOf <- MCDirOf
  MaxFaults = 2
  MaxEdits = 2
SYMMETRY Symmetry
INVARIANTS
  NothingLost
  CommitIsWhole
  FailureRestores
