SPECIFICATION FairSpec
CONSTANTS
  Runs = {root, c1}
  Root = root
  Cancellers = {esc, rpc}
  PlanOff = FALSE
  NoRun = nobody
PROPERTIES
  CancelStopsTree
