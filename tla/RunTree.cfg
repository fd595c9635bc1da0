SPECIFICATION Spec
CONSTANTS
  Runs = {root, c1, c2}
  Root = root
  Cancellers = {esc, rpc}
  PlanOff = FALSE
  NoRun = nobody
SYMMETRY Symmetry
INVARIANTS
  CommitExclusive
  CancelReachesAll
  DelegationTracked
  TerminalAgrees
PROPERTIES
  EndIsFinal
  ImplementsPromise
