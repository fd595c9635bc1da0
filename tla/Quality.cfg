SPECIFICATION FairSpec
CONSTANTS
  index = index
  second = second
  app = app
  lib = lib
  e1 = e1
  e2 = e2
  Files = {index, second, app, lib}
  Html = {index, second}
  Styles = {}
  Errors = {e1, e2}
  Jobs <- MCJobs
  MaxErrors = 2
  MaxEntries = 2
  NoEntry = NoEntry
INVARIANTS
  CleanIsFounded
  EveryChangeWasRun
  NothingLeft
PROPERTY GateEnds
