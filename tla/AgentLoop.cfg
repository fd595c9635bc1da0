SPECIFICATION FairSpec
CONSTANTS
  Agents = {a1, a2}
  a1 = a1
  write = write
  task = task
  other = other
  typo = typo
  file = file
  Calls = {write, task, other, typo}
  Risky = {write}
  Unknown = {typo}
  Tasks = {task, other}
  Files = {file}
  TargetOf <- MCTargetOf
  NoCall = nocall
  MaxIterations <- MCMax3
  HardCap = 3
  Modes <- MCAnywhere
  Replies <- MCReplies
INVARIANTS
  BudgetIsShared
  EveryCallAnswered
  ConsentNeeded
  PreviewFaithful
  NoThirdRun
PROPERTIES
  EveryLoopEnds
