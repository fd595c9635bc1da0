SPECIFICATION FairSpec
CONSTANTS
  init = init
  open = open
  turn = turn
  yes = yes
  no = no
  stop = stop
  get = get
  other = other
  s = s
  Requests = {init, open, turn, yes, no, stop, get, other}
  Op <- MCOp
  On <- MCOn
  Says <- MCSays
  Sessions = {s}
  Scripts <- MCScripts
  Capacity = 1
  Nobody = nobody
INVARIANTS
  RepliesAreTrue
PROPERTIES
  CommandsAreHeard
  ServerEnds
