\* Two workspaces and Home, one request.
CONSTANTS
  Workspaces = {w1, w2}
  Requests = {r1}
  Home = Home
  MaxMoves = 1
  MaxDrops = 1
  Fresh = Fresh
  Settled = Settled
SPECIFICATION Spec
PROPERTIES
  FailedDeleteRestores
CHECK_DEADLOCK FALSE
