\* A workspace and Home, three requests, one change of is_open elsewhere, one
\* closed socket.
CONSTANTS
  Workspaces = {w1}
  Requests = {r1, r2, r3}
  Home = Home
  MaxMoves = 1
  MaxDrops = 1
  Fresh = Fresh
  Settled = Settled
SPECIFICATION MCSpec
SYMMETRY Symmetry

  
  
PROPERTIES
  ActiveKeepsItsTab
CHECK_DEADLOCK FALSE
