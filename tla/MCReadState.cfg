SPECIFICATION MCSpec
CONSTANTS
  Agents = {a1}
  Requests = {r1, r2}
  Titles = {t1, t2}
  MaxTurn = 1
  MaxDrops = 1
  Absent = Absent
  Gone = Gone
  NoRequest = NoRequest
  Fresh = Fresh
  Settled = Settled
  NoTitle = NoTitle
  Nobody = Nobody
SYMMETRY Symmetry
INVARIANTS   AckFollowsView
 
CHECK_DEADLOCK FALSE
