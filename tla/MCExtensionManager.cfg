\* A URL and a local source that compete for one id, and two loads.
CONSTANTS
  Urls = {u}
  Locals = {l}
  Builtins = {}
  OffByDefault = {}
  Ids = {x}
  Attempts = {t1, t2}
  NoId = NoId
  Nobody = Nobody
  NoTask = NoTask
  NotBegun = NotBegun
  Over = Over
SPECIFICATION MCSpec
SYMMETRY Symmetry
INVARIANTS
  ActiveOwnsItsId
  
  NothingLeftBehind
  
CHECK_DEADLOCK FALSE
