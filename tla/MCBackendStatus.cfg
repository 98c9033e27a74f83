\* A backend with one restart, two processes and an address; two failed checks
\* until it is unresponsive.
CONSTANTS
  MaxRestarts = 1
  MaxSpawns = 2
  CustomUrls = {u1}
  Port = Port
  NoUrl = NoUrl
  MaxFailures = 2
SPECIFICATION StatusSpec
INVARIANTS
  QuitLeavesNoBackend
PROPERTIES
  QuitEnds
  DeadIsNoticed
  ImplementsLifetime
CHECK_DEADLOCK FALSE
