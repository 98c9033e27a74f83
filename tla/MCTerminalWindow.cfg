\* The buffer holds one chunk: the notice that the shell has exited overflows it.
SPECIFICATION MCFairSpec
CONSTANTS
  Managers = {m1, m2}
  Sockets = {s1, s2}
  Nobody = Nobody
  NoSocket = NoSocket
  MaxOutput = 2
  Short = 1
  MaxHeld = 1
  MaxTroubles = 1
INVARIANTS StreamIsWhole AnswersAreLive NoOrphanShell
PROPERTY TerminalComesBack
CHECK_DEADLOCK FALSE
