SPECIFICATION Spec
CONSTANTS
  Managers = {m1}
  Sockets = {s1}
  Nobody = Nobody
  NoSocket = NoSocket
  MaxOutput = 1
  Short = 1
  MaxHeld = 1
  MaxTroubles = 0
PROPERTY LiveQueryIsAnswered
CHECK_DEADLOCK FALSE
