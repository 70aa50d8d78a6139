SPECIFICATION Spec
CONSTANTS
  Conns = {c1, c2}
  MaxClients = 1
  Servers = {TRUE, FALSE}
  Workers = 1
  MaxFrames = 1
INVARIANT AtMostMaxClients
CHECK_DEADLOCK FALSE
