CONSTANTS
  Clients = {c1}
  Main = main
  Listen = listen
  NoConn = noconn
  Deaf = {}
  Backlog = 1
  MaxSends = 1
  Parts = 1
  MaxBoots = 2
SPECIFICATION Spec
INVARIANTS RestartFindsPortFree
CHECK_DEADLOCK FALSE
