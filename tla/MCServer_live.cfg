CONSTANTS
  Clients = {c1, c2}
  Main = main
  Listen = listen
  NoConn = noconn
  Deaf = {}
  Backlog = 1
  MaxSends = 1
  Parts = 1
  MaxBoots = 2
SPECIFICATION FairSpec
PROPERTIES ZombiesCollected QueueAndPortFreed
CHECK_DEADLOCK FALSE
