CONSTANTS
  Clients = {c1}
  Main = main
  Listen = listen
  NoConn = noconn
  Deaf = {c1}
  Backlog = 1
  MaxSends = 2
  Parts = 2
  MaxBoots = 2
SPECIFICATION FairSpec
INVARIANTS LoopAnswersEach
PROPERTIES KeepsPromise ClientsLetGo
CHECK_DEADLOCK FALSE
