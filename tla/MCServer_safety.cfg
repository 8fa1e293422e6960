CONSTANTS
  Clients = {c1, c2}
  Main = main
  Listen = listen
  NoConn = noconn
  Deaf = {c1, c2}
  Backlog = 2
  MaxSends = 1
  Parts = 1
  MaxBoots = 2
SPECIFICATION Spec
SYMMETRY Sym
INVARIANTS TypeOK DescriptorTable ZombieHasWakeup EndsForItsOwnReason
CHECK_DEADLOCK FALSE
