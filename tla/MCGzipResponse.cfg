CONSTANTS
  Totals <- MCTotals
  Capacity0 = 2
  NULL = null
  Messages <- MCMessages
  Upto <- MCUpto
  Gzip <- MCGzip
  Longest = 17
SPECIFICATION MCFairSpec
INVARIANTS TypesOK WholeOrNothing HeadersAsAsked SentAsMeant
INVARIANTS SoundUse OnlyAbandoned
PROPERTIES Returns
CHECK_DEADLOCK FALSE
