CONSTANTS
  Word <- Words
  NULL = null
  FAULT = fault
  Junk = junk
  HeaderNames <- Names
  Numeral <- Numerals
  Path <- Paths
  GetLike <- Methods
  Unwritable <- ReadOnly
  Directories <- Dirs
  FieldSize = 3
  Networks <- MCNetworks
  Requests <- MCRequests
  InitialFiles <- MCFiles
  BufferSize <- MCBuffer
  MaxRequests = 2
SPECIFICATION FairSpec
INVARIANTS SurvivesWholeRequests StoredIsServed CloseIsAnnounced
PROPERTIES AnsweredAsMeant EveryRequestAnswered
CHECK_DEADLOCK FALSE
