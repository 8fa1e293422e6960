CONSTANTS
  Word <- Words
  NULL = null
  FAULT = fault
  Junk = junk
  HeaderNames <- Names
  Numeral <- Numerals
  Path <- Paths
  GetLike <- Methods
  Unwritable <- ReadOnly
  Directories <- Dirs
  FieldSize = 3
  Networks <- Pieces
  Requests <- MCRequests
  InitialFiles <- MCFiles
  BufferSize <- MCBuffer
  MaxRequests = 1
SPECIFICATION Spec
INVARIANTS AnswersOnlyComplete
CHECK_DEADLOCK FALSE
