CONSTANTS
  Chars = {x, y}
  Junk = junk
  MinBlock = 2
  Limits = {0, 2, 3, 99}
  Texts <- MCTexts
  MaxLen = 4
  Sources <- MCSources
  Terminators <- MCTerminators
  Returned <- MCReturned
  Sizes = {1, 2, 3}
  MaxRead = 3
  MaxRest = 4
  MaxText = 1
SPECIFICATION MCFairSpec
INVARIANTS TypesOK EditsKeepPromise CopiesOrFills ReplacesAll
PROPERTIES ImplementsStream ReadsAsAsked CallsReturn
