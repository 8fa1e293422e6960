CONSTANTS
  Chars = {"a", "A", "b"}
  Lower <- MCLower
  MaxLen = 5
  MaxFind = 3
  Bytes = {0, 65, 66, 97, 200}
  MaxCompared = 2
SPECIFICATION MCFairSpec
INVARIANTS FindsNearest EqualityAgrees Ordered
PROPERTIES Ends
CHECK_DEADLOCK FALSE
