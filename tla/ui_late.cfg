SPECIFICATION Spec
CONSTANTS
  Texts = {"a", "ab", "b"}
  Answer <- MCAnswer
  MaxFetches = 3
INVARIANTS
  NoListForEmptyBox
