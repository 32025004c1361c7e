SPECIFICATION FairSpec
CONSTANTS
  Texts = {"a", "ab", "b"}
  Answer <- MCAnswer
  MaxFetches = 3
INVARIANTS
  TypeOK
  NewestAnswerStands
  SpinnerIffNewestInFlight
  EnterPicksAShownItem
  OpenListExplained
PROPERTIES
  SpinnerStops
