SPECIFICATION Spec
CONSTANTS
  Markers = {"manual"}
  Results = {TRUE}
  Hours = {0, 1, 3}
  Hour = 1
  Width = 16
  SegMax <- SomeSegMax
  MaxTime = 3
INVARIANTS TypeOK
PROPERTIES SavedSamplesStay NewestIsShown WindowHolds
