SPECIFICATION Spec
CONSTANTS
  Domains = {d1}
  Durations <- SomeDurations
  Millis = 2
  Width = 16
INVARIANTS TypeOK PausesEnd
PROPERTIES EditorTakesWhatItShowed CardCatchesUp
