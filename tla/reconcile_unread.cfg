SPECIFICATION Spec
CONSTANTS
  r1 = r1  r2 = r2  a1 = a1  a2 = a2  o1 = o1  o2 = o2  h1 = h1  h2 = h2
  Records = {r1, r2}
  NoRecord = NoRecord
  Allows = {a1}
  Others = {o1, o2}
  Handlers = {h1}
  Worker = Worker
  Requests <- EveryKindOfRequest
  Configs <- ManualBoth
  InitialRules <- StartingRules
  Faults = {"lost"}
  MaxLate = 0
INVARIANT ReconcileMergesAll
