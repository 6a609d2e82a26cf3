SPECIFICATION FairSpec
CONSTANTS
  r1 = r1  r2 = r2  a1 = a1  a2 = a2  o1 = o1  o2 = o2  h1 = h1  h2 = h2
  Records = {r1}
  NoRecord = NoRecord
  Allows = {}
  Others = {o2}
  Handlers = {h1}
  Worker = Worker
  Requests <- OneRemoval
  Configs <- AutoOnOff
  InitialRules <- Diverged
  Faults = {"lost"}
  MaxLate = 1
PROPERTIES SyncNeverEmpties EveryRequestAnswered EventualMirror
