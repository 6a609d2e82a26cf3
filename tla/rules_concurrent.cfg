SPECIFICATION Spec
CONSTANTS
  r1 = r1  r2 = r2  a1 = a1  a2 = a2  o1 = o1  o2 = o2  h1 = h1  h2 = h2
  Records = {r1, r2}
  NoRecord = NoRecord
  Allows = {a1, a2}
  Others = {o1, o2}
  Handlers = {h1, h2}
  Worker = Worker
  Requests <- ConflictingRequests
  Configs <- ManualBoth
  InitialRules <- FewRules
  Faults = {"unanswered"}
  MaxLate = 1
SYMMETRY HandlerSymmetry
INVARIANTS OkIsAtomic OthersIntact WholeWhitelist
