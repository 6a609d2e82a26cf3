SPECIFICATION FairSpec
CONSTANTS
  p = p  q = q  NaN = NaN
  Admins = {a1, a2}
  Main = Main
  Passwords = {p, q}
  Generated = Generated
  Forms <- AnyForm
  InitialFiles <- AnyFile
  NotANumber = NaN
  DiskFails = TRUE
INVARIANTS TypeOK FileIsWhole StoredIsLive
PROPERTIES StartsWithPassword EverySaveAnswered
