SPECIFICATION Spec
CONSTANTS
  p = p  q = q  NaN = NaN
  Admins = {a1, a2}
  Main = Main
  Passwords = {p, q}
  Generated = Generated
  Forms <- PasswordOrInterval
  InitialFiles <- AnyFile
  NotANumber = NaN
  DiskFails = FALSE
SYMMETRY AdminSymmetry
PROPERTY BlankKeepsPassword
