SPECIFICATION PanelSpec
CONSTANTS
  Handlers = {h1, h2}
  IPs = {i1, i2}
  MaxLoginFails = 2
  LoginLockout = 2
  MaxTime = 3
  Passwords = {p, q}
  Secrets = {s1, s2}
  SessionTTL = 1
SYMMETRY PanelSymmetry
INVARIANTS PanelTypeOK FailsThrottled BlockedForAReason
  SessionsSurviveRestarts PasswordOpensSessions ChangeEndsSessions
PROPERTIES LockedClientsForgotten
