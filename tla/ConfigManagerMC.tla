-------------------------- MODULE ConfigManagerMC --------------------------
(***************************************************************************)
(* Small instances of ConfigManager: one form that sets the password, one  *)
(* that leaves it blank with fields normalize must correct, one that turns *)
(* the login off, and one that is refused.                                 *)
(***************************************************************************)
EXTENDS ConfigManager, TLC

CONSTANTS p, q, NaN

FillIn(auth, pass, interval, direction, url) ==
  [auth |-> auth, pass |-> pass, interval |-> interval,
   direction |-> direction, url |-> url]

AnyForm ==
  {FillIn(TRUE, q, 1, "backup_to_master", "good"),
   FillIn(TRUE, Blank, 0, "other", "good"),
   FillIn(FALSE, Blank, NaN, "backup_to_master", "good"),
   FillIn(TRUE, q, 1, "backup_to_master", "bad")}

\* Two admins: one changes the password, the other only the interval.
PasswordOrInterval ==
  {FillIn(TRUE, q, NaN, "master_to_backup", "good"),
   FillIn(TRUE, Blank, 1, "master_to_backup", "good")}

WrittenByHand ==
  [auth |-> TRUE, pass |-> p, interval |-> -1, direction |-> "other"]
LoginOff ==
  [auth |-> FALSE, pass |-> Blank, interval |-> 1,
   direction |-> "backup_to_master"]

AnyFile == {Absent, WrittenByHand, LoginOff}

AdminSymmetry == Permutations(Admins)
=============================================================================
