--------------------------- MODULE PanelSessionMC ---------------------------
(***************************************************************************)
(* A small instance of PanelSession: handlers, clients and passwords are   *)
(* alike.                                                                  *)
(***************************************************************************)
EXTENDS PanelSession, TLC

PanelSymmetry == Permutations(Handlers) \cup Permutations(IPs)
                 \cup Permutations(Passwords) \cup Permutations(Secrets)
=============================================================================
