--------------------------- MODULE UptimeStoreMC ---------------------------
(***************************************************************************)
(* A small instance of UptimeStore: fewer bars with a backup, as on the    *)
(* dashboard, and fewer than there may be samples.                         *)
(***************************************************************************)
EXTENDS UptimeStore

SomeSegMax == [backup \in BOOLEAN |-> IF backup THEN 2 ELSE 3]
=============================================================================
