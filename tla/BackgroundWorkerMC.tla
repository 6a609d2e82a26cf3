-------------------------- MODULE BackgroundWorkerMC --------------------------
(***************************************************************************)
(* A small instance of BackgroundWorker.                                   *)
(***************************************************************************)
EXTENDS BackgroundWorker

\* Each task slower than the other; auto-sync off, in both ways; an interval
\* that a Duration does not hold.
SomeSettings ==
  {[collect |-> TRUE, uptimeInterval |-> 5,
    backup |-> TRUE, auto |-> FALSE, syncInterval |-> 1],
   [collect |-> TRUE, uptimeInterval |-> 1,
    backup |-> TRUE, auto |-> TRUE, syncInterval |-> 2],
   [collect |-> TRUE, uptimeInterval |-> 2,
    backup |-> TRUE, auto |-> TRUE, syncInterval |-> 1],
   [collect |-> FALSE, uptimeInterval |-> 1,
    backup |-> FALSE, auto |-> TRUE, syncInterval |-> 1]}
=============================================================================
