----------------------------- MODULE JobQueueMC -----------------------------
(***************************************************************************)
(* Instances of JobQueue for TLC: two jobs and three slots, in two worker   *)
(* processes or in three.                                                  *)
(***************************************************************************)
EXTENDS JobQueueDispatch

MCJobs  == 1..2
MCNoJob == 0
ThreeSlots == {"s1", "s2", "s3"}

\* Two slots of one process crash and drain together, a third by itself.
SharedProcess == [s \in ThreeSlots |-> IF s = "s3" THEN "q" ELSE "p"]
ThreeProcesses == [s \in ThreeSlots |-> s]
=============================================================================
