--------------------------- MODULE RunnerLeaseMC ---------------------------
(***************************************************************************)
(* Instances of RunnerLease for TLC: one run, for nothing but the list of  *)
(* the sweeper joins two of them, and two workers and two requests, so     *)
(* that a call whose caller is gone meets the next one.                    *)
(***************************************************************************)
EXTENDS RunnerLeaseCustody

OneRun  == 1..1
TwoRuns == 1..2
MCNoRun == 0
MCRequests == 1..2
MCSweep == 0
=============================================================================
