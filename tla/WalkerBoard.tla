----------------------------- MODULE WalkerBoard -----------------------------
(***************************************************************************)
(* Walker implements Board, whatever runs, operators and faults do between *)
(* the reads of a walk and its enqueues.                                   *)
(***************************************************************************)
EXTENDS Walker

B == INSTANCE Board

\* A walk reads the specs and the lifecycle at two moments and starts what it
\* chose at others; still every start is one that was right when it was made:
\* below the ceiling, and over a stack that has all ancestors that have not
\* merged, only ancestors, and no more than the depth cap (planSpeculativeDagTick,
\* transitiveUnmergedAncestors, createQueuedRunFromSpec).
ImplementsBoard == B!Spec
=============================================================================
