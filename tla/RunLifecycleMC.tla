--------------------------- MODULE RunLifecycleMC ---------------------------
(***************************************************************************)
(* Instances of RunLifecycle for TLC: one spec, or a spec and a dependent, *)
(* two or three runs and two slots.                                        *)
(***************************************************************************)
EXTENDS RunLifecycleRelay

OneRun    == 1..1
TwoRuns   == 1..2
ThreeRuns == 1..3
MCNoRun   == 0

OneSpec  == {"base"}
TwoSpecs == {"base", "dependent"}
Alone    == [p \in OneSpec |-> {}]
Chain    == [p \in TwoSpecs |-> IF p = "dependent" THEN {"base"} ELSE {}]

OneSlot == {"s1"}
MCSlots == {"s1", "s2"}

\* Before the first write that ends a run; at and after it; everywhere.
AtWork   == {"claimed", "marked", "allocating", "working"}
AtEnding == Steps \ (AtWork \cup {"idle"})
Anywhere == Steps
=============================================================================
