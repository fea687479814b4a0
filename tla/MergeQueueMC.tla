---------------------------- MODULE MergeQueueMC ----------------------------
(***************************************************************************)
(* Instances of MergeQueue for TLC: an entry and its dependent, of         *)
(* different scope, or a single entry; and two coordinators.               *)
(***************************************************************************)
EXTENDS MergeQueueMainline, TLC

MCEntries == {"base", "dependent"}
Chain     == [e \in MCEntries |-> IF e = "dependent" THEN {"base"} ELSE {}]
Apart     == [e \in MCEntries |-> e]
Single    == {"base"}
Alone     == [e \in Single |-> {}]
MCSymmetry == Permutations(Coordinators)
=============================================================================
