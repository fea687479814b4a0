------------------------------ MODULE WalkerMC ------------------------------
(***************************************************************************)
(* Instances of Walker for TLC: two or three specs in a row, and one that  *)
(* depends on another beside one that stands alone.                        *)
(***************************************************************************)
EXTENDS WalkerBoard

Pair  == 1..2
Three == 1..3

\* The dependents come first in the order in which specs are started.
Row2 == [p \in Pair  |-> IF p = 1 THEN {2} ELSE {}]
Row3 == [p \in Three |-> IF p = 3 THEN {} ELSE {p + 1}]
Beside == [p \in Three |-> IF p = 1 THEN {2} ELSE {}]
=============================================================================
