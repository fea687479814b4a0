----------------------------- MODULE DeliveryMC -----------------------------
(***************************************************************************)
(* Instances of Delivery for TLC: one or two groups, one or two workers.   *)
(***************************************************************************)
EXTENDS DeliveryRollout

CONSTANTS g1, g2, w1, w2

One  == {g1}
Both == {g1, g2}
Solo == {w1}
Duo  == {w1, w2}
=============================================================================
