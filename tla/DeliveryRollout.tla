--------------------------- MODULE DeliveryRollout ---------------------------
(***************************************************************************)
(* Delivery implements Rollout, whatever workers and faults do.            *)
(***************************************************************************)
EXTENDS Delivery

Verdict == [g \in Groups |-> row[g].state]

StandingOf(state) ==
  CASE state = "live"                          -> "live"
    [] state \in {"superseded", "rolled_back"} -> "past"
    [] OTHER                                   -> "never"

Standing == [r \in Releases |-> StandingOf(rel[r])]

R == INSTANCE Rollout WITH verdict <- Verdict, standing <- Standing

\* Takeovers, owners that go on without their claim, retries, refusals and
\* errors cannot be told from one rollout in which each group fires its effects
\* once, has one release live and gets one verdict that fits it, and what is
\* rejected is not promoted, before or after (claim, the intents,
\* supersedeLockedLive, and OUTCOME_REASON of LandGroupDeliveryLoop).
ImplementsRollout == R!Spec
=============================================================================
