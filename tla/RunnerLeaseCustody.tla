-------------------------- MODULE RunnerLeaseCustody --------------------------
(***************************************************************************)
(* RunnerLease implements Custody: a container that a call is about to     *)
(* file, give up or remove is in hand, else one that its live row names is *)
(* filed, else one whose row is about to be reported is in hand, else      *)
(* nobody knows it.                                                        *)
(***************************************************************************)
EXTENDS RunnerLease

Held(r)     == \E c \in Calls : InHand(c, r)
Reported(r) == \E c \in Calls : For(c) = r /\ Serves(c, "recording") /\ call[c].box = box[r]
Minded(r)   == \E c \in Calls : For(c) = r /\ call[c].at \in {"creating", "clearing", "wiping"}

Container == [r \in Runs |-> CASE box[r] = 0             -> "none"
                               [] box[r] # 0 /\ Held(r)  -> "held"
                               [] box[r] # 0 /\ ~Held(r) /\ Filed(r) -> "filed"
                               [] box[r] # 0 /\ ~Held(r) /\ ~Filed(r) /\ Reported(r) -> "held"
                               [] OTHER -> "lost"]

Volumes == [r \in Runs |-> CASE box[r] # 0 -> "used"
                             [] box[r] = 0 /\ ~disk[r] -> "none"
                             [] box[r] = 0 /\ disk[r] /\ Minded(r) -> "held"
                             [] OTHER -> "lost"]

C == INSTANCE Custody WITH container <- Container, volumes <- Volumes

\* Calls that outlive their callers, workers that come twice, the sweeper and
\* every fault cannot be told from one container a run that is built, filed,
\* fetched and removed by hand: nothing removes a container that is filed or
\* that nobody knows, and only accidents lose one (RunnerLifecycle.allocate,
\* release, sweepStuck).
ImplementsCustody == C!Spec
=============================================================================
