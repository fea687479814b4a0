-------------------------- MODULE RunLifecycleRelay --------------------------
(***************************************************************************)
(* RunLifecycle implements Relay where workers crash only at work.         *)
(***************************************************************************)
EXTENDS RunLifecycle

\* Up to the write of the spec.
Early == Steps \ {"idle", "concluding", "returned", "rethrown"}

\* A run that may still write its spec: it waits to be claimed, or for the
\* prober, or to land, or a slot has it in hand.
Waiting(r) == job[r].status \in {"queued", "running"} /\ \A s \in Slots : exec[s].run # r
Owns(r) == \/ Waiting(r) \/ run[r].status = "paused" \/ queue[r] = "ready"
           \/ \E s \in Slots : exec[s].run = r /\ exec[s].at \in Early

Attempt == [r \in Runs |-> run[r].spec]
Owners  == {r \in Runs : Owns(r)}

A == INSTANCE Relay WITH attempt <- Attempt, holds <- Owners

\* Jobs, leases, slots, the safety net, the prober and the merge coordinator
\* cannot be told from a spec that is passed from one run to the next: nobody
\* takes it while it is held, nobody else writes it, and a run lets go of it
\* when it writes how it ended (executeNextPlanJob, runFinalize.ts,
\* pausedRunResumeProber.ts).  A property of instances in which workers crash only
\* at work, and operators only cancel and archive.
ImplementsRelay == A!Spec
=============================================================================
