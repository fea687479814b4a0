---------------------------- MODULE RunLifecycle ----------------------------
(***************************************************************************)
(* A spec, the runs that attempt it, the plan job of each run and the      *)
(* worker slots that execute the jobs: who writes which of the statuses    *)
(* specs.status, runs.status and job_queue.status, in which order, and     *)
(* what is left behind when a step between two writes does not happen.     *)
(*                                                                         *)
(* A run has exactly one plan job (createQueuedRunFromSpecOnClient), so    *)
(* run ids are job ids.  One action is one transaction or one statement.   *)
(* What the workflow does between its writes (clone, gate, review) is a    *)
(* choice of how it ends.  The merge queue is reduced to one status per    *)
(* run: the row that opened with the pull request matters from the moment  *)
(* its evidence is complete ("ready") until it is settled.                 *)
(***************************************************************************)
EXTENDS JobTable

CONSTANTS Specs, DependsOn,  \* the DAG: the specs each spec depends on
          Slots,             \* worker slots, each a process of its own
          NoRun, NoSpec,
          Operations,        \* what operators may do in this instance
          Faults,            \* the kinds of fault that may occur
          CrashPoints,       \* where in a job a worker may crash
          MaxFaults          \* bound on the number of faults in a behaviour

Runs == Jobs

\* Where a slot is in executeNextPlanJob and in the workflow it calls.
Steps == {"idle", "claimed", "marked", "allocating", "working",
          "disposing",                  \* in the catch of the workflow
          "reopening", "parking",       \* the run is halted, the spec is next
          "concluding",                 \* the work is ready, the run is next
          "returned", "rethrown", "raw",  \* how the workflow ended
          "finalizing", "orphaned",     \* finalizeRunRecoverable
          "orphanReopen", "orphanPark"}

ASSUME DagAssumption    == DependsOn \in [Specs -> SUBSET Specs]
ASSUME AbsentAssumption == NoRun \notin Runs /\ NoSpec \notin Specs
ASSUME BoundsAssumption ==
  /\ Operations \subseteq {"cancel", "requeue", "replan", "archive"}
  /\ Faults \subseteq {"crash", "stall", "db"}
  /\ CrashPoints \subseteq Steps
  /\ MaxFaults \in Nat

VARIABLES
  spec,    \* specs.status
  run,     \* runs.spec_id and runs.status
  queue,   \* merge_queue.status of the row of a run
  exec,    \* a record per slot
  faults   \* how many faults have happened

vars == <<job, spec, run, queue, exec, faults>>

SpecStatuses  == {"open", "in_flight", "merged", "cancelled", "needs_attention"}
RunStatuses   == {"absent", "queued", "running", "paused", "halted",
                  "completed", "failed", "cancelled"}
QueueStatuses == {"none", "ready", "landed", "dequeued"}

TypeOK ==
  /\ job \in [Jobs -> Row]
  /\ spec \in [Specs -> SpecStatuses]
  /\ run \in [Runs -> [spec: Specs \cup {NoSpec}, status: RunStatuses]]
  /\ queue \in [Runs -> QueueStatuses]
  /\ exec \in [Slots -> [at: Steps, run: Runs \cup {NoRun},
                         caught: BOOLEAN, beating: BOOLEAN]]
  /\ faults \in Nat
  /\ \A r \in Runs : run[r].status = "absent" <=> run[r].spec = NoSpec
  /\ \A s \in Slots : exec[s].at = "idle" <=> exec[s].run = NoRun

Free == [at |-> "idle", run |-> NoRun, caught |-> FALSE, beating |-> FALSE]

Init ==
  /\ JobsInit
  /\ spec = [p \in Specs |-> "open"]
  /\ run = [r \in Runs |-> [spec |-> NoSpec, status |-> "absent"]]
  /\ queue = [r \in Runs |-> "none"]
  /\ exec = [s \in Slots |-> Free]
  /\ faults = 0

-----------------------------------------------------------------------------
Attempts(p) == {r \in Runs : run[r].spec = p}
Live(r)     == run[r].status \in {"queued", "running"}
\* Mutant: a merged spec can be cancelled.
SettledButMerged(p) == spec[p] \in {"cancelled", "needs_attention"}

Settled(p)  == spec[p] \in {"merged", "cancelled", "needs_attention"}

At(s, steps) == exec[s].at \in steps
RunOf(s)     == exec[s].run
SpecOf(s)    == run[RunOf(s)].spec

GoTo(s, step) == exec' = [exec EXCEPT ![s].at = step]
\* Mutant: the slot forgets to drop its run.
LeaveHolding(s) == exec' = [exec EXCEPT ![s].at = "idle"]
Leave(s)      == exec' = [exec EXCEPT ![s] = Free]

Fault(kind) == /\ kind \in Faults
               /\ faults < MaxFaults
               /\ faults' = faults + 1

\* UPDATE runs SET status ... WHERE run_id = r AND status = ANY(from)
SetRun(r, from, to) ==
  run' = IF run[r].status \in from THEN [run EXCEPT ![r].status = to] ELSE run

\* UPDATE specs SET status ... WHERE spec_id = p AND status <> ALL(except)
SetSpec(p, except, to) ==
  spec' = IF spec[p] \in except THEN spec ELSE [spec EXCEPT ![p] = to]

-----------------------------------------------------------------------------
(* The walker *)

\* Mutant: the claim of the spec does not ask whether it is open.
WalkParked(p, r) ==
  /\ spec[p] \in {"open", "needs_attention"}
  /\ \A d \in DependsOn[p] : spec[d] = "merged"
  /\ Insert(r)
  /\ run' = [run EXCEPT ![r] = [spec |-> p, status |-> "queued"]]
  /\ spec' = [spec EXCEPT ![p] = "in_flight"]
  /\ UNCHANGED <<queue, exec, faults>>

\* createQueuedRunFromSpec: the run, its plan job and the claim of the spec
\* are one transaction.
Walk(p, r) ==
  /\ spec[p] = "open"
  /\ \A d \in DependsOn[p] : spec[d] = "merged"
  /\ Insert(r)
  /\ run' = [run EXCEPT ![r] = [spec |-> p, status |-> "queued"]]
  /\ spec' = [spec EXCEPT ![p] = "in_flight"]
  /\ UNCHANGED <<queue, exec, faults>>

-----------------------------------------------------------------------------
(* A slot, up to the work *)

Claim(s, r) ==
  /\ At(s, {"idle"})
  /\ Oldest(r)
  /\ Lease(r)
  /\ exec' = [exec EXCEPT ![s] = [at |-> "claimed", run |-> r,
                                  caught |-> FALSE, beating |-> TRUE]]
  /\ UNCHANGED <<spec, run, queue, faults>>

\* Mutant: the UPDATE of the run names no status.
MarkAnyRunning(s) ==
  /\ At(s, {"claimed"})
  /\ SetRun(RunOf(s), RunStatuses, "running")
  /\ GoTo(s, "marked")
  /\ UNCHANGED <<job, spec, queue, faults>>

\* Nobody looks at whether a row moved: the workflow goes on with a run that
\* was cancelled, halted or completed in the meantime.
MarkRunning(s) ==
  /\ At(s, {"claimed"})
  /\ SetRun(RunOf(s), {"queued", "running"}, "running")
  /\ GoTo(s, "marked")
  /\ UNCHANGED <<job, spec, queue, faults>>

Supersede(s) ==
  /\ At(s, {"marked"})
  /\ CancelQueuedRow(RunOf(s)) \/ (job[RunOf(s)].status # "queued" /\ UNCHANGED job)
  /\ GoTo(s, "allocating")
  /\ UNCHANGED <<spec, run, queue, faults>>

Allocate(s) ==
  /\ At(s, {"allocating"})
  /\ GoTo(s, "working")
  /\ UNCHANGED <<job, spec, run, queue, faults>>

-----------------------------------------------------------------------------
(* How the work ends: by a result (working) or by an error (disposing) *)

Throw(s) ==
  /\ At(s, {"working"})
  /\ exec' = [exec EXCEPT ![s].at = "disposing", ![s].caught = TRUE]
  /\ UNCHANGED <<job, spec, run, queue, faults>>

\* A failed merge gate or a review that asks for changes: the loop goes round.
Rework(s) ==
  /\ At(s, {"working"})
  /\ SetSpec(SpecOf(s), {}, "in_flight")
  /\ UNCHANGED <<job, run, queue, exec, faults>>

RedriveRun(s) ==
  /\ At(s, {"working", "disposing"})
  /\ SetRun(RunOf(s), {"queued", "running"}, "halted")
  /\ GoTo(s, "reopening")
  /\ UNCHANGED <<job, spec, queue, faults>>

ReopenSpec(s) ==
  /\ At(s, {"reopening"})
  /\ SetSpec(SpecOf(s), {}, "open")
  /\ GoTo(s, "returned")
  /\ UNCHANGED <<job, run, queue, faults>>

HaltRun(s) ==
  /\ At(s, {"working", "disposing"})
  /\ SetRun(RunOf(s), {"queued", "running"}, "failed")
  /\ GoTo(s, "parking")
  /\ UNCHANGED <<job, spec, queue, faults>>

ParkSpec(s) ==
  /\ At(s, {"parking"})
  /\ SetSpec(SpecOf(s), {}, "needs_attention")
  /\ GoTo(s, IF exec[s].caught THEN "rethrown" ELSE "returned")
  /\ UNCHANGED <<job, run, queue, faults>>

\* Mutant: a pause gives the spec back, as a re-drive does.
PauseReopens(s) ==
  /\ At(s, {"working", "disposing"})
  /\ SetRun(RunOf(s), {"queued", "running"}, "paused")
  /\ SetSpec(SpecOf(s), {}, "open")
  /\ GoTo(s, "returned")
  /\ UNCHANGED <<job, queue, faults>>

\* A usage window is exhausted, or a human review is awaited: the spec stays.
Pause(s) ==
  /\ At(s, {"working", "disposing"})
  /\ SetRun(RunOf(s), {"queued", "running"}, "paused")
  /\ GoTo(s, "returned")
  /\ UNCHANGED <<job, spec, queue, faults>>

ReadyToMerge(s) ==
  /\ At(s, {"working"})
  /\ queue' = [queue EXCEPT ![RunOf(s)] = IF @ = "none" THEN "ready" ELSE @]
  /\ GoTo(s, "concluding")
  /\ UNCHANGED <<job, spec, run, faults>>

\* A direct merge, or a branch with nothing to merge.
MergeDirectly(s) ==
  /\ At(s, {"working"})
  /\ SetSpec(SpecOf(s), {}, "merged")
  /\ GoTo(s, "concluding")
  /\ UNCHANGED <<job, run, queue, faults>>

CompleteRun(s) ==
  /\ At(s, {"concluding"})
  /\ SetRun(RunOf(s), {"queued", "running"}, "completed")
  /\ GoTo(s, "returned")
  /\ UNCHANGED <<job, spec, queue, faults>>

-----------------------------------------------------------------------------
(* The end of executeNextPlanJob *)

CompleteJob(s) ==
  /\ At(s, {"returned"})
  /\ Settle(RunOf(s), "done")
  /\ Leave(s)
  /\ UNCHANGED <<spec, run, queue, faults>>

\* An error outside the workflow's try: hydration, admission, allocation.
RawThrow(s) ==
  /\ At(s, {"claimed", "allocating"})
  /\ GoTo(s, "raw")
  /\ UNCHANGED <<job, spec, run, queue, faults>>

\* The workflow that rethrows has finalized the run: only the job is failed.
FailWrapped(s) ==
  /\ At(s, {"rethrown"})
  /\ Settle(RunOf(s), "failed")
  /\ Leave(s)
  /\ UNCHANGED <<spec, run, queue, faults>>

FailRaw(s) ==
  /\ At(s, {"raw"})
  /\ Settle(RunOf(s), "failed")
  /\ GoTo(s, "finalizing")
  /\ UNCHANGED <<spec, run, queue, faults>>

\* Mutants: a run that never ran, or one that did, is left as it is.
UnfinalizedStarted == {"running", "failed"}
UnfinalizedUnstarted == {"queued", "failed"}

Unfinalized == {"queued", "running", "failed"}

\* Mutant: the spec is recovered, the run is not halted.
FinalizeSpecOnly(s) ==
  /\ At(s, {"finalizing"})
  /\ IF run[RunOf(s)].status \in Unfinalized THEN GoTo(s, "orphaned") ELSE Leave(s)
  /\ UNCHANGED <<job, spec, run, queue, faults>>

FinalizeRun(s) ==
  /\ At(s, {"finalizing"})
  /\ SetRun(RunOf(s), Unfinalized, "halted")
  /\ IF run[RunOf(s)].status \in Unfinalized THEN GoTo(s, "orphaned") ELSE Leave(s)
  /\ UNCHANGED <<job, spec, queue, faults>>

\* Mutant: any other attempt passes for a successor.
HasSibling(r) == Attempts(run[r].spec) \ {r} # {}

HasSuccessor(r) == \E q \in Attempts(run[r].spec) \ {r} : Live(q)

\* Re-drive, or genuine-halt at a fixed point of the failure history.
ReadSlot(s) ==
  /\ At(s, {"orphaned"})
  /\ IF spec[SpecOf(s)] = "in_flight" /\ ~HasSuccessor(RunOf(s))
     THEN \E next \in {"orphanReopen", "orphanPark"} : GoTo(s, next)
     ELSE Leave(s)
  /\ UNCHANGED <<job, spec, run, queue, faults>>

RecoverSpec(s) ==
  /\ At(s, {"orphanReopen", "orphanPark"})
  /\ SetSpec(SpecOf(s), {"merged", "needs_attention"},
             IF At(s, {"orphanReopen"}) THEN "open" ELSE "needs_attention")
  /\ Leave(s)
  /\ UNCHANGED <<job, run, queue, faults>>

-----------------------------------------------------------------------------
(* Faults *)

\* Where an exception of the database leads from each step.
Thrown(s) ==
  CASE At(s, {"claimed", "marked", "allocating", "returned"}) -> {"raw"}
    [] At(s, {"working", "concluding"})   -> {"disposing"}
    [] At(s, {"reopening", "parking"})    -> IF exec[s].caught THEN {"raw"} ELSE {"disposing"}
    [] At(s, {"disposing"})               -> {"raw"}
    [] At(s, {"rethrown"})                -> {"raw", "idle"}  \* in finally, or in fail
    [] At(s, {"orphaned"})                -> {"orphanReopen"}
    [] At(s, {"raw", "finalizing", "orphanReopen", "orphanPark"}) -> {"idle"}
    [] OTHER -> {}

DbThrows(s) ==
  /\ Fault("db")
  /\ \E step \in Thrown(s) :
       exec' = [exec EXCEPT ![s] =
                  IF step = "idle" THEN Free
                  ELSE [at |-> step, run |-> @.run, beating |-> @.beating,
                        caught |-> @.caught \/ step = "disposing"]]
  /\ UNCHANGED <<job, spec, run, queue>>

Crash(s) ==
  /\ At(s, CrashPoints \ {"idle"})
  /\ Fault("crash")
  /\ Leave(s)
  /\ UNCHANGED <<job, spec, run, queue>>

\* No progress for a whole lease: the heartbeat ends, the workflow may not.
Stall(s) ==
  /\ At(s, {"working"}) /\ exec[s].beating
  /\ Fault("stall")
  /\ exec' = [exec EXCEPT ![s].beating = FALSE]
  /\ UNCHANGED <<job, spec, run, queue>>

LeaseLapses(r) ==
  /\ ~\E s \in Slots : RunOf(s) = r /\ exec[s].beating
  /\ Lapse(r)
  /\ UNCHANGED <<spec, run, queue, exec, faults>>

Reap == ReapExpired /\ UNCHANGED <<spec, run, queue, exec, faults>>

-----------------------------------------------------------------------------
(* The background loops *)

\* Mutant: the spec is reopened, the run stays paused.
ResumeSpecOnly(r) ==
  /\ run[r].status = "paused"
  /\ SetSpec(run[r].spec, {"merged", "needs_attention"}, "open")
  /\ UNCHANGED <<job, run, queue, exec, faults>>

\* The prober: run and spec move in one transaction, whoever owns the spec now.
ResumePaused(r) ==
  /\ run[r].status = "paused"
  /\ SetRun(r, {"paused"}, "halted")
  /\ SetSpec(run[r].spec, {"merged", "needs_attention"}, "open")
  /\ UNCHANGED <<job, queue, exec, faults>>

\* The merge coordinator asks neither the run nor the spec whether they live.
Land(r) ==
  /\ queue[r] = "ready"
  /\ queue' = [queue EXCEPT ![r] = "landed"]
  /\ SetSpec(run[r].spec, {"merged"}, "merged")
  /\ UNCHANGED <<job, run, exec, faults>>

ParkQueued(r) ==
  /\ queue[r] = "ready"
  /\ spec[run[r].spec] \in {"open", "in_flight"}
  /\ queue' = [queue EXCEPT ![r] = "dequeued"]
  /\ SetSpec(run[r].spec, {}, "needs_attention")
  /\ UNCHANGED <<job, run, exec, faults>>

-----------------------------------------------------------------------------
(* Operators *)

\* The rows a cancel may pick from; it takes the one with the least run_id, a
\* random uuid: any of them.
Cancellable(p) == {r \in Attempts(p) : run[r].status \in {"queued", "running", "halted"}}

CancelRun(r) ==
  /\ run' = [run EXCEPT ![r].status = "cancelled"]
  /\ CancelRow(r) \/ (job[r].status \notin {"queued", "running"} /\ UNCHANGED job)

CancelSpec(p) ==
  /\ "cancel" \in Operations
  /\ ~Settled(p)
  /\ spec' = [q \in Specs |-> CASE q = p -> "cancelled"
                                [] p \in DependsOn[q] /\ ~Settled(q) -> "needs_attention"
                                [] OTHER -> spec[q]]
  /\ \/ \E r \in Cancellable(p) : CancelRun(r)
     \/ (Cancellable(p) = {} /\ UNCHANGED <<run, job>>)
  /\ UNCHANGED <<queue, exec, faults>>

RequeueAttention(p) ==
  /\ "requeue" \in Operations
  /\ spec[p] = "needs_attention"
  /\ spec' = [spec EXCEPT ![p] = "open"]
  /\ UNCHANGED <<job, run, queue, exec, faults>>

\* replanWithSteering reopens the spec of a halted run; the successor it then
\* creates goes through the transaction of Walk.
Replan(r) ==
  /\ "replan" \in Operations
  /\ run[r].status = "halted"
  /\ SetSpec(run[r].spec, {"merged"}, "open")
  /\ UNCHANGED <<job, run, queue, exec, faults>>

\* Archiving the project cancels its runs, and neither their jobs nor specs.
Archive ==
  /\ "archive" \in Operations
  /\ \E r \in Runs : Live(r)
  /\ run' = [r \in Runs |-> IF Live(r) THEN [run[r] EXCEPT !.status = "cancelled"]
                            ELSE run[r]]
  /\ UNCHANGED <<job, spec, queue, exec, faults>>

-----------------------------------------------------------------------------
Start(s)   == MarkRunning(s) \/ Supersede(s) \/ Allocate(s) \/ RawThrow(s)
Conclude(s) == \/ Throw(s) \/ RedriveRun(s) \/ HaltRun(s) \/ Pause(s)
               \/ ReadyToMerge(s) \/ MergeDirectly(s)
Finalize(s) == \/ ReopenSpec(s) \/ ParkSpec(s) \/ CompleteRun(s) \/ CompleteJob(s)
               \/ FailWrapped(s) \/ FailRaw(s) \/ FinalizeRun(s) \/ ReadSlot(s)
               \/ RecoverSpec(s)

Background(r) == LeaseLapses(r) \/ ResumePaused(r) \/ Land(r) \/ ParkQueued(r)

Next ==
  \/ \E p \in Specs : CancelSpec(p) \/ RequeueAttention(p) \/ \E r \in Runs : Walk(p, r)
  \/ \E r \in Runs : Background(r) \/ Replan(r)
  \/ \E s \in Slots : \/ Start(s) \/ Rework(s) \/ Conclude(s) \/ Finalize(s)
                      \/ DbThrows(s) \/ Crash(s) \/ Stall(s)
                      \/ \E r \in Runs : Claim(s, r)
  \/ Reap \/ Archive

\* A workflow that still beats makes progress to some end; the loops poll.
Fairness ==
  /\ \A s \in Slots : /\ WF_vars(\E r \in Runs : Claim(s, r))
                      /\ WF_vars(Start(s))
                      /\ WF_vars(exec[s].beating /\ Conclude(s))
                      /\ WF_vars(Finalize(s))
  /\ \A r \in Runs : WF_vars(LeaseLapses(r)) /\ WF_vars(ResumePaused(r))
                     /\ WF_vars(Land(r) \/ ParkQueued(r))
  /\ WF_vars(Reap)

Spec == Init /\ [][Next]_vars /\ Fairness
-----------------------------------------------------------------------------
(* Properties *)

Unended(r) == run[r].status \in {"queued", "running", "paused"}

\* A spec is attempted by one run at a time: a second run is created only
\* after the first was halted, however the first one ended.
OneRunPerSpec ==
  \A p \in Specs : \A q, r \in Attempts(p) : Unended(q) /\ Unended(r) => q = r

\* The walker enqueues every open spec it sees.  So nothing may still work for
\* a spec that is open: no run that can still write, no row that can still land.
OpenIsFree ==
  \A p \in Specs : spec[p] = "open" =>
    \A r \in Attempts(p) : ~Unended(r) /\ queue[r] # "ready"

\* Somebody will move a run's spec on: its job is in the queue or in a
\* worker's hands, or the prober or the merge coordinator has it.
Attended(r) == \/ job[r].status \in {"queued", "running"}
               \/ run[r].status = "paused"
               \/ queue[r] = "ready"
               \/ \E s \in Slots : RunOf(s) = r

\* "The spec is never left in_flight with a dead run": finalizeRunRecoverable.
NeverStranded ==
  \A p \in Specs : spec[p] = "in_flight" => \E r \in Attempts(p) : Attended(r)

\* While a run waits for capacity or for a review, its spec stays its own.
PausedHoldsSpec ==
  \A r \in Runs : run[r].status = "paused" => spec[run[r].spec] = "in_flight"

AllowedSpecTransitions ==
  [open            |-> {"in_flight", "cancelled", "needs_attention"},
   in_flight       |-> {"merged", "cancelled", "open", "needs_attention"},
   merged          |-> {},
   cancelled       |-> {},
   needs_attention |-> {"open"}]

\* Every write of specs.status is a transition of the table of state/spec.ts,
\* though no statement looks at the table.
SpecFollowsTable ==
  [][\A p \in Specs : spec'[p] \in {spec[p]} \cup AllowedSpecTransitions[spec[p]]]_vars

\* A run that completed or was cancelled is left alone by every later writer:
\* the re-execution of its job, its own worker, the safety net, the prober.
EndedRunFrozen ==
  [][\A r \in Runs : run[r].status \in {"completed", "cancelled"} => run'[r] = run[r]]_vars

\* "merged: []": what has landed is never taken up again.
MergedStays ==
  [][\A p \in Specs : spec[p] = "merged" => spec'[p] = "merged"]_vars

\* "cancelled: []": a cancelled spec is never taken up again.
CancelledSpecStays ==
  [][\A p \in Specs : spec[p] = "cancelled" => spec'[p] = "cancelled"]_vars

\* "The spec's single active run": the cancel takes along the run that is
\* queued or running, and the row its job could be claimed or reaped by.
CancelReachesRun ==
  [][\A p \in Specs : spec[p] # "cancelled" /\ spec'[p] = "cancelled"
       => \A r \in Attempts(p) : Live(r) => job'[r].status \notin {"queued", "running"}]_vars

\* A spec in flight leaves it: it lands, returns to the walker or is parked.
SpecLeavesFlight ==
  \A p \in Specs : spec[p] = "in_flight" ~> spec[p] # "in_flight"

\* A run that was queued ends, or waits for what the prober looks out for.
QueuedRunEnds ==
  \A r \in Runs : run[r].status = "queued" ~>
    run[r].status \in {"paused", "halted", "completed", "failed", "cancelled"}
=============================================================================
