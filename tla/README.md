# Tanren: specifications of the run engine

Tanren delivers code with agents. A project is a DAG of *specs*; a *walker*
turns an open spec into a *run* with a durable *plan job*; a *worker* claims the
job, drives the agents through plan, write, check, publish, gate and review, and
the *merge queue* lands the result. This directory holds TLA+ models of the part
of the engine where a wrong step loses work or does it twice, their model-checking
configurations, and proofs.

All source paths below are relative to `src/services/orchestrator/src/engine/`
unless they start with `src/`.

## 1. Inventory

| Component | State it keeps | Operations | Talks to | What is hard |
|---|---|---|---|---|
| Job queue (`contracts/jobQueue.ts`) | `job_queue` rows: status, `leased_until`, `attempts` | enqueue, claim, heartbeat, complete, fail, reapExpiredLeases | workers, reaper, cancel | competing claims, lapsed leases, settlements that name no claim |
| Worker (`worker/runWorker.ts`, `runHeartbeat.ts`, `runExecutor.ts`) | slots, draining flag, beat timer, progress signal | start, stop, runSlot, executeNextPlanJob | queue, workflow | crash, drain, wedged workflow, lost database answers |
| Reaper (`worker/jobReaper.ts`) | none | one UPDATE every 30 s | queue | races every late worker |
| Run lifecycle (`workflow/plannerRun*.ts`, `worker/runFinalize.ts`) | `runs.status`, `specs.status` | mark running, re-drive, genuine halt, pause, complete, finalize, recover | queue, walker, merge queue | several statements without a transaction; re-execution after a crash |
| Walker (`dag/walker.ts`, `dag/subscriber.ts`, `contracts/dagWalker.ts`, `workflow/projectSpec.ts`) | back-off windows, the budget pause, a wanted walk | walk: read the DAG and the runs' progress, choose, start a run per ready spec, also on top of unmerged ancestors | specs, runs, queue, NOTIFY | two reads and many starts, all stale; lost notifications; a spec nobody picks |
| Prober (`usage/pausedRunResumeProber.ts`) | none | resume paused runs | runs, specs | acts on a snapshot |
| Operator actions (`workflow/cancelSpec.ts`, `requeueAttentionSpec.ts`, `recovery/`, `routes/projects/lifecycle.ts`) | none | cancel, requeue, replan, archive | all rows | arrive at any moment |
| Merge queue (`merge/`) | `merge_queue` rows, claim epochs, batches | admit, claim, renew, land, park, isolate, recover stale | runs, specs, forge | a stale claim whose merge still lands; batches that fail |
| Base shift, percolation (`dag/baseShift*`, `dag/percolation*`) | re-execution markers | re-run dependants when an ancestor moved | walker, merge queue | ordering of ancestor changes |
| Decisions (`workflow/plannerRunRedrive.ts` and the convergence and wandering detectors) | failure history | re-drive or halt | run lifecycle | a fixed point that is never recognised |
| Allocator service (`src/services/allocator/src`, `allocators/sidecarHttpAllocator.ts`) | `runners` rows, containers, volumes | allocate, release, sweep | worker over HTTP, cancel, Docker | callers that are gone, steps that fail halfway, late releases |
| Other allocators (`allocators/`: static, manual, cloud) | host pools, cloud machines | the same interface | providers | leaked hosts |
| Delivery of land groups (`postMerge/landGroupDelivery/`, `repositories/releaseInstances.ts`) | claims and leases, intents, releases, evidence | claim, build, preview, vet, promote, prove, roll back, recover | merge queue, provider | takeovers in front of a provider, groups side by side |
| Verification, delivery of single runs (`verification/`, `postMerge/delivery/`) | obligations, stages | verify, deploy, retry | merge queue | retries of what was delivered |
| Events, notifications (`events/`, `notifications/`) | append-only log | append, project | all | a status without its event |
| Adapters (`providers/`, `forge/`, `integrations/`, `ssh/`), content (`design/`, `templates/`, `governance/`), routes, auth, CLI, dashboard | | | | input and output |

Correct means, component by component: the queue hands a job to one worker and
settles it; a spec is worked on by one run at a time and never left in flight
with nobody attending it; what merged or was cancelled stays so; a pause keeps
the spec; the walker respects its ceiling, starts nothing on a foundation that
is not there, and leaves nothing waiting that may start; the merge queue lands
an entry once and loses nothing; a dependant is re-executed for every change of
its base; a sandbox is there while it is used and gone when it is not; a group
is previewed and promoted once, and what is called verified is live.

Modelled here: the job queue, the run lifecycle with the transaction of the
walker, the prober and the operators, the walker itself, the merge queue's pass
from recovery to landing, the delivery of land groups, and the sandboxes of the
allocator service. Section 8 says what is left out and section 9 has the plan.

## 2. Modules

| Module | What it is |
|---|---|
| `JobTable` | the rows of `job_queue` and the statements that write them |
| `JobQueue` | worker slots, heartbeats, reaper and processes around the table |
| `Dispatch` | abstract: a job is in one place at a time |
| `JobQueueDispatch` | `JobQueue` with the refinement mapping to `Dispatch` |
| `RunLifecycle` | spec, runs, plan jobs, slots, loops and operators together, over the same table |
| `Walker` | the walks of one project over its DAG, while runs, merges and operators move it |
| `MergeQueue` | rows of `merge_queue`, coordinators that batch, claim and land them, main, receipts |
| `Delivery` | claims on land groups, the drive of each, releases, the provider |
| `RunnerLease` | `runners` rows, containers and volumes, the calls of the service, workers, sweeper; over the same table |
| `Mainline`, `MergeQueueMainline` | abstract: an entry enters the queue once and leaves it once, main grows by sets that have what they depend on; and the mapping |
| `Rollout`, `DeliveryRollout` | abstract: a group has one verdict, its effects once, one release live; and the mapping |
| `Board`, `WalkerBoard` | abstract: every start is below the ceiling and over the whole stack when it is made; and the mapping |
| `Relay`, `RunLifecycleRelay` | abstract: a spec is passed from one run to the next; and the mapping |
| `Custody`, `RunnerLeaseCustody` | abstract: a run has one container at a time, lost only by accident; and the mapping |
| `JobQueueMC`, `RunLifecycleMC`, `WalkerMC`, `MergeQueueMC`, `DeliveryMC`, `RunnerLeaseMC` | instances for TLC |
| `JobTableProofs`, `JobQueueProofs`, `RunLifecycleProofs`, `WalkerProofs`, `MergeQueueProofs`, `DeliveryProofs`, `DeliveryEvidenceProofs`, `RunnerLeaseProofs` | lemmas and theorems |

The modules meet in `JobTable`: `JobQueue`, `RunLifecycle` and `RunnerLease`
each run their own actors over the same statements. `Walker`, `MergeQueue` and
`Delivery` follow each other in the life of a spec (`in_flight`, landed,
delivered) and abstract each other to the statuses they read: `Walker` lets runs
advance, die and merge as they like, `MergeQueue` lets specs be cancelled, and
`Delivery` begins with groups that completed.

### JobTable and JobQueue

`job` is the table: a status, a lease (`none`, `live`, `lapsed`) and the attempt
counter of every row. Time is abstracted to the lapse of a lease. Every operator
is one SQL statement with the guards the statement has: `Settle` has none but the
id, `Renew` asks for `running`, `ReapExpired` treats all expired rows at once and
has no cap. `claimed` and `dead_letter` are statuses no code writes.

`slot` says where each slot is in `runSlot` and `executeNextPlanJob`:
`checking` (the `while`), `polling` (before `claim`), `parked` (`idleWait`),
`executing`, `finalizing` (in the catch, after `fail`), `stopped`, `down`. `gen`
remembers the attempt the slot claimed; the code does not keep it, and the model
uses it in properties only. `beating` is the heartbeat loop.

Faults are named and bounded by `MaxFaults`: `crash` (all slots of a process),
`drain` (`stop()`), `stall` (`isWedged`: the heartbeat loop ends, the workflow
may hang or go on), `miss` (beats do not reach the database for a whole lease),
`db` (an exception of `claim` or `fail`, with the COMMIT made or not made).
Without `miss` a lease that is beaten does not lapse: a beat comes every 15 s, a
lease is 60 s.

### RunLifecycle

A run has exactly one plan job, so run ids are job ids. `exec` says where a slot
is: `claimed`, `marked` (run marked running), `allocating`, `working`, then one
of the ends:

    working -> reopening -> returned          re-drive: run halted, then spec open
    working -> parking -> returned            genuine halt: run failed, then spec parked
    working -> returned                       pause: run paused, spec stays
    working -> concluding -> returned         row ready or spec merged, then run completed
    working -> disposing -> (the first three)  the same after an error, then returned/rethrown
    claimed, allocating -> raw -> finalizing -> orphaned -> orphanReopen | orphanPark
    returned -> idle                          complete the job
    rethrown -> idle                          fail the job

`SetRun` and `SetSpec` are the guarded UPDATEs; their second argument is the
guard of the code at that place, the empty guard where it has none. They write
nothing if the guard fails, and, as in the code, the worker does not notice.
`Rework`, `ReopenSpec`, `ParkSpec` and `MergeDirectly` go through unguarded
statements. `Thrown` gives, for each place, where an exception of the database
leads. The path modelled is the one of a worker with a `runStateWriter`, which is
the one with the most transactions.

The walker is `Walk`, the transaction of `createQueuedRunFromSpecOnClient`; the
prober is `ResumePaused`; the merge coordinator is `Land` and `ParkQueued`;
operators are `CancelSpec` (with `CancelRun` and the parking of dependants),
`RequeueAttention`, `Replan` and `Archive`. Constant `Operations` says which
operators an instance has, `CrashPoints` where a worker may crash.

Abstractions: the merge-queue row matters only from the moment its evidence is
complete (the early row that opens with the pull request can neither land nor be
parked); `run_id` is a random uuid, so "the least run_id" is any; speculative
starts, budget pauses and backoff of the walker only delay or add starts and are
left out; a database exception here means the statement did not commit; the
heartbeat's renewal of a lapsed lease is left out, for without a `miss` fault a
beaten lease does not lapse; runner rows and events are left out. `Replan` covers
the reopening; the successor it creates is the transaction of `Walk`.

### Walker

`spec` is `specs.status`, `stage` how far the latest run of a spec has come,
`start` who asked for that run and its `ancestor_stack`. A walk goes through

    idle -> snapped -> projected -> enqueuing -> idle
            BeginWalk  Plan         one EnqueueDirect, EnqueueSpeculative,
            (specs)    (runs,       Wait or Skip per chosen spec, in their order
                       budget)

with everything else in between: `Advance`, `Merge`, `Die`, `Reopen`, `Park` are
runs and the merge queue; `Cancel`, `Requeue`, `StartByHand`, `Archive`,
`SpendBudget` operators and spending. `Claimable` is the claim of
`createQueuedRunFromSpecOnClient`: the spec must still be open, and a start without
a stack must find its dependencies merged; a start with a stack trusts the
stack that the walk computed. `held` is the memory of `heldReDriveBackoff.ts`: a window, and the key of
the ancestors' states at the last attempt.

Abstractions: a notification and the subscriber's timer both only ask for a
walk, so `Wake` stands for both and a lost one changes nothing; the budget is
read at `Plan`; `ci_green` is merged with `pr_open` and the review with the
audit, for no threshold tells them apart; one worker process walks
(`src/docs/architecture/future-refactor-and-scale.md` makes it a singleton). Late
writes of a workflow that was overtaken belong to `RunLifecycle`. A stack whose
ancestor has no run, the capability graph, and the milestone and observation
events are left out.

### MergeQueue

An entry is a row of `merge_queue` with its spec. A row has a status, the epoch
of its claim, a heartbeat (`fresh`) and a partition. `main[n]` is the set of
entries whose work the n-th head of the default branch contains; `receipt` holds
the land groups whose transaction is committed. `at[c]` is where coordinator `c`
is in its pass:

    idle -> forming              Begin: stale claims recovered, held rows reconciled
    forming -> checking          Form: the batch on the head of main
    checking -> claiming         Check: the tree passes, the authority admits all
    checking -> settling         bisection names culprits; then forming again
    checking -> isolating        the authority fails members; one after the other:
    isolating -> retiring        Isolate, then PrepareRework, RetireReworked, Park
    claiming -> confirming       Claim: acquire every row under a new epoch
    confirming -> landing        Confirm: renew, and the policy of the moment
    landing -> landed            Land: main moves by compare-and-swap (Advance), or is found
                                 at the head that was proved (Advanced)
    landed -> marking -> idle    Receipt: specs merged, group completed; Mark: rows
    claiming, confirming, landing, landed -> releasing -> idle

`claim[c][e]` is the lease the process keeps in memory (`leaseOwners`), `Holds`
the guard of every statement that names owner and epoch. The statements that
name neither are the ones that settle failed members (`SetApart`, `Park`,
`RetireReworked`). `excluded` are the specs a pass has settled (`excludedSpecIds`),
which matters only for a batch that is formed again.

Abstractions: time is `GrowStale` (a claim without progress for a second);
gate, bisection and authority are a choice of their verdict; the compare is on
the length of main, which names a head uniquely because main only grows; a head is
what it contains, so that two batches on one base that prove the same tree prove the
same head, and either finds it landed (`Advanced`); an entry claimed `MaxClaims` times is not batched again and main has at most
`MaxLands` heads, both bounds of the model. A project without a queue policy admits
everything (`queuePolicyController.ts:173`, `233`, `253`), so it behaves as one whose
policy is always active; the commands and the policy's states are of a project that
has one. A partition has capacity one, its default.

The model does not have: the drive of one run at a time
(`driveClaimedMerge`, conflict culprits, base conflicts, the innocent prefix,
the remainder of a group whose member failed), infra holds and their retry budget, parking
for an integration grant, priorities and fairness between rows, re-assignment of
partitions, revisions of a policy, eager beams. All but the first choose what is
batched, or delay it; the drive of one run is a second way to claim and land, and
comes first in the plan.

### Delivery

A release is a group and the number of the claim whose build made it. `row` is
the delivery row of a group: its state, the token and freshness of its claim, and
the intents written. `rel` and `prev` are `release_instances`; `prod`, `gone` and
`done` are the provider: what production serves, what was torn down, how often
it deployed and promoted. A drive goes through

    claiming -> building -> previewing -> intending_preview -> firing_preview -> persisting
             -> vetting -> promoting -> intending_promote -> firing_promote -> recording
             -> readying -> attesting -> proving -> finalizing
    vetting -> rejecting -> finalizing            proving -> rolling -> restoring -> finalizing
    any intent that cannot be had -> abandoning -> finalizing

`Holds` is the fence (state and token) of every fenced statement; what the code
does without a fence (the provider, the releases, the evidence) has none here. `Ready`
is the last heartbeat of the poll; the smoke check and the event `deploy.verified` come
after it (`Attest`), whoever owns the row by then. `Lapse` lets
the lease of a claim nobody drives run out, `Stall` that of a living drive; `Recover` is the notification that
finds a group in progress or already live, `Throw` an exception of any step.

Abstractions: `Nodes` says where a build takes its node from; production takes
it from the run, and "connection" is what the code would do with a connection
that names one, which no production code writes today. The states `live`, `superseded`
and `rolled_back` of a release, and all that is said of them (`OneLive`, `Evidence`), arise
only with "connection": with the run's node no promotion can be recorded (section 5). Whether two builds of a group
have one digest is a choice. Renewing the lease after an operation is folded
into the operation, so that a claim may be lost right after it; vetting is one
step, and so is restoring. Promoting a release that is live already is left out:
no drive that reaches it is a first drive, and later ones recover before (checked:
the guard is never met in 1.7 million states). A second failure while the verdict
is written, the reading of plan and target, the webhook adapter, the receipts of
binding proofs and `deployOnMerge` are left out.

### RunnerLease

The name of a run names everything: `row` is its `runners` row, `box` the
container of that name, by number (`made` counts them), `disk` its volumes.
Every request to the service is a `call` that lives on when its caller is gone:

    allocate: looking -> wiring -> creating -> starting -> inserting -> recording
              a failure: undoing -> clearing
    release:  marking -> stopping -> wiping

    worker:   claimed -> allocating -> allocated -> working -> leaving -> releasing
              -> mirroring -> done;  on errors raw -> finalizing

The sweeper lists what is stuck (`List`) and releases it item by item (`Take`).
`CancelRun` writes the run, the job and `released_at`, as the code does, and no
call. Faults: `crash` and `stall` of a worker, `http` (a call goes on without its
caller), `db`, `boot`, `docker` in any step, `down` (the service dies with all
its calls). Docker may fail before it did what it was asked (`DockerFails`), or do it and
have its answer lost (`DockerUnheard`), which the code cannot tell apart.

Abstractions: one container and one pair of volumes per run name; that Docker
refuses a second container of one name and the removal of volumes in use is a
fact about Docker, external, and so is that it creates the named volumes a new container
misses. Stopping and removing a container is one step. What
a run's end writes besides belongs to `RunLifecycle`. `struck` is history: the
runs hit by something for which the code has no remedy (the cancel of a live
row, a worker's release record that hits a row claimed again, a Docker teardown
that fails, a volume made before an error, a container made whose id was never
heard, a death of the service midway). Properties that
exempt `struck` say what holds up to there. Sandboxes without a run (the merge
gate's) are left out.

### The abstract specifications

Every component has one: what a caller may rely on, with none of the actors,
leases, claims and faults that make it hard.

`Dispatch`: a job is unborn, waiting, with a worker, lost, or settled. `JobQueueDispatch`
maps a row that is running and executed by a slot to that slot, a running row
that nobody executes to "lost", and shows that every step of the queue is a step
of the dispatcher or a stutter.

`Relay`: an open spec that nobody holds is taken by a new run, the holder alone moves
it, and lets go of it with the write that ends its work. `Attempt` is the spec of
each run; `Owners` are the runs that wait to be claimed, resumed or landed, or are in
a slot's hands before it wrote the spec. A holder that lets go without a word
(`Drop`) is possible only where operators act: after a cancel, a run that finds its row
final writes nothing.

`Board`: a spec is started by the walker, below the ceiling and over a stack with
all of its ancestors that have not merged and nothing but ancestors, or by hand when
none is left; it merges after everything below it. The mapping is the identity on
`spec` and `start`; walks, snapshots, back-offs, budgets and stages are gone. So the
snapshot that a walk decided on cannot be told from the moment of the start.

`Mainline`: an entry is outside, inside, or has left one way; main grows by
founded sets; what landed is recorded; an entry leaves as merged only after its
spec. `Place` forgets who works on a row and what claim it has, `OnMain` who
landed what.

`Rollout`: begin, fire an effect once, go live once and after the promotion,
withdraw, verify, conclude. The verdict fits: completed is in evidence, rolled back
was live, what is rejected was never live, nor promoted before or after.
`Verdict` is the row's state, `Standing` says of a release whether it is or was live.

`Custody`: prepare volumes, build, file, fetch, remove, wipe, each by the hand that
holds the thing, and accidents, which strike runs and are the only way to lose
one. `Container` and `Volumes` are computed from the box, the live row, and the
calls that know of it; `struck` is the same.

## 3. Runs

| Run | Instance | Checks |
|---|---|---|
| `queue_exclusive` | 2 jobs, 3 slots in 2 processes; crash, drain, db; 2 faults | `TypeOK`, `ExclusiveExecution`, `ExecutingIsLeased`, `DrainEnds`, `ImplementsDispatch` |
| `queue_faulty` | 2 jobs, 3 slots in 3 processes; all faults; 2 faults | `ClaimHasOneHolder`, `CancelIsDurable`, `EveryJobSettles` |
| `run_calm` | 3 runs, a spec and its dependant, 2 slots; 2 crashes while at work | `TypeOK`, `NeverStranded`, `PausedHoldsSpec`, `SpecFollowsTable`, `SpecLeavesFlight`, `QueuedRunEnds` |
| `run_operated` | as `run_calm`, 1 crash, cancel and archive at any moment | `OneRunPerSpec`, `OpenIsFree`, `ImplementsRelay` |
| `run_hostile` | 2 runs, 1 spec, 2 slots; every operator action, 1 fault of any kind anywhere | `EndedRunFrozen` |
| `merge_lands` | an entry and its dependant, 2 coordinators, cancels; 1 crash, failed receipt or lost answer; 2 claims an entry, 2 lands | `TypeOK`, `MergedIsOnMain`, `MarkedIsMerged`, `AncestorsFirst`, `ImplementsMainline` |
| `merge_operated` | 1 entry, 2 coordinators; cancel, dequeue, every policy command; 2 faults; 3 claims, 2 lands | `OneHolder`, `SettledForGood`, `EveryClaimEnds` |
| `walker_stacks` | a row of 3 specs, aggressive threshold, ceiling 2, depth 2; cancel, lax audits; 2 turns | `TypeOK`, `StackComplete`, `NoWorkOnCancelled` |
| `walker_lively` | a spec and its dependant in front of a third, moderate threshold, ceiling 1, depth 1; starts by hand, archive, budget, cancel, requeue; crash, db; 2 turns | `ImplementsBoard`, `NothingLeftWaiting` |
| `delivery` | 2 groups, 2 workers, 2 claims a group, both sources of the node (releases get live with the connection's only); 1 fault of any kind | `TypeOK`, `EffectsOnce`, `OneLive`, `Evidence`, `ImplementsRollout`, `DeliveryEnds` |
| `runner_lease` | 1 run, 2 workers, 2 requests and the sweeper; cancel, archive; 2 faults of any kind | `ImplementsCustody`, `SandboxKept`, `SandboxEnds` |
| `delivery_unpreviewed` | 1 group, 1 worker, 1 claim, no fault | `WorksOnPreview`, which fails: section 5 |

`MergedStays`, `NothingLost`, `WithinCeiling`, `VerdictStays` and `SandboxesKnown` are no
run's property, because the refinements of the same runs say as much and more;
they are theorems all the same (section 6).

The bounds. Two slots of one process and one of another are the least in which a
crash takes two holders, a survivor claims what they lost, and a drain meets
both; the faulty run has three processes, so that a stalled holder, a second
claim and a third one meet, each able to fail by itself. Two jobs make the order
of claims matter. Two faults make a fault hit the recovery of the first one.
Three runs let a spec be re-driven twice, or let a dependant start after the spec
was re-driven once. Deadlock is checked for the queue; the lifecycle and the merge queue may
rest, for every spec and row may be settled or the bounds reached, so their
configurations do not check it.

In `merge_lands` two entries and two coordinators are the least in which a batch
of two, a batch of one, and two lands that race for one head occur; two claims
of an entry let a claim be recovered and its stale holder still act. `MaxLands`
counts the initial head, so main moves twice. The coordinators are
interchangeable there and the run checks no liveness, so it uses their symmetry.
`merge_operated` gives up the second entry for a third claim, a second fault and
all commands, and uses no symmetry. The partition of the entry is its own in
both runs; that a partition has one lease is exercised by the two coordinators.

In `run_calm` a worker crashes only before the first write that ends its run
(`AtWork`). That is not because later crashes are harmless: they are what
`RunStranded.cfg` shows. The calm runs say what the code does
guarantee, and the boundary is exact: with crashes at `AtEnding`, `NeverStranded`
and `OneRunPerSpec` fail.

In `walker_stacks` a row of three is the least DAG with an ancestor that is not
a dependency, so that a stack is more than `DependsOn`; ceiling and depth of two
let the whole row be in flight. A turn is one death, cancel, requeue, start by
hand, archive, budget pause or fault, at any point of any walk; merges are free.
With two turns one can hit what the other left behind. `walker_stacks` has no
requeue, for a cancel and a requeue inside one walk start a dependant on a cancelled
dependency: the walk chose it before. `walker_lively` has a ceiling of one, which
one start fills, and a chain that competes for it with a spec behind it in the
order of the walk. 2.6 and 0.45 million states.

Larger bounds than fit the time of a run were explored once: `run_operated` with
three crashes, the safety properties of `run_calm` with four, `AncestorsFirst` of
`merge_lands` with two faults and three claims (11.3 million states). All hold.

In `delivery` two groups are the least that race for the live release, and two
claims of a group the least in which a holder is ousted; with two workers the
ousted one acts beside its successor. Each chain is driven to its end, so one
fault already meets every step of both. 0.26 million states.

In `runner_lease` runs share nothing but the sweeper's list, so one run is
enough for what happens to its sandbox; two workers and two requests are the
least in which a call without a caller meets the next execution's, and the
sweeper is a third call. Two faults let one hit the remedy of the other.
0.65 million states. `SandboxKept` speaks of the first claim of a job, while its lease
lives: it is about the sweeper's judgement, not about late releases or lists that are out
of date, which take the sandbox of a later claim away (`RunnerSwept.cfg`). `SandboxEnds` excepts
`struck` runs. `SandboxKept` holds for any number of runs (section 6).

Every property was tried against a plausible bug in a definition it depends on
(PROJECT.json lists the pairs). The bugs stand in the modules beside the
definition they replace, marked *Mutant*, and no specification uses them.

## 4. Fairness

`JobQueue`: the reaper's interval fires (`jobReaper.ts`); a lease nobody beats
lapses (it is a timestamp); a slot in its loop goes on and a parked one is woken
by the backstop interval at the latest (`runWorker.ts`); a workflow that shows
progress ends, for it is bounded by its own detectors, while a stalled one owes
nothing; a process that is gone is started again (the service manager). Nothing
is assumed of producers, cancels and faults. Claims are weakly fair per slot:
the claim of *some* row, since `ORDER BY id` decides which.

`RunLifecycle`: the same, with the prober's and the merge coordinator's polls.

`Walker`: the subscriber's timer wakes the walker, a walk that began goes on, a
back-off window ends (it is a timestamp). Nothing is asked of runs, merges,
operators or notifications: `NothingLeftWaiting` must hold although every
notification is lost.

`Delivery`: a drive that began goes on (`Step(w)`). Nothing wakes a worker again:
no interval looks at delivery rows, only the next notification does. Therefore
`DeliveryEnds` speaks of behaviours without faults but with all exceptions, and
says nothing of a drive that was killed, stalled or refused a grant.

`RunnerLease`: workers and calls go on, a job is claimed, a lease that nobody beats
lapses, rows get older than the grace period, the reaper and the sweeper have
intervals. The claim is fair as a whole, not per worker.

`MergeQueue`: a pass that began goes on (`Work`); a claim nobody renews grows
stale; and a coordinator begins another pass (`Begin`). The last needs a reason,
for the subscriber polls nothing: a pass that meets a held claim ("serialized"),
a `merge_retry` or an exception arms a one-second timer, every run event
triggers a pass, and a process that is started again sweeps all projects. A pass
that ends "all_blocked" arms nothing. A row in nobody's hands that such a pass
leaves behind waits for the next event, and the liveness run has a single entry,
so that no blocked entry hides another's claim. `EveryClaimEnds` speaks of a row
that is `merging`, which is a "serialized" pass to everybody else, and not of rows
that are queued.

No liveness property assumes strong fairness.

## 5. Where code and text disagree

The run `delivery_unpreviewed` ends in a counterexample to
`postMerge/landGroupDelivery/groupDeliveryDeployer.ts:152-153` "a persisted release
for THIS group's artifact already exists ⇒ REUSE it (idempotent — a takeover after
the prior owner persisted the preview)". The build files a row in state `built`
under the node of its run, and `findGroupRelease`
(`groupDeliveryDeployerHelpers.ts:178`) reuses `built` rows too. So the first drive of
a group finds its own build, applies no preview, and vets and promotes a release that
was never previewed. `VALID_TRANSITIONS.built` has no `promoting`: production is
switched, the switch cannot be recorded, and the group ends `needs_attention`.

Each of the others is a configuration of this directory, run with
`tlc -config X.cfg <module>MC`, that ends in a counterexample to what is quoted.

| Configuration, property | The sentence | What it shows |
|---|---|---|
| `RunRevived`, `CancelledSpecStays` | `workflow/cancelSpec.ts:10` "so it never re-enqueues a cancelled spec" | the worker of the cancelled run writes the spec back into flight, or open |
| `RunCancelMisses`, `CancelReachesRun` | `workflow/cancelSpec.ts:169` "the spec's single ACTIVE run" | a re-driven spec has a halted run too, and the cancel may take that one |
| `RunStranded`, `NeverStranded` | `worker/runFinalize.ts:201` "The spec is never left `in_flight` with a dead run" | a crash between failing the job and finalizing the run does |
| `RunMergedReopened`, `MergedStays` | `state/spec.ts:97` `merged: []` | an error while the run is completed re-drives a merged spec |
| `MergeOrphanLands`, `AncestorsAlwaysFirst` | `contracts/batchMergeCoordinator.ts:67` "never include a dependent whose ancestor isn't in the batch-or-already-merged" | a cancelled culprit stays queued, makes its dependant eligible in the batch formed again, and is then filtered out of it |
| `WalkerParked`, `ParkedBlocks` | `dag/walkerPg.ts:49` "A terminally-halted/cancelled/needs_attention spec is neither a candidate nor a satisfied dependency: it blocks any dependent" | `deriveState` (`contracts/dagLifecycle.ts:206`) does not ask for `needs_attention`: a parked spec whose pull request is open is built on |
| `WalkerFlagged`, `MergedCrosses` | `dag/speculation.ts:74` "A merged ancestor trivially satisfies this." | line 78 asks for the severity of the audit of merged ancestors too: one that merged with an open P1 blocks its dependants |
| `WalkerRedriven`, `RedrivenIsPicked` | `contracts/specProgress.ts:23` "It IS progressing iff it is not transitively blocked — the walker will re-pick it on a later tick." | a speculative run dies of its own accord; `dag/ancestorWaitGate.ts:117` holds its spec until an ancestor moves, which it need not |
| `WalkerStarved`, `NothingStarves` | `src/docs/architecture/autonomy-engine.md:142` "It stops only when the DAG is drained," | `contracts/dagWalker.ts:268` cuts the ready specs at the headroom before the gate drops some: a held spec at the head of the line takes the free slot from the one behind it, also when there is a single slot |
| `DeliveryTornDown`, `ServedIsUp` | `groupDeliveryCore.ts:351`, which tears down a preview of a lost claim | where builds are filed under a connection's node, the new owner may have promoted the same deployment |
| `DeliveryServed`, `LiveIsServed` | `supersedeLockedLive`, one live release a project | two groups promote in one order and record in the other: the live release is not the one served |
| `RunnerCancelled`, `NoSandboxLeaks` | `workflow/cancelSpec.ts:15` "the allocator's sweeper + the run-workspace reaper then reclaim the sandbox now the run is terminal, so NO sandbox leaks" | the cancel sets `released_at`, and release (`markReleased`) and sweep (`listStuck`) ask for rows without it |
| `RunnerSwept`, `SandboxInUse` | `src/services/allocator/src/runnerLifecycle.ts:382` "so a healthy in-flight runner is never touched" | the sweeper's list is stale: a run that was claimed again since loses its sandbox |

What else was met and is left without a run, because the text is looser or the
code says so itself: a wedged workflow that wakes up beside its successor
(`isWedged` accepts it); `complete` and `fail` overwrite a cancelled row; a cancel never selects
a paused run; a crash between the pause of a run and the completion of its job
leads to a second run; the safety net halts queued and failed runs, which the
table of `state/run.ts` does not list. In the merge queue: the queued row of a
cancelled spec may still be batched and land, which then makes the spec merged;
dependants that a cancel parks keep their rows; after a failed
receipt or a lost answer main contains work of specs that are not merged, and the
next batch is formed on top of it.

In the delivery: an older group may promote over a newer one; a rollback may
restore a release that was itself rolled back; a retry after a grant was refused
at the promotion ends as if the promotion were ambiguous; nothing periodic finds
a row in progress whose worker died. In the walker: two worker processes would
walk one project side by side; a dependant that a cancel parked and an operator
requeued, both within one walk, is started on the cancelled dependency.

In the allocators: a death of the service, or a failed teardown, between marking a
row released and removing the container leaves the container for ever; the
worker's own `runners.release` (`runnerStore.ts:374`) names no claim and may release
a row claimed again; a sandbox without a run is swept after its grace of 15 minutes
also while it is in use (`pgRunnerStore.ts:236`). In the pool of fixed hosts, rows of
halted runs and rows without a run are never swept, so that a crash keeps the host's lease and the
next execution meets its own live row; and a cancel frees the host while its
worker is still at work on it.

## 6. What is proved

TLAPS checks, for every value of the constants:

- `JobQueueProofs!TypeCorrect`, `ClaimHolder`, `CancelDurable`, `Exclusive`, `Leased`, `Dispatches`;
- `RunLifecycleProofs!TypeCorrect`, `EndedFrozen`, `OneAttempt`, `WalkerTakesFree`,
  `LandedStays`, `PausedKeeps`, `TableFollowed`, `NoneStranded`, `PassedOn`;
- `WalkerProofs!Typed`, `StacksAreComplete`, `CeilingHolds`, `NothingOnCancelled`, `KeepsTheBoard`;
- `MergeQueueProofs!TypeCorrect`, `MainLosesNothing`, `InAgreement`, `MergedCorrect`,
  `MarkedCorrect`, `CountedAlways`, `SettledStays`, `HolderUnique`, `AncestorsLandFirst`, `Lands`;
- `DeliveryProofs!TypesHold`, `VerdictsAreFinal`, `EffectsHappenOnce`, `LiveIsOne`;
  `DeliveryEvidenceProofs!EvidenceHolds`, `RollsOut`;
- `RunnerLeaseProofs!Typed`, `Known`, `KeptWhileAtWork`, `InCustody`.

The refinements are `Dispatches`, `PassedOn`, `KeepsTheBoard`, `Lands`, `RollsOut` and
`InCustody`: one for each component.

Assumptions: those of the modules (job ids are naturals, the "none" values are
not ids, the fault kinds are known ones); `Exclusive`, `Leased` and `Dispatches` also
assume that `stall` and `miss` are not among the faults, and `Dispatches` that no
slot is called like one of the four places that are not slots. `OneAttempt`,
`WalkerTakesFree`, `LandedStays` and `PassedOn` assume `Gentle`: no stall, no database error, crashes
only at the steps of `WorkSteps`, and no operator but cancel and archive;
`PausedKeeps` and `TableFollowed` also that nobody cancels, `NoneStranded` that
nobody does anything. That is what the runs assume, and section 7 shows that each of these properties fails
without it. `NothingOnCancelled` assumes that nobody requeues. `KeepsTheBoard`, `Lands`,
`RollsOut` and `InCustody` assume nothing: they hold under all faults and commands of
their modules.

The arguments. All proofs split a step into what it does to the table and what
it does to the actors: `TableStep` says that a step writes one row in one of the
ways of `Update`, inserts one, or reaps; the lemmas of `JobTableProofs` then say
once what such a write keeps.

`ClaimHasOneHolder` is inductive with the types: a claim takes the number one
above the counter, every held number is at most the counter, and nothing lowers
the counter (`CountersGrow`). `Exclusive` needs more: that the slot that
executes a job beats, and that the row is either out of the claim's reach or
carries a live lease. Then the reaper, which wants a lapsed lease, and the claim, which
wants a queued row, are both disabled while somebody executes.

`Dispatches` is the refinement: `Place` is a function because execution is
exclusive (`WellPlaced`), and every step of the queue is `Enqueue`, `Assign`, `Lose`,
`Recover` or `Settle` of the dispatcher, or a stutter.

`EndedFrozen` rests on two facts that the action property does not mention: a run's
row is absent exactly when its job's row is (`JobWithRun`), so that `Walk` never
overwrites a run; and a slot at work holds a run that exists (`HeldIsThere`), so
that no UPDATE creates one. Given them, `RunStep` shows that each UPDATE of a
run starts from a status that is not final.

`OneRunPerSpec` is not inductive, and neither is any of the properties that `OneAttempt`,
`WalkerTakesFree`, `LandedStays`, `PausedKeeps`, `TableFollowed` and `NoneStranded` are
about. `Sound` says what a slot, its job, its run and the row of its
run have to do with each other at each step of the slot, and the same of a run
that nobody holds. With it a run has two measures: it is `Busy` while something of it may
still happen, and it `Owns` its spec while it may still write it. `GentleStep`
shows that no step but a walk makes a run busy or an owner again (`Keeps`), and
that a spec is written by an owner only, who is none any more once he wrote anything
but "in flight", and not busy either if he gave the spec back (`Writes`). Then
`Exclusive` is inductive: one busy run a spec, none while it is open, no owner once it
merged. Where nobody cancels, what has an owner is in flight (`OwnedInFlight`), which is
the table and the paused runs. For `NeverStranded` the converse is needed: what is in
flight has an owner (`InHand`), so that an owner must not be lost silently
(`Passes`). It is not, because what is worked on is alive (`Awake`): the
pause finds a run to pause, the safety net one to finalize, and no sibling passes for its
successor. `PassedOn` needs no more than these: a step writes one run's part of the relay at
most (`Passing`), and takes, goes on with, hands over or drops what it holds by what
`Keeps` and `Writes` say; where there are no operators, `OwnedInFlight`, `Awake` and `InHand`
rule out the drop.

For the merge queue, `NothingLost` follows from the types: the type of `base` says
that a proof refers to a head that exists, and `Current` makes that head the last
one, so what lands contains it (`MainGrows`). `MergedIsOnMain` and
`MarkedIsMerged` are not inductive: between the land and the rows there are two
more places, and a retry enters at the second of them. `Agreement` adds them: what landed is
on main (`LandedOnMain`), the specs of a completed group are merged
(`ReceiptsMerged`), rows are marked after their specs (`MarkingMerged`).
`SpecMoves`, `StepMoves` and `RowMoves` say once how a spec becomes merged,
a coordinator comes to mark, and a row is marked; `NextAgreed` combines them.

A land adds what its batch has, by a move of main or because main is found there: the
head it finds contains its batch (`AdvancedIsThere`), and main is longer than its base.

`SettledForGood` needs that only a claimed row has a heartbeat (`Counted`), for
the statements that clear it would otherwise write a settled row; `RowTouched`
classifies every step by what it does to one row: nothing, renew, move out of a
claim, acquire. `OneHolder` needs that no remembered epoch is ahead of its row and that
no two coordinators remember the same one (`Owned`); an acquisition counts the
epoch up, so it keeps both, and no other step raises an epoch.
`AncestorsFirst` needs two facts about passes (`Grounded`). A batch that is being proved,
claimed or landed contains what its members depend on, unless that is merged or
cancelled (`Founded`), and neither is undone (`ClosedStays`). And what a pass leaves out when
it forms the batch again has left the queue, so that no batch is formable that counts on
it, or is merged or cancelled (`Aside`). `PassMoves` says once how a step moves
the batch of a pass and what it leaves out. `Lands` combines all of it: what a
land adds is founded (`Grounded`) and of entries that are in the queue or were (`Entered`), what a
receipt records is on main, and what is marked is merged (`Agreement`); the place
of an entry changes only with its row's status (`SetRow`), so every other step is a
stutter, also the recovery of a stale claim and the late steps of its holder.

For the walker, `StackComplete` needs two facts more (`StackInv`): specs merge after
their dependencies (`MergedClosed`), and what the walk read as merged is merged
(`LifeHolds`), for nothing leaves that status. The computed stack stops at merged
ancestors, and below those everything has merged; so the stack and the merged
specs together are closed under `DependsOn`, and contain all ancestors, which are the
least such set (`StackCovers`). `CeilingHolds` rests on `Foreseen`: between the
snapshot and the plan, what the walker has in flight was in flight in the snapshot;
after the plan, what it has in flight and what it is about to start together stay
below the ceiling. Only an enqueue of the walk adds to what it has in flight (`WalkedStep`).
`NoWorkOnCancelled` needs that no open spec has a cancelled dependency either
(`Cleared`): a cancel parks what is open, whether a walk has chosen it or not.
`KeepsTheBoard` puts them together at the moment of a start, which is
later than everything the walk read: there is a place left, since what is in flight and
what is still to be started fit together (`Foreseen`); what has not merged by now had
not merged then, so the stack has it (`StackInv`); and it has nothing but ancestors, for
the walk follows `DependsOn`, and `Ancestors` is closed under it; what the walk chose is
no deeper than the cap (`Chosen`). Starts by hand and merges ask for direct dependencies; everything
below a merged spec has merged (`MergedClosed`).

For the delivery, `VerdictStays` follows from the types: a row is written under the
fence, which asks for a row in progress, or by a claim, which wants none or one in
progress.
`EffectsOnce` needs `Fenced`: tokens are given once and never exceed the row's, an
effect that is about to be fired or was fired has its intent in the row, and only one
worker is about to fire it; a worker about to write an intent is fenced, and finds
none of an earlier owner. `OneLive`
comes from the lock: the promotion that is recorded supersedes what is live then,
not what was live when it was read. `Evidence` is not inductive. `Evident` adds
that claims are counted (`Numbered`), that a release exists only from its claim's
build on (`Unbuilt`), what the states of a release, its prior and its worker have to do
with each other (`PriorWas`, `Own`, `Shown`, `Proven`, `OfLive`), and which verdicts
a drive may end in (`Ended`). A release is live when its worker attests, so the unfenced evidence
is of a live release, or of one that was.

`RollsOut` needs that a verdict fits the releases of its group, also the verdict that an ousted
owner carries. `Orderly` says that at most one release of a group gets beyond its
build, because only the one drive that had the preview applies a build
(`OneBeyond`, `Applying`, `OneApplies`); that what a release superseded is past and
remains so (`PriorPast`); and that a rejection tells of a release that is torn down, a rollback of
one that is past (`Failed`, `Rolled`). Hence a promotion is recorded only while its
group is in progress or was left to somebody's attention: the one step that an ousted
owner may make show. That what is rejected is not promoted needs a case for each source of the node
(`Judged`). Where builds are found again, no release gets beyond its build at all (`ByRun`).
Where they are not, the preview is had by one drive, which alone may
come to promote or reject (`ByConnection`).

For the sandboxes, `SandboxesKnown` is inductive with the types: filing the row takes
a container from the hands of a call into the row, marking takes it back, and
the removal of the container leaves the call as the one that knows the volumes.
`SandboxKept` needs the history of a job: its first claim is the only one after
which it is healthy, and no step makes it healthy again. Before that claim the
run is untouched (no row, no container, no call); while it is healthy there is one
worker, its call is the only one of the run (`Exclusive`), each stage of the call has
exactly what was built so far (`Building`), and neither the sweeper nor a late
call of an earlier execution knows the run. `InCustody` holds without assumptions: the step
of a call touches the sandbox of its own run only (`ServeOthers`), where it is one of
the hand's operations or leaves everything in place (`ServeSelf`); a container has its volumes
(`Mounted`) and is known, or its run was struck (`SandboxesKnown`); and a death of the service
is one accident for all the runs whose calls it ends (`DeathMapped`). That a container
nobody heard of is a new one needs that numbers are not ahead of `made` (`Numbered`).

The proofs hold without the bounds: `MaxClaims`, `MaxLands`, `MaxFaults` and
`MaxTurns` are any naturals.

Only model-checked: everything under fairness (`EveryJobSettles`, `DrainEnds`,
`SpecLeavesFlight`, `QueuedRunEnds`, `EveryClaimEnds`, `NothingLeftWaiting`, `DeliveryEnds`,
`SandboxEnds`), since liveness and ENABLED are beyond the prover here. Every
invariant and action property of the passing runs is a theorem.

## 7. Exploration: which property survives what

One spec, two runs, two slots; what else than the calm instance is switched on,
and which of the safety properties of `RunLifecycle` then fail.

| On | Fails |
|---|---|
| cancel | `NeverStranded`, `PausedHoldsSpec`, `SpecFollowsTable`, `CancelledSpecStays` |
| requeue | `OneRunPerSpec`, `OpenIsFree`, `NeverStranded`: parking a queued entry while its run is still concluding, then a requeue |
| replan | `OpenIsFree`, `PausedHoldsSpec`, `SpecFollowsTable`, `MergedStays`: replanning from an old halted run while a later one lives |
| archive | `NeverStranded` |
| crash at an ending | all but `EndedRunFrozen`, `CancelledSpecStays` |
| db | all but `OneRunPerSpec`, `EndedRunFrozen`, `CancelledSpecStays` |
| stall | all but `EndedRunFrozen`, `CancelledSpecStays` |

`EndedRunFrozen` survives everything, and is the one that is proved without assumptions. The common cause of the rest
is that `specs.status` has several writers whose UPDATE names no expected status.

## 8. Not modelled

- Base shift and ancestor percolation (`dag/baseShift*`, `dag/percolation*`): planned.
- The decision functions: convergence and wandering detectors, re-drive policy,
  batch bisection, the safe subset. The models let every verdict happen.
- The drive of one run through the merge queue and what else section 2 lists there.
- Static, manual and cloud allocators: other back ends, of which one is deployed
  at a time; section 5 has what reading them showed.
- Behaviour verification and the deployment of single runs.
- Adapters (`providers/`, `forge/`, `integrations/`, `ssh/`), content (`design/`,
  `templates/`, `governance/`), accounting, events, routes, auth, CLI, dashboard,
  runner scripts: input and output, or rows that decide none of the statuses
  modelled. They are by far the largest part of the repository by lines.

## 9. Plan

1. `BaseShift`: re-execution of dependants, percolation markers, and how they
   meet the walks of `Walker`.
2. The merge queue, continued: the drive of one run (`driveClaimedMerge`, conflict
   culprit, base conflict, innocent prefix), infra holds, grant parking.
3. Composition of `RunLifecycle` and `MergeQueue` over one spec: `Land`,
   `ParkQueued` and the successor of a rework become the queue's own actions.
   `Relay`, `Board` and `Mainline` each keep a status of the specs: the composition
   would show that it is the same one.
4. Pure algorithms against reference definitions: batch bisection, minimal
   failing subset, convergence and wandering detectors, disposition table.
5. The pool of fixed hosts; the delivery of single runs.
6. Proofs: `RunLifecycle` as an implementation of `Dispatch` by way of `JobTable`,
   as `JobQueue` is one; the refinements under the fairness of the abstract
   specifications stay with TLC.
