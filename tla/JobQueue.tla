------------------------------ MODULE JobQueue ------------------------------
(***************************************************************************)
(* The durable job queue (engine/contracts/jobQueue.ts, PgJobQueue) with   *)
(* the processes that drain it: the claim loop of every worker slot        *)
(* (engine/worker/runWorker.ts), the lease renewed while a job executes    *)
(* (engine/worker/runHeartbeat.ts) and the reaper that requeues the rows   *)
(* whose lease lapsed (engine/worker/jobReaper.ts).                        *)
(*                                                                         *)
(* One SQL statement, or one transaction, is one action.  What the job     *)
(* does to its run and its spec is the subject of RunLifecycle.            *)
(***************************************************************************)
EXTENDS JobTable

CONSTANTS Slots,      \* worker slots, over all worker processes
          ProcessOf,  \* the worker process a slot belongs to
          NoJob,      \* a slot that holds no job
          Faults,     \* the kinds of fault that may occur
          MaxFaults   \* bound on the number of faults in a behaviour

FaultKinds == {"crash", "drain", "stall", "miss", "db"}

ASSUME NoJobAssumption  == NoJob \notin Jobs
ASSUME SlotsAssumption  == ProcessOf = [s \in Slots |-> ProcessOf[s]]
ASSUME FaultsAssumption == Faults \subseteq FaultKinds /\ MaxFaults \in Nat

VARIABLES
  slot,      \* where each slot is in its loop, and the job it holds
  draining,  \* the processes whose stop() was called
  faults     \* how many faults have happened

vars == <<job, slot, draining, faults>>

Phases   == {"checking",   \* at the head of the runSlot loop
             "polling",    \* about to claim
             "parked",     \* waiting for a pulse or the backstop interval
             "executing",  \* runs the workflow of its job
             "finalizing", \* has failed the job, is recovering its run
             "stopped",    \* left the loop: the process drains
             "down"}       \* the process crashed

Processes == {ProcessOf[s] : s \in Slots}

TypeOK ==
  /\ job \in [Jobs -> Row]
  /\ slot \in [Slots -> [phase: Phases, job: Jobs \cup {NoJob},
                         gen: Nat, beating: BOOLEAN]]
  /\ draining \subseteq Processes
  /\ faults \in Nat

-----------------------------------------------------------------------------
Idle(phase) == [phase |-> phase, job |-> NoJob, gen |-> 0, beating |-> FALSE]

Executing(s) == slot[s].phase = "executing"
Holding(s)   == slot[s].phase \in {"executing", "finalizing"}

\* The slot holds the claim the row's attempt counter was last bumped for.
Current(s) == Holding(s) /\ slot[s].gen = job[slot[s].job].attempts

Fault(kind) == /\ kind \in Faults
               /\ faults < MaxFaults
               /\ faults' = faults + 1

Init ==
  /\ JobsInit
  /\ slot = [s \in Slots |-> Idle("checking")]
  /\ draining = {}
  /\ faults = 0

-----------------------------------------------------------------------------
(* Producers *)

Enqueue(j) == Insert(j) /\ UNCHANGED <<slot, draining, faults>>

Cancel(j) == CancelRow(j) /\ UNCHANGED <<slot, draining, faults>>

(* The loop of a worker slot *)

\* Mutant: the slot does not look at the flag.
CheckNothing(s) ==
  /\ slot[s].phase = "checking"
  /\ slot' = [slot EXCEPT ![s] = Idle("polling")]
  /\ UNCHANGED <<job, draining, faults>>

\* The head of the loop: stop() only raises a flag, which is read here.
Check(s) ==
  /\ slot[s].phase = "checking"
  /\ slot' = [slot EXCEPT ![s] =
                Idle(IF ProcessOf[s] \in draining THEN "stopped" ELSE "polling")]
  /\ UNCHANGED <<job, draining, faults>>

\* Mutant: the heartbeat is not started.
ClaimSilently(s, j) ==
  /\ slot[s].phase = "polling"
  /\ Oldest(j)
  /\ Lease(j)
  /\ slot' = [slot EXCEPT ![s] = [phase |-> "executing", job |-> j,
                                  gen |-> job[j].attempts + 1, beating |-> FALSE]]
  /\ UNCHANGED <<draining, faults>>

Claim(s, j) ==
  /\ slot[s].phase = "polling"
  /\ Oldest(j)
  /\ Lease(j)
  /\ slot' = [slot EXCEPT ![s] = [phase |-> "executing", job |-> j,
                                  gen |-> job[j].attempts + 1, beating |-> TRUE]]
  /\ UNCHANGED <<draining, faults>>

FindNothing(s) ==
  /\ slot[s].phase = "polling"
  /\ \A j \in Jobs : job[j].status # "queued"
  /\ slot' = [slot EXCEPT ![s] = Idle("parked")]
  /\ UNCHANGED <<job, draining, faults>>

\* claim() throws; its COMMIT may or may not have reached the database.
ClaimThrows(s) ==
  /\ slot[s].phase = "polling"
  /\ Fault("db")
  /\ \/ UNCHANGED job
     \/ \E j \in Jobs : Oldest(j) /\ Lease(j)
  /\ slot' = [slot EXCEPT ![s] = Idle("parked")]
  /\ UNCHANGED draining

\* A NOTIFY, the backstop interval or stop() ends idleWait.
Unpark(s) ==
  /\ slot[s].phase = "parked"
  /\ slot' = [slot EXCEPT ![s] = Idle("checking")]
  /\ UNCHANGED <<job, draining, faults>>

Supersede(s) ==
  /\ Executing(s)
  /\ CancelQueuedRow(slot[s].job)
  /\ UNCHANGED <<slot, draining, faults>>

Complete(s) ==
  /\ Executing(s)
  /\ Settle(slot[s].job, "done")
  /\ slot' = [slot EXCEPT ![s] = Idle("checking")]
  /\ UNCHANGED <<draining, faults>>

\* Mutant: a job that failed is put back into the queue.
FailRetries(s) ==
  /\ Executing(s)
  /\ Settle(slot[s].job, "queued")
  /\ slot' = [slot EXCEPT ![s].phase = "finalizing"]
  /\ UNCHANGED <<draining, faults>>

\* The catch of executeNextPlanJob fails the job first ...
Fail(s) ==
  /\ Executing(s)
  /\ Settle(slot[s].job, "failed")
  /\ slot' = [slot EXCEPT ![s].phase = "finalizing"]
  /\ UNCHANGED <<draining, faults>>

\* ... and recovers the run afterwards.
Finish(s) ==
  /\ slot[s].phase = "finalizing"
  /\ slot' = [slot EXCEPT ![s] = Idle("checking")]
  /\ UNCHANGED <<job, draining, faults>>

\* fail() itself throws: the row stays running and runSlot backs off.
FailThrows(s) ==
  /\ Executing(s)
  /\ Fault("db")
  /\ slot' = [slot EXCEPT ![s] = Idle("parked")]
  /\ UNCHANGED <<job, draining>>

-----------------------------------------------------------------------------
(* Leases *)

Heartbeat(s) ==
  /\ Holding(s) /\ slot[s].beating
  /\ Renew(slot[s].job)
  /\ UNCHANGED <<slot, draining, faults>>

Beaten(j) == \E s \in Slots : Holding(s) /\ slot[s].job = j /\ slot[s].beating

\* A beat comes every quarter of the lease: a lease that is beaten lapses only
\* when the beats miss the database.
LeaseLapses(j) == ~Beaten(j) /\ Lapse(j) /\ UNCHANGED <<slot, draining, faults>>

BeatsMissed(j) == Beaten(j) /\ Fault("miss") /\ Lapse(j) /\ UNCHANGED <<slot, draining>>

\* No progress for a whole lease: the heartbeat loop ends for good, while the
\* workflow it was started for hangs, or wakes up later.
Stall(s) ==
  /\ Executing(s) /\ slot[s].beating
  /\ Fault("stall")
  /\ slot' = [slot EXCEPT ![s].beating = FALSE]
  /\ UNCHANGED <<job, draining>>

Reap == ReapExpired /\ UNCHANGED <<slot, draining, faults>>

-----------------------------------------------------------------------------
(* Worker processes *)

Stop(p) ==
  /\ p \notin draining
  /\ Fault("drain")
  /\ draining' = draining \cup {p}
  /\ UNCHANGED <<job, slot>>

Crash(p) ==
  /\ \E s \in Slots : ProcessOf[s] = p /\ slot[s].phase \notin {"down", "stopped"}
  /\ Fault("crash")
  /\ slot' = [s \in Slots |-> IF ProcessOf[s] = p THEN Idle("down") ELSE slot[s]]
  /\ UNCHANGED <<job, draining>>

\* Every slot has left its loop, or the process is gone: a new one starts.
Start(p) ==
  /\ \A s \in Slots : ProcessOf[s] = p => slot[s].phase \in {"down", "stopped"}
  /\ slot' = [s \in Slots |-> IF ProcessOf[s] = p THEN Idle("checking") ELSE slot[s]]
  /\ draining' = draining \ {p}
  /\ UNCHANGED <<job, faults>>

-----------------------------------------------------------------------------
Loop(s) == \/ Check(s) \/ FindNothing(s) \/ ClaimThrows(s) \/ Unpark(s)
           \/ Supersede(s) \/ Complete(s) \/ Fail(s) \/ Finish(s) \/ FailThrows(s)
           \/ Heartbeat(s) \/ Stall(s)
           \/ \E j \in Jobs : Claim(s, j)

Next ==
  \/ \E j \in Jobs : Enqueue(j) \/ Cancel(j) \/ LeaseLapses(j) \/ BeatsMissed(j)
  \/ \E s \in Slots : Loop(s)
  \/ Reap
  \/ \E p \in Processes : Stop(p) \/ Crash(p) \/ Start(p)

\* A workflow that still shows progress ends; a wedged one need not.
Work(s) == slot[s].beating /\ (Complete(s) \/ Fail(s) \/ Finish(s))

Fairness ==
  /\ WF_vars(Reap)
  /\ \A j \in Jobs : WF_vars(LeaseLapses(j))
  /\ \A s \in Slots : /\ WF_vars(Check(s) \/ Unpark(s) \/ FindNothing(s))
                      /\ WF_vars(\E j \in Jobs : Claim(s, j))
                      /\ WF_vars(Work(s))
  /\ \A p \in Processes : WF_vars(Start(p))

Spec == Init /\ [][Next]_vars /\ Fairness

-----------------------------------------------------------------------------
(* Properties *)

\* Two slots never hold the same claim of a job: the attempt counter that a
\* claim bumps names its holder, whatever crashed, stalled or was reaped.
ClaimHasOneHolder ==
  \A s, t \in Slots :
    /\ Holding(s) => slot[s].gen \in 1..job[slot[s].job].attempts
    /\ (Holding(s) /\ Holding(t) /\ slot[s].job = slot[t].job /\ slot[s].gen = slot[t].gen)
         => s = t

\* "A job is handed to exactly one worker": no two slots execute one job.
ExclusiveExecution ==
  \A s, t \in Slots :
    (Executing(s) /\ Executing(t) /\ slot[s].job = slot[t].job) => s = t

\* The row of a job that is executed is out of reach of every claim and of the
\* reaper: it was claimed and its lease holds, or it was settled meanwhile.
ExecutingIsLeased ==
  \A s \in Slots : Executing(s) => /\ job[slot[s].job].status \notin {"absent", "queued"}
                                  /\ job[slot[s].job].lease # "lapsed"

\* A cancelled row is never claimable again, neither by a late answer of the
\* worker that held it nor through the reaper: the cancel is durable.
CancelIsDurable ==
  [][\A j \in Jobs : job[j].status = "cancelled"
                       => job'[j].status \notin {"queued", "running"}]_vars

\* Every row that is enqueued is settled, across crashes, deployments, lost
\* answers and hung workers.
EveryJobSettles ==
  \A j \in Jobs : job[j].status = "queued" ~>
                    job[j].status \in {"done", "failed", "cancelled"}

\* stop() lets the work in hand end and then the slots of the process leave
\* their loops: a deployment is never held up by an idle or a busy slot.
DrainEnds ==
  \A p \in Processes : p \in draining ~>
    (\A s \in Slots : ProcessOf[s] = p => slot[s].phase \in {"stopped", "down"})
=============================================================================
