---------------------------- MODULE RunnerLease ----------------------------
(***************************************************************************)
(* Sandboxes of runs: the allocator service creates a container and its    *)
(* volumes for a run, files it in runners, and removes both on release     *)
(* (services/allocator); a worker asks for one before it works on a run    *)
(* and gives it back at the end (engine/workflow/plannerRun.ts).  A        *)
(* sweeper releases what nobody gave back.                                 *)
(*                                                                         *)
(* Every request is served by a call of its own, in steps that interleave  *)
(* with those of the other calls: the run names the row, the container and *)
(* the volumes, and it is all that a call knows of its caller.  Sandboxes  *)
(* without a run (the merge gate's) are left out.                          *)
(***************************************************************************)
EXTENDS JobTable

CONSTANTS Workers,
          Requests,   \* calls the service may have open at a time
          Sweep,      \* the call of the sweeper
          NoRun, Nobody,
          Operations, \* what operators do in this instance
          Faults,     \* the kinds of fault that may occur
          MaxFaults   \* bound on the faults

Runs  == Jobs   \* a run has one plan job
Calls == Requests \cup {Sweep}

ASSUME NoRunAssumption == NoRun \notin Runs
ASSUME CallsAssumption == Requests \subseteq Nat /\ Sweep \notin Requests /\ Nobody \notin Workers
ASSUME FaultsAssumption ==
  /\ Faults \subseteq {"crash", "stall", "http", "db", "boot", "docker", "down"}
  /\ Operations \subseteq {"cancel", "archive"}
  /\ MaxFaults \in Nat

VARIABLES
  run,      \* the status of each run
  row,      \* runners: is it live, which container, is it older than the grace
  box,      \* the container that has the name of the run, 0 if there is none
  made,     \* how many containers there have been of that name
  disk,     \* are there volumes of that name
  worker,   \* what each worker is doing
  call,     \* what each call of the service is doing
  stuck,    \* what the sweeper read and has not released yet
  struck,   \* the runs hit by what the code has no remedy for
  faults    \* how many faults there have been

sandbox == <<row, box, made, disk>>
vars    == <<job, run, row, box, made, disk, worker, call, stuck, struck, faults>>

RunStatuses == {"absent", "open", "paused", "halted", "over"}
Terminal    == {"halted", "over"}

WorkerSteps == {"idle", "claimed", "allocating", "allocated", "working", "leaving",
                "releasing", "mirroring", "done", "raw", "finalizing"}
Allocating  == {"looking", "wiring", "creating", "starting", "inserting",
                "recording", "undoing", "clearing"}
Releasing   == {"marking", "stopping", "wiping"}

TypeOK ==
  /\ job \in [Jobs -> Row]
  /\ run \in [Runs -> RunStatuses]
  /\ row \in [Runs -> [live: BOOLEAN, box: Nat, aged: BOOLEAN]]
  /\ box \in [Runs -> Nat]
  /\ made \in [Runs -> Nat]
  /\ disk \in [Runs -> BOOLEAN]
  /\ worker \in [Workers -> [at: WorkerSteps, run: Runs \cup {NoRun}]]
  /\ call \in [Calls -> [at: Allocating \cup Releasing \cup {"free"},
                         run: Runs \cup {NoRun}, by: Workers \cup {Nobody}, box: Nat]]
  /\ stuck \subseteq Runs
  /\ struck \subseteq Runs
  /\ faults \in 0..MaxFaults
  /\ \A w \in Workers : worker[w].at = "idle" <=> worker[w].run = NoRun
  /\ \A c \in Calls : call[c].at = "free" <=> call[c].run = NoRun

Idle == [at |-> "idle", run |-> NoRun]
Free == [at |-> "free", run |-> NoRun, by |-> Nobody, box |-> 0]

Init ==
  /\ JobsInit
  /\ run = [r \in Runs |-> "absent"]
  /\ row = [r \in Runs |-> [live |-> FALSE, box |-> 0, aged |-> FALSE]]
  /\ box = [r \in Runs |-> 0]
  /\ made = [r \in Runs |-> 0]
  /\ disk = [r \in Runs |-> FALSE]
  /\ worker = [w \in Workers |-> Idle]
  /\ call = [c \in Calls |-> Free]
  /\ stuck = {}
  /\ struck = {}
  /\ faults = 0

-----------------------------------------------------------------------------
At(w, step)   == worker[w].at = step
Of(w)         == worker[w].run
GoTo(w, step) == worker' = [worker EXCEPT ![w].at = step]
Leave(w)      == worker' = [worker EXCEPT ![w] = Idle]

Fault(kind) == kind \in Faults /\ faults < MaxFaults /\ faults' = faults + 1

Serves(c, step) == call[c].at = step
For(c)          == call[c].run
Proceed(c, step) == call' = [call EXCEPT ![c].at = step]

\* The caller of a call that ends goes on; a caller that is gone does not.
Answered(c, step) ==
  worker' = [w \in Workers |-> IF w = call[c].by THEN [worker[w] EXCEPT !.at = step]
                               ELSE worker[w]]
Answer(c, step) == call' = [call EXCEPT ![c] = Free] /\ Answered(c, step)

\* The sweeper gives up its list when a release throws.
Unless(c) == stuck' = IF c = Sweep THEN {} ELSE stuck

-----------------------------------------------------------------------------
(* Runs, jobs and operators *)

Enqueue(r) ==
  /\ Insert(r)
  /\ run' = [run EXCEPT ![r] = "open"]
  /\ UNCHANGED <<sandbox, worker, call, stuck, struck, faults>>

LeaseLapses(r) ==
  /\ \A w \in Workers : Of(w) # r
  /\ Lapse(r)
  /\ UNCHANGED <<run, sandbox, worker, call, stuck, struck, faults>>

Reap ==
  /\ ReapExpired
  /\ UNCHANGED <<run, sandbox, worker, call, stuck, struck, faults>>

\* The prober halts a paused run and reopens its spec.
ResumePaused(r) ==
  /\ run[r] = "paused"
  /\ run' = [run EXCEPT ![r] = "halted"]
  /\ UNCHANGED <<job, sandbox, worker, call, stuck, struck, faults>>

Archive ==
  /\ "archive" \in Operations
  /\ \E r \in Jobs : run[r] = "open"
  /\ run' = [r \in Runs |-> IF run[r] = "open" THEN "over" ELSE run[r]]
  /\ UNCHANGED <<job, sandbox, worker, call, stuck, struck, faults>>

Reaped(r) == IF job[r].status \in {"queued", "running"} THEN CancelRow(r) ELSE UNCHANGED job

\* cancelActiveRun releases the row of the sandbox, and nothing but the row:
\* release and sweep pass by a row that is released.
CancelRun(r) ==
  /\ "cancel" \in Operations
  /\ run[r] \in {"open", "halted"}
  /\ run' = [run EXCEPT ![r] = "over"]
  /\ Reaped(r)
  /\ row' = [row EXCEPT ![r].live = FALSE]
  /\ struck' = IF row[r].live THEN struck \cup {r} ELSE struck
  /\ UNCHANGED <<box, made, disk, worker, call, stuck, faults>>

-----------------------------------------------------------------------------
(* A worker *)

Claim(w, r) ==
  /\ At(w, "idle")
  /\ Oldest(r)
  /\ Lease(r)
  /\ worker' = [worker EXCEPT ![w] = [at |-> "claimed", run |-> r]]
  /\ UNCHANGED <<run, sandbox, call, stuck, struck, faults>>

\* A call is opened for the request; calls are alike, so the least free one.
Opened(c, r, w, step) ==
  /\ call[c].at = "free"
  /\ \A d \in Requests : d < c => call[d].at # "free"
  /\ call' = [call EXCEPT ![c] = [at |-> step, run |-> r, by |-> w, box |-> 0]]

RequestSandbox(w, c) ==
  /\ At(w, "claimed")
  /\ Opened(c, Of(w), w, "looking")
  /\ GoTo(w, "allocating")
  /\ UNCHANGED <<job, run, sandbox, stuck, struck, faults>>

\* runner.allocated is appended before the try that releases.
RecordAllocated(w) ==
  /\ At(w, "allocated")
  /\ \/ GoTo(w, "working") /\ UNCHANGED faults
     \/ Fault("db") /\ GoTo(w, "raw")
  /\ UNCHANGED <<job, run, sandbox, call, stuck, struck>>

\* The workflow ends the run, in whatever way, and then runs its finally.
Finish(w) ==
  /\ At(w, "working")
  /\ \E status \in {"paused", "halted", "over"} :
       run' = IF run[Of(w)] \in {"open", "paused"} THEN [run EXCEPT ![Of(w)] = status] ELSE run
  /\ GoTo(w, "leaving")
  /\ UNCHANGED <<job, sandbox, call, stuck, struck, faults>>

RequestRelease(w, c) ==
  /\ At(w, "leaving")
  /\ Opened(c, Of(w), w, "marking")
  /\ GoTo(w, "releasing")
  /\ UNCHANGED <<job, run, sandbox, stuck, struck, faults>>

\* runner.released cannot be appended: the release is never asked for.
RecordReleaseFails(w) ==
  /\ At(w, "leaving")
  /\ Fault("db")
  /\ GoTo(w, "raw")
  /\ UNCHANGED <<job, run, sandbox, call, stuck, struck>>

\* PgRunnerStore.release names the runner and asks for nothing else: it also
\* releases a row that was claimed again since.
Mirror(w) ==
  /\ At(w, "mirroring")
  /\ row' = [row EXCEPT ![Of(w)].live = FALSE]
  /\ struck' = IF row[Of(w)].live THEN struck \cup {Of(w)} ELSE struck
  /\ GoTo(w, "done")
  /\ UNCHANGED <<job, run, box, made, disk, call, stuck, faults>>

Complete(w) ==
  /\ At(w, "done")
  /\ Settle(Of(w), "done")
  /\ Leave(w)
  /\ UNCHANGED <<run, sandbox, call, stuck, struck, faults>>

FailJob(w) ==
  /\ At(w, "raw")
  /\ Settle(Of(w), "failed")
  /\ GoTo(w, "finalizing")
  /\ UNCHANGED <<run, sandbox, call, stuck, struck, faults>>

FinalizeRun(w) ==
  /\ At(w, "finalizing")
  /\ run' = IF run[Of(w)] = "open" THEN [run EXCEPT ![Of(w)] = "halted"] ELSE run
  /\ Leave(w)
  /\ UNCHANGED <<job, sandbox, call, stuck, struck, faults>>

Abandon(w) == call' = [c \in Calls |-> IF call[c].by = w THEN [call[c] EXCEPT !.by = Nobody]
                                       ELSE call[c]]

\* The calls of a worker that dies go on.
Crash(w) ==
  /\ ~At(w, "idle")
  /\ Fault("crash")
  /\ Abandon(w)
  /\ Leave(w)
  /\ UNCHANGED <<job, run, sandbox, stuck, struck>>

\* The workflow makes no progress that the heartbeat sees, and goes on later.
Stall(w) ==
  /\ ~At(w, "idle")
  /\ Fault("stall")
  /\ Lapse(Of(w))
  /\ UNCHANGED <<run, sandbox, worker, call, stuck, struck>>

\* The answer to a request is lost and the caller sees an exception.
LoseAnswer(w) ==
  /\ Fault("http")
  /\ \/ At(w, "allocating") /\ GoTo(w, "raw")
     \/ At(w, "releasing") /\ GoTo(w, "done")
  /\ Abandon(w)
  /\ UNCHANGED <<job, run, sandbox, stuck, struck>>

-----------------------------------------------------------------------------
(* The service: RunnerLifecycle.allocate *)

Look(c) ==
  /\ Serves(c, "looking")
  /\ IF row[For(c)].live THEN Answer(c, "allocated")
     ELSE Proceed(c, "wiring") /\ UNCHANGED worker
  /\ UNCHANGED <<job, run, sandbox, stuck, struck, faults>>

CreateVolumes(c) ==
  /\ Serves(c, "wiring")
  /\ disk' = [disk EXCEPT ![For(c)] = TRUE]
  /\ Proceed(c, "creating")
  /\ UNCHANGED <<job, run, row, box, made, worker, stuck, struck, faults>>

\* Docker creates the volumes that the container misses.
Create(r) ==
  /\ made' = [made EXCEPT ![r] = made[r] + 1]
  /\ box' = [box EXCEPT ![r] = made[r] + 1]
  /\ disk' = [disk EXCEPT ![r] = TRUE]

\* Docker refuses a name that is taken.
CreateContainer(c) ==
  /\ Serves(c, "creating")
  /\ IF box[For(c)] # 0 THEN Proceed(c, "clearing") /\ UNCHANGED <<box, made, disk>>
     ELSE /\ Create(For(c))
          /\ call' = [call EXCEPT ![c].at = "starting", ![c].box = made[For(c)] + 1]
  /\ UNCHANGED <<job, run, row, worker, stuck, struck, faults>>

Start(c) ==
  /\ Serves(c, "starting")
  /\ Proceed(c, "inserting")
  /\ UNCHANGED <<job, run, sandbox, worker, stuck, struck, faults>>

\* Mutant: a container that does not come up is forgotten.
BootFailsQuietly(c) ==
  /\ Serves(c, "starting")
  /\ Fault("boot")
  /\ Answer(c, "raw")
  /\ UNCHANGED <<job, run, sandbox, stuck, struck>>

BootFails(c) ==
  /\ Serves(c, "starting")
  /\ Fault("boot")
  /\ Proceed(c, "undoing")
  /\ UNCHANGED <<job, run, sandbox, worker, stuck, struck>>

InsertRow(c) ==
  /\ Serves(c, "inserting")
  /\ IF row[For(c)].live THEN Proceed(c, "undoing") /\ UNCHANGED row
     ELSE /\ row' = [row EXCEPT ![For(c)] = [live |-> TRUE, box |-> call[c].box, aged |-> FALSE]]
          /\ Proceed(c, "recording")
  /\ UNCHANGED <<job, run, box, made, disk, worker, stuck, struck, faults>>

Record(c) ==
  /\ Serves(c, "recording")
  /\ Answer(c, "allocated")
  /\ UNCHANGED <<job, run, sandbox, stuck, struck, faults>>

\* The row, or the audit event after it, cannot be written.
WriteFails(c) ==
  /\ Serves(c, "inserting") \/ Serves(c, "recording")
  /\ Fault("db")
  /\ Proceed(c, "undoing")
  /\ UNCHANGED <<job, run, sandbox, worker, stuck, struck>>

Remove(c) == box' = IF box[For(c)] = call[c].box THEN [box EXCEPT ![For(c)] = 0] ELSE box

Undo(c) ==
  /\ Serves(c, "undoing")
  /\ Remove(c)
  /\ Proceed(c, "clearing")
  /\ UNCHANGED <<job, run, row, made, disk, worker, stuck, struck, faults>>

\* Volumes that a container uses are not removed; the refusal is swallowed.
Clear(c) ==
  /\ Serves(c, "clearing")
  /\ disk' = IF box[For(c)] = 0 THEN [disk EXCEPT ![For(c)] = FALSE] ELSE disk
  /\ Answer(c, "raw")
  /\ UNCHANGED <<job, run, row, box, made, stuck, struck, faults>>

-----------------------------------------------------------------------------
(* The service: RunnerLifecycle.release *)

\* markReleased: the row is the claim to the teardown.
Mark(c) ==
  /\ Serves(c, "marking")
  /\ IF row[For(c)].live
     THEN /\ row' = [row EXCEPT ![For(c)].live = FALSE]
          /\ call' = [call EXCEPT ![c].at = "stopping", ![c].box = row[For(c)].box]
          /\ UNCHANGED worker
     ELSE Answer(c, "done") /\ UNCHANGED row
  /\ UNCHANGED <<job, run, box, made, disk, stuck, struck, faults>>

Stop(c) ==
  /\ Serves(c, "stopping")
  /\ Remove(c)
  /\ Proceed(c, "wiping")
  /\ UNCHANGED <<job, run, row, made, disk, worker, stuck, struck, faults>>

Wipe(c) ==
  /\ Serves(c, "wiping")
  /\ IF box[For(c)] = 0
     THEN disk' = [disk EXCEPT ![For(c)] = FALSE] /\ Answer(c, "mirroring") /\ UNCHANGED stuck
     ELSE UNCHANGED disk /\ Answer(c, "done") /\ Unless(c)
  /\ UNCHANGED <<job, run, row, box, made, struck, faults>>

-----------------------------------------------------------------------------
(* The service: faults of Docker and its own *)

\* Docker fails: what was created before the error is only undone inside the
\* try, and a teardown that fails is not tried again.
DockerFails(c) ==
  /\ Fault("docker")
  /\ \/ /\ Serves(c, "wiring")
        /\ Answer(c, "raw")
        /\ \/ UNCHANGED <<disk, struck>>
           \/ disk' = [disk EXCEPT ![For(c)] = TRUE] /\ struck' = struck \cup {For(c)}
        /\ UNCHANGED stuck
     \/ /\ Serves(c, "creating")
        /\ Proceed(c, "clearing")
        /\ UNCHANGED <<disk, worker, stuck, struck>>
     \/ /\ Serves(c, "undoing")
        /\ Proceed(c, "clearing")
        /\ struck' = struck \cup {For(c)}
        /\ UNCHANGED <<disk, worker, stuck>>
     \/ /\ Serves(c, "clearing")
        /\ Answer(c, "raw")
        /\ struck' = struck \cup {For(c)}
        /\ UNCHANGED <<disk, stuck>>
     \/ /\ Serves(c, "stopping") \/ Serves(c, "wiping")
        /\ Answer(c, "done")
        /\ Unless(c)
        /\ struck' = struck \cup {For(c)}
        /\ UNCHANGED disk
  /\ UNCHANGED <<job, run, row, box, made>>

\* Docker did what it was asked and the answer is lost: the call goes on as
\* after a failure, and never learns the id of a container that it created.
DockerUnheard(c) ==
  /\ Fault("docker")
  /\ \/ /\ Serves(c, "creating") /\ box[For(c)] = 0
        /\ Create(For(c))
        /\ Proceed(c, "clearing")
        /\ struck' = struck \cup {For(c)}
        /\ UNCHANGED <<worker, stuck>>
     \/ /\ Serves(c, "stopping")
        /\ Remove(c)
        /\ Answer(c, "done")
        /\ Unless(c)
        /\ struck' = struck \cup {For(c)}
        /\ UNCHANGED <<made, disk>>
     \/ /\ Serves(c, "wiping") /\ box[For(c)] = 0
        /\ disk' = [disk EXCEPT ![For(c)] = FALSE]
        /\ Answer(c, "done")
        /\ Unless(c)
        /\ UNCHANGED <<box, made, struck>>
  /\ UNCHANGED <<job, run, row>>

\* The service dies with all its calls, and is started again: no call is
\* resumed, and what they had created or marked is found by nobody.
Halfway(c) == call[c].at \in (Allocating \cup Releasing) \ {"looking", "wiring", "recording", "marking"}

ServiceDies ==
  /\ \E c \in Calls : ~Serves(c, "free")
  /\ Fault("down")
  /\ struck' = struck \cup {For(c) : c \in {d \in Calls : Halfway(d)}}
  /\ call' = [c \in Calls |-> Free]
  /\ stuck' = {}
  /\ worker' = [w \in Workers |-> IF At(w, "allocating") THEN [worker[w] EXCEPT !.at = "raw"]
                                  ELSE IF At(w, "releasing") THEN [worker[w] EXCEPT !.at = "done"]
                                  ELSE worker[w]]
  /\ UNCHANGED <<job, run, sandbox>>

-----------------------------------------------------------------------------
(* The sweeper *)

Age(r) ==
  /\ row[r].live /\ ~row[r].aged
  /\ row' = [row EXCEPT ![r].aged = TRUE]
  /\ UNCHANGED <<job, run, box, made, disk, worker, call, stuck, struck, faults>>

LiveJob(r) == \/ job[r].status = "queued"
              \/ job[r].status = "running" /\ job[r].lease = "live"

\* Mutants: the lease is not looked at; only the runs are.
StuckUnleased(r) == /\ row[r].live
                    /\ run[r] \in Terminal \/ (row[r].aged /\ job[r].status # "queued")
StuckTerminal(r) == row[r].live /\ run[r] \in Terminal

Stuck(r) == /\ row[r].live
            /\ run[r] \in Terminal \/ (row[r].aged /\ ~LiveJob(r))

List ==
  /\ Serves(Sweep, "free") /\ stuck = {}
  /\ \E r \in Runs : Stuck(r)
  /\ stuck' = {r \in Runs : Stuck(r)}
  /\ UNCHANGED <<job, run, sandbox, worker, call, struck, faults>>

Take(r) ==
  /\ Serves(Sweep, "free") /\ r \in stuck
  /\ stuck' = stuck \ {r}
  /\ call' = [call EXCEPT ![Sweep] = [at |-> "marking", run |-> r, by |-> Nobody, box |-> 0]]
  /\ UNCHANGED <<job, run, sandbox, worker, struck, faults>>

-----------------------------------------------------------------------------
Work(w) == \/ \E c \in Requests : RequestSandbox(w, c) \/ RequestRelease(w, c)
           \/ RecordAllocated(w) \/ Finish(w) \/ Mirror(w) \/ Complete(w)
           \/ FailJob(w) \/ FinalizeRun(w)
Serve(c) == \/ Look(c) \/ CreateVolumes(c) \/ CreateContainer(c) \/ Start(c)
            \/ InsertRow(c) \/ Record(c) \/ Undo(c) \/ Clear(c)
            \/ Mark(c) \/ Stop(c) \/ Wipe(c)
Sweeping == List \/ \E r \in Runs : Take(r)

Next ==
  \/ \E r \in Jobs : Enqueue(r) \/ LeaseLapses(r) \/ ResumePaused(r) \/ CancelRun(r)
  \/ Reap \/ Archive
  \/ \E w \in Workers : \/ Work(w) \/ RecordReleaseFails(w)
                        \/ Crash(w) \/ Stall(w) \/ LoseAnswer(w)
                        \/ \E r \in Jobs : Claim(w, r)
  \/ \E c \in Calls : \/ Serve(c) \/ BootFails(c) \/ WriteFails(c)
                      \/ DockerFails(c) \/ DockerUnheard(c)
  \/ ServiceDies
  \/ \E r \in Runs : Age(r)
  \/ Sweeping

\* Workers, calls, the reaper and the sweeper's interval go on; time passes.
Fairness ==
  /\ \A w \in Workers : WF_vars(Work(w))
  /\ \A c \in Calls : WF_vars(Serve(c))
  /\ WF_vars(\E w \in Workers, r \in Jobs : Claim(w, r))
  /\ \A r \in Jobs : WF_vars(LeaseLapses(r))
  /\ \A r \in Runs : WF_vars(Age(r))
  /\ WF_vars(Reap) /\ WF_vars(Sweeping)

Spec == Init /\ [][Next]_vars /\ Fairness

-----------------------------------------------------------------------------
\* What the service created is known: a container to its live row or to a call
\* that is about to file or remove it, volumes to their container or to a call
\* that is about to create it or to remove them.  Else no release and no sweep
\* would find it.  The exceptions are the runs in struck.
Filed(r)     == row[r].live /\ row[r].box = box[r]
InHand(c, r) == /\ For(c) = r /\ call[c].box = box[r]
                /\ call[c].at \in {"starting", "inserting", "undoing", "stopping"}
SandboxesKnown ==
  \A r \in Runs \ struck :
    /\ box[r] # 0 => Filed(r) \/ \E c \in Calls : InHand(c, r)
    /\ disk[r] => \/ box[r] # 0
                  \/ \E c \in Calls : /\ For(c) = r
                                      /\ call[c].at \in {"creating", "clearing", "wiping"}

\* While a worker is at work on the first claim of a job whose run has not
\* ended and whose lease never lapsed, it has the sandbox it asked for: no
\* sweep, no other call and no late release takes it away.
AtWork(w) == At(w, "allocated") \/ At(w, "working")
Healthy(r) == /\ run[r] \in {"open", "paused"}
              /\ job[r] = [status |-> "running", lease |-> "live", attempts |-> 1]
SandboxKept == \A w \in Workers : AtWork(w) /\ Healthy(Of(w)) => Filed(Of(w)) /\ box[Of(w)] # 0

\* What exists of a sandbox is removed in the end, whoever crashed.
SandboxEnds == \A r \in Runs :
  (box[r] # 0 \/ disk[r]) ~> (r \in struck \/ (box[r] = 0 /\ ~disk[r]))

\* Counterexamples only.  Nobody who is at work on a run that has not ended
\* loses the sandbox, whichever claim it is; no sandbox stays, whatever happened.
SandboxInUse == \A w \in Workers : AtWork(w) /\ run[Of(w)] \notin Terminal => box[Of(w)] # 0
NoSandboxLeaks == \A r \in Runs : box[r] # 0 ~> box[r] = 0
=============================================================================
