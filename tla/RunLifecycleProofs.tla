------------------------- MODULE RunLifecycleProofs -------------------------
(***************************************************************************)
(* Theorems about RunLifecycle for every set of runs, specs and slots,     *)
(* every DAG and every bound: whatever faults and operator actions an      *)
(* instance allows, type correctness and that a run that ended is left     *)
(* alone; where workers crash only at work, one run per spec, and what     *)
(* follows from it up to specs that are never stranded, and that the runs  *)
(* pass specs on as Relay says.                                            *)
(***************************************************************************)
EXTENDS RunLifecycleRelay, JobTableProofs

\* A run and its plan job are inserted by one transaction: neither is there
\* without the other.  It is what keeps Walk from overwriting a run.
JobWithRun == \A r \in Runs : job[r].status = "absent" <=> run[r].status = "absent"

\* A slot holds a run that was inserted.
HeldIsThere == \A s \in Slots : RunOf(s) \in Runs => run[RunOf(s)].status # "absent"

Typed == TypeOK /\ JobWithRun /\ HeldIsThere

ExecRecord == [at: Steps, run: Runs \cup {NoRun}, caught: BOOLEAN, beating: BOOLEAN]

\* The initial state is well typed.
LEMMA InitTyped == Init => Typed
BY AbsentAssumption
   DEF Init, JobsInit, Typed, TypeOK, JobWithRun, HeldIsThere, RunOf, Free, Runs, Row, Statuses, Leases, Steps,
       SpecStatuses, RunStatuses, QueueStatuses

-----------------------------------------------------------------------------
(* What a step does to job_queue *)

\* Nothing, one write of an existing row, the insertion of the row of a new run
\* or the UPDATE of the reaper.
LEMMA TableStep ==
  ASSUME Typed, [Next]_vars
  PROVE  \/ UNCHANGED job \/ ReapExpired
         \/ \E j \in Jobs : job[j].status # "absent" /\ Update(j)
         \/ \E p \in Specs, r \in Runs : Walk(p, r)
<1> USE DEF Runs
<1> DEFINE Updated == \E j \in Jobs : job[j].status # "absent" /\ Update(j)
<1>1. ASSUME NEW s \in Slots, ~At(s, {"idle"})
      PROVE  RunOf(s) \in Jobs /\ job[RunOf(s)].status # "absent"
  BY <1>1 DEF Typed, TypeOK, JobWithRun, HeldIsThere, At, RunOf
<1>2. ASSUME NEW s \in Slots, Start(s)
      PROVE  UNCHANGED job \/ Updated
  BY <1>1, <1>2 DEF Start, MarkRunning, Supersede, Allocate, RawThrow, At, Update
<1>3. ASSUME NEW s \in Slots, Rework(s) \/ Conclude(s) \/ DbThrows(s) \/ Crash(s) \/ Stall(s)
      PROVE  UNCHANGED job
  BY <1>3 DEF Rework, Conclude, Throw, RedriveRun, HaltRun, Pause, ReadyToMerge,
              MergeDirectly, DbThrows, Crash, Stall
<1>4. ASSUME NEW s \in Slots, Finalize(s)
      PROVE  UNCHANGED job \/ Updated
  BY <1>1, <1>4 DEF Finalize, ReopenSpec, ParkSpec, CompleteRun, CompleteJob, FailWrapped,
                    FailRaw, FinalizeRun, ReadSlot, RecoverSpec, At, Update
<1>5. ASSUME NEW p \in Specs, CancelSpec(p)
      PROVE  UNCHANGED job \/ Updated
  <2>1. ASSUME NEW q \in Cancellable(p), CancelRow(q)
        PROVE  q \in Jobs /\ job[q].status # "absent" /\ Update(q)
    BY <2>1 DEF CancelRow, Cancellable, Attempts, Update
  <2>2. QED
    BY <1>5, <2>1 DEF CancelSpec, CancelRun
<1>6. ASSUME NEW r \in Runs, Background(r) \/ Replan(r)
      PROVE  UNCHANGED job \/ (job[r].status # "absent" /\ Update(r))
  BY <1>6 DEF Background, LeaseLapses, Lapse, ResumePaused, Land, ParkQueued, Replan, Update
<1>7. ASSUME NEW s \in Slots, NEW r \in Runs, Claim(s, r)
      PROVE  job[r].status # "absent" /\ Update(r)
  BY <1>7 DEF Claim, Oldest, Update
<1>8. QED
  BY <1>2, <1>3, <1>4, <1>5, <1>6, <1>7
     DEF Next, vars, RequeueAttention, Reap, Archive

-----------------------------------------------------------------------------
(* What a step does to runs *)

Endable == {"queued", "running", "paused", "halted", "failed"}

\* The row of a run is untouched, or its status is written over one that may
\* still change.
RunWritten(r) ==
  \/ run'[r] = run[r]
  \/ /\ run[r].status \in Endable
     /\ run'[r].spec = run[r].spec
     /\ run'[r].status \in RunStatuses \ {"absent"}

RunRecord == [spec: Specs \cup {NoSpec}, status: RunStatuses]

\* The guarded UPDATE that every finalizer uses.
LEMMA SetRunWrites ==
  ASSUME run \in [Runs -> RunRecord], NEW q \in Runs,
         NEW from \in SUBSET Endable, NEW to \in RunStatuses \ {"absent"}, SetRun(q, from, to)
  PROVE  /\ run' \in [Runs -> RunRecord]
         /\ \A r \in Runs : RunWritten(r)
<1>1. [run EXCEPT ![q].status = to] \in [Runs -> RunRecord]
  BY DEF RunRecord
<1>2. QED
  BY <1>1 DEF SetRun, RunWritten, RunRecord

\* Every step but the insertion of a run writes the runs in that way.
LEMMA RunStep ==
  ASSUME Typed, [Next]_vars, ~\E p \in Specs, r \in Runs : Walk(p, r)
  PROVE  /\ run' \in [Runs -> RunRecord]
         /\ \A r \in Runs : RunWritten(r)
<1>t. run \in [Runs -> RunRecord]
  BY DEF Typed, TypeOK, RunRecord
<1>u. ASSUME UNCHANGED run
      PROVE  run' \in [Runs -> RunRecord] /\ \A r \in Runs : RunWritten(r)
  BY <1>t, <1>u DEF RunWritten
<1>1. ASSUME NEW s \in Slots, ~At(s, {"idle"})
      PROVE  RunOf(s) \in Runs
  BY <1>1 DEF Typed, TypeOK, At, RunOf
<1>2. ASSUME NEW s \in Slots,
             \/ MarkRunning(s) \/ RedriveRun(s) \/ HaltRun(s) \/ Pause(s)
             \/ CompleteRun(s) \/ FinalizeRun(s)
      PROVE  run' \in [Runs -> RunRecord] /\ \A r \in Runs : RunWritten(r)
  <2>1. PICK from \in {{"queued", "running"}, Unfinalized},
             to \in {"running", "halted", "failed", "paused", "completed"} :
          SetRun(RunOf(s), from, to)
    BY <1>2 DEF MarkRunning, RedriveRun, HaltRun, Pause, CompleteRun, FinalizeRun
  <2>2. RunOf(s) \in Runs
    BY <1>1, <1>2 DEF MarkRunning, RedriveRun, HaltRun, Pause, CompleteRun, FinalizeRun, At
  <2>3. from \in SUBSET Endable /\ to \in RunStatuses \ {"absent"}
    BY DEF Endable, Unfinalized, RunStatuses
  <2>4. QED
    BY <2>1, <2>2, <2>3, <1>t, SetRunWrites
<1>3. ASSUME NEW r \in Runs, ResumePaused(r)
      PROVE  run' \in [Runs -> RunRecord] /\ \A q \in Runs : RunWritten(q)
  <2>1. SetRun(r, {"paused"}, "halted")
    BY <1>3 DEF ResumePaused
  <2>2. {"paused"} \in SUBSET Endable /\ "halted" \in RunStatuses \ {"absent"}
    BY DEF Endable, RunStatuses
  <2>3. QED
    BY <2>1, <2>2, <1>t, SetRunWrites
<1>4. ASSUME NEW p \in Specs, CancelSpec(p)
      PROVE  run' \in [Runs -> RunRecord] /\ \A r \in Runs : RunWritten(r)
  <2>1. CASE UNCHANGED run
    BY <2>1, <1>u
  <2>2. ASSUME NEW q \in Cancellable(p), CancelRun(q)
        PROVE  run' \in [Runs -> RunRecord] /\ \A r \in Runs : RunWritten(r)
    <3>1. q \in Runs /\ run[q].status \in Endable
      BY DEF Cancellable, Attempts, Endable
    <3>2. run' = [run EXCEPT ![q].status = "cancelled"]
      BY <2>2 DEF CancelRun
    <3>3. run' \in [Runs -> RunRecord]
      BY <3>2, <1>t DEF RunRecord, RunStatuses
    <3>4. QED
      BY <3>1, <3>2, <3>3, <1>t DEF RunWritten, RunRecord, RunStatuses
  <2>3. QED
    BY <1>4, <2>1, <2>2 DEF CancelSpec
<1>5. ASSUME Archive
      PROVE  run' \in [Runs -> RunRecord] /\ \A r \in Runs : RunWritten(r)
  <2>1. \A r \in Runs : [run[r] EXCEPT !.status = "cancelled"] =
                           [spec |-> run[r].spec, status |-> "cancelled"]
    BY <1>t DEF RunRecord
  <2>2. run' = [r \in Runs |-> IF Live(r) THEN [spec |-> run[r].spec, status |-> "cancelled"]
                               ELSE run[r]]
    BY <1>5, <2>1 DEF Archive
  <2>3. QED
    BY <2>2, <1>t DEF RunWritten, RunRecord, RunStatuses, Live, Endable
<1>6. ASSUME NEW s \in Slots,
             \/ Supersede(s) \/ Allocate(s) \/ RawThrow(s) \/ Rework(s) \/ Throw(s)
             \/ ReadyToMerge(s) \/ MergeDirectly(s) \/ ReopenSpec(s) \/ ParkSpec(s)
             \/ CompleteJob(s) \/ FailWrapped(s) \/ FailRaw(s) \/ ReadSlot(s) \/ RecoverSpec(s)
             \/ DbThrows(s) \/ Crash(s) \/ Stall(s) \/ \E r \in Runs : Claim(s, r)
      PROVE  UNCHANGED run
  BY <1>6 DEF Supersede, Allocate, RawThrow, Rework, Throw, ReadyToMerge, MergeDirectly,
              ReopenSpec, ParkSpec, CompleteJob, FailWrapped, FailRaw, ReadSlot, RecoverSpec,
              DbThrows, Crash, Stall, Claim
<1>7. ASSUME NEW r \in Runs, LeaseLapses(r) \/ Land(r) \/ ParkQueued(r) \/ Replan(r)
      PROVE  UNCHANGED run
  BY <1>7 DEF LeaseLapses, Land, ParkQueued, Replan
<1>8. ASSUME (\E p \in Specs : RequeueAttention(p)) \/ Reap \/ UNCHANGED vars
      PROVE  UNCHANGED run
  BY <1>8 DEF RequeueAttention, Reap, vars
<1>9. QED
  BY <1>u, <1>2, <1>3, <1>4, <1>5, <1>6, <1>7, <1>8
     DEF Next, Start, Conclude, Finalize, Background

-----------------------------------------------------------------------------
(* What a step does to a slot *)

Held(e) == e \in ExecRecord /\ (e.at = "idle" <=> e.run = NoRun)

\* The run a slot holds is its own, none, or the one it claims.
SlotWritten(s) ==
  /\ Held(exec'[s])
  /\ \/ exec'[s].run \in {exec[s].run, NoRun}
     \/ \E r \in Runs : Claim(s, r) /\ exec'[s].run = r

\* A slot that moves on keeps its run, one that leaves drops it.
LEMMA SlotMoves ==
  ASSUME exec \in [Slots -> ExecRecord], \A t \in Slots : Held(exec[t]), NEW s \in Slots,
         \/ Leave(s)
         \/ ~At(s, {"idle"}) /\ \E step \in Steps \ {"idle"} : GoTo(s, step)
  PROVE  exec' \in [Slots -> ExecRecord] /\ \A t \in Slots : SlotWritten(t)
<1>1. Held(Free)
  BY DEF Held, Free, ExecRecord, Steps
<1>2. CASE Leave(s)
  <2>1. exec' \in [Slots -> ExecRecord] /\ \A t \in Slots : exec'[t] \in {exec[t], Free}
    BY <1>1, <1>2 DEF Leave, Held
  <2>2. \A t \in Slots : Held(exec'[t]) /\ exec'[t].run \in {exec[t].run, NoRun}
    BY <1>1, <2>1 DEF Held, Free
  <2>3. QED
    BY <2>1, <2>2 DEF SlotWritten
<1>3. ASSUME NEW step \in Steps \ {"idle"}, ~At(s, {"idle"}), GoTo(s, step)
      PROVE  exec' \in [Slots -> ExecRecord] /\ \A t \in Slots : SlotWritten(t)
  <2>1. exec' \in [Slots -> ExecRecord]
    BY <1>3 DEF GoTo, ExecRecord
  <2>2. exec'[s].run = exec[s].run /\ exec'[s].at = step
    BY <1>3 DEF GoTo, ExecRecord
  <2>3. \A t \in Slots \ {s} : exec'[t] = exec[t]
    BY <1>3 DEF GoTo
  <2>4. exec[s].run # NoRun
    BY <1>3 DEF Held, At
  <2>5. QED
    BY <2>1, <2>2, <2>3, <2>4 DEF SlotWritten, Held
<1>4. QED
  BY <1>2, <1>3

\* Every step moves the slots in that way.
LEMMA SlotStep ==
  ASSUME Typed, [Next]_vars
  PROVE  exec' \in [Slots -> ExecRecord] /\ \A s \in Slots : SlotWritten(s)
<1> DEFINE Goal == exec' \in [Slots -> ExecRecord] /\ \A s \in Slots : SlotWritten(s)
<1>t. exec \in [Slots -> ExecRecord] /\ \A s \in Slots : Held(exec[s])
  BY DEF Typed, TypeOK, ExecRecord, Held
<1>u. ASSUME UNCHANGED exec
      PROVE  Goal
  BY <1>t, <1>u DEF SlotWritten
<1>1. ASSUME NEW s \in Slots,
             \/ MarkRunning(s) \/ Supersede(s) \/ Allocate(s) \/ RawThrow(s)
             \/ RedriveRun(s) \/ HaltRun(s) \/ Pause(s) \/ ReadyToMerge(s) \/ MergeDirectly(s)
             \/ ReopenSpec(s) \/ ParkSpec(s) \/ CompleteRun(s) \/ FailRaw(s)
      PROVE  Goal
  <2>1. ~At(s, {"idle"})
    BY <1>1 DEF At, MarkRunning, Supersede, Allocate, RawThrow, RedriveRun, HaltRun, Pause,
                ReadyToMerge, MergeDirectly, ReopenSpec, ParkSpec, CompleteRun, FailRaw
  <2>2. \E step \in Steps \ {"idle"} : GoTo(s, step)
    BY <1>1 DEF MarkRunning, Supersede, Allocate, RawThrow, RedriveRun, HaltRun, Pause,
                ReadyToMerge, MergeDirectly, ReopenSpec, ParkSpec, CompleteRun, FailRaw, Steps
  <2>3. QED
    BY <2>1, <2>2, <1>t, SlotMoves
<1>2. ASSUME NEW s \in Slots, FinalizeRun(s) \/ ReadSlot(s)
      PROVE  Goal
  <2>1. ~At(s, {"idle"})
    BY <1>2 DEF At, FinalizeRun, ReadSlot
  <2>2. Leave(s) \/ \E step \in Steps \ {"idle"} : GoTo(s, step)
    BY <1>2 DEF FinalizeRun, ReadSlot, Steps
  <2>3. QED
    BY <2>1, <2>2, <1>t, SlotMoves
<1>3. ASSUME NEW s \in Slots, CompleteJob(s) \/ FailWrapped(s) \/ RecoverSpec(s) \/ Crash(s)
      PROVE  Goal
  <2>1. Leave(s)
    BY <1>3 DEF CompleteJob, FailWrapped, RecoverSpec, Crash
  <2>2. QED
    BY <2>1, <1>t, SlotMoves
<1>4. ASSUME NEW s \in Slots, Throw(s)
      PROVE  Goal
  <2>1. exec' = [exec EXCEPT ![s].at = "disposing", ![s].caught = TRUE] /\ exec[s].at = "working"
    BY <1>4 DEF Throw, At
  <2>2. exec' \in [Slots -> ExecRecord]
    BY <2>1, <1>t DEF ExecRecord, Steps
  <2>3. QED
    BY <2>1, <2>2, <1>t DEF SlotWritten, Held, ExecRecord
<1>5. ASSUME NEW s \in Slots, Stall(s)
      PROVE  Goal
  <2>1. exec' = [exec EXCEPT ![s].beating = FALSE]
    BY <1>5 DEF Stall
  <2>2. exec' \in [Slots -> ExecRecord]
    BY <2>1, <1>t DEF ExecRecord
  <2>3. QED
    BY <2>1, <2>2, <1>t DEF SlotWritten, Held, ExecRecord
<1>6. ASSUME NEW s \in Slots, NEW r \in Runs, Claim(s, r)
      PROVE  Goal
  <2> DEFINE e == [at |-> "claimed", run |-> r, caught |-> FALSE, beating |-> TRUE]
  <2>1. exec' = [exec EXCEPT ![s] = e]
    BY <1>6 DEF Claim
  <2>2. Held(e)
    BY AbsentAssumption DEF Held, ExecRecord, Steps
  <2>3. exec' \in [Slots -> ExecRecord] /\ exec'[s] = e
    BY <2>1, <2>2, <1>t DEF Held
  <2>4. SlotWritten(s)
    BY <2>2, <2>3, <1>6 DEF SlotWritten
  <2>5. QED
    BY <2>1, <2>3, <2>4, <1>t DEF SlotWritten
<1>7. ASSUME NEW s \in Slots, DbThrows(s)
      PROVE  Goal
  <2>1. PICK step \in Thrown(s) :
          exec' = [exec EXCEPT ![s] =
                     IF step = "idle" THEN Free
                     ELSE [at |-> step, run |-> @.run, beating |-> @.beating,
                           caught |-> @.caught \/ step = "disposing"]]
    BY <1>7 DEF DbThrows
  <2>2. step \in Steps
    BY DEF Thrown, Steps
  <2>3. ~At(s, {"idle"})
    BY DEF Thrown, At
  <2>4. CASE step = "idle"
    BY <2>1, <2>4, <1>t, SlotMoves DEF Leave
  <2>5. CASE step # "idle"
    <3> DEFINE e == [at |-> step, run |-> exec[s].run, beating |-> exec[s].beating,
                   caught |-> exec[s].caught \/ step = "disposing"]
    <3>1. e \in ExecRecord /\ e.at = step /\ e.run = exec[s].run
      BY <2>2, <1>t DEF ExecRecord
    <3>2. exec' = [exec EXCEPT ![s] = e]
      BY <2>1, <2>5
    <3>3. exec[s].run # NoRun
      BY <2>3, <1>t DEF Held, At
    <3>4. QED
      BY <3>1, <3>2, <3>3, <2>5, <1>t DEF SlotWritten, Held
  <2>6. QED
    BY <2>4, <2>5
<1>8. ASSUME NEW s \in Slots, Rework(s)
      PROVE  UNCHANGED exec
  BY <1>8 DEF Rework
<1>9. ASSUME NEW p \in Specs, CancelSpec(p) \/ RequeueAttention(p) \/ \E r \in Runs : Walk(p, r)
      PROVE  UNCHANGED exec
  BY <1>9 DEF CancelSpec, RequeueAttention, Walk
<1>10. ASSUME NEW r \in Runs, Background(r) \/ Replan(r)
      PROVE  UNCHANGED exec
  BY <1>10 DEF Background, LeaseLapses, ResumePaused, Land, ParkQueued, Replan
<1>11. ASSUME Reap \/ Archive \/ UNCHANGED vars
      PROVE  UNCHANGED exec
  BY <1>11 DEF Reap, Archive, vars
<1>12. QED
  BY <1>u, <1>1, <1>2, <1>3, <1>4, <1>5, <1>6, <1>7, <1>8, <1>9, <1>10, <1>11
     DEF Next, Start, Conclude, Finalize

-----------------------------------------------------------------------------
(* What a step does to specs, merge_queue and the fault counter *)

\* The UPDATE of specs, guarded or not, writes a status of the table.
LEMMA SetSpecTyped ==
  ASSUME spec \in [Specs -> SpecStatuses], NEW p, NEW except,
         NEW to \in SpecStatuses, SetSpec(p, except, to)
  PROVE  spec' \in [Specs -> SpecStatuses]
BY DEF SetSpec

\* Every step keeps their types.
LEMMA RestTyped ==
  ASSUME Typed, [Next]_vars
  PROVE  spec' \in [Specs -> SpecStatuses] /\ queue' \in [Runs -> QueueStatuses] /\ faults' \in Nat
<1> DEFINE SpecTyped == spec' \in [Specs -> SpecStatuses]
<1> DEFINE QueueTyped == queue' \in [Runs -> QueueStatuses]
<1> DEFINE FaultsTyped == faults' \in Nat
<1> USE DEF Typed, TypeOK
<1>1. ASSUME NEW s \in Slots, Start(s) \/ (\E r \in Runs : Claim(s, r))
      PROVE  SpecTyped /\ QueueTyped /\ FaultsTyped
  BY <1>1 DEF Start, MarkRunning, Supersede, Allocate, RawThrow, Claim
<1>2. ASSUME NEW s \in Slots, DbThrows(s) \/ Crash(s) \/ Stall(s)
      PROVE  SpecTyped /\ QueueTyped /\ FaultsTyped
  BY <1>2 DEF DbThrows, Crash, Stall, Fault
<1>3. ASSUME NEW s \in Slots, Rework(s) \/ MergeDirectly(s) \/ ReopenSpec(s) \/ ParkSpec(s) \/ RecoverSpec(s)
      PROVE  SpecTyped /\ QueueTyped /\ FaultsTyped
  <2>1. \E except \in SUBSET SpecStatuses, to \in SpecStatuses : SetSpec(SpecOf(s), except, to)
    BY <1>3 DEF Rework, MergeDirectly, ReopenSpec, ParkSpec, RecoverSpec, SpecStatuses
  <2>2. SpecTyped
    BY <2>1, SetSpecTyped
  <2>3. QED
    BY <1>3, <2>2 DEF Rework, MergeDirectly, ReopenSpec, ParkSpec, RecoverSpec
<1>4. ASSUME NEW s \in Slots,
             \/ Throw(s) \/ RedriveRun(s) \/ HaltRun(s) \/ Pause(s) \/ CompleteRun(s)
             \/ CompleteJob(s) \/ FailWrapped(s) \/ FailRaw(s) \/ FinalizeRun(s) \/ ReadSlot(s)
      PROVE  SpecTyped /\ QueueTyped /\ FaultsTyped
  BY <1>4 DEF Throw, RedriveRun, HaltRun, Pause, CompleteRun, CompleteJob, FailWrapped,
              FailRaw, FinalizeRun, ReadSlot
<1>5. ASSUME NEW s \in Slots, ReadyToMerge(s)
      PROVE  SpecTyped /\ QueueTyped /\ FaultsTyped
  BY <1>5 DEF ReadyToMerge, QueueStatuses
<1>6. ASSUME NEW r \in Runs, Land(r) \/ ParkQueued(r) \/ ResumePaused(r) \/ Replan(r)
      PROVE  SpecTyped /\ QueueTyped /\ FaultsTyped
  <2>1. \E except \in SUBSET SpecStatuses, to \in SpecStatuses : SetSpec(run[r].spec, except, to)
    BY <1>6 DEF Land, ParkQueued, ResumePaused, Replan, SpecStatuses
  <2>2. SpecTyped
    BY <2>1, SetSpecTyped
  <2>3. QED
    BY <1>6, <2>2 DEF Land, ParkQueued, ResumePaused, Replan, QueueStatuses
<1>7. ASSUME NEW p \in Specs, CancelSpec(p) \/ RequeueAttention(p) \/ \E r \in Runs : Walk(p, r)
      PROVE  SpecTyped /\ QueueTyped /\ FaultsTyped
  BY <1>7 DEF CancelSpec, RequeueAttention, Walk, SpecStatuses
<1>8. ASSUME Reap \/ Archive \/ UNCHANGED vars \/ \E r \in Runs : LeaseLapses(r)
      PROVE  SpecTyped /\ QueueTyped /\ FaultsTyped
  BY <1>8 DEF Reap, Archive, vars, LeaseLapses
<1>9. QED
  BY <1>1, <1>2, <1>3, <1>4, <1>5, <1>6, <1>7, <1>8
     DEF Next, Conclude, Finalize, Background

-----------------------------------------------------------------------------
(* The invariant *)

\* The insertion of a run: the row of the run and of its job were absent.
LEMMA WalkTyped ==
  ASSUME Typed, NEW p \in Specs, NEW r \in Runs, Walk(p, r)
  PROVE  /\ job' \in [Jobs -> Row]
         /\ run' \in [Runs -> RunRecord]
         /\ run[r].status = "absent" /\ run'[r] = [spec |-> p, status |-> "queued"]
         /\ \A q \in Runs \ {r} : run'[q] = run[q]
         /\ JobWithRun'
<1>1. run \in [Runs -> RunRecord] /\ job \in [Jobs -> Row]
  BY DEF Typed, TypeOK, RunRecord
<1>2. job' \in [Jobs -> Row]
  BY <1>1, WriteTyped DEF Walk, Write, Runs
<1>3. /\ job[r].status = "absent" /\ job'[r].status = "queued"
      /\ \A q \in Runs \ {r} : job'[q] = job[q]
  BY <1>1, InsertAdds DEF Walk, Runs
<1>4. /\ run' \in [Runs -> RunRecord] /\ run'[r] = [spec |-> p, status |-> "queued"]
      /\ \A q \in Runs \ {r} : run'[q] = run[q]
  BY <1>1 DEF Walk, RunRecord, RunStatuses
<1>5. QED
  BY <1>2, <1>3, <1>4 DEF Typed, JobWithRun

\* Every step keeps the invariant.
LEMMA NextTyped == Typed /\ [Next]_vars => Typed'
<1> SUFFICES ASSUME Typed, [Next]_vars PROVE Typed'
  OBVIOUS
<1>1. /\ spec' \in [Specs -> SpecStatuses] /\ queue' \in [Runs -> QueueStatuses] /\ faults' \in Nat
      /\ exec' \in [Slots -> ExecRecord] /\ \A s \in Slots : SlotWritten(s)
  BY RestTyped, SlotStep
<1>2. /\ job' \in [Jobs -> Row] /\ run' \in [Runs -> RunRecord] /\ JobWithRun'
      /\ \A r \in Runs : run'[r].status = "absent" <=> run'[r].spec = NoSpec
      /\ \A r \in Runs : run[r].status # "absent" => run'[r].status # "absent"
  <2>1. CASE \E p \in Specs, r \in Runs : Walk(p, r)
    <3>1. PICK p \in Specs, r \in Runs : Walk(p, r)
      BY <2>1
    <3>2. /\ job' \in [Jobs -> Row] /\ run' \in [Runs -> RunRecord] /\ JobWithRun'
          /\ run[r].status = "absent" /\ run'[r] = [spec |-> p, status |-> "queued"]
          /\ \A q \in Runs \ {r} : run'[q] = run[q]
      BY <3>1, WalkTyped
    <3>3. /\ run'[r].status # "absent" /\ run'[r].spec # NoSpec
          /\ \A q \in Runs : run[q].status = "absent" <=> run[q].spec = NoSpec
      BY <3>2, AbsentAssumption DEF Typed, TypeOK
    <3>4. QED
      BY <3>2, <3>3
  <2>2. CASE ~\E p \in Specs, r \in Runs : Walk(p, r)
    <3>1. run' \in [Runs -> RunRecord] /\ \A r \in Runs : RunWritten(r)
      BY <2>2, RunStep
    <3>2. \A r \in Runs : /\ run'[r].spec = run[r].spec
                          /\ run'[r].status = "absent" <=> run[r].status = "absent"
      BY <3>1 DEF RunWritten, Endable
    <3>3. UNCHANGED job \/ ReapExpired \/ \E j \in Jobs : job[j].status # "absent" /\ Update(j)
      BY <2>2, TableStep
    <3>4. job \in [Jobs -> Row]
      BY DEF Typed, TypeOK
    <3>5. job' \in [Jobs -> Row]
      BY <3>3, <3>4, WriteTyped, ReapTyped DEF Write
    <3>6. \A j \in Jobs : job'[j].status = "absent" <=> job[j].status = "absent"
      BY <3>3, <3>4, RowsStay
    <3>7. QED
      BY <3>1, <3>2, <3>5, <3>6 DEF Typed, TypeOK, JobWithRun, Runs
  <2>3. QED
    BY <2>1, <2>2
<1>3. HeldIsThere'
  <2>1. ASSUME NEW s \in Slots, RunOf(s)' \in Runs
        PROVE  run'[RunOf(s)'].status # "absent"
    <3>1. CASE exec'[s].run \in {exec[s].run, NoRun}
      BY <3>1, <2>1, <1>2, AbsentAssumption DEF Typed, HeldIsThere, RunOf
    <3>2. ASSUME NEW r \in Runs, Claim(s, r), exec'[s].run = r
          PROVE  run'[r].status # "absent"
      <4>1. job[r].status # "absent"
        BY <3>2 DEF Claim, Oldest
      <4>2. run[r].status # "absent"
        BY <4>1 DEF Typed, JobWithRun
      <4>3. QED
        BY <4>2, <1>2
    <3>3. QED
      BY <3>1, <3>2, <2>1, <1>1 DEF SlotWritten, RunOf
  <2>2. QED
    BY <2>1 DEF HeldIsThere
<1>4. \A s \in Slots : exec'[s].at = "idle" <=> exec'[s].run = NoRun
  BY <1>1 DEF SlotWritten, Held
<1>5. QED
  BY <1>1, <1>2, <1>3, <1>4 DEF Typed, TypeOK, ExecRecord, RunRecord

\* The variables keep their types; a run that is there belongs to a spec, and a
\* slot at work has a run.
THEOREM TypeCorrect == Spec => []TypeOK
<1>1. Typed => TypeOK
  BY DEF Typed
<1>2. QED
  BY <1>1, InitTyped, NextTyped, PTL DEF Spec

\* Whatever crashes, stalls, throws or is operated, in any interleaving: no
\* writer changes a run once it completed or was cancelled.
THEOREM EndedFrozen == Spec => EndedRunFrozen
<1>1. ASSUME Typed, [Next]_vars, NEW r \in Runs, run[r].status \in {"completed", "cancelled"}
      PROVE  run'[r] = run[r]
  <2>1. CASE \E p \in Specs, q \in Runs : Walk(p, q)
    <3>1. PICK p \in Specs, q \in Runs : Walk(p, q)
      BY <2>1
    <3>2. QED
      BY <3>1, <1>1, WalkTyped
  <2>2. CASE ~\E p \in Specs, q \in Runs : Walk(p, q)
    BY <2>2, <1>1, RunStep DEF RunWritten, Endable
  <2>3. QED
    BY <2>1, <2>2
<1>2. Typed /\ [Next]_vars =>
        [\A r \in Runs : run[r].status \in {"completed", "cancelled"} => run'[r] = run[r]]_vars
  BY <1>1
<1>3. QED
  BY <1>2, InitTyped, NextTyped, PTL DEF Spec, EndedRunFrozen

-----------------------------------------------------------------------------
(* One run at a time: where workers crash only at work *)

\* Nothing stalls or throws, a worker crashes only before the first write that
\* ends its run, and operators cancel specs and archive the project.
WorkSteps == {"claimed", "marked", "allocating", "working"}
Gentle == /\ Faults \subseteq {"crash"} /\ CrashPoints \subseteq WorkSteps
          /\ Operations \subseteq {"cancel", "archive"}

\* After the write of the run; after that of the job.
RunEnded  == {"reopening", "parking", "orphaned", "orphanReopen", "orphanPark"}
JobFailed == {"finalizing", "orphaned", "orphanReopen", "orphanPark"}

\* A slot, and the job, the status and the row of merge_queue of the run it holds.
Fine(e, j, u, q) ==
  /\ e.beating
  /\ j.status \notin {"absent", "queued"}
  /\ j.status = "running" => j.lease = "live"
  /\ e.at \in Early => q = "none"
  /\ e.at \in Early \cup {"concluding"} => u # "paused"
  /\ e.at \in RunEnded => u \notin {"queued", "running", "paused"}
  /\ e.at \in JobFailed => j.status # "running"

\* The same of a run that no slot holds: nobody has published or paused what is
\* still to be claimed.
Loose(j, u, q) == j.status \in {"absent", "queued", "running"} => q = "none" /\ u # "paused"

Sound(r) ==
  /\ run[r].status = "paused" => queue[r] # "ready"
  /\ \A s, t \in Slots : exec[s].run = r /\ exec[t].run = r => s = t
  /\ \A s \in Slots : exec[s].run = r => Fine(exec[s], job[r], run[r].status, queue[r])
  /\ (\A s \in Slots : exec[s].run # r) => Loose(job[r], run[r].status, queue[r])

\* Beyond the runs that may still write their spec: those that are not over.
Busy(r) == \/ Waiting(r) \/ Unended(r) \/ queue[r] = "ready"
           \/ \E s \in Slots : exec[s].run = r /\ exec[s].at \in Early \cup {"concluding"}

\* What a step leaves alone when it is about another run.
Beside(r) ==
  /\ job'[r] = job[r] /\ run'[r] = run[r] /\ queue'[r] = queue[r]
  /\ \A s \in Slots : exec[s].run = r \/ exec'[s].run = r => exec'[s] = exec[s]

LEMMA BesideKeeps ==
  ASSUME NEW r \in Runs, Sound(r), Beside(r)
  PROVE  Sound(r)' /\ (Owns(r)' <=> Owns(r)) /\ (Busy(r)' <=> Busy(r))
<1>1. \A s \in Slots : exec'[s].run = r <=> exec[s].run = r
  BY DEF Beside
<1>2. Sound(r)'
  BY <1>1 DEF Sound, Beside
<1>3. Waiting(r)' <=> Waiting(r)
  BY <1>1 DEF Waiting, Beside
<1> QED
  BY <1>1, <1>2, <1>3 DEF Owns, Busy, Unended, Beside

-----------------------------------------------------------------------------
(* What a slot does to its run, and to its run's spec *)

\* The slot s moves with its run r and neither takes up work nor revives it.
Own(s, r) ==
  /\ exec[s].run = r
  /\ \A q \in Runs \ {r} : job'[q] = job[q] /\ run'[q] = run[q] /\ queue'[q] = queue[q]
  /\ \A t \in Slots \ {s} : exec'[t] = exec[t]
  /\ run'[r].status = "paused" => queue'[r] # "ready"
  /\ \/ exec'[s].run = r /\ Fine(exec'[s], job'[r], run'[r].status, queue'[r])
     \/ exec'[s].run = NoRun /\ Loose(job'[r], run'[r].status, queue'[r])
  /\ exec'[s].run = r /\ exec'[s].at \in Early => exec[s].at \in Early
  /\ exec'[s].run = r /\ exec'[s].at = "concluding" => exec[s].at \in Early \cup {"concluding"}
  /\ run'[r].status = "paused" => run[r].status = "paused" \/ exec[s].at \in Early
  /\ run'[r].status \in {"queued", "running", "paused"} => Unended(r)
  /\ queue'[r] = "ready" => queue[r] = "ready" \/ exec[s].at \in Early
  /\ exec'[s].run = NoRun /\ job'[r].status \in {"queued", "running"} => exec[s].at \in Early

\* No step but a walk makes a run busy or gives it a spec to write.
Keeps(r) == Sound(r)' /\ (Owns(r)' => Owns(r)) /\ (Busy(r)' => Busy(r))

LEMMA OwnKeeps ==
  ASSUME NEW s \in Slots, NEW r \in Runs, \A q \in Runs : Sound(q), Own(s, r)
  PROVE  \A q \in Runs : Keeps(q)
<1>r. r # NoRun /\ NoRun \notin Runs
  BY AbsentAssumption
<1>1. ASSUME NEW q \in Runs \ {r}
      PROVE  Keeps(q)
  <2>1. Beside(q)
    BY <1>r DEF Own, Beside
  <2>2. QED
    BY <2>1, BesideKeeps DEF Keeps
<1>2. \A t \in Slots \ {s} : exec'[t].run # r /\ exec[t].run # r
  BY DEF Sound, Own
<1>3. Sound(r)'
  <2>1. CASE exec'[s].run = r
    <3>1. Fine(exec[s], job[r], run[r].status, queue[r])'
      BY <1>r, <2>1 DEF Own
    <3>2. \A t \in Slots : exec'[t].run = r => t = s
      BY <1>2
    <3> QED
      BY <2>1, <3>1, <3>2 DEF Own, Sound
  <2>2. CASE exec'[s].run = NoRun
    <3>1. Loose(job[r], run[r].status, queue[r])'
      BY <1>r, <2>2 DEF Own
    <3>2. \A t \in Slots : exec'[t].run # r
      BY <1>r, <1>2, <2>2
    <3> QED
      BY <3>1, <3>2 DEF Own, Sound
  <2> QED
    BY <2>1, <2>2 DEF Own
<1>4. ASSUME Waiting(r)' PROVE exec[s].at \in Early
  BY <1>4 DEF Waiting, Own
<1>5. Owns(r)' => Owns(r)
  <2>1. CASE run'[r].status = "paused" \/ queue'[r] = "ready"
    BY <2>1 DEF Own, Owns
  <2>2. ASSUME NEW t \in Slots, exec'[t].run = r, exec'[t].at \in Early PROVE Owns(r)
    BY <1>2, <2>2 DEF Own, Owns
  <2>3. CASE Waiting(r)'
    BY <1>4, <2>3 DEF Own, Owns
  <2> QED
    BY <2>1, <2>2, <2>3 DEF Owns
<1>6. Busy(r)' => Busy(r)
  <2>1. CASE Unended(r)' \/ queue'[r] = "ready"
    BY <2>1 DEF Own, Busy, Unended
  <2>2. ASSUME NEW t \in Slots, exec'[t].run = r, exec'[t].at \in Early \cup {"concluding"}
        PROVE  Busy(r)
    BY <1>2, <2>2 DEF Own, Busy
  <2>3. CASE Waiting(r)'
    BY <1>4, <2>3 DEF Own, Busy
  <2> QED
    BY <2>1, <2>2, <2>3 DEF Busy
<1> QED
  BY <1>1, <1>3, <1>5, <1>6 DEF Keeps

\* A run's worker, the prober or the coordinator writes the spec: in flight
\* while the run goes on, and otherwise as the last thing the run may write.
Result(r) ==
  /\ Owns(r)
  /\ \E to \in {"in_flight", "open", "needs_attention", "merged"} :
       /\ spec' = [spec EXCEPT ![run[r].spec] = to]
       /\ Owns(r)' <=> to = "in_flight"
       /\ to = "open" => ~Busy(r)'

\* What GoTo, SetRun and Settle leave.
LEMMA Moved ==
  ASSUME exec \in [Slots -> ExecRecord], NEW s \in Slots, NEW step \in Steps, GoTo(s, step)
  PROVE  /\ exec'[s].at = step /\ exec'[s].run = exec[s].run
         /\ exec'[s].beating = exec[s].beating
         /\ \A t \in Slots \ {s} : exec'[t] = exec[t]
BY DEF GoTo, ExecRecord

LEMMA Left ==
  ASSUME exec \in [Slots -> ExecRecord], NEW s \in Slots, Leave(s)
  PROVE  exec'[s] = Free /\ \A t \in Slots \ {s} : exec'[t] = exec[t]
BY DEF Leave

LEMMA RunSet ==
  ASSUME run \in [Runs -> RunRecord], NEW r \in Runs, NEW from, NEW to, SetRun(r, from, to)
  PROVE  /\ run'[r].status = IF run[r].status \in from THEN to ELSE run[r].status
         /\ \A q \in Runs \ {r} : run'[q] = run[q]
BY DEF SetRun, RunRecord

LEMMA JobSettled ==
  ASSUME job \in [Jobs -> Row], NEW r \in Jobs, NEW to, Settle(r, to)
  PROVE  job'[r].status = to /\ \A q \in Jobs \ {r} : job'[q] = job[q]
BY DEF Settle, Row

\* What a slot at work may rely on.
LEMMA AtRun ==
  ASSUME Typed, \A q \in Runs : Sound(q), NEW s \in Slots, ~At(s, {"idle"})
  PROVE  /\ exec[s].run \in Runs
         /\ Fine(exec[s], job[exec[s].run], run[exec[s].run].status, queue[exec[s].run])
         /\ exec \in [Slots -> ExecRecord] /\ run \in [Runs -> RunRecord] /\ job \in [Jobs -> Row]
         /\ run[exec[s].run].status = "paused" => queue[exec[s].run] # "ready"
<1>1. exec[s].run \in Runs
  BY DEF Typed, TypeOK, At
<1> QED
  BY <1>1 DEF Typed, TypeOK, ExecRecord, RunRecord, Sound

\* Steps that only move the slot on.
LEMMA Moving ==
  ASSUME Typed, \A q \in Runs : Sound(q), NEW s \in Slots,
         \/ Supersede(s) \/ Allocate(s) \/ RawThrow(s) \/ Throw(s) \/ Rework(s)
  PROVE  Own(s, exec[s].run)
<1> DEFINE r == exec[s].run
<1>1. ~At(s, {"idle"})
  BY DEF Supersede, Allocate, RawThrow, Throw, Rework, At
<1>2. /\ r \in Runs /\ Fine(exec[s], job[r], run[r].status, queue[r])
      /\ exec \in [Slots -> ExecRecord]
      /\ run[r].status = "paused" => queue[r] # "ready"
  BY <1>1, AtRun
<1> HIDE DEF r
<1>3. UNCHANGED <<run, queue>>
  BY DEF Supersede, Allocate, RawThrow, Throw, Rework
<1>4. UNCHANGED job
  BY <1>2 DEF Supersede, Allocate, RawThrow, Throw, Rework, CancelQueuedRow, Fine, RunOf, r
<1>5. /\ exec'[s].run = r /\ exec'[s].beating
      /\ exec[s].at \in WorkSteps
      /\ exec'[s].at \in {"raw", "disposing"} \cup WorkSteps
      /\ \A t \in Slots \ {s} : exec'[t] = exec[t]
  <2>1. CASE Supersede(s)
    BY <2>1, <1>2, Moved DEF Supersede, Steps, WorkSteps, At, Fine, r
  <2>2. CASE Allocate(s)
    BY <2>2, <1>2, Moved DEF Allocate, Steps, WorkSteps, At, Fine, r
  <2>3. CASE RawThrow(s)
    BY <2>3, <1>2, Moved DEF RawThrow, Steps, WorkSteps, At, Fine, r
  <2>4. CASE Throw(s)
    BY <2>4, <1>2 DEF Throw, Steps, WorkSteps, At, Fine, ExecRecord, r
  <2>5. CASE Rework(s)
    BY <2>5, <1>2 DEF Rework, Steps, WorkSteps, At, Fine, r
  <2> QED
    BY <2>1, <2>2, <2>3, <2>4, <2>5
<1>6. exec[s].at \in Early /\ exec'[s].at \in Early
  BY <1>5 DEF Early, WorkSteps, Steps
<1>7. Fine(exec'[s], job'[r], run'[r].status, queue'[r])
  BY <1>2, <1>3, <1>4, <1>5, <1>6 DEF Fine, RunEnded, JobFailed, WorkSteps
<1> QED
  BY <1>2, <1>3, <1>4, <1>5, <1>6, <1>7 DEF Own, Unended, r

\* Steps that write the status of the run and move the slot on.
LEMMA RunWriting ==
  ASSUME Typed, \A q \in Runs : Sound(q), NEW s \in Slots,
         \/ MarkRunning(s) \/ RedriveRun(s) \/ HaltRun(s) \/ Pause(s) \/ CompleteRun(s)
         \/ FinalizeRun(s)
  PROVE  Own(s, exec[s].run)
<1> DEFINE r == exec[s].run
<1>1. ~At(s, {"idle"})
  BY DEF MarkRunning, RedriveRun, HaltRun, Pause, CompleteRun, FinalizeRun, At
<1>2. /\ r \in Runs /\ Fine(exec[s], job[r], run[r].status, queue[r])
      /\ exec \in [Slots -> ExecRecord] /\ run \in [Runs -> RunRecord]
      /\ run[r].status = "paused" => queue[r] # "ready"
  BY <1>1, AtRun
<1>r. r = exec[s].run /\ RunOf(s) = r
  BY DEF RunOf
<1> HIDE DEF r
<1>3. UNCHANGED <<job, queue>>
  BY DEF MarkRunning, RedriveRun, HaltRun, Pause, CompleteRun, FinalizeRun
<1> DEFINE Steering(from, to, step) ==
             /\ run'[r].status = IF run[r].status \in from THEN to ELSE run[r].status
             /\ \A q \in Runs \ {r} : run'[q] = run[q]
             /\ exec'[s].at = step /\ exec'[s].run = exec[s].run
             /\ exec'[s].beating = exec[s].beating
             /\ \A t \in Slots \ {s} : exec'[t] = exec[t]
<1>4. ASSUME NEW from, NEW to, NEW step \in Steps, SetRun(RunOf(s), from, to), GoTo(s, step)
      PROVE  Steering(from, to, step)
  BY <1>2, <1>4, <1>r, RunSet, Moved
<1>5. ASSUME NEW from, NEW to, SetRun(RunOf(s), from, to), Leave(s)
      PROVE  /\ run'[r].status = IF run[r].status \in from THEN to ELSE run[r].status
             /\ \A q \in Runs \ {r} : run'[q] = run[q]
             /\ exec'[s] = Free /\ \A t \in Slots \ {s} : exec'[t] = exec[t]
  BY <1>2, <1>5, <1>r, RunSet, Left
<1>6. CASE MarkRunning(s)
  <2>1. Steering({"queued", "running"}, "running", "marked") /\ exec[s].at = "claimed"
    BY <1>4, <1>6 DEF MarkRunning, Steps, At
  <2> QED
    BY <2>1, <1>2, <1>3, <1>r DEF Own, Fine, Unended, Early, RunEnded, JobFailed, Steps
<1>7. CASE RedriveRun(s)
  <2>1. /\ Steering({"queued", "running"}, "halted", "reopening")
        /\ exec[s].at \in {"working", "disposing"}
    BY <1>4, <1>7 DEF RedriveRun, Steps, At
  <2> QED
    BY <2>1, <1>2, <1>3, <1>r DEF Own, Fine, Unended, Early, RunEnded, JobFailed, Steps
<1>8. CASE HaltRun(s)
  <2>1. /\ Steering({"queued", "running"}, "failed", "parking")
        /\ exec[s].at \in {"working", "disposing"}
    BY <1>4, <1>8 DEF HaltRun, Steps, At
  <2> QED
    BY <2>1, <1>2, <1>3, <1>r DEF Own, Fine, Unended, Early, RunEnded, JobFailed, Steps
<1>9. CASE Pause(s)
  <2>1. /\ Steering({"queued", "running"}, "paused", "returned")
        /\ exec[s].at \in {"working", "disposing"}
    BY <1>4, <1>9 DEF Pause, Steps, At
  <2> QED
    BY <2>1, <1>2, <1>3, <1>r DEF Own, Fine, Unended, Early, RunEnded, JobFailed, Steps
<1>10. CASE CompleteRun(s)
  <2>1. Steering({"queued", "running"}, "completed", "returned") /\ exec[s].at = "concluding"
    BY <1>4, <1>10 DEF CompleteRun, Steps, At
  <2>2. r # NoRun
    BY <1>2, AbsentAssumption
  <2> QED
    BY <2>1, <2>2, <1>2, <1>3, <1>r DEF Own, Fine, Unended, Early, RunEnded, JobFailed, Steps
<1>11. CASE FinalizeRun(s)
  <2>1. exec[s].at = "finalizing"
    BY <1>11 DEF FinalizeRun, At
  <2>2. CASE run[r].status \in Unfinalized
    <3>1. Steering(Unfinalized, "halted", "orphaned")
      BY <1>4, <1>11, <1>r, <2>2 DEF FinalizeRun, Steps
    <3> QED
      BY <2>1, <2>2, <3>1, <1>2, <1>3, <1>r
         DEF Own, Fine, Unended, Early, RunEnded, JobFailed, Steps, Unfinalized
  <2>3. CASE run[r].status \notin Unfinalized
    <3>1. /\ run'[r].status = run[r].status
          /\ \A q \in Runs \ {r} : run'[q] = run[q]
          /\ exec'[s] = Free /\ \A t \in Slots \ {s} : exec'[t] = exec[t]
      BY <1>5, <1>11, <1>r, <2>3 DEF FinalizeRun
    <3>2. job[r].status \notin {"absent", "queued", "running"}
      BY <1>2, <2>1 DEF Fine, JobFailed
    <3>3. exec'[s].run = NoRun /\ r # NoRun
      BY <1>2, <3>1, AbsentAssumption DEF Free
    <3> QED
      BY <3>1, <3>2, <3>3, <1>2, <1>3, <1>r DEF Own, Loose, Unended
  <2> QED
    BY <2>2, <2>3
<1> QED
  BY <1>6, <1>7, <1>8, <1>9, <1>10, <1>11

\* Steps that end the job, or drop the run.
LEMMA Leaving ==
  ASSUME Typed, \A q \in Runs : Sound(q), NEW s \in Slots, Gentle,
         \/ CompleteJob(s) \/ FailWrapped(s) \/ FailRaw(s) \/ ReadSlot(s) \/ Crash(s)
  PROVE  Own(s, exec[s].run)
<1> DEFINE r == exec[s].run
<1>1. ~At(s, {"idle"})
  BY DEF CompleteJob, FailWrapped, FailRaw, ReadSlot, Crash, At
<1>2. /\ r \in Runs /\ Fine(exec[s], job[r], run[r].status, queue[r])
      /\ exec \in [Slots -> ExecRecord] /\ job \in [Jobs -> Row]
      /\ run[r].status = "paused" => queue[r] # "ready"
  BY <1>1, AtRun
<1>r. r = exec[s].run /\ RunOf(s) = r /\ r # NoRun
  BY <1>2, AbsentAssumption DEF RunOf
<1> HIDE DEF r
<1>3. UNCHANGED <<run, queue>>
  BY DEF CompleteJob, FailWrapped, FailRaw, ReadSlot, Crash
<1>4. ASSUME NEW to, Settle(RunOf(s), to)
      PROVE  job'[r].status = to /\ \A q \in Runs \ {r} : job'[q] = job[q]
  BY <1>2, <1>4, <1>r, JobSettled DEF Runs
<1>5. ASSUME Leave(s)
      PROVE  exec'[s].run = NoRun /\ \A t \in Slots \ {s} : exec'[t] = exec[t]
  BY <1>2, <1>5, Left DEF Free
<1>6. CASE CompleteJob(s) \/ FailWrapped(s)
  <2>1. /\ job'[r].status \in {"done", "failed"} /\ \A q \in Runs \ {r} : job'[q] = job[q]
        /\ exec'[s].run = NoRun /\ \A t \in Slots \ {s} : exec'[t] = exec[t]
    BY <1>4, <1>5, <1>6 DEF CompleteJob, FailWrapped
  <2> QED
    BY <2>1, <1>2, <1>3, <1>r DEF Own, Loose, Unended
<1>7. CASE FailRaw(s)
  <2>1. /\ job'[r].status = "failed" /\ \A q \in Runs \ {r} : job'[q] = job[q]
        /\ exec[s].at = "raw"
    BY <1>4, <1>7 DEF FailRaw, At
  <2>2. /\ exec'[s].at = "finalizing" /\ exec'[s].run = exec[s].run
        /\ exec'[s].beating = exec[s].beating
        /\ \A t \in Slots \ {s} : exec'[t] = exec[t]
    BY <1>2, <1>7, Moved DEF FailRaw, Steps
  <2> QED
    BY <2>1, <2>2, <1>2, <1>3, <1>r DEF Own, Fine, Unended, Early, RunEnded, JobFailed, Steps
<1>8. CASE ReadSlot(s)
  <2>1. exec[s].at = "orphaned" /\ UNCHANGED job
    BY <1>8 DEF ReadSlot, At
  <2>2. job[r].status \notin {"absent", "queued", "running"}
    BY <1>2, <2>1 DEF Fine, JobFailed
  <2>3. CASE Leave(s)
    BY <2>1, <2>2, <2>3, <1>2, <1>3, <1>5, <1>r DEF Own, Loose, Unended
  <2>4. ASSUME NEW step \in {"orphanReopen", "orphanPark"}, GoTo(s, step)
        PROVE  Own(s, r)
    <3>1. /\ exec'[s].at = step /\ exec'[s].run = exec[s].run
          /\ exec'[s].beating = exec[s].beating
          /\ \A t \in Slots \ {s} : exec'[t] = exec[t]
      BY <1>2, <2>4, Moved DEF Steps
    <3> QED
      BY <3>1, <2>1, <2>4, <1>2, <1>3, <1>r
         DEF Own, Fine, Unended, Early, RunEnded, JobFailed, Steps
  <2> QED
    BY <1>8, <1>r, <2>3, <2>4 DEF ReadSlot
<1>9. CASE Crash(s)
  <2>1. exec[s].at \in WorkSteps /\ UNCHANGED job
    BY <1>9 DEF Crash, Gentle, At
  <2>2. exec[s].at \in Early
    BY <2>1 DEF WorkSteps, Early, Steps
  <2>3. Loose(job[r], run[r].status, queue[r])
    BY <2>2, <1>2 DEF Fine, Loose
  <2>4. Leave(s)
    BY <1>9 DEF Crash
  <2> QED
    BY <2>1, <2>2, <2>3, <2>4, <1>2, <1>3, <1>5, <1>r DEF Own, Unended
<1> QED
  BY <1>6, <1>7, <1>8, <1>9, <1>r

\* A slot that wrote the spec of its run as the last thing.
LEMMA ResultOf ==
  ASSUME NEW s \in Slots, NEW r \in Runs, \A q \in Runs : Sound(q), Own(s, r),
         exec[s].at \in Early,
         NEW to \in {"open", "needs_attention", "merged"},
         spec' = [spec EXCEPT ![run[r].spec] = to],
         run'[r].status # "paused", queue'[r] # "ready",
         to = "open" => run'[r].status \notin {"queued", "running"},
         \/ exec'[s].run = r /\ exec'[s].at \in {"returned", "rethrown"}
         \/ exec'[s].run = r /\ exec'[s].at = "concluding" /\ to = "merged"
         \/ exec'[s].run = NoRun /\ job'[r].status \notin {"queued", "running"}
  PROVE  Result(r)
<1>1. Sound(r)'
  BY OwnKeeps DEF Keeps
<1>2. Owns(r)
  BY DEF Owns, Own
<1>3. r # NoRun
  BY AbsentAssumption
<1>4. ~Waiting(r)'
  BY <1>3 DEF Waiting
<1>5. \A t \in Slots : exec'[t].run = r => t = s
  BY <1>3 DEF Own, Sound
<1>6. ~Owns(r)'
  BY <1>3, <1>4, <1>5 DEF Owns, Early
<1>7. to = "open" => ~Busy(r)'
  BY <1>3, <1>4, <1>5 DEF Busy, Unended, Early
<1> QED
  BY <1>2, <1>6, <1>7 DEF Result

\* Steps that write the spec of the run, or publish it to the merge queue.
LEMMA SpecWriting ==
  ASSUME Typed, \A q \in Runs : Sound(q), NEW s \in Slots,
         \/ ReadyToMerge(s) \/ MergeDirectly(s) \/ ReopenSpec(s) \/ ParkSpec(s)
         \/ RecoverSpec(s)
  PROVE  Own(s, exec[s].run) /\ (UNCHANGED spec \/ Result(exec[s].run))
<1> DEFINE r == exec[s].run
<1>1. ~At(s, {"idle"})
  BY DEF ReadyToMerge, MergeDirectly, ReopenSpec, ParkSpec, RecoverSpec, At
<1>2. /\ r \in Runs /\ Fine(exec[s], job[r], run[r].status, queue[r])
      /\ exec \in [Slots -> ExecRecord] /\ queue \in [Runs -> QueueStatuses]
      /\ run[r].status = "paused" => queue[r] # "ready"
  BY <1>1, AtRun DEF Typed, TypeOK
<1>r. r = exec[s].run /\ RunOf(s) = r /\ SpecOf(s) = run[r].spec /\ r # NoRun
  BY <1>2, AbsentAssumption DEF RunOf, SpecOf
<1> HIDE DEF r
<1>3. UNCHANGED <<job, run>>
  BY DEF ReadyToMerge, MergeDirectly, ReopenSpec, ParkSpec, RecoverSpec
<1>4. ASSUME NEW step \in Steps, GoTo(s, step)
      PROVE  /\ exec'[s].at = step /\ exec'[s].run = exec[s].run
             /\ exec'[s].beating = exec[s].beating
             /\ \A t \in Slots \ {s} : exec'[t] = exec[t]
  BY <1>2, <1>4, Moved
<1>5. ASSUME NEW to, SetSpec(SpecOf(s), {}, to)
      PROVE  spec' = [spec EXCEPT ![run[r].spec] = to]
  BY <1>5, <1>r DEF SetSpec
<1>6. CASE ReadyToMerge(s)
  <2>1. exec[s].at = "working" /\ UNCHANGED spec
    BY <1>6 DEF ReadyToMerge, At
  <2>2. \A q \in Runs \ {r} : queue'[q] = queue[q]
    BY <1>2, <1>6, <1>r DEF ReadyToMerge
  <2>3. /\ exec'[s].at = "concluding" /\ exec'[s].run = exec[s].run
        /\ exec'[s].beating = exec[s].beating
        /\ \A t \in Slots \ {s} : exec'[t] = exec[t]
    BY <1>4, <1>6 DEF ReadyToMerge, Steps
  <2> QED
    BY <2>1, <2>2, <2>3, <1>2, <1>3, <1>r DEF Own, Fine, Unended, Early, RunEnded, JobFailed, Steps
<1>7. CASE MergeDirectly(s)
  <2>1. exec[s].at = "working" /\ UNCHANGED queue
    BY <1>7 DEF MergeDirectly, At
  <2>2. /\ exec'[s].at = "concluding" /\ exec'[s].run = exec[s].run
        /\ exec'[s].beating = exec[s].beating
        /\ \A t \in Slots \ {s} : exec'[t] = exec[t]
    BY <1>4, <1>7 DEF MergeDirectly, Steps
  <2>3. Own(s, r)
    BY <2>1, <2>2, <1>2, <1>3, <1>r DEF Own, Fine, Unended, Early, RunEnded, JobFailed, Steps
  <2>4. spec' = [spec EXCEPT ![run[r].spec] = "merged"]
    BY <1>5, <1>7 DEF MergeDirectly
  <2>5. exec[s].at \in Early /\ run'[r].status # "paused" /\ queue'[r] # "ready"
    BY <2>1, <1>2, <1>3 DEF Fine, Early, Steps
  <2> QED
    BY <2>2, <2>3, <2>4, <2>5, <1>2, <1>r, ResultOf
<1>8. CASE ReopenSpec(s) \/ ParkSpec(s)
  <2>1. exec[s].at \in {"reopening", "parking"} /\ UNCHANGED queue
    BY <1>8 DEF ReopenSpec, ParkSpec, At
  <2>2. PICK step \in {"returned", "rethrown"} : GoTo(s, step)
    BY <1>8 DEF ReopenSpec, ParkSpec
  <2>3. /\ exec'[s].at = step /\ exec'[s].run = exec[s].run
        /\ exec'[s].beating = exec[s].beating
        /\ \A t \in Slots \ {s} : exec'[t] = exec[t]
    BY <1>4, <2>2 DEF Steps
  <2>4. Own(s, r)
    BY <2>1, <2>3, <1>2, <1>3, <1>r DEF Own, Fine, Unended, Early, RunEnded, JobFailed, Steps
  <2>5. \E to \in {"open", "needs_attention"} : spec' = [spec EXCEPT ![run[r].spec] = to]
    BY <1>5, <1>8 DEF ReopenSpec, ParkSpec
  <2>6. /\ exec[s].at \in Early /\ queue'[r] # "ready"
        /\ run'[r].status \notin {"queued", "running", "paused"}
    BY <2>1, <1>2, <1>3 DEF Fine, Early, RunEnded, Steps
  <2> QED
    BY <2>3, <2>4, <2>5, <2>6, <1>2, <1>r, ResultOf
<1>9. CASE RecoverSpec(s)
  <2>1. exec[s].at \in {"orphanReopen", "orphanPark"} /\ UNCHANGED queue
    BY <1>9 DEF RecoverSpec, At
  <2>2. exec'[s].run = NoRun /\ \A t \in Slots \ {s} : exec'[t] = exec[t]
    BY <1>2, <1>9, Left DEF RecoverSpec, Free
  <2>3. /\ exec[s].at \in Early /\ queue'[r] # "ready"
        /\ run'[r].status \notin {"queued", "running", "paused"}
        /\ job[r].status \notin {"absent", "queued", "running"}
    BY <2>1, <1>2, <1>3 DEF Fine, Early, RunEnded, JobFailed, Steps
  <2>4. Own(s, r)
    BY <2>1, <2>2, <2>3, <1>2, <1>3, <1>r DEF Own, Loose, Unended
  <2>5. \/ UNCHANGED spec
        \/ \E to \in {"open", "needs_attention"} : spec' = [spec EXCEPT ![run[r].spec] = to]
    BY <1>9, <1>r DEF RecoverSpec, SetSpec
  <2> QED
    BY <2>2, <2>3, <2>4, <2>5, <1>2, <1>3, <1>r, ResultOf
<1> QED
  BY <1>6, <1>7, <1>8, <1>9

\* Everything a slot does but claim is about the run it holds.
LEMMA HoldsRun ==
  ASSUME Typed, \A q \in Runs : Sound(q), NEW s \in Slots,
         Start(s) \/ Rework(s) \/ Conclude(s) \/ Finalize(s) \/ Crash(s)
  PROVE  exec[s].run \in Runs
<1>1. ~At(s, {"idle"})
  BY DEF Start, MarkRunning, Supersede, Allocate, RawThrow, Rework, Conclude, Throw,
         RedriveRun, HaltRun, Pause, ReadyToMerge, MergeDirectly, Finalize, ReopenSpec,
         ParkSpec, CompleteRun, CompleteJob, FailWrapped, FailRaw, FinalizeRun, ReadSlot,
         RecoverSpec, Crash, At
<1> QED
  BY <1>1, AtRun

LEMMA SlotKeeps ==
  ASSUME Typed, Gentle, \A q \in Runs : Sound(q), NEW s \in Slots,
         Start(s) \/ Rework(s) \/ Conclude(s) \/ Finalize(s) \/ Crash(s)
  PROVE  /\ Own(s, exec[s].run) /\ (\A q \in Runs : Keeps(q))
         /\ UNCHANGED spec \/ Result(exec[s].run)
<1> DEFINE r == exec[s].run
<1>1. r \in Runs
  BY HoldsRun
<1>2. Own(s, r) => \A q \in Runs : Keeps(q)
  BY <1>1, OwnKeeps
<1>3. CASE Rework(s)
  <2>1. Own(s, r)
    BY <1>3, Moving
  <2>2. spec' = [spec EXCEPT ![run[r].spec] = "in_flight"] /\ exec[s].at = "working"
    BY <1>3 DEF Rework, SetSpec, SpecOf, RunOf, At
  <2>3. Owns(r) /\ Owns(r)'
    BY <1>3, <2>2 DEF Rework, Owns, Early, Steps
  <2>4. Result(r)
    BY <2>2, <2>3 DEF Result
  <2> QED
    BY <2>1, <2>4, <1>2
<1>4. CASE Supersede(s) \/ Allocate(s) \/ RawThrow(s) \/ Throw(s)
  <2>1. UNCHANGED spec
    BY <1>4 DEF Supersede, Allocate, RawThrow, Throw
  <2> QED
    BY <1>2, <1>4, <2>1, Moving
<1>5. CASE \/ MarkRunning(s) \/ RedriveRun(s) \/ HaltRun(s) \/ Pause(s) \/ CompleteRun(s)
           \/ FinalizeRun(s)
  <2>1. UNCHANGED spec
    BY <1>5 DEF MarkRunning, RedriveRun, HaltRun, Pause, CompleteRun, FinalizeRun
  <2> QED
    BY <1>2, <1>5, <2>1, RunWriting
<1>6. CASE \/ CompleteJob(s) \/ FailWrapped(s) \/ FailRaw(s) \/ ReadSlot(s) \/ Crash(s)
  <2>1. UNCHANGED spec
    BY <1>6 DEF CompleteJob, FailWrapped, FailRaw, ReadSlot, Crash
  <2> QED
    BY <1>2, <1>6, <2>1, Leaving
<1>7. CASE \/ ReadyToMerge(s) \/ MergeDirectly(s) \/ ReopenSpec(s) \/ ParkSpec(s)
           \/ RecoverSpec(s)
  BY <1>2, <1>7, SpecWriting
<1> QED
  BY <1>3, <1>4, <1>5, <1>6, <1>7 DEF Start, Conclude, Finalize

-----------------------------------------------------------------------------
(* What the loops and the operators do to a run *)

\* A write of the rows of one run concerns no other.
LEMMA OthersKeep ==
  ASSUME \A q \in Runs : Sound(q), NEW r \in Runs, UNCHANGED exec,
         \A q \in Runs \ {r} : job'[q] = job[q] /\ run'[q] = run[q] /\ queue'[q] = queue[q]
  PROVE  \A q \in Runs \ {r} : Keeps(q)
<1> SUFFICES ASSUME NEW q \in Runs \ {r} PROVE Keeps(q)
  OBVIOUS
<1>1. Beside(q)
  BY DEF Beside
<1> QED
  BY <1>1, BesideKeeps DEF Keeps

\* A slot takes up a run that waited for it.
LEMMA ClaimKeeps ==
  ASSUME Typed, \A q \in Runs : Sound(q), NEW s \in Slots, NEW r \in Runs, Claim(s, r)
  PROVE  \A q \in Runs : Keeps(q)
<1>1. /\ exec[s].run = NoRun /\ r # NoRun /\ NoRun \notin Runs
      /\ job \in [Jobs -> Row] /\ exec \in [Slots -> ExecRecord]
  BY AbsentAssumption DEF Claim, Typed, TypeOK, At, ExecRecord
<1>2. /\ exec'[s].run = r /\ exec'[s].at = "claimed" /\ exec'[s].beating
      /\ \A t \in Slots \ {s} : exec'[t] = exec[t]
      /\ job[r].status = "queued" /\ job'[r].status = "running" /\ job'[r].lease = "live"
      /\ \A q \in Runs \ {r} : job'[q] = job[q]
      /\ UNCHANGED <<run, queue>>
  BY <1>1 DEF Claim, Oldest, Lease, Row, Runs
<1>3. \A t \in Slots : exec[t].run # r
  BY <1>2 DEF Sound, Fine
<1>4. Waiting(r)
  BY <1>2, <1>3 DEF Waiting
<1>5. queue[r] = "none" /\ run[r].status # "paused"
  BY <1>2, <1>3 DEF Sound, Loose
<1>6. "claimed" \in Early /\ "claimed" \notin RunEnded \cup JobFailed
  BY DEF Early, Steps, RunEnded, JobFailed
<1>7. Fine(exec[s], job[r], run[r].status, queue[r])'
  BY <1>2, <1>5, <1>6 DEF Fine
<1>8. Sound(r)'
  BY <1>2, <1>3, <1>5, <1>7 DEF Sound
<1>9. ASSUME NEW q \in Runs \ {r} PROVE Keeps(q)
  <2>1. Beside(q)
    BY <1>1, <1>2 DEF Beside
  <2> QED
    BY <2>1, BesideKeeps DEF Keeps
<1> QED
  BY <1>4, <1>8, <1>9 DEF Keeps, Owns, Busy

\* The prober gives the spec of a paused run back.
LEMMA ResumeKeeps ==
  ASSUME Typed, \A q \in Runs : Sound(q), NEW r \in Runs, ResumePaused(r)
  PROVE  (\A q \in Runs : Keeps(q)) /\ (UNCHANGED spec \/ Result(r))
<1>1. run[r].status = "paused" /\ queue[r] # "ready"
  BY DEF ResumePaused, Sound
<1>2. /\ run'[r].status = "halted" /\ \A q \in Runs \ {r} : run'[q] = run[q]
      /\ UNCHANGED <<job, queue, exec>>
  BY <1>1, RunSet DEF ResumePaused, Typed, TypeOK, RunRecord
<1>3. \A s \in Slots : exec[s].run = r => exec[s].at \notin Early \cup {"concluding"}
  BY <1>1 DEF Sound, Fine
<1>4. ~Waiting(r)
  BY <1>1 DEF Waiting, Sound, Loose
<1>5. Sound(r)'
  <2>1. \A s \in Slots : exec[s].run = r => Fine(exec[s], job[r], run[r].status, queue[r])'
    BY <1>1, <1>2, <1>3 DEF Sound, Fine
  <2>2. (\A s \in Slots : exec[s].run # r) => Loose(job[r], run[r].status, queue[r])'
    BY <1>1, <1>2 DEF Sound, Loose
  <2> QED
    BY <1>2, <2>1, <2>2 DEF Sound
<1>6. ~Owns(r)' /\ ~Busy(r)'
  BY <1>1, <1>2, <1>3, <1>4 DEF Owns, Busy, Unended, Waiting
<1>7. UNCHANGED spec \/ Result(r)
  <2>1. UNCHANGED spec \/ spec' = [spec EXCEPT ![run[r].spec] = "open"]
    BY DEF ResumePaused, SetSpec
  <2> QED
    BY <1>1, <1>6, <2>1 DEF Result, Owns
<1> QED
  BY <1>2, <1>5, <1>6, <1>7, OthersKeep DEF Keeps

\* The coordinator lands the row of a run, or parks it.
LEMMA QueueKeeps ==
  ASSUME Typed, \A q \in Runs : Sound(q), NEW r \in Runs, Land(r) \/ ParkQueued(r)
  PROVE  (\A q \in Runs : Keeps(q)) /\ (UNCHANGED spec \/ Result(r))
<1>1. /\ queue[r] = "ready" /\ queue'[r] \in {"landed", "dequeued"}
      /\ \A q \in Runs \ {r} : queue'[q] = queue[q]
      /\ UNCHANGED <<job, run, exec>>
  BY DEF Land, ParkQueued, Typed, TypeOK
<1>2. run[r].status # "paused"
  BY <1>1 DEF Sound
<1>3. \A s \in Slots : exec[s].run = r => exec[s].at \notin Early
  BY <1>1 DEF Sound, Fine
<1>4. ~Waiting(r)
  BY <1>1 DEF Waiting, Sound, Loose
<1>5. Sound(r)'
  <2>1. \A s \in Slots : exec[s].run = r => Fine(exec[s], job[r], run[r].status, queue[r])'
    BY <1>1, <1>3 DEF Sound, Fine
  <2>2. (\A s \in Slots : exec[s].run # r) => Loose(job[r], run[r].status, queue[r])'
    BY <1>1 DEF Sound, Loose
  <2> QED
    BY <1>1, <1>2, <2>1, <2>2 DEF Sound
<1>6. ~Owns(r)'
  BY <1>1, <1>2, <1>3, <1>4 DEF Owns, Waiting
<1>7. Busy(r)
  BY <1>1 DEF Busy
<1>8. UNCHANGED spec \/ Result(r)
  <2>1. \/ UNCHANGED spec
        \/ \E to \in {"merged", "needs_attention"} : spec' = [spec EXCEPT ![run[r].spec] = to]
    BY DEF Land, ParkQueued, SetSpec
  <2> QED
    BY <1>1, <1>6, <2>1 DEF Result, Owns
<1> QED
  BY <1>1, <1>5, <1>6, <1>7, <1>8, OthersKeep DEF Keeps

\* A lease ends only where no slot beats: nobody holds the run.
LEMMA LapseKeeps ==
  ASSUME Typed, \A q \in Runs : Sound(q), NEW r \in Runs, LeaseLapses(r)
  PROVE  \A q \in Runs : Keeps(q)
<1>1. /\ job'[r].status = job[r].status /\ \A q \in Runs \ {r} : job'[q] = job[q]
      /\ UNCHANGED <<run, queue, exec>>
  BY DEF LeaseLapses, Lapse, Typed, TypeOK, Row, Runs
<1>2. \A s \in Slots : exec[s].run # r
  BY DEF LeaseLapses, Sound, Fine, RunOf
<1>3. Sound(r)'
  BY <1>1, <1>2 DEF Sound, Loose
<1>4. (Owns(r)' <=> Owns(r)) /\ (Busy(r)' <=> Busy(r))
  BY <1>1, <1>2 DEF Owns, Busy, Unended, Waiting
<1> QED
  BY <1>1, <1>3, <1>4, OthersKeep DEF Keeps

\* The reaper requeues what nobody holds.
LEMMA ReapKeeps ==
  ASSUME Typed, \A q \in Runs : Sound(q), Reap
  PROVE  \A q \in Runs : Keeps(q)
<1> SUFFICES ASSUME NEW r \in Runs PROVE Keeps(r)
  OBVIOUS
<1>1. /\ UNCHANGED <<run, queue, exec>>
      /\ IF Expired(r) THEN job'[r].status = "queued" ELSE job'[r] = job[r]
  BY DEF Reap, ReapExpired, Typed, TypeOK, Row, Runs
<1>2. CASE Expired(r)
  <2>1. \A s \in Slots : exec[s].run # r
    BY <1>2 DEF Expired, Sound, Fine
  <2>2. Waiting(r)
    BY <1>2, <2>1 DEF Waiting, Expired
  <2>3. Sound(r)'
    BY <1>1, <1>2, <2>1 DEF Sound, Loose, Expired
  <2> QED
    BY <2>2, <2>3 DEF Keeps, Owns, Busy
<1>3. CASE ~Expired(r)
  <2>1. Beside(r)
    BY <1>1, <1>3 DEF Beside
  <2> QED
    BY <2>1, BesideKeeps DEF Keeps
<1> QED
  BY <1>2, <1>3

\* A run that is cancelled is neither taken up nor written again.
LEMMA CancelledKeeps ==
  ASSUME \A q \in Runs : Sound(q), NEW r \in Runs, UNCHANGED <<queue, exec>>,
         run[r].status \notin {"absent", "paused"}, run'[r].status = "cancelled",
         \/ job'[r] = job[r]
         \/ job'[r].status = "cancelled"
  PROVE  Keeps(r)
<1>1. \A s \in Slots : exec[s].run = r => Fine(exec[s], job[r], run[r].status, queue[r])'
  BY DEF Sound, Fine
<1>2. (\A s \in Slots : exec[s].run # r) => Loose(job[r], run[r].status, queue[r])'
  BY DEF Sound, Loose
<1>3. Sound(r)'
  BY <1>1, <1>2 DEF Sound
<1>4. Waiting(r)' => Waiting(r)
  BY DEF Waiting
<1> QED
  BY <1>3, <1>4 DEF Keeps, Owns, Busy, Unended

\* The cancel of a spec takes along one of its runs, the archive all that live.
LEMMA OperatorKeeps ==
  ASSUME Typed, \A q \in Runs : Sound(q), (\E p \in Specs : CancelSpec(p)) \/ Archive
  PROVE  \A q \in Runs : Keeps(q)
<1>1. ASSUME NEW p \in Specs, NEW r \in Cancellable(p), CancelRun(r), CancelSpec(p)
      PROVE  \A q \in Runs : Keeps(q)
  <2>1. r \in Runs /\ run[r].status \in {"queued", "running", "halted"}
    BY DEF Cancellable, Attempts
  <2>2. /\ run'[r].status = "cancelled" /\ \A q \in Runs \ {r} : run'[q] = run[q]
        /\ UNCHANGED <<queue, exec>>
    BY <1>1, <2>1 DEF CancelRun, CancelSpec, Typed, TypeOK
  <2>3. /\ job'[r] = job[r] \/ job'[r].status = "cancelled"
        /\ \A q \in Runs \ {r} : job'[q] = job[q]
    BY <1>1, <2>1 DEF CancelRun, CancelRow, Settle, Typed, TypeOK, Row, Runs
  <2> QED
    BY <2>1, <2>2, <2>3, CancelledKeeps, OthersKeep
<1>2. ASSUME UNCHANGED <<job, run, queue, exec>> PROVE \A q \in Runs : Keeps(q)
  BY <1>2, BesideKeeps DEF Beside, Keeps
<1>3. CASE Archive
  <2> SUFFICES ASSUME NEW r \in Runs PROVE Keeps(r)
    OBVIOUS
  <2>1. UNCHANGED <<job, queue, exec>>
    BY <1>3 DEF Archive
  <2>2. CASE Live(r)
    <3>1. run'[r].status = "cancelled" /\ run[r].status \notin {"absent", "paused"}
      BY <1>3, <2>2 DEF Archive, Live, Typed, TypeOK
    <3> QED
      BY <2>1, <3>1, CancelledKeeps
  <2>3. CASE ~Live(r)
    <3>1. Beside(r)
      BY <1>3, <2>1, <2>3 DEF Archive, Beside
    <3> QED
      BY <3>1, BesideKeeps DEF Keeps
  <2> QED
    BY <2>2, <2>3
<1> QED
  BY <1>1, <1>2, <1>3 DEF CancelSpec

-----------------------------------------------------------------------------
(* What a step does *)

\* What a step other than a walk or a cancel does to the specs.
Writes == UNCHANGED spec \/ \E r \in Runs : Result(r)

\* Every step but a walk keeps every run; but for a cancel it writes no spec
\* that is not its own.
LEMMA GentleStep ==
  ASSUME Typed, Gentle, \A q \in Runs : Sound(q), [Next]_vars,
         ~\E p \in Specs, r \in Runs : Walk(p, r)
  PROVE  (\A q \in Runs : Keeps(q)) /\ (Writes \/ \E p \in Specs : CancelSpec(p))
<1>1. ASSUME NEW s \in Slots,
             Start(s) \/ Rework(s) \/ Conclude(s) \/ Finalize(s) \/ Crash(s)
      PROVE  (\A q \in Runs : Keeps(q)) /\ Writes
  <2>1. exec[s].run \in Runs
    BY <1>1, HoldsRun
  <2> QED
    BY <1>1, <2>1, SlotKeeps DEF Writes
<1>2. ASSUME NEW s \in Slots, NEW r \in Runs, Claim(s, r)
      PROVE  (\A q \in Runs : Keeps(q)) /\ Writes
  BY <1>2, ClaimKeeps DEF Claim, Writes
<1>3. ASSUME NEW r \in Runs, Background(r)
      PROVE  (\A q \in Runs : Keeps(q)) /\ Writes
  BY <1>3, ResumeKeeps, QueueKeeps, LapseKeeps DEF Background, LeaseLapses, Writes
<1>4. ASSUME Reap
      PROVE  (\A q \in Runs : Keeps(q)) /\ Writes
  BY <1>4, ReapKeeps DEF Reap, Writes
<1>5. ASSUME NEW p \in Specs, CancelSpec(p)
      PROVE  \A q \in Runs : Keeps(q)
  BY <1>5, OperatorKeeps
<1>6. ASSUME Archive
      PROVE  (\A q \in Runs : Keeps(q)) /\ Writes
  BY <1>6, OperatorKeeps DEF Archive, Writes
<1>7. ASSUME UNCHANGED vars
      PROVE  (\A q \in Runs : Keeps(q)) /\ Writes
  BY <1>7, BesideKeeps DEF vars, Beside, Keeps, Writes
<1>8. ASSUME \/ \E s \in Slots : DbThrows(s) \/ Stall(s)
             \/ \E p \in Specs : RequeueAttention(p)
             \/ \E r \in Runs : Replan(r)
      PROVE  FALSE
  BY <1>8 DEF DbThrows, Stall, RequeueAttention, Replan, Fault, Gentle
<1> QED
  BY <1>1, <1>2, <1>3, <1>4, <1>5, <1>6, <1>7, <1>8 DEF Next

-----------------------------------------------------------------------------
(* One run per spec *)

\* Of the runs that attempt a spec one is at work, none while it is open, and
\* none may still write it once it is merged.
OneBusy    == \A p \in Specs : \A q, r \in Attempts(p) : Busy(q) /\ Busy(r) => q = r
FreeOpen   == \A p \in Specs : spec[p] = "open" => \A r \in Attempts(p) : ~Busy(r)
MergedDone == \A p \in Specs : spec[p] = "merged" => \A r \in Attempts(p) : ~Owns(r)

AllSound == \A r \in Runs : Sound(r)
Exclusive == Typed /\ AllSound /\ OneBusy /\ FreeOpen /\ MergedDone

LEMMA InitExclusive == Init => Exclusive
<1> SUFFICES ASSUME Init PROVE Exclusive
  OBVIOUS
<1>1. Typed
  BY InitTyped
<1>2. \A p \in Specs : Attempts(p) = {}
  BY AbsentAssumption DEF Init, Attempts
<1>3. AllSound
  BY AbsentAssumption DEF Init, JobsInit, AllSound, Sound, Loose, Free, Runs
<1> QED
  BY <1>1, <1>2, <1>3 DEF Exclusive, OneBusy, FreeOpen, MergedDone

\* Who may write the spec is at work on it.
LEMMA OwnerBusy == \A r \in Runs : Owns(r) => Busy(r)
BY DEF Owns, Busy, Unended

\* A walk adds a run to a spec that nobody works for.
LEMMA WalkAdds ==
  ASSUME Exclusive, NEW p \in Specs, NEW r \in Runs, Walk(p, r)
  PROVE  /\ AllSound' /\ Owns(r)' /\ run'[r].spec = p
         /\ \A q \in Runs \ {r} : /\ Keeps(q) /\ (Owns(q) => Owns(q)')
                                  /\ run'[q].spec = run[q].spec
         /\ spec[p] = "open" /\ spec' = [spec EXCEPT ![p] = "in_flight"]
<1>1. /\ run[r].status = "absent" /\ run'[r] = [spec |-> p, status |-> "queued"]
      /\ \A q \in Runs \ {r} : run'[q] = run[q]
      /\ UNCHANGED <<queue, exec>>
      /\ spec[p] = "open" /\ spec' = [spec EXCEPT ![p] = "in_flight"]
  BY WalkTyped DEF Exclusive, Walk
<1>2. /\ job[r].status = "absent" /\ job'[r].status = "queued"
      /\ \A q \in Runs \ {r} : job'[q] = job[q]
  BY InsertAdds DEF Exclusive, Typed, TypeOK, Walk, Runs
<1>3. ASSUME NEW q \in Runs \ {r}
      PROVE  Keeps(q) /\ (Owns(q) => Owns(q)')
  <2>1. Beside(q)
    BY <1>1, <1>2 DEF Beside
  <2> QED
    BY <2>1, BesideKeeps DEF Keeps, Exclusive, AllSound
<1>4. \A s \in Slots : exec[s].run # r
  BY <1>2 DEF Exclusive, AllSound, Sound, Fine
<1>5. queue[r] = "none"
  BY <1>2, <1>4 DEF Exclusive, AllSound, Sound, Loose
<1>6. Sound(r)'
  BY <1>1, <1>4, <1>5 DEF Sound, Loose
<1>7. Owns(r)'
  BY <1>1, <1>2, <1>4 DEF Owns, Waiting
<1> QED
  BY <1>1, <1>3, <1>6, <1>7 DEF Keeps, AllSound

\* No other step makes a run the attempt of another spec.
LEMMA AttemptsStay ==
  ASSUME Typed, [Next]_vars, ~\E p \in Specs, r \in Runs : Walk(p, r)
  PROVE  \A p \in Specs : Attempts(p)' = Attempts(p)
BY RunStep DEF RunWritten, Attempts

\* A spec that a step other than a walk writes was the spec of the one run at
\* work for it, or one that a cancel settles.
LEMMA Written ==
  ASSUME Exclusive, Gentle, [Next]_vars, ~\E p \in Specs, r \in Runs : Walk(p, r),
         NEW p \in Specs, spec'[p] # spec[p]
  PROVE  \/ /\ ~Settled(p) /\ spec'[p] \in {"cancelled", "needs_attention"}
            /\ \E c \in Specs : CancelSpec(c)
         \/ \E r \in Attempts(p) : /\ Owns(r)
                                   /\ \/ spec'[p] = "in_flight"
                                      \/ /\ spec'[p] \in {"open", "needs_attention", "merged"}
                                         /\ ~Owns(r)'
                                   /\ spec'[p] = "open" => ~Busy(r)'
<1>1. Writes \/ \E c \in Specs : CancelSpec(c)
  BY GentleStep DEF Exclusive, AllSound
<1>2. ASSUME NEW r \in Runs, Result(r)
      PROVE  /\ r \in Attempts(p) /\ Owns(r)
             /\ \/ spec'[p] = "in_flight"
                \/ spec'[p] \in {"open", "needs_attention", "merged"} /\ ~Owns(r)'
             /\ spec'[p] = "open" => ~Busy(r)'
  <2>1. PICK to \in {"in_flight", "open", "needs_attention", "merged"} :
          /\ spec' = [spec EXCEPT ![run[r].spec] = to]
          /\ Owns(r)' <=> to = "in_flight"
          /\ to = "open" => ~Busy(r)'
    BY <1>2 DEF Result
  <2>2. run[r].spec = p /\ spec'[p] = to
    BY <2>1 DEF Exclusive, Typed, TypeOK
  <2> QED
    BY <1>2, <2>1, <2>2 DEF Result, Attempts
<1>3. ASSUME NEW c \in Specs, CancelSpec(c)
      PROVE  ~Settled(p) /\ spec'[p] \in {"cancelled", "needs_attention"}
  BY <1>3 DEF CancelSpec
<1> QED
  BY <1>1, <1>2, <1>3 DEF Writes

LEMMA NextExclusive == Gentle /\ Exclusive /\ [Next]_vars => Exclusive'
<1> SUFFICES ASSUME Gentle, Exclusive, [Next]_vars PROVE Exclusive'
  OBVIOUS
<1>1. Typed'
  BY NextTyped DEF Exclusive
<1>2. CASE \E p \in Specs, r \in Runs : Walk(p, r)
  <2>1. PICK p \in Specs, r \in Runs : Walk(p, r)
    BY <1>2
  <2>2. /\ AllSound' /\ run'[r].spec = p
        /\ \A q \in Runs \ {r} : /\ Busy(q)' => Busy(q)
                                 /\ Owns(q)' => Owns(q)
                                 /\ run'[q].spec = run[q].spec
        /\ spec[p] = "open" /\ spec' = [spec EXCEPT ![p] = "in_flight"]
        /\ spec \in [Specs -> SpecStatuses]
    BY <2>1, WalkAdds DEF Keeps, Exclusive, Typed, TypeOK
  <2>3. \A q \in Attempts(p) : ~Busy(q)
    BY <2>2 DEF Exclusive, FreeOpen
  <2>4. \A o \in Specs : Attempts(o)' \ {r} \subseteq Attempts(o)
    BY <2>2 DEF Attempts
  <2>5. \A o \in Specs \ {p} : r \notin Attempts(o)'
    BY <2>2 DEF Attempts
  <2>6. OneBusy'
    <3>1. ASSUME NEW o \in Specs, NEW q \in Attempts(o)', NEW t \in Attempts(o)',
                 Busy(q)', Busy(t)'
          PROVE  q = t
      <4>1. q # r => q \in Attempts(o) /\ Busy(q)
        BY <2>2, <2>4, <3>1 DEF Attempts
      <4>2. t # r => t \in Attempts(o) /\ Busy(t)
        BY <2>2, <2>4, <3>1 DEF Attempts
      <4>3. q = r \/ t = r => o = p
        BY <2>5, <3>1
      <4> QED
        BY <2>3, <4>1, <4>2, <4>3 DEF Exclusive, OneBusy
    <3> QED
      BY <3>1 DEF OneBusy
  <2>7. FreeOpen'
    <3>1. ASSUME NEW o \in Specs, spec'[o] = "open", NEW q \in Attempts(o)' PROVE ~Busy(q)'
      <4>1. o # p /\ spec[o] = "open"
        BY <2>2, <3>1
      <4>2. q # r /\ q \in Attempts(o)
        BY <2>4, <2>5, <3>1, <4>1
      <4> QED
        BY <2>2, <4>1, <4>2 DEF Exclusive, FreeOpen, Attempts
    <3> QED
      BY <3>1 DEF FreeOpen
  <2>8. MergedDone'
    <3>1. ASSUME NEW o \in Specs, spec'[o] = "merged", NEW q \in Attempts(o)' PROVE ~Owns(q)'
      <4>1. o # p /\ spec[o] = "merged"
        BY <2>2, <3>1
      <4>2. q # r /\ q \in Attempts(o)
        BY <2>4, <2>5, <3>1, <4>1
      <4> QED
        BY <2>2, <4>1, <4>2 DEF Exclusive, MergedDone, Attempts
    <3> QED
      BY <3>1 DEF MergedDone
  <2> QED
    BY <1>1, <2>2, <2>6, <2>7, <2>8 DEF Exclusive
<1>3. CASE ~\E p \in Specs, r \in Runs : Walk(p, r)
  <2>1. \A q \in Runs : Keeps(q)
    BY <1>3, GentleStep DEF Exclusive, AllSound
  <2>2. AllSound'
    BY <2>1 DEF Keeps, AllSound
  <2>3. \A p \in Specs : Attempts(p)' = Attempts(p) /\ Attempts(p) \subseteq Runs
    BY <1>3, AttemptsStay DEF Exclusive, Attempts
  <2>4. OneBusy'
    BY <2>1, <2>3 DEF Exclusive, OneBusy, Keeps
  <2>5. FreeOpen'
    <3>1. ASSUME NEW p \in Specs, spec'[p] = "open", NEW q \in Attempts(p), Busy(q)'
          PROVE  FALSE
      <4>1. Busy(q)
        BY <2>1, <2>3, <3>1 DEF Keeps
      <4>2. spec[p] # "open"
        BY <3>1, <4>1 DEF Exclusive, FreeOpen
      <4>3. PICK r \in Attempts(p) : Owns(r) /\ ~Busy(r)'
        BY <1>3, <3>1, <4>2, Written
      <4> QED
        BY <2>3, <3>1, <4>1, <4>3, OwnerBusy DEF Exclusive, OneBusy
    <3> QED
      BY <2>3, <3>1 DEF FreeOpen
  <2>6. MergedDone'
    <3>1. ASSUME NEW p \in Specs, spec'[p] = "merged", NEW q \in Attempts(p), Owns(q)'
          PROVE  FALSE
      <4>1. Owns(q)
        BY <2>1, <2>3, <3>1 DEF Keeps
      <4>2. spec[p] # "merged"
        BY <3>1, <4>1 DEF Exclusive, MergedDone
      <4>3. PICK r \in Attempts(p) : Owns(r) /\ ~Owns(r)'
        BY <1>3, <3>1, <4>2, Written
      <4> QED
        BY <2>3, <3>1, <4>1, <4>3, OwnerBusy DEF Exclusive, OneBusy
    <3> QED
      BY <2>3, <3>1 DEF MergedDone
  <2> QED
    BY <1>1, <2>2, <2>4, <2>5, <2>6 DEF Exclusive
<1> QED
  BY <1>2, <1>3

\* Where workers crash only at work, nothing stalls or throws, and operators
\* cancel and archive at any time: a spec is attempted by one run at a time.
THEOREM OneAttempt == ASSUME Gentle PROVE Spec => []OneRunPerSpec
<1>1. Exclusive => OneRunPerSpec
  BY DEF Exclusive, OneBusy, OneRunPerSpec, Busy
<1>2. Exclusive /\ [Next]_vars => Exclusive'
  BY NextExclusive
<1> QED
  BY <1>1, <1>2, InitExclusive, PTL DEF Spec

\* There, what the walker may take up is free: no run of it is unended and no
\* row of it can still land.
THEOREM WalkerTakesFree == ASSUME Gentle PROVE Spec => []OpenIsFree
<1>1. Exclusive => OpenIsFree
  BY DEF Exclusive, FreeOpen, OpenIsFree, Busy
<1>2. Exclusive /\ [Next]_vars => Exclusive'
  BY NextExclusive
<1> QED
  BY <1>1, <1>2, InitExclusive, PTL DEF Spec

\* There, no writer takes up again what has landed.
THEOREM LandedStays == ASSUME Gentle PROVE Spec => MergedStays
<1>1. ASSUME Gentle, Exclusive, [Next]_vars, NEW p \in Specs, spec[p] = "merged"
      PROVE  spec'[p] = "merged"
  <2>1. CASE \E o \in Specs, r \in Runs : Walk(o, r)
    <3>1. PICK o \in Specs : spec[o] = "open" /\ spec' = [spec EXCEPT ![o] = "in_flight"]
      BY <2>1, <1>1, WalkAdds
    <3> QED
      BY <1>1, <3>1
  <2>2. CASE ~\E o \in Specs, r \in Runs : Walk(o, r)
    <3>1. Settled(p) /\ \A r \in Attempts(p) : ~Owns(r)
      BY <1>1 DEF Settled, Exclusive, MergedDone
    <3> QED
      BY <1>1, <2>2, <3>1, Written
  <2> QED
    BY <2>1, <2>2
<1>2. Exclusive /\ [Next]_vars =>
        [\A p \in Specs : spec[p] = "merged" => spec'[p] = "merged"]_vars
  BY <1>1
<1>3. Exclusive /\ [Next]_vars => Exclusive'
  BY NextExclusive
<1> QED
  BY <1>2, <1>3, InitExclusive, PTL DEF Spec, MergedStays

-----------------------------------------------------------------------------
(* Where nobody cancels a spec *)

\* What still has a run that may write it is in flight.
OwnedInFlight == \A p \in Specs : \A r \in Attempts(p) : Owns(r) => spec[p] = "in_flight"

Uncancelled == Gentle /\ Operations \subseteq {"archive"}

LEMMA NextInFlight == Uncancelled /\ Exclusive /\ OwnedInFlight /\ [Next]_vars => OwnedInFlight'
<1> SUFFICES ASSUME Uncancelled, Exclusive, OwnedInFlight, [Next]_vars,
                    NEW p \in Specs, NEW r \in Attempts(p)', Owns(r)'
             PROVE  spec'[p] = "in_flight"
  BY DEF OwnedInFlight
<1>1. CASE \E o \in Specs, q \in Runs : Walk(o, q)
  <2>1. PICK o \in Specs, q \in Runs : Walk(o, q)
    BY <1>1
  <2>2. /\ run'[q].spec = o
        /\ r # q => Owns(r) /\ run[r].spec = run'[r].spec
        /\ spec' = [spec EXCEPT ![o] = "in_flight"]
        /\ spec \in [Specs -> SpecStatuses]
    BY <2>1, WalkAdds DEF Keeps, Exclusive, Typed, TypeOK, Attempts
  <2>3. CASE r = q
    BY <2>2, <2>3 DEF Attempts
  <2>4. CASE r # q
    <3>1. r \in Attempts(p) /\ spec[p] = "in_flight"
      BY <2>2, <2>4 DEF Attempts, OwnedInFlight
    <3> QED
      BY <2>2, <3>1
  <2> QED
    BY <2>3, <2>4
<1>2. CASE ~\E o \in Specs, q \in Runs : Walk(o, q)
  <2>1. r \in Attempts(p) /\ Owns(r)
    BY <1>2, AttemptsStay, GentleStep DEF Exclusive, AllSound, Uncancelled, Keeps, Attempts
  <2>2. spec[p] = "in_flight"
    BY <2>1 DEF OwnedInFlight
  <2>3. ASSUME spec'[p] # spec[p] PROVE spec'[p] = "in_flight"
    <3>1. ~\E c \in Specs : CancelSpec(c)
      BY DEF Uncancelled, CancelSpec
    <3>2. PICK q \in Attempts(p) : /\ Owns(q)
                                   /\ spec'[p] = "in_flight" \/ ~Owns(q)'
      BY <1>2, <2>3, <3>1, Written DEF Uncancelled
    <3>3. q = r
      BY <2>1, <3>2, OwnerBusy DEF Exclusive, OneBusy, Attempts
    <3> QED
      BY <3>2, <3>3
  <2> QED
    BY <2>2, <2>3
<1> QED
  BY <1>1, <1>2

LEMMA InitInFlight == Init => OwnedInFlight
BY AbsentAssumption DEF Init, OwnedInFlight, Attempts

\* There, and where nobody cancels a spec: a run that waits for capacity or for a
\* review keeps its spec, whatever the other attempts of the spec come to.
THEOREM PausedKeeps == ASSUME Uncancelled PROVE Spec => []PausedHoldsSpec
<1>1. Exclusive /\ OwnedInFlight => PausedHoldsSpec
  <2> SUFFICES ASSUME Exclusive, OwnedInFlight, NEW r \in Runs, run[r].status = "paused"
               PROVE  spec[run[r].spec] = "in_flight"
    BY DEF PausedHoldsSpec
  <2>1. run[r].spec \in Specs
    BY DEF Exclusive, Typed, TypeOK
  <2> QED
    BY <2>1 DEF OwnedInFlight, Owns, Attempts
<1>2. Exclusive /\ [Next]_vars => Exclusive'
  BY NextExclusive DEF Uncancelled
<1>3. Exclusive /\ OwnedInFlight /\ [Next]_vars => OwnedInFlight'
  BY NextInFlight
<1> QED
  BY <1>1, <1>2, <1>3, InitExclusive, InitInFlight, PTL DEF Spec

\* There, every write of a spec is a transition of the table, although none
\* looks at it.
THEOREM TableFollowed == ASSUME Uncancelled PROVE Spec => SpecFollowsTable
<1>1. ASSUME Uncancelled, Exclusive, OwnedInFlight, [Next]_vars, NEW p \in Specs
      PROVE  spec'[p] \in {spec[p]} \cup AllowedSpecTransitions[spec[p]]
  <2>1. CASE \E o \in Specs, r \in Runs : Walk(o, r)
    <3>1. PICK o \in Specs : spec[o] = "open" /\ spec' = [spec EXCEPT ![o] = "in_flight"]
      BY <2>1, <1>1, WalkAdds
    <3>2. spec'[p] = spec[p] \/ (spec[p] = "open" /\ spec'[p] = "in_flight")
      BY <1>1, <3>1 DEF Exclusive, Typed, TypeOK
    <3> QED
      BY <3>2 DEF AllowedSpecTransitions
  <2>2. CASE ~\E o \in Specs, r \in Runs : Walk(o, r)
    <3>1. ~\E c \in Specs : CancelSpec(c)
      BY <1>1 DEF Uncancelled, CancelSpec
    <3>2. \/ spec'[p] = spec[p]
          \/ /\ spec[p] = "in_flight"
             /\ spec'[p] \in {"in_flight", "open", "needs_attention", "merged"}
      BY <1>1, <2>2, <3>1, Written DEF Uncancelled, OwnedInFlight
    <3> QED
      BY <3>2 DEF AllowedSpecTransitions
  <2> QED
    BY <2>1, <2>2
<1>2. Exclusive /\ OwnedInFlight /\ [Next]_vars =>
        [\A p \in Specs : spec'[p] \in {spec[p]} \cup AllowedSpecTransitions[spec[p]]]_vars
  BY <1>1
<1>3. Exclusive /\ [Next]_vars => Exclusive'
  BY NextExclusive DEF Uncancelled
<1>4. Exclusive /\ OwnedInFlight /\ [Next]_vars => OwnedInFlight'
  BY NextInFlight
<1> QED
  BY <1>2, <1>3, <1>4, InitExclusive, InitInFlight, PTL DEF Spec, SpecFollowsTable

-----------------------------------------------------------------------------
(* Where operators do nothing: no spec is stranded *)

Unoperated == Gentle /\ Operations = {}

\* What waits or is worked on is alive: its worker finds the run it pauses or
\* halts, and its safety net the run it finalizes.
Underway == WorkSteps \cup {"disposing", "raw", "finalizing"}
Awake(r) ==
  /\ Waiting(r) => Live(r)
  /\ \A s \in Slots : exec[s].run = r =>
       /\ exec[s].at \in Underway => Live(r)
       /\ exec[s].at \in WorkSteps => job[r].status = "running"

\* A run keeps its spec until it wrote it.
Passes(r) == Owns(r) => Owns(r)' \/ spec'[run[r].spec] # "in_flight"

\* What of that concerns the slot that moves.
Handed(s, r) ==
  /\ exec'[s].run = r /\ exec'[s].at \in Underway => run'[r].status \in {"queued", "running"}
  /\ exec'[s].run = r /\ exec'[s].at \in WorkSteps => job'[r].status = "running"
  /\ exec'[s].run = NoRun /\ job'[r].status \in {"queued", "running"} =>
       run'[r].status \in {"queued", "running"}
  /\ Owns(r) => \/ run'[r].status = "paused" \/ queue'[r] = "ready"
                \/ exec'[s].run = r /\ exec'[s].at \in Early
                \/ exec'[s].run = NoRun /\ job'[r].status \in {"queued", "running"}
                \/ spec'[run[r].spec] # "in_flight"

\* What concerns another run.
LEMMA BesideAwake ==
  ASSUME NEW r \in Runs, Sound(r), Awake(r), Beside(r)
  PROVE  Awake(r)' /\ Passes(r)
<1>1. \A s \in Slots : exec'[s].run = r <=> exec[s].run = r
  BY DEF Beside
<1>2. Waiting(r)' <=> Waiting(r)
  BY <1>1 DEF Waiting, Beside
<1>3. Awake(r)'
  BY <1>1, <1>2 DEF Awake, Beside, Live
<1> QED
  BY <1>3, BesideKeeps DEF Passes

LEMMA HandedPasses ==
  ASSUME \A q \in Runs : Sound(q) /\ Awake(q), NEW s \in Slots, NEW r \in Runs,
         Own(s, r), Handed(s, r)
  PROVE  \A q \in Runs : Awake(q)' /\ Passes(q)
<1>r. r # NoRun /\ NoRun \notin Runs
  BY AbsentAssumption
<1>1. ASSUME NEW q \in Runs \ {r} PROVE Awake(q)' /\ Passes(q)
  <2>1. Beside(q)
    BY <1>r DEF Own, Beside
  <2> QED
    BY <2>1, BesideAwake
<1>2. \A t \in Slots \ {s} : exec'[t].run # r
  BY DEF Sound, Own
<1>3. exec'[s].run \in {r, NoRun}
  BY DEF Own
<1>4. Awake(r)'
  BY <1>r, <1>2, <1>3 DEF Handed, Awake, Waiting, Live
<1>5. Passes(r)
  BY <1>r, <1>2, <1>3 DEF Handed, Passes, Owns, Waiting
<1> QED
  BY <1>1, <1>4, <1>5

LEMMA SlotHands ==
  ASSUME Unoperated, Exclusive, OwnedInFlight, \A q \in Runs : Awake(q), NEW s \in Slots,
         Start(s) \/ Rework(s) \/ Conclude(s) \/ Finalize(s) \/ Crash(s)
  PROVE  Handed(s, exec[s].run)
<1> DEFINE r == exec[s].run
<1>1. ~At(s, {"idle"})
  BY DEF Start, MarkRunning, Supersede, Allocate, RawThrow, Rework, Conclude, Throw,
         RedriveRun, HaltRun, Pause, ReadyToMerge, MergeDirectly, Finalize, ReopenSpec,
         ParkSpec, CompleteRun, CompleteJob, FailWrapped, FailRaw, FinalizeRun, ReadSlot,
         RecoverSpec, Crash, At
<1>2. /\ r \in Runs /\ Fine(exec[s], job[r], run[r].status, queue[r])
      /\ exec \in [Slots -> ExecRecord] /\ run \in [Runs -> RunRecord]
      /\ job \in [Jobs -> Row] /\ queue \in [Runs -> QueueStatuses]
      /\ spec \in [Specs -> SpecStatuses]
  BY <1>1, AtRun DEF Exclusive, AllSound, Typed, TypeOK
<1>3. run[r].spec \in Specs
  BY <1>2 DEF Exclusive, Typed, TypeOK, HeldIsThere, RunOf, RunRecord
<1>4. /\ exec[s].at \in Underway => run[r].status \in {"queued", "running"}
      /\ exec[s].at \in WorkSteps => job[r].status = "running"
  BY <1>2 DEF Awake, Live
<1>5. Owns(r) => spec[run[r].spec] = "in_flight"
  BY <1>2, <1>3 DEF OwnedInFlight, Attempts
<1>6. /\ exec[s].at \in Early => Owns(r)
      /\ Owns(r) => \/ run[r].status = "paused" \/ queue[r] = "ready"
                    \/ exec[s].at \in Early
  BY <1>2 DEF Owns, Waiting, Exclusive, AllSound, Sound
<1>r. r = exec[s].run /\ RunOf(s) = r /\ SpecOf(s) = run[r].spec /\ r # NoRun
  BY <1>2, AbsentAssumption DEF RunOf, SpecOf
<1> HIDE DEF r
<1>7. ASSUME NEW step \in Steps, GoTo(s, step)
      PROVE  exec'[s].at = step /\ exec'[s].run = r
  BY <1>2, <1>7, <1>r, Moved
<1>8. ASSUME Leave(s)
      PROVE  exec'[s].run = NoRun
  BY <1>2, <1>8, Left DEF Free
<1>9. ASSUME NEW from, NEW to, SetRun(RunOf(s), from, to)
      PROVE  run'[r].status = IF run[r].status \in from THEN to ELSE run[r].status
  BY <1>2, <1>9, <1>r, RunSet
<1>10. ASSUME NEW to, Settle(RunOf(s), to)
       PROVE  job'[r].status = to
  BY <1>2, <1>10, <1>r, JobSettled DEF Runs
<1>11. ASSUME NEW to, SetSpec(SpecOf(s), {}, to)
       PROVE  spec'[run[r].spec] = to
  BY <1>2, <1>3, <1>11, <1>r DEF SetSpec
<1> USE DEF At
<1>12. CASE Supersede(s) \/ Allocate(s) \/ RawThrow(s) \/ Throw(s) \/ Rework(s)
  <2>1. exec[s].at \in WorkSteps /\ UNCHANGED <<run, queue>>
    BY <1>12 DEF Supersede, Allocate, RawThrow, Throw, Rework, WorkSteps
  <2>2. UNCHANGED job
    BY <1>2, <1>12, <1>r DEF Supersede, Allocate, RawThrow, Throw, Rework, CancelQueuedRow, Fine
  <2>3. exec'[s].run = r /\ exec'[s].at \in WorkSteps \cup {"raw", "disposing"}
    <3>1. CASE Supersede(s) \/ Allocate(s) \/ RawThrow(s)
      BY <3>1, <1>7 DEF Supersede, Allocate, RawThrow, WorkSteps, Steps
    <3>2. CASE Throw(s)
      BY <3>2, <1>2, <1>r DEF Throw, ExecRecord
    <3>3. CASE Rework(s)
      BY <3>3, <2>1, <1>r DEF Rework
    <3> QED
      BY <1>12, <3>1, <3>2, <3>3
  <2>4. exec'[s].at \in Early
    BY <2>3 DEF WorkSteps, Early, Steps
  <2> QED
    BY <2>1, <2>2, <2>3, <2>4, <1>4, <1>r DEF Handed, Underway
<1>13. CASE MarkRunning(s)
  <2>1. /\ exec[s].at = "claimed" /\ exec'[s].at = "marked" /\ exec'[s].run = r
        /\ UNCHANGED job
        /\ run'[r].status = IF run[r].status \in {"queued", "running"} THEN "running"
                            ELSE run[r].status
    BY <1>7, <1>9, <1>13 DEF MarkRunning, Steps
  <2> QED
    BY <2>1, <1>4, <1>r DEF Handed, Underway, WorkSteps, Early, Steps
<1>14. CASE RedriveRun(s) \/ HaltRun(s)
  <2>1. exec'[s].at \in {"reopening", "parking"} /\ exec'[s].run = r
    BY <1>7, <1>14 DEF RedriveRun, HaltRun, Steps
  <2> QED
    BY <2>1, <1>r DEF Handed, Underway, WorkSteps, Early, Steps
<1>15. CASE Pause(s)
  <2>1. /\ exec[s].at \in {"working", "disposing"}
        /\ exec'[s].at = "returned" /\ exec'[s].run = r
        /\ run'[r].status = IF run[r].status \in {"queued", "running"} THEN "paused"
                            ELSE run[r].status
    BY <1>7, <1>9, <1>15 DEF Pause, Steps
  <2> QED
    BY <2>1, <1>4, <1>r DEF Handed, Underway, WorkSteps
<1>16. CASE ReadyToMerge(s)
  <2>1. exec[s].at = "working" /\ exec'[s].at = "concluding" /\ exec'[s].run = r
    BY <1>7, <1>16 DEF ReadyToMerge, Steps
  <2>2. queue'[r] = "ready"
    BY <2>1, <1>2, <1>16, <1>r DEF ReadyToMerge, Fine, Early, Steps
  <2> QED
    BY <2>1, <2>2, <1>r DEF Handed, Underway, WorkSteps
<1>17. CASE MergeDirectly(s) \/ ReopenSpec(s) \/ ParkSpec(s)
  <2>1. /\ exec'[s].at \in {"concluding", "returned", "rethrown"} /\ exec'[s].run = r
        /\ spec'[run[r].spec] \in {"merged", "open", "needs_attention"}
    BY <1>7, <1>11, <1>17 DEF MergeDirectly, ReopenSpec, ParkSpec, Steps
  <2> QED
    BY <2>1, <1>r DEF Handed, Underway, WorkSteps
<1>18. CASE CompleteRun(s)
  <2>1. /\ exec[s].at = "concluding" /\ exec'[s].at = "returned" /\ exec'[s].run = r
        /\ UNCHANGED queue
    BY <1>7, <1>18 DEF CompleteRun, Steps
  <2>2. Owns(r) => queue[r] = "ready"
    BY <2>1, <1>2, <1>6 DEF Fine, Early
  <2> QED
    BY <2>1, <2>2, <1>r DEF Handed, Underway, WorkSteps
<1>19. CASE CompleteJob(s) \/ FailWrapped(s)
  <2>1. /\ exec[s].at \in {"returned", "rethrown"} /\ exec'[s].run = NoRun
        /\ job'[r].status \in {"done", "failed"} /\ UNCHANGED <<run, queue>>
    BY <1>8, <1>10, <1>19 DEF CompleteJob, FailWrapped
  <2>2. Owns(r) => run[r].status = "paused" \/ queue[r] = "ready"
    BY <2>1, <1>6 DEF Early
  <2> QED
    BY <2>1, <2>2, <1>r DEF Handed
<1>20. CASE FailRaw(s)
  <2>1. /\ exec[s].at = "raw" /\ exec'[s].at = "finalizing" /\ exec'[s].run = r
        /\ UNCHANGED run
    BY <1>7, <1>20 DEF FailRaw, Steps
  <2> QED
    BY <2>1, <1>4, <1>r DEF Handed, Underway, WorkSteps, Early, Steps
<1>21. CASE FinalizeRun(s)
  <2>1. exec[s].at = "finalizing"
    BY <1>21 DEF FinalizeRun
  <2>2. run[r].status \in Unfinalized
    BY <2>1, <1>4 DEF Underway, Unfinalized
  <2>3. exec'[s].at = "orphaned" /\ exec'[s].run = r
    BY <2>2, <1>7, <1>21, <1>r DEF FinalizeRun, Steps
  <2> QED
    BY <2>3, <1>r DEF Handed, Underway, WorkSteps, Early, Steps
<1>22. CASE ReadSlot(s)
  <2>1. exec[s].at \in Early
    BY <1>22 DEF ReadSlot, Early, Steps
  <2>2. ~HasSuccessor(r)
    <3>1. ASSUME NEW q \in Attempts(run[r].spec) \ {r}, Live(q) PROVE FALSE
      <4>1. q \in Runs /\ Busy(q) /\ Busy(r) /\ r \in Attempts(run[r].spec)
        BY <2>1, <3>1, <1>2, <1>6, OwnerBusy DEF Attempts, Busy, Unended, Live
      <4> QED
        BY <3>1, <4>1, <1>3 DEF Exclusive, OneBusy
    <3> QED
      BY <3>1 DEF HasSuccessor
  <2>3. \E next \in {"orphanReopen", "orphanPark"} : GoTo(s, next)
    BY <2>1, <2>2, <1>5, <1>6, <1>22, <1>r DEF ReadSlot
  <2>4. exec'[s].at \in {"orphanReopen", "orphanPark"} /\ exec'[s].run = r
    BY <2>3, <1>7 DEF Steps
  <2> QED
    BY <2>4, <1>r DEF Handed, Underway, WorkSteps, Early, Steps
<1>23. CASE RecoverSpec(s)
  <2>1. /\ exec[s].at \in {"orphanReopen", "orphanPark"} /\ exec'[s].run = NoRun
        /\ UNCHANGED job
    BY <1>8, <1>23 DEF RecoverSpec
  <2>2. job[r].status \notin {"queued", "running"}
    BY <2>1, <1>2 DEF Fine, JobFailed
  <2>3. spec[run[r].spec] = "in_flight"
    BY <2>1, <1>5, <1>6 DEF Early, Steps
  <2>4. spec'[run[r].spec] \in {"open", "needs_attention"}
    BY <2>3, <1>2, <1>3, <1>23, <1>r DEF RecoverSpec, SetSpec
  <2> QED
    BY <2>1, <2>2, <2>4, <1>r DEF Handed
<1>24. CASE Crash(s)
  <2>1. exec[s].at \in WorkSteps /\ exec'[s].run = NoRun /\ UNCHANGED <<job, run>>
    BY <1>8, <1>24 DEF Crash, Unoperated, Gentle
  <2> QED
    BY <2>1, <1>4, <1>r DEF Handed, Underway
<1> QED
  BY <1>12, <1>13, <1>14, <1>15, <1>16, <1>17, <1>18, <1>19, <1>20, <1>21, <1>22, <1>23,
     <1>24, <1>r DEF Start, Conclude, Finalize

\* A claim, the loops and the walker.
LEMMA LoopsHand ==
  ASSUME Unoperated, Exclusive, OwnedInFlight, \A q \in Runs : Awake(q),
         \/ \E s \in Slots, r \in Runs : Claim(s, r)
         \/ \E r \in Runs : Background(r)
         \/ Reap
  PROVE  \A q \in Runs : Awake(q)' /\ Passes(q)
<1>s. \A q \in Runs : Sound(q)
  BY DEF Exclusive, AllSound
<1>t. job \in [Jobs -> Row] /\ exec \in [Slots -> ExecRecord] /\ NoRun \notin Runs
  BY AbsentAssumption DEF Exclusive, Typed, TypeOK, ExecRecord
<1>1. ASSUME NEW s \in Slots, NEW r \in Runs, Claim(s, r)
      PROVE  \A q \in Runs : Awake(q)' /\ Passes(q)
  <2>1. /\ exec[s].run = NoRun /\ exec'[s].run = r /\ exec'[s].at = "claimed"
        /\ \A t \in Slots \ {s} : exec'[t] = exec[t]
        /\ job[r].status = "queued" /\ job'[r].status = "running"
        /\ \A q \in Runs \ {r} : job'[q] = job[q]
        /\ UNCHANGED <<run, queue>>
    BY <1>1, <1>t DEF Claim, Oldest, Lease, Row, Runs, At, Exclusive, Typed, TypeOK
  <2>2. \A t \in Slots : exec[t].run # r
    BY <1>s, <2>1 DEF Sound, Fine
  <2>3. Live(r)
    BY <2>1, <2>2 DEF Awake, Waiting
  <2>4. Awake(r)' /\ Passes(r)
    BY <2>1, <2>2, <2>3 DEF Awake, Waiting, Live, Passes, Owns, Early, Steps
  <2>5. ASSUME NEW q \in Runs \ {r} PROVE Awake(q)' /\ Passes(q)
    <3>1. Beside(q)
      BY <1>t, <2>1 DEF Beside
    <3> QED
      BY <1>s, <3>1, BesideAwake
  <2> QED
    BY <2>4, <2>5
<1>2. ASSUME NEW r \in Runs, Background(r)
      PROVE  \A q \in Runs : Awake(q)' /\ Passes(q)
  <2>1. /\ \A q \in Runs \ {r} : job'[q] = job[q] /\ run'[q] = run[q] /\ queue'[q] = queue[q]
        /\ UNCHANGED exec /\ job'[r].status = job[r].status
    BY <1>2, <1>t DEF Background, LeaseLapses, Lapse, ResumePaused, SetRun, Land, ParkQueued,
                      Exclusive, Typed, TypeOK, Runs, Row
  <2>2. ASSUME NEW q \in Runs \ {r} PROVE Awake(q)' /\ Passes(q)
    <3>1. Beside(q)
      BY <2>1 DEF Beside
    <3> QED
      BY <1>s, <3>1, BesideAwake
  <2>3. CASE LeaseLapses(r)
    <3>1. UNCHANGED <<run, queue>>
      BY <2>3 DEF LeaseLapses
    <3> QED
      BY <2>1, <2>2, <3>1 DEF Awake, Waiting, Live, Passes, Owns
  <2>4. ASSUME Owns(r), ResumePaused(r) \/ Land(r) \/ ParkQueued(r)
        PROVE  Passes(r)
    <3>1. run[r].spec \in Specs
      <4>1. job[r].status # "absent"
        BY <1>s, <2>4 DEF Owns, Waiting, Sound, Fine, Loose, ResumePaused, Land, ParkQueued
      <4> QED
        BY <4>1 DEF Exclusive, Typed, TypeOK, JobWithRun
    <3>2. spec[run[r].spec] = "in_flight" /\ spec \in [Specs -> SpecStatuses]
      BY <2>4, <3>1 DEF OwnedInFlight, Attempts, Exclusive, Typed, TypeOK
    <3>3. spec'[run[r].spec] # "in_flight"
      BY <2>4, <3>1, <3>2 DEF ResumePaused, Land, ParkQueued, SetSpec
    <3> QED
      BY <3>3 DEF Passes
  <2>5. CASE ResumePaused(r)
    <3>1. run[r].status = "paused"
      BY <2>5 DEF ResumePaused
    <3>2. ~Waiting(r) /\ \A s \in Slots : exec[s].run = r => exec[s].at \notin Early
      BY <1>s, <3>1 DEF Sound, Fine, Loose, Waiting
    <3>3. Awake(r)'
      BY <2>1, <3>2 DEF Awake, Waiting, Underway, WorkSteps, Early, Steps
    <3> QED
      BY <2>2, <2>4, <2>5, <3>3 DEF Passes
  <2>6. CASE Land(r) \/ ParkQueued(r)
    <3>1. UNCHANGED <<job, run>>
      BY <2>6 DEF Land, ParkQueued
    <3>2. Awake(r)'
      BY <2>1, <3>1 DEF Awake, Waiting, Live
    <3> QED
      BY <2>2, <2>4, <2>6, <3>2 DEF Passes
  <2> QED
    BY <1>2, <2>3, <2>5, <2>6 DEF Background
<1>3. ASSUME Reap, NEW q \in Runs
      PROVE  Awake(q)' /\ Passes(q)
  <2>1. /\ UNCHANGED <<run, queue, exec>>
        /\ IF Expired(q) THEN job'[q].status = "queued" ELSE job'[q] = job[q]
    BY <1>3, <1>t DEF Reap, ReapExpired, Row, Runs
  <2>2. CASE Expired(q)
    <3>1. \A s \in Slots : exec[s].run # q
      BY <1>s, <2>2 DEF Expired, Sound, Fine
    <3>2. Waiting(q) /\ Waiting(q)'
      BY <2>1, <2>2, <3>1 DEF Waiting, Expired
    <3> QED
      BY <2>1, <3>1, <3>2 DEF Awake, Live, Passes, Owns
  <2>3. CASE ~Expired(q)
    <3>1. Beside(q)
      BY <2>1, <2>3 DEF Beside
    <3> QED
      BY <1>s, <3>1, BesideAwake
  <2> QED
    BY <2>2, <2>3
<1> QED
  BY <1>1, <1>2, <1>3

\* A spec in flight has a run that will write it, and whatever ends has handed
\* on its spec.
AllAwake == \A r \in Runs : Awake(r)
InHand   == \A p \in Specs : spec[p] = "in_flight" => \E r \in Attempts(p) : Owns(r)

LEMMA InitInHand == Init => AllAwake /\ InHand
<1> SUFFICES ASSUME Init PROVE AllAwake
  BY DEF Init, InHand
<1> QED
  BY AbsentAssumption DEF Init, JobsInit, AllAwake, Awake, Waiting, Free, Runs

\* Where operators do nothing, a step other than a walk keeps what is worked on
\* alive, and no run loses its spec without writing it.
LEMMA StepPasses ==
  ASSUME Unoperated, Exclusive, OwnedInFlight, AllAwake, [Next]_vars,
         ~\E p \in Specs, r \in Runs : Walk(p, r)
  PROVE  \A q \in Runs : Awake(q)' /\ Passes(q)
<1>1. ASSUME NEW s \in Slots,
             Start(s) \/ Rework(s) \/ Conclude(s) \/ Finalize(s) \/ Crash(s)
      PROVE  \A q \in Runs : Awake(q)' /\ Passes(q)
  <2>1. exec[s].run \in Runs
    BY <1>1, HoldsRun DEF Exclusive, AllSound
  <2>2. Handed(s, exec[s].run)
    BY <1>1, SlotHands DEF AllAwake
  <2>3. Own(s, exec[s].run)
    BY <1>1, SlotKeeps DEF Exclusive, AllSound, Unoperated
  <2> QED
    BY <2>1, <2>2, <2>3, HandedPasses DEF Exclusive, AllSound, AllAwake
<1>2. ASSUME \/ \E s \in Slots, r \in Runs : Claim(s, r)
             \/ \E r \in Runs : Background(r)
             \/ Reap
      PROVE  \A q \in Runs : Awake(q)' /\ Passes(q)
  BY <1>2, LoopsHand DEF AllAwake
<1>3. ASSUME UNCHANGED vars
      PROVE  \A q \in Runs : Awake(q)' /\ Passes(q)
  BY <1>3, BesideAwake DEF vars, Beside, Exclusive, AllSound, AllAwake
<1>4. ASSUME \/ \E s \in Slots : DbThrows(s) \/ Stall(s)
             \/ \E p \in Specs : RequeueAttention(p) \/ CancelSpec(p)
             \/ \E r \in Runs : Replan(r)
             \/ Archive
      PROVE  FALSE
  BY <1>4 DEF DbThrows, Stall, RequeueAttention, CancelSpec, Replan, Archive, Fault,
              Gentle, Unoperated
<1> QED
  BY <1>1, <1>2, <1>3, <1>4 DEF Next

LEMMA NextInHand ==
  Unoperated /\ Exclusive /\ OwnedInFlight /\ AllAwake /\ InHand /\ [Next]_vars
    => AllAwake' /\ InHand'
<1> SUFFICES ASSUME Unoperated, Exclusive, OwnedInFlight, AllAwake, InHand, [Next]_vars
             PROVE  AllAwake' /\ InHand'
  OBVIOUS
<1>1. CASE \E p \in Specs, r \in Runs : Walk(p, r)
  <2>1. PICK p \in Specs, r \in Runs : Walk(p, r)
    BY <1>1
  <2>2. /\ Owns(r)' /\ run'[r].spec = p
        /\ \A q \in Runs \ {r} : (Owns(q) => Owns(q)') /\ run'[q].spec = run[q].spec
        /\ spec' = [spec EXCEPT ![p] = "in_flight"]
    BY <2>1, WalkAdds
  <2>3. InHand'
    <3>1. ASSUME NEW o \in Specs, spec'[o] = "in_flight"
          PROVE  \E q \in Attempts(o)' : Owns(q)'
      <4>1. CASE o = p
        BY <2>2, <4>1 DEF Attempts
      <4>2. CASE o # p
        <5>1. PICK q \in Attempts(o) : Owns(q)
          BY <2>2, <3>1, <4>2 DEF InHand, Exclusive, Typed, TypeOK
        <5>2. run[r].status = "absent" /\ run[r].spec = NoSpec /\ o # NoSpec
          BY <2>1, WalkTyped, AbsentAssumption DEF Exclusive, Typed, TypeOK
        <5> QED
          BY <2>2, <5>1, <5>2 DEF Attempts
      <4> QED
        BY <4>1, <4>2
    <3> QED
      BY <3>1 DEF InHand
  <2>4. AllAwake'
    <3>1. /\ job[r].status = "absent" /\ \A q \in Runs \ {r} : job'[q] = job[q]
          /\ run'[r].status = "queued" /\ \A q \in Runs \ {r} : run'[q] = run[q]
          /\ UNCHANGED <<queue, exec>>
      BY <2>1, InsertAdds, WalkTyped DEF Exclusive, Typed, TypeOK, Walk, Runs
    <3>2. Awake(r)'
      <4>1. \A s \in Slots : exec[s].run # r
        BY <3>1 DEF Exclusive, AllSound, Sound, Fine
      <4> QED
        BY <3>1, <4>1 DEF Awake, Live
    <3>3. ASSUME NEW q \in Runs \ {r} PROVE Awake(q)'
      <4>1. Beside(q)
        BY <3>1 DEF Beside
      <4> QED
        BY <4>1, BesideAwake DEF Exclusive, AllSound, AllAwake
    <3> QED
      BY <3>2, <3>3 DEF AllAwake
  <2> QED
    BY <2>3, <2>4
<1>2. CASE ~\E p \in Specs, r \in Runs : Walk(p, r)
  <2>1. \A q \in Runs : Awake(q)' /\ Passes(q)
    BY <1>2, StepPasses
  <2>2. ASSUME NEW p \in Specs, spec'[p] = "in_flight"
        PROVE  \E r \in Attempts(p)' : Owns(r)'
    <3>1. spec[p] = "in_flight"
      <4>1. ~\E c \in Specs : CancelSpec(c)
        BY DEF Unoperated, CancelSpec
      <4>2. ASSUME spec'[p] # spec[p] PROVE spec[p] = "in_flight"
        BY <1>2, <4>1, <4>2, Written DEF Unoperated, OwnedInFlight
      <4> QED
        BY <2>2, <4>2
    <3>2. PICK r \in Attempts(p) : Owns(r)
      BY <3>1 DEF InHand
    <3>3. Owns(r)'
      BY <2>1, <2>2, <3>2 DEF Passes, Attempts
    <3>4. r \in Attempts(p)'
      BY <1>2, <3>2, AttemptsStay DEF Exclusive
    <3> QED
      BY <3>3, <3>4
  <2> QED
    BY <2>1, <2>2 DEF AllAwake, InHand
<1> QED
  BY <1>1, <1>2

\* Where workers crash only at work, nothing stalls or throws, and operators do
\* nothing: a spec in flight is attended.  Its job is queued or held, or the
\* prober or the coordinator has its run.
THEOREM NoneStranded == ASSUME Unoperated PROVE Spec => []NeverStranded
<1>1. Exclusive /\ InHand => NeverStranded
  <2> SUFFICES ASSUME Exclusive, NEW p \in Specs, NEW r \in Attempts(p), Owns(r)
               PROVE  Attended(r)
    BY DEF InHand, NeverStranded
  <2> QED
    BY DEF Owns, Waiting, Attended, RunOf
<1>2. Exclusive /\ [Next]_vars => Exclusive'
  BY NextExclusive DEF Unoperated
<1>3. Exclusive /\ OwnedInFlight /\ [Next]_vars => OwnedInFlight'
  BY NextInFlight DEF Uncancelled, Unoperated
<1>4. Exclusive /\ OwnedInFlight /\ AllAwake /\ InHand /\ [Next]_vars => AllAwake' /\ InHand'
  BY NextInHand
<1> QED
  BY <1>1, <1>2, <1>3, <1>4, InitExclusive, InitInFlight, InitInHand, PTL DEF Spec
-----------------------------------------------------------------------------
(* The refinement of Relay *)

\* A step moves one run and leaves to the others what they hold; it writes the
\* spec of that run, as the run goes on or as it lets go, or no spec.
OnlyOf(r) == \A q \in Runs \ {r} : Owns(q)' <=> Owns(q)
HoldersStay == \A q \in Runs : Owns(q)' <=> Owns(q)

Passing ==
  \/ HoldersStay /\ UNCHANGED spec
  \/ \E r \in Runs : /\ HoldersStay /\ Owns(r)
                     /\ spec' = [spec EXCEPT ![run[r].spec] = "in_flight"]
  \/ \E r \in Runs : /\ OnlyOf(r) /\ Owns(r) /\ ~Owns(r)'
                     /\ \/ UNCHANGED spec
                        \/ \E to \in {"open", "merged", "needs_attention"} :
                             spec' = [spec EXCEPT ![run[r].spec] = to]

LEMMA OnePasses ==
  ASSUME NEW r \in Runs, OnlyOf(r), Keeps(r), UNCHANGED spec \/ Result(r)
  PROVE  Passing
<1>1. Owns(r)' => Owns(r)
  BY DEF Keeps
<1>2. (Owns(r)' <=> Owns(r)) => HoldersStay
  BY DEF OnlyOf, HoldersStay
<1>3. CASE UNCHANGED spec
  BY <1>1, <1>2, <1>3 DEF Passing
<1>4. CASE Result(r)
  <2>1. PICK to \in {"in_flight", "open", "needs_attention", "merged"} :
          /\ spec' = [spec EXCEPT ![run[r].spec] = to]
          /\ Owns(r)' <=> to = "in_flight"
    BY <1>4 DEF Result
  <2>2. Owns(r)
    BY <1>4 DEF Result
  <2>3. CASE to = "in_flight"
    BY <1>2, <2>1, <2>2, <2>3 DEF Passing
  <2>4. CASE to # "in_flight"
    BY <2>1, <2>2, <2>4 DEF Passing
  <2> QED
    BY <2>3, <2>4
<1> QED
  BY <1>3, <1>4

LEMMA BesideOnly ==
  ASSUME NEW r \in Runs, \A q \in Runs : Sound(q), \A q \in Runs \ {r} : Beside(q)
  PROVE  OnlyOf(r)
  BY BesideKeeps DEF OnlyOf

LEMMA StepPassing ==
  ASSUME Typed, Gentle, \A q \in Runs : Sound(q), [Next]_vars,
         ~\E p \in Specs, r \in Runs : Walk(p, r),
         ~\E p \in Specs : CancelSpec(p)
  PROVE  Passing
<1>1. ASSUME NEW s \in Slots,
             Start(s) \/ Rework(s) \/ Conclude(s) \/ Finalize(s) \/ Crash(s)
      PROVE  Passing
  <2> DEFINE r == exec[s].run
  <2>1. r \in Runs /\ r # NoRun
    BY <1>1, HoldsRun, AbsentAssumption
  <2>2. Own(s, r) /\ Keeps(r) /\ (UNCHANGED spec \/ Result(r))
    BY <1>1, <2>1, SlotKeeps
  <2>3. \A q \in Runs \ {r} : Beside(q)
    BY <2>2, AbsentAssumption DEF Own, Beside
  <2> HIDE DEF r
  <2> QED
    BY <2>1, <2>2, <2>3, BesideOnly, OnePasses
<1>2. ASSUME NEW s \in Slots, NEW r \in Runs, Claim(s, r)
      PROVE  Passing
  <2>1. Keeps(r) /\ UNCHANGED spec
    BY <1>2, ClaimKeeps DEF Claim
  <2>2. /\ exec[s].run = NoRun /\ exec'[s].run = r
        /\ \A t \in Slots \ {s} : exec'[t] = exec[t]
        /\ \A q \in Runs \ {r} : job'[q] = job[q]
        /\ UNCHANGED <<run, queue>>
    BY <1>2 DEF Claim, Lease, At, Typed, TypeOK, Runs
  <2>3. \A q \in Runs \ {r} : Beside(q)
    BY <2>2, AbsentAssumption DEF Beside
  <2> QED
    BY <2>1, <2>3, BesideOnly, OnePasses
<1>3. ASSUME NEW r \in Runs, Background(r)
      PROVE  Passing
  <2>1. Keeps(r) /\ (UNCHANGED spec \/ Result(r))
    BY <1>3, ResumeKeeps, QueueKeeps, LapseKeeps DEF Background, LeaseLapses
  <2>2. /\ \A q \in Runs \ {r} : job'[q] = job[q] /\ run'[q] = run[q] /\ queue'[q] = queue[q]
        /\ UNCHANGED exec
    BY <1>3 DEF Background, LeaseLapses, Lapse, ResumePaused, SetRun, Land, ParkQueued,
                Typed, TypeOK, Runs
  <2>3. \A q \in Runs \ {r} : Beside(q)
    BY <2>2 DEF Beside
  <2> QED
    BY <2>1, <2>3, BesideOnly, OnePasses
<1>4. CASE Reap
  <2>1. ASSUME NEW q \in Runs PROVE Waiting(q)' <=> Waiting(q)
    <3>1. /\ UNCHANGED exec
          /\ IF Expired(q) THEN job'[q].status = "queued" ELSE job'[q] = job[q]
      BY <1>4 DEF Reap, ReapExpired, Typed, TypeOK, Row, Runs
    <3> QED
      BY <3>1 DEF Waiting, Expired
  <2>2. UNCHANGED <<spec, run, queue, exec>>
    BY <1>4 DEF Reap
  <2> QED
    BY <2>1, <2>2 DEF Passing, HoldersStay, Owns
<1>5. CASE Archive
  <2>1. \A q \in Runs : run'[q].status = "paused" <=> run[q].status = "paused"
    BY <1>5 DEF Archive, Live, Typed, TypeOK
  <2>2. UNCHANGED <<spec, job, queue, exec>>
    BY <1>5 DEF Archive
  <2> QED
    BY <2>1, <2>2 DEF Passing, HoldersStay, Owns, Waiting
<1>6. CASE UNCHANGED vars
  BY <1>6 DEF vars, Passing, HoldersStay, Owns, Waiting
<1>7. ASSUME \/ \E s \in Slots : DbThrows(s) \/ Stall(s)
             \/ \E p \in Specs : RequeueAttention(p)
             \/ \E r \in Runs : Replan(r)
      PROVE  FALSE
  BY <1>7 DEF DbThrows, Stall, RequeueAttention, Replan, Fault, Gentle
<1> QED
  BY <1>1, <1>2, <1>3, <1>4, <1>5, <1>6, <1>7 DEF Next

\* What the runs of a spec are to Relay, before and after.
LEMMA OwnersPrimed ==
  /\ HoldersStay => Owners' = Owners
  /\ \A r \in Runs : OnlyOf(r) /\ ~Owns(r)' => Owners' = Owners \ {r}
<1>1. Owners' = {q \in Runs : Owns(q)'}
  BY DEF Owners
<1> QED
  BY <1>1 DEF HoldersStay, OnlyOf, Owners

LEMMA AttemptStays ==
  ASSUME Typed, [Next]_vars, ~\E p \in Specs, r \in Runs : Walk(p, r)
  PROVE  Attempt' = Attempt
  BY RunStep DEF RunWritten, Attempt

LEMMA HoldersAre ==
  ASSUME NEW p
  PROVE  A!HoldersOf(p) = {r \in Attempts(p) : Owns(r)}
  BY DEF A!HoldersOf, Owners, Attempt, Attempts

LEMMA TakeMapped ==
  ASSUME Exclusive, NEW p \in Specs, NEW r \in Runs, Walk(p, r)
  PROVE  A!Take(p, r)
<1>1. /\ spec[p] = "open" /\ spec' = [spec EXCEPT ![p] = "in_flight"]
      /\ \A d \in DependsOn[p] : spec[d] = "merged"
  BY DEF Walk
<1>2. A!HoldersOf(p) = {}
  BY <1>1, HoldersAre, OwnerBusy DEF Exclusive, FreeOpen, Attempts
<1>3. Attempt[r] = NoSpec
  BY WalkTyped DEF Exclusive, Typed, TypeOK, Attempt
<1>4. Attempt' = [Attempt EXCEPT ![r] = p]
  BY DEF Walk, Attempt, Exclusive, Typed, TypeOK
<1>5. Owners' = Owners \cup {r}
  <2>1. Owners' = {q \in Runs : Owns(q)'}
    BY DEF Owners
  <2>2. Owns(r)' /\ \A q \in Runs \ {r} : Owns(q)' <=> Owns(q)
    BY WalkAdds DEF Keeps
  <2> QED
    BY <2>1, <2>2 DEF Owners
<1> QED
  BY <1>1, <1>2, <1>3, <1>4, <1>5 DEF A!Take

LEMMA CancelMapped ==
  ASSUME Exclusive, NEW p \in Specs, CancelSpec(p)
  PROVE  A!Cancel(p)
<1>1. /\ "cancel" \in Operations /\ ~A!Settled(p)
      /\ spec' = [q \in Specs |-> CASE q = p -> "cancelled"
                                    [] p \in DependsOn[q] /\ ~A!Settled(q) -> "needs_attention"
                                    [] OTHER -> spec[q]]
  BY DEF CancelSpec, Settled, A!Settled
<1>2. CASE UNCHANGED <<run, job>>
  <2>1. HoldersStay /\ Attempt' = Attempt
    BY <1>2 DEF CancelSpec, HoldersStay, Owns, Waiting, Attempt
  <2> QED
    BY <1>1, <2>1, OwnersPrimed DEF A!Cancel
<1>3. ASSUME NEW r \in Cancellable(p), CancelRun(r)
      PROVE  A!Cancel(p)
  <2>1. r \in Attempts(p) /\ r \in Runs /\ run[r].status # "paused"
    BY DEF Cancellable, Attempts
  <2>2. /\ \A q \in Runs \ {r} : job'[q] = job[q] /\ run'[q] = run[q]
        /\ UNCHANGED <<queue, exec>>
        /\ run'[r].spec = run[r].spec /\ run'[r].status = "cancelled"
    BY <1>3, <2>1 DEF CancelRun, CancelRow, Settle, CancelSpec, Exclusive, Typed, TypeOK, Runs
  <2>3. OnlyOf(r)
    BY <2>1, <2>2, BesideOnly DEF Beside, Exclusive, AllSound
  <2>4. Owns(r)' => Owns(r)
    BY <1>3, OperatorKeeps, <2>1 DEF Exclusive, AllSound, Keeps
  <2>5. Attempt' = Attempt
    BY <2>2 DEF Attempt
  <2>6. CASE Owns(r)' <=> Owns(r)
    BY <1>1, <2>3, <2>5, <2>6, OwnersPrimed DEF OnlyOf, HoldersStay, A!Cancel
  <2>7. CASE Owns(r) /\ ~Owns(r)'
    <3>1. r \in A!HoldersOf(p)
      BY <2>1, <2>7, HoldersAre
    <3> QED
      BY <1>1, <2>1, <2>3, <2>5, <2>7, <3>1, OwnersPrimed DEF A!Cancel
  <2> QED
    BY <2>4, <2>6, <2>7
<1> QED
  BY <1>2, <1>3 DEF CancelSpec

Handing == OwnedInFlight /\ AllAwake /\ InHand
RelayInv == Exclusive /\ (Operations = {} => Handing)

LEMMA RelayStep == Gentle /\ RelayInv /\ [Next]_vars => RelayInv'
<1> SUFFICES ASSUME Gentle, RelayInv, [Next]_vars PROVE RelayInv'
  OBVIOUS
<1>1. Exclusive'
  BY NextExclusive DEF RelayInv
<1>2. ASSUME Operations = {} PROVE Handing'
  BY <1>2, NextInFlight, NextInHand DEF RelayInv, Handing, Unoperated, Uncancelled
<1> QED
  BY <1>1, <1>2 DEF RelayInv

LEMMA RelayMapped ==
  ASSUME Gentle, RelayInv, [Next]_vars
  PROVE  [A!Next]_(A!relay)
<1>1. CASE \E p \in Specs, r \in Runs : Walk(p, r)
  BY <1>1, TakeMapped DEF RelayInv, A!Next
<1>2. CASE \E p \in Specs : CancelSpec(p)
  BY <1>2, CancelMapped DEF RelayInv, A!Next
<1>3. CASE /\ ~\E p \in Specs, r \in Runs : Walk(p, r)
           /\ ~\E p \in Specs : CancelSpec(p)
  <2>1. Passing /\ Attempt' = Attempt
    BY <1>3, StepPassing, AttemptStays DEF RelayInv, Exclusive, AllSound
  <2>2. CASE HoldersStay /\ UNCHANGED spec
    BY <2>1, <2>2, OwnersPrimed DEF A!relay
  <2>3. ASSUME NEW r \in Runs, HoldersStay, Owns(r),
               spec' = [spec EXCEPT ![run[r].spec] = "in_flight"]
        PROVE  A!GoOn(r)
    BY <2>1, <2>3, OwnersPrimed DEF A!GoOn, Owners, Attempt
  <2>4. ASSUME NEW r \in Runs, OnlyOf(r), Owns(r), ~Owns(r)',
               NEW to \in {"open", "merged", "needs_attention"},
               spec' = [spec EXCEPT ![run[r].spec] = to]
        PROVE  A!HandOver(r, to)
    BY <2>1, <2>4, OwnersPrimed DEF A!HandOver, Owners, Attempt
  <2>5. ASSUME NEW r \in Runs, OnlyOf(r), Owns(r), ~Owns(r)', UNCHANGED spec
        PROVE  A!Drop(r)
    <3>1. CASE Operations # {}
      BY <2>1, <2>5, <3>1, OwnersPrimed DEF A!Drop, Owners
    <3>2. CASE Operations = {}
      <4>1. Passes(r)
        BY <1>3, <3>2, StepPasses DEF RelayInv, Handing, Unoperated
      <4>2. run[r].spec \in Specs
        <5>1. job[r].status # "absent"
          BY <2>5 DEF Owns, Waiting, RelayInv, Exclusive, AllSound, Sound, Fine, Loose
        <5> QED
          BY <5>1 DEF RelayInv, Exclusive, Typed, TypeOK, JobWithRun
      <4>3. spec[run[r].spec] = "in_flight"
        BY <2>5, <3>2, <4>2 DEF RelayInv, Handing, OwnedInFlight, Attempts
      <4> QED
        BY <2>5, <4>1, <4>3 DEF Passes
    <3> QED
      BY <3>1, <3>2
  <2> QED
    BY <2>1, <2>2, <2>3, <2>4, <2>5 DEF Passing, A!Next
<1> QED
  BY <1>1, <1>2, <1>3

LEMMA RelayInit == Init => RelayInv /\ A!Init
<1> SUFFICES ASSUME Init PROVE RelayInv /\ A!Init
  OBVIOUS
<1>1. RelayInv
  BY InitExclusive, InitInFlight, InitInHand DEF RelayInv, Handing
<1>2. \A r \in Runs : ~Owns(r)
  BY AbsentAssumption DEF Init, JobsInit, Owns, Waiting, Free, Runs
<1> QED
  BY <1>1, <1>2 DEF Init, A!Init, Owners, Attempt

\* Where workers crash only at work, nothing stalls or throws, and operators
\* cancel and archive at any time: the runs pass every spec on like a baton.
\* Where operators do nothing, none is ever dropped.
THEOREM PassedOn == ASSUME Gentle PROVE Spec => ImplementsRelay
<1>1. RelayInv /\ [Next]_vars => [A!Next]_(A!relay)
  BY RelayMapped
<1>2. RelayInv /\ [Next]_vars => RelayInv'
  BY RelayStep
<1> QED
  BY <1>1, <1>2, RelayInit, PTL DEF Spec, ImplementsRelay, A!Spec
=============================================================================
