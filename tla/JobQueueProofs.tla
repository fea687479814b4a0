--------------------------- MODULE JobQueueProofs ---------------------------
(***************************************************************************)
(* Theorems about JobQueue for every set of jobs and slots and every       *)
(* number of faults: type correctness, one holder per claim, the           *)
(* durability of a cancel, and, when no live holder may lose its lease,    *)
(* the exclusive execution of a job.                                       *)
(***************************************************************************)
EXTENDS JobQueueDispatch, JobTableProofs

-----------------------------------------------------------------------------
(* Types *)

\* A slot names a job exactly while it executes it or recovers its run.
HoldsAJob == \A s \in Slots : Holding(s) <=> slot[s].job \in Jobs

Typed == TypeOK /\ HoldsAJob

\* The initial state is well typed.
LEMMA InitTyped == Init => Typed
BY NoJobAssumption, FaultsAssumption
   DEF Init, JobsInit, Typed, TypeOK, HoldsAJob, Holding, Idle, Row, Statuses, Leases, Phases

\* The record a slot falls back to is well typed and holds nothing.
LEMMA IdleTyped ==
  ASSUME NEW phase \in Phases
  PROVE  /\ Idle(phase) \in [phase: Phases, job: Jobs \cup {NoJob},
                             gen: Nat, beating: BOOLEAN]
         /\ Idle(phase).phase = phase
         /\ Idle(phase).job \notin Jobs
BY NoJobAssumption DEF Idle

\* What a step does to the table: nothing, one write, or the reaper's UPDATE.
LEMMA TableStep ==
  ASSUME Typed, [Next]_vars
  PROVE  UNCHANGED job \/ ReapExpired \/ \E j \in Jobs : Write(j)
<1> USE DEF Write, Update
<1>1. ASSUME NEW s \in Slots, Executing(s)
      PROVE  slot[s].job \in Jobs
  BY <1>1 DEF Typed, HoldsAJob, Holding, Executing
<1>2. ASSUME NEW s \in Slots, Heartbeat(s)
      PROVE  slot[s].job \in Jobs
  BY <1>2 DEF Typed, HoldsAJob, Heartbeat
<1>3. ASSUME NEW s \in Slots, Loop(s)
      PROVE  UNCHANGED job \/ \E j \in Jobs : Write(j)
  BY <1>1, <1>2, <1>3
     DEF Loop, Check, FindNothing, ClaimThrows, Unpark, Supersede, Complete, Fail, Finish,
         FailThrows, Heartbeat, Stall, Claim
<1>4. ASSUME NEW j \in Jobs, Enqueue(j) \/ Cancel(j) \/ LeaseLapses(j) \/ BeatsMissed(j)
      PROVE  Write(j)
  BY <1>4 DEF Enqueue, Cancel, LeaseLapses, BeatsMissed
<1>5. QED
  BY <1>3, <1>4 DEF Next, vars, Reap, Stop, Crash, Start

\* The table keeps its type.
LEMMA TableTyped ==
  ASSUME Typed, [Next]_vars
  PROVE  job' \in [Jobs -> Row]
BY TableStep, WriteTyped, ReapTyped DEF Typed, TypeOK

\* Every step keeps the types.
LEMMA NextTyped == Typed /\ [Next]_vars => Typed'
<1> SUFFICES ASSUME Typed, [Next]_vars PROVE Typed'
  OBVIOUS
<1>t. job' \in [Jobs -> Row]
  BY TableTyped
<1> USE <1>t DEF Typed, TypeOK
<1>1. ASSUME NEW j \in Jobs, Enqueue(j) \/ Cancel(j) \/ LeaseLapses(j) \/ BeatsMissed(j)
      PROVE  Typed'
  BY <1>1 DEF Enqueue, Cancel, LeaseLapses, BeatsMissed, Fault, HoldsAJob, Holding
<1>2. ASSUME NEW s \in Slots,
             Check(s) \/ FindNothing(s) \/ ClaimThrows(s) \/ Unpark(s) \/ Complete(s)
               \/ Finish(s) \/ FailThrows(s)
      PROVE  Typed'
  <2>1. PICK phase \in {"stopped", "polling", "parked", "checking"} :
          slot' = [slot EXCEPT ![s] = Idle(phase)]
    BY <1>2 DEF Check, FindNothing, ClaimThrows, Unpark, Complete, Finish, FailThrows
  <2>2. faults' \in Nat /\ draining' = draining
    BY <1>2 DEF Check, FindNothing, ClaimThrows, Unpark, Complete, Finish, FailThrows, Fault
  <2>3. phase \in Phases /\ phase \notin {"executing", "finalizing"}
    BY DEF Phases
  <2>4. QED
    BY <2>1, <2>2, <2>3, IdleTyped DEF HoldsAJob, Holding
<1>3. ASSUME NEW s \in Slots, NEW j \in Jobs, Claim(s, j)
      PROVE  Typed'
  <2>1. job[j].attempts + 1 \in Nat
    BY DEF Row
  <2>2. QED
    BY <1>3, <2>1 DEF Claim, HoldsAJob, Holding, Phases
<1>4. ASSUME NEW s \in Slots, Fail(s) \/ Supersede(s) \/ Heartbeat(s) \/ Stall(s)
      PROVE  Typed'
  <2>1. CASE Fail(s)
    <3>1. slot' = [slot EXCEPT ![s].phase = "finalizing"] /\ UNCHANGED <<draining, faults>>
      BY <2>1 DEF Fail
    <3>2. slot' \in [Slots -> [phase: Phases, job: Jobs \cup {NoJob},
                             gen: Nat, beating: BOOLEAN]]
      BY <3>1 DEF Phases
    <3>3. HoldsAJob'
      BY <2>1, <3>1 DEF Fail, Executing, HoldsAJob, Holding
    <3>4. QED
      BY <3>1, <3>2, <3>3
  <2>2. CASE Stall(s)
    <3>1. slot' = [slot EXCEPT ![s].beating = FALSE] /\ draining' = draining /\ faults' \in Nat
      BY <2>2 DEF Stall, Fault
    <3>2. slot' \in [Slots -> [phase: Phases, job: Jobs \cup {NoJob},
                             gen: Nat, beating: BOOLEAN]]
      BY <3>1
    <3>3. HoldsAJob'
      BY <3>1 DEF HoldsAJob, Holding
    <3>4. QED
      BY <3>1, <3>2, <3>3
  <2>3. CASE Supersede(s) \/ Heartbeat(s)
    BY <2>3 DEF Supersede, Heartbeat, HoldsAJob, Holding
  <2>4. QED
    BY <1>4, <2>1, <2>2, <2>3
<1>5. CASE Reap
  BY <1>5 DEF Reap, HoldsAJob, Holding
<1>6. ASSUME NEW p \in Processes, Stop(p)
      PROVE  Typed'
  BY <1>6 DEF Stop, Fault, HoldsAJob, Holding
<1>7. ASSUME NEW p \in Processes, Crash(p) \/ Start(p)
      PROVE  Typed'
  <2>1. PICK phase \in {"down", "checking"} :
          slot' = [s \in Slots |-> IF ProcessOf[s] = p THEN Idle(phase) ELSE slot[s]]
    BY <1>7 DEF Crash, Start
  <2>2. faults' \in Nat /\ draining' \subseteq Processes
    BY <1>7 DEF Crash, Start, Fault
  <2>3. phase \in Phases /\ phase \notin {"executing", "finalizing"}
    BY DEF Phases
  <2>4. QED
    BY <2>1, <2>2, <2>3, IdleTyped DEF HoldsAJob, Holding
<1>8. CASE UNCHANGED vars
  BY <1>8 DEF vars, HoldsAJob, Holding
<1>9. QED
  BY <1>1, <1>2, <1>3, <1>4, <1>5, <1>6, <1>7, <1>8 DEF Next, Loop

\* The variables keep their types, and a slot holds a job of the table exactly
\* while it executes it or recovers its run.
THEOREM TypeCorrect == Spec => []TypeOK
<1>1. Typed => TypeOK
  BY DEF Typed
<1>2. QED
  BY InitTyped, NextTyped, <1>1, PTL DEF Spec
-----------------------------------------------------------------------------
(* One holder per claim *)

\* ClaimHasOneHolder is inductive once the types are known: the counter a claim
\* is named after is larger than every name given before.
OneHolder == Typed /\ ClaimHasOneHolder

\* Slots that hold nothing after the step, or hold what they held, and counters
\* that do not fall keep the invariant.
LEMMA HoldersKept ==
  ASSUME OneHolder, Typed',
         \A j \in Jobs : job'[j].attempts >= job[j].attempts,
         \A s \in Slots : \/ ~Holding(s)'
                          \/ /\ Holding(s)
                             /\ slot'[s].job = slot[s].job
                             /\ slot'[s].gen = slot[s].gen
  PROVE  ClaimHasOneHolder'
<1> USE DEF OneHolder, Typed, TypeOK, HoldsAJob
<1>1. ASSUME NEW s \in Slots, Holding(s)'
      PROVE  slot'[s].gen \in 1..job'[slot'[s].job].attempts
  <2>1. Holding(s) /\ slot'[s].job = slot[s].job /\ slot'[s].gen = slot[s].gen
    BY <1>1
  <2>2. slot[s].gen \in 1..job[slot[s].job].attempts /\ slot[s].job \in Jobs
    BY <2>1 DEF ClaimHasOneHolder
  <2>3. job[slot[s].job].attempts \in Nat /\ job'[slot[s].job].attempts \in Nat
    BY <2>2 DEF Row
  <2>4. QED
    BY <2>1, <2>2, <2>3
<1>2. ASSUME NEW s \in Slots, NEW t \in Slots, Holding(s)', Holding(t)',
             slot'[s].job = slot'[t].job, slot'[s].gen = slot'[t].gen
      PROVE  s = t
  BY <1>2 DEF ClaimHasOneHolder
<1>3. QED
  BY <1>1, <1>2 DEF ClaimHasOneHolder

\* No step lets a counter fall.
LEMMA CountersGrow ==
  ASSUME Typed, [Next]_vars
  PROVE  \A j \in Jobs : job'[j].attempts >= job[j].attempts
<1> USE DEF Typed, TypeOK
<1>1. \A j \in Jobs : job[j].attempts \in Nat
  BY DEF Row
<1>2. ASSUME NEW j \in Jobs, Write(j)
      PROVE  \A k \in Jobs : job'[k].attempts \in {job[k].attempts, job[k].attempts + 1}
  BY <1>2, WriteCounts
<1>3. \A k \in Jobs : job'[k].attempts \in {job[k].attempts, job[k].attempts + 1}
  BY <1>2, TableStep, ReapCounts
<1>4. QED
  BY <1>1, <1>3

\* Every step keeps the holders of the claims apart.
LEMMA NextOneHolder == OneHolder /\ [Next]_vars => OneHolder'
<1> SUFFICES ASSUME OneHolder, [Next]_vars PROVE OneHolder'
  OBVIOUS
<1>t. Typed' /\ \A j \in Jobs : job'[j].attempts >= job[j].attempts
  BY NextTyped, CountersGrow DEF OneHolder
<1> USE DEF OneHolder, Typed, TypeOK
<1> DEFINE Kept == \A s \in Slots : \/ ~Holding(s)'
                                    \/ /\ Holding(s)
                                       /\ slot'[s].job = slot[s].job
                                       /\ slot'[s].gen = slot[s].gen
<1>1. ASSUME NEW s \in Slots, NEW j \in Jobs, Claim(s, j)
      PROVE  ClaimHasOneHolder'
  <2>1. /\ job' = [job EXCEPT ![j] = [status |-> "running", lease |-> "live",
                                      attempts |-> job[j].attempts + 1]]
        /\ slot' = [slot EXCEPT ![s] = [phase |-> "executing", job |-> j,
                                        gen |-> job[j].attempts + 1, beating |-> TRUE]]
    BY <1>1 DEF Claim, Lease
  <2>2. \A k \in Jobs : job[k].attempts \in Nat
    BY DEF Row
  <2>3. ASSUME NEW t \in Slots, Holding(t), t # s
        PROVE  /\ slot[t].job \in Jobs
               /\ slot[t].gen \in 1..job[slot[t].job].attempts
    BY <2>3 DEF ClaimHasOneHolder, HoldsAJob
  <2>4. ASSUME NEW t \in Slots, Holding(t)'
        PROVE  /\ slot'[t].gen \in 1..job'[slot'[t].job].attempts
               /\ slot'[t].job = j /\ slot'[t].gen = job[j].attempts + 1 => t = s
    <3>1. CASE t = s
      BY <2>1, <2>2, <3>1
    <3>2. CASE t # s
      <4>1. Holding(t) /\ slot'[t] = slot[t]
        BY <2>1, <2>4, <3>2 DEF Holding
      <4>2. QED
        BY <2>1, <2>2, <2>3, <3>2, <4>1
    <3>3. QED
      BY <3>1, <3>2
  <2>5. ASSUME NEW t \in Slots, NEW u \in Slots, Holding(t)', Holding(u)',
               slot'[t].job = slot'[u].job, slot'[t].gen = slot'[u].gen
        PROVE  t = u
    <3>1. CASE t = s \/ u = s
      BY <2>1, <2>4, <2>5, <3>1
    <3>2. CASE t # s /\ u # s
      BY <2>1, <2>5, <3>2 DEF Holding, ClaimHasOneHolder
    <3>3. QED
      BY <3>1, <3>2
  <2>6. QED
    BY <2>4, <2>5 DEF ClaimHasOneHolder
<1>2. ASSUME NEW s \in Slots,
             Check(s) \/ FindNothing(s) \/ ClaimThrows(s) \/ Unpark(s) \/ Complete(s)
               \/ Finish(s) \/ FailThrows(s)
      PROVE  Kept
  <2>1. PICK phase \in {"stopped", "polling", "parked", "checking"} :
          slot' = [slot EXCEPT ![s] = Idle(phase)]
    BY <1>2 DEF Check, FindNothing, ClaimThrows, Unpark, Complete, Finish, FailThrows
  <2>2. QED
    BY <2>1 DEF Holding, Idle
<1>3. ASSUME NEW s \in Slots, Fail(s) \/ Stall(s) \/ Supersede(s) \/ Heartbeat(s)
      PROVE  Kept
  BY <1>3 DEF Fail, Stall, Supersede, Heartbeat, Executing, Holding
<1>4. ASSUME NEW p \in Processes, Crash(p) \/ Start(p)
      PROVE  Kept
  <2>1. PICK phase \in {"down", "checking"} :
          slot' = [s \in Slots |-> IF ProcessOf[s] = p THEN Idle(phase) ELSE slot[s]]
    BY <1>4 DEF Crash, Start
  <2>2. QED
    BY <2>1 DEF Holding, Idle
<1>5. ASSUME UNCHANGED slot
      PROVE  Kept
  BY <1>5 DEF Holding
<1>6. Kept => ClaimHasOneHolder'
  BY <1>t, HoldersKept
<1>7. \/ \E s \in Slots, j \in Jobs : Claim(s, j)
      \/ \E s \in Slots : Loop(s) /\ ~\E j \in Jobs : Claim(s, j)
      \/ \E p \in Processes : Crash(p) \/ Start(p)
      \/ UNCHANGED slot
  BY DEF Next, vars, Enqueue, Cancel, LeaseLapses, BeatsMissed, Reap, Stop
<1>8. QED
  BY <1>t, <1>1, <1>2, <1>3, <1>4, <1>5, <1>6, <1>7 DEF Loop

\* However often workers crash, stall or lose a lease, the pair of a job and its
\* attempt counter names at most one slot: it could serve as a fencing token.
THEOREM ClaimHolder == Spec => []ClaimHasOneHolder
<1>1. Init => OneHolder
  BY InitTyped DEF OneHolder, ClaimHasOneHolder, Init, Holding, Idle
<1>2. OneHolder => ClaimHasOneHolder
  BY DEF OneHolder
<1>3. QED
  BY <1>1, <1>2, NextOneHolder, PTL DEF Spec

-----------------------------------------------------------------------------
(* Cancels *)

\* A cancelled row is out of reach of every claim and of the reaper for good.
THEOREM CancelDurable == Spec => CancelIsDurable
<1> DEFINE Kept == \A j \in Jobs : job[j].status = "cancelled"
                                    => job'[j].status \notin {"queued", "running"}
<1>1. Typed /\ [Next]_vars => [Kept]_vars
  <2> SUFFICES ASSUME Typed, [Next]_vars PROVE Kept
    OBVIOUS
  <2> USE DEF Typed, TypeOK
  <2>1. QED
    BY TableStep, WriteKeepsCancel, ReapKeepsCancel
<1>2. QED
  BY InitTyped, NextTyped, <1>1, PTL DEF Spec, CancelIsDurable

-----------------------------------------------------------------------------
(* Exclusive execution *)

\* The invariant of a queue whose live holders keep their leases.
Secured == /\ Typed
           /\ \A s \in Slots : Holding(s) => slot[s].beating
           /\ ExecutingIsLeased
           /\ ExclusiveExecution

\* Nothing holds a job before the first claim.
LEMMA InitSecured == Init => Secured
BY InitTyped DEF Init, Secured, ExecutingIsLeased, ExclusiveExecution, Executing, Holding, Idle

\* With no stall and no missed beats, every step keeps Secured.
LEMMA NextSecured ==
  ASSUME Faults \cap {"stall", "miss"} = {}
  PROVE  Secured /\ [Next]_vars => Secured'
<1> SUFFICES ASSUME Secured, [Next]_vars PROVE Secured'
  OBVIOUS
<1>t. Typed'
  BY NextTyped DEF Secured
<1> USE <1>t DEF Secured
<1>r. job \in [Jobs -> Row] /\ slot \in [Slots -> [phase: Phases, job: Jobs \cup {NoJob},
                                                  gen: Nat, beating: BOOLEAN]]
  BY DEF Typed, TypeOK
<1>h. \A s \in Slots : Executing(s) => slot[s].job \in Jobs
  BY DEF Typed, HoldsAJob, Holding, Executing
<1>1. ASSUME NEW s \in Slots, NEW j \in Jobs, Claim(s, j)
      PROVE  Secured'
  <2>1. /\ job[j].status = "queued"
        /\ job' = [job EXCEPT ![j] = [status |-> "running", lease |-> "live",
                                      attempts |-> job[j].attempts + 1]]
        /\ slot' = [slot EXCEPT ![s] = [phase |-> "executing", job |-> j,
                                        gen |-> job[j].attempts + 1, beating |-> TRUE]]
    BY <1>1 DEF Claim, Lease, Oldest
  <2>2. \A t \in Slots : Executing(t) => slot[t].job # j
    BY <2>1 DEF ExecutingIsLeased
  <2>3. QED
    BY <1>r, <1>h, <2>1, <2>2 DEF ExecutingIsLeased, ExclusiveExecution, Executing, Holding
<1>2. ASSUME NEW s \in Slots,
             Check(s) \/ FindNothing(s) \/ ClaimThrows(s) \/ Unpark(s) \/ Complete(s)
               \/ Finish(s) \/ FailThrows(s)
      PROVE  Secured'
  <2>1. PICK phase \in {"stopped", "polling", "parked", "checking"} :
          slot' = [slot EXCEPT ![s] = Idle(phase)]
    BY <1>2 DEF Check, FindNothing, ClaimThrows, Unpark, Complete, Finish, FailThrows
  <2>2. \A t \in Slots : /\ Executing(t)' => Executing(t) /\ slot'[t].job = slot[t].job
                         /\ Holding(t)' => Holding(t) /\ slot'[t].beating = slot[t].beating
    BY <1>r, <2>1 DEF Executing, Holding, Idle
  <2>3. \/ UNCHANGED job
        \/ \E j \in Jobs : Oldest(j) /\ Lease(j)
        \/ \E j \in Jobs : Settle(j, "done")
    BY <1>2, <1>h DEF Check, FindNothing, ClaimThrows, Unpark, Complete, Finish, FailThrows
  <2>4. \A t \in Slots : Executing(t) => /\ job'[slot[t].job].status \notin {"absent", "queued"}
                                         /\ job'[slot[t].job].lease # "lapsed"
    <3>1. CASE UNCHANGED job
      BY <3>1 DEF ExecutingIsLeased
    <3>2. ASSUME NEW j \in Jobs, Oldest(j), Lease(j)
          PROVE  \A k \in Jobs : job'[k] = job[k] \/ (job'[k].status = "running" /\ job'[k].lease = "live")
      BY <1>r, <3>2 DEF Lease
    <3>3. ASSUME NEW j \in Jobs, Settle(j, "done")
          PROVE  \A k \in Jobs : job'[k] = job[k] \/ (job'[k].status = "done" /\ job'[k].lease = "none")
      BY <1>r, <3>3 DEF Settle, Row
    <3>4. QED
      BY <1>h, <2>3, <3>1, <3>2, <3>3 DEF ExecutingIsLeased
  <2>5. QED
    BY <2>2, <2>4 DEF ExecutingIsLeased, ExclusiveExecution
<1>3. ASSUME NEW s \in Slots, Fail(s)
      PROVE  Secured'
  <2>1. /\ job' = [job EXCEPT ![slot[s].job].status = "failed", ![slot[s].job].lease = "none"]
        /\ slot' = [slot EXCEPT ![s].phase = "finalizing"]
        /\ Executing(s)
    BY <1>3 DEF Fail, Settle
  <2>2. QED
    BY <1>r, <1>h, <2>1 DEF ExecutingIsLeased, ExclusiveExecution, Executing, Holding
<1>4. ASSUME NEW p \in Processes, Crash(p) \/ Start(p)
      PROVE  Secured'
  <2>1. PICK phase \in {"down", "checking"} :
          slot' = [s \in Slots |-> IF ProcessOf[s] = p THEN Idle(phase) ELSE slot[s]]
    BY <1>4 DEF Crash, Start
  <2>2. UNCHANGED job
    BY <1>4 DEF Crash, Start
  <2>3. QED
    BY <2>1, <2>2 DEF ExecutingIsLeased, ExclusiveExecution, Executing, Holding, Idle
<1>5. ASSUME UNCHANGED slot,
             \A s \in Slots : Executing(s) => /\ job'[slot[s].job].status \notin {"absent", "queued"}
                                             /\ job'[slot[s].job].lease # "lapsed"
      PROVE  Secured'
  BY <1>5 DEF ExecutingIsLeased, ExclusiveExecution, Executing, Holding
<1>6. ASSUME NEW j \in Jobs, Enqueue(j) \/ Cancel(j) \/ LeaseLapses(j)
      PROVE  Secured'
  <2>1. UNCHANGED slot
    BY <1>6 DEF Enqueue, Cancel, LeaseLapses
  <2>2. CASE Enqueue(j) \/ Cancel(j)
    <3>1. \A k \in Jobs : \/ job'[k] = job[k]
                         \/ job[k].status = "absent"
                         \/ (job'[k].status = "cancelled" /\ job'[k].lease = "none")
      <4>1. CASE Enqueue(j)
        BY <1>r, <4>1 DEF Enqueue, Insert
      <4>2. CASE Cancel(j)
        BY <1>r, <4>2 DEF Cancel, CancelRow, Settle, Row
      <4>3. QED
        BY <2>2, <4>1, <4>2
    <3>2. QED
      BY <1>5, <1>h, <2>1, <3>1 DEF ExecutingIsLeased
  <2>3. CASE LeaseLapses(j)
    <3>1. \A s \in Slots : Executing(s) => slot[s].job # j
      BY <2>3 DEF LeaseLapses, Beaten, Executing, Holding
    <3>2. QED
      BY <1>5, <1>r, <1>h, <2>1, <2>3, <3>1 DEF LeaseLapses, Lapse, ExecutingIsLeased
  <2>4. QED
    BY <1>6, <2>2, <2>3
<1>7. ASSUME NEW s \in Slots, Supersede(s) \/ Heartbeat(s)
      PROVE  Secured'
  <2>1. CASE Supersede(s)
    BY <2>1 DEF Supersede, CancelQueuedRow, ExecutingIsLeased
  <2>2. CASE Heartbeat(s)
    BY <1>5, <1>r, <1>h, <2>2 DEF Heartbeat, Renew, ExecutingIsLeased
  <2>3. QED
    BY <1>7, <2>1, <2>2
<1>8. CASE Reap
  BY <1>5, <1>8, <1>r, <1>h DEF Reap, ReapExpired, Expired, ExecutingIsLeased
<1>9. ASSUME NEW p \in Processes, Stop(p)
      PROVE  Secured'
  BY <1>5, <1>9 DEF Stop, ExecutingIsLeased
<1>10. CASE UNCHANGED vars
  BY <1>5, <1>10 DEF vars, ExecutingIsLeased
<1>11. /\ \A s \in Slots : ~Stall(s)
       /\ \A j \in Jobs : ~BeatsMissed(j)
  BY DEF Stall, BeatsMissed, Fault
<1>12. QED
  BY <1>1, <1>2, <1>3, <1>4, <1>6, <1>7, <1>8, <1>9, <1>10, <1>11 DEF Next, Loop

\* Unless a holder that lives loses its lease, no two slots execute one job,
\* through any number of crashes, deployments and lost answers.
THEOREM Exclusive ==
  ASSUME Faults \cap {"stall", "miss"} = {}
  PROVE  Spec => []ExclusiveExecution
<1>1. Secured => ExclusiveExecution
  BY DEF Secured
<1>2. Secured /\ [Next]_vars => Secured'
  BY NextSecured
<1>3. QED
  BY InitSecured, <1>1, <1>2, PTL DEF Spec

\* Nor can a claim or the reaper touch the row of a job that is executed.
THEOREM Leased ==
  ASSUME Faults \cap {"stall", "miss"} = {}
  PROVE  Spec => []ExecutingIsLeased
<1>1. Secured => ExecutingIsLeased
  BY DEF Secured
<1>2. Secured /\ [Next]_vars => Secured'
  BY NextSecured
<1>3. QED
  BY InitSecured, <1>1, <1>2, PTL DEF Spec

-----------------------------------------------------------------------------
(* The refinement of Dispatch *)

Runs(s, j) == Executing(s) /\ slot[s].job = j

\* Where the mapping puts a job, without the CHOOSE: the slot that executes a
\* claimed job is the only one.
WellPlaced ==
  \A j \in Jobs :
    /\ job[j].status = "absent"  => Place(j) = "unborn"
    /\ job[j].status = "queued"  => Place(j) = "waiting"
    /\ job[j].status \notin {"absent", "queued", "running"} => Place(j) = "settled"
    /\ (job[j].status = "running" /\ \A s \in Slots : ~Runs(s, j)) => Place(j) = "lost"
    /\ \A s \in Slots : (job[j].status = "running" /\ Runs(s, j)) => Place(j) = s

\* Exclusive execution makes the mapping a function of the state.
LEMMA PlacedWell == Secured => WellPlaced
<1> SUFFICES ASSUME Secured, NEW j \in Jobs
             PROVE  WellPlaced!(j)
  BY DEF WellPlaced
<1>1. CASE job[j].status # "running"
  BY <1>1 DEF Place
<1>2. CASE job[j].status = "running" /\ \A s \in Slots : ~Runs(s, j)
  BY <1>2 DEF Place, Executor, Runs
<1>3. ASSUME NEW s \in Slots, job[j].status = "running", Runs(s, j)
      PROVE  Place(j) = s
  <2>1. Executor(j) = {s}
    BY <1>3 DEF Executor, Runs, Secured, ExclusiveExecution
  <2>2. Place(j) = CHOOSE t \in Executor(j) : TRUE
    BY <1>3, <2>1 DEF Place
  <2>3. QED
    BY <2>1, <2>2
<1>4. QED
  BY <1>1, <1>2, <1>3

\* A job stays in its place if its row keeps its status and its executors stay.
Stays(j) == /\ job'[j].status = job[j].status
            /\ \A s \in Slots : Runs(s, j)' <=> Runs(s, j)

\* Such a job is where it was.
LEMMA StaysPut ==
  ASSUME WellPlaced, WellPlaced', NEW j \in Jobs, Stays(j)
  PROVE  Place(j)' = Place(j)
<1>1. CASE \E s \in Slots : job[j].status = "running" /\ Runs(s, j)
  BY <1>1 DEF Stays, WellPlaced
<1>2. CASE job[j].status = "running" /\ \A s \in Slots : ~Runs(s, j)
  BY <1>2 DEF Stays, WellPlaced
<1>3. CASE job[j].status # "running"
  BY <1>3 DEF Stays, WellPlaced
<1>4. QED
  BY <1>1, <1>2, <1>3

\* The instance's variable.
Placed == [j \in Jobs |-> Place(j)]

\* The steps of a slot that neither claims nor executes, and of the leases,
\* move no job.
LEMMA QuietStep ==
  ASSUME Secured, WellPlaced, WellPlaced',
         \/ \E j \in Jobs : LeaseLapses(j) \/ BeatsMissed(j)
         \/ \E s \in Slots : \/ Check(s) \/ FindNothing(s) \/ Unpark(s) \/ Finish(s)
                             \/ Heartbeat(s) \/ Stall(s)
         \/ \E p \in Processes : Stop(p) \/ Start(p)
         \/ UNCHANGED vars
  PROVE  UNCHANGED Placed
<1> USE DEF Secured, Typed, TypeOK
<1>1. ASSUME NEW j \in Jobs, LeaseLapses(j) \/ BeatsMissed(j)
      PROVE  \A k \in Jobs : Stays(k)
  <2>1. job' = [job EXCEPT ![j].lease = "lapsed"] /\ UNCHANGED slot
    BY <1>1 DEF LeaseLapses, BeatsMissed, Lapse
  <2>2. \A k \in Jobs : job'[k].status = job[k].status
    BY <2>1 DEF Row
  <2>3. QED
    BY <2>1, <2>2 DEF Stays, Runs, Executing
<1>2. ASSUME NEW s \in Slots, Check(s) \/ FindNothing(s) \/ Unpark(s) \/ Finish(s)
      PROVE  \A k \in Jobs : Stays(k)
  <2>1. PICK phase \in {"stopped", "polling", "parked", "checking"} :
          slot' = [slot EXCEPT ![s] = Idle(phase)]
    BY <1>2 DEF Check, FindNothing, Unpark, Finish
  <2>2. UNCHANGED job /\ ~Executing(s)
    BY <1>2 DEF Check, FindNothing, Unpark, Finish, Executing
  <2>3. QED
    BY <2>1, <2>2 DEF Stays, Runs, Executing, Idle
<1>3. ASSUME NEW s \in Slots, Heartbeat(s)
      PROVE  \A k \in Jobs : Stays(k)
  BY <1>3 DEF Heartbeat, Renew, Holding, HoldsAJob, Stays, Runs, Executing
<1>4. ASSUME NEW s \in Slots, Stall(s)
      PROVE  \A k \in Jobs : Stays(k)
  BY <1>4 DEF Stall, Stays, Runs, Executing
<1>5. ASSUME NEW p \in Processes, Start(p)
      PROVE  \A k \in Jobs : Stays(k)
  BY <1>5 DEF Start, Stays, Runs, Executing, Idle
<1>6. ASSUME UNCHANGED <<job, slot>>
      PROVE  \A k \in Jobs : Stays(k)
  BY <1>6 DEF Stays, Runs, Executing
<1>7. \A k \in Jobs : Stays(k)
  BY <1>1, <1>2, <1>3, <1>4, <1>5, <1>6 DEF Stop, vars
<1>8. QED
  BY <1>7, StaysPut DEF Placed

\* A slot that polls has no job, so the dispatcher may give it one.
LEMMA ClaimAssigns ==
  ASSUME Secured, WellPlaced, WellPlaced',
         Slots \cap {"unborn", "waiting", "lost", "settled"} = {},
         NEW s \in Slots, NEW j \in Jobs, Claim(s, j)
  PROVE  D!Assign(j, s)
<1> USE DEF Secured, Typed, TypeOK
<1>1. /\ slot[s].phase = "polling" /\ job[j].status = "queued"
      /\ job' = [job EXCEPT ![j] = [status |-> "running", lease |-> "live",
                                    attempts |-> job[j].attempts + 1]]
      /\ slot' = [slot EXCEPT ![s] = [phase |-> "executing", job |-> j,
                                      gen |-> job[j].attempts + 1, beating |-> TRUE]]
  BY DEF Claim, Lease, Oldest
<1>2. ASSUME NEW k \in Jobs
      PROVE  Place(k) # s
  <2>1. CASE job[k].status # "running" \/ \A t \in Slots : ~Runs(t, k)
    BY <2>1 DEF WellPlaced
  <2>2. ASSUME NEW t \in Slots, job[k].status = "running", Runs(t, k)
        PROVE  Place(k) # s
    BY <1>1, <2>2 DEF WellPlaced, Runs, Executing
  <2>3. QED
    BY <2>1, <2>2
<1>3. \A k \in Jobs \ {j} : Stays(k)
  BY <1>1 DEF Stays, Runs, Executing
<1>4. Place(j) = "waiting"
  BY <1>1 DEF WellPlaced
<1>5. Place(j)' = s
  <2>1. job'[j].status = "running" /\ Runs(s, j)'
    BY <1>1 DEF Runs, Executing
  <2>2. QED
    BY <2>1 DEF WellPlaced
<1>6. Placed' = [k \in Jobs |-> IF k \in {j} THEN s ELSE Placed[k]]
  <2>1. \A k \in Jobs \ {j} : Place(k)' = Place(k)
    BY <1>3, StaysPut
  <2>2. QED
    BY <1>5, <2>1 DEF Placed
<1>7. QED
  BY <1>2, <1>4, <1>6 DEF D!Assign, D!Move, Placed

\* A job that is settled leaves its place, wherever that was.
LEMMA SettleSettles ==
  ASSUME WellPlaced, WellPlaced', NEW j \in Jobs,
         job[j].status # "absent", job'[j].status \in {"done", "failed", "cancelled"},
         Slots \cap {"unborn", "waiting", "lost", "settled"} = {},
         \A k \in Jobs \ {j} : Stays(k)
  PROVE  D!Settle(j)
<1>1. Place(j)' = "settled"
  BY DEF WellPlaced
<1>2. Place(j) # "unborn"
  <2>1. CASE \E s \in Slots : job[j].status = "running" /\ Runs(s, j)
    BY <2>1 DEF WellPlaced
  <2>2. CASE ~\E s \in Slots : job[j].status = "running" /\ Runs(s, j)
    <3>1. Place(j) \in {"waiting", "lost", "settled"}
      BY <2>2 DEF WellPlaced
    <3>2. QED
      BY <3>1
  <2>3. QED
    BY <2>1, <2>2
<1>3. Placed' = [k \in Jobs |-> IF k \in {j} THEN "settled" ELSE Placed[k]]
  <2>1. \A k \in Jobs \ {j} : Place(k)' = Place(k)
    BY StaysPut
  <2>2. QED
    BY <1>1, <2>1 DEF Placed
<1>4. Placed' = [Placed EXCEPT ![j] = "settled"]
  BY <1>3 DEF Placed
<1>5. QED
  BY <1>2, <1>4 DEF D!Settle, Placed

\* Jobs are lost together.
LEMMA LossLoses ==
  ASSUME WellPlaced, WellPlaced', NEW S \in SUBSET Jobs,
         \A j \in S : \/ job[j].status = "queued"
                      \/ job[j].status = "running" /\ \E s \in Slots : Runs(s, j),
         \A j \in S : job'[j].status = "running" /\ \A s \in Slots : ~Runs(s, j)',
         \A j \in Jobs \ S : Stays(j)
  PROVE  D!Lose(S)
<1>1. \A j \in S : Place(j) \in Slots \cup {"waiting"} /\ Place(j)' = "lost"
  BY DEF WellPlaced
<1>2. Placed' = [k \in Jobs |-> IF k \in S THEN "lost" ELSE Placed[k]]
  BY <1>1, StaysPut DEF Placed
<1>3. QED
  BY <1>1, <1>2 DEF D!Lose, Placed

\* Every step of the queue is one of the dispatcher, or none.
LEMMA NextDispatches ==
  ASSUME Slots \cap {"unborn", "waiting", "lost", "settled"} = {},
         Secured, WellPlaced, WellPlaced', [Next]_vars
  PROVE  D!Next \/ UNCHANGED Placed
<1> USE DEF Secured, Typed, TypeOK
<1>h. \A s \in Slots : Executing(s) => slot[s].job \in Jobs
  BY DEF HoldsAJob, Holding, Executing
<1>l. \A s \in Slots, j \in Jobs : Runs(s, j) => /\ job[j].status \notin {"absent", "queued"}
                                                 /\ job[j].lease # "lapsed"
  BY DEF ExecutingIsLeased, Runs
<1>1. ASSUME NEW j \in Jobs, Enqueue(j)
      PROVE  D!Enqueue(j)
  <2>1. /\ job[j].status = "absent" /\ job'[j].status = "queued"
        /\ \A k \in Jobs \ {j} : job'[k] = job[k]
        /\ UNCHANGED slot
    BY <1>1, InsertAdds DEF Enqueue
  <2>2. \A k \in Jobs \ {j} : Place(k)' = Place(k)
    BY <2>1, StaysPut DEF Stays, Runs, Executing
  <2>3. Place(j) = "unborn" /\ Place(j)' = "waiting"
    BY <2>1 DEF WellPlaced
  <2>4. QED
    BY <2>2, <2>3 DEF D!Enqueue, D!Move
<1>2. ASSUME NEW j \in Jobs, Cancel(j)
      PROVE  D!Settle(j)
  <2>1. /\ job[j].status # "absent" /\ job'[j].status = "cancelled"
        /\ \A k \in Jobs \ {j} : job'[k] = job[k]
        /\ UNCHANGED slot
    BY <1>2 DEF Cancel, CancelRow, Settle, Row
  <2>2. \A k \in Jobs \ {j} : Stays(k)
    BY <2>1 DEF Stays, Runs, Executing
  <2>3. QED
    BY <2>1, <2>2, SettleSettles
<1>3. ASSUME NEW s \in Slots, Complete(s) \/ Fail(s)
      PROVE  \E j \in Jobs : D!Settle(j)
  <2>1. PICK j \in Jobs : Runs(s, j) /\ j = slot[s].job
    BY <1>3, <1>h DEF Complete, Fail, Runs
  <2>2. /\ job[j].status # "absent" /\ job'[j].status \in {"done", "failed"}
        /\ \A k \in Jobs \ {j} : job'[k] = job[k]
    BY <1>3, <1>l, <2>1 DEF Complete, Fail, Settle, Row
  <2>3. \A k \in Jobs \ {j} : Stays(k)
    <3>1. \A t \in Slots \ {s} : slot'[t] = slot[t]
      BY <1>3 DEF Complete, Fail
    <3>2. slot'[s].phase # "executing"
      BY <1>3 DEF Complete, Fail, Idle
    <3>3. QED
      BY <2>1, <2>2, <3>1, <3>2 DEF Stays, Runs, Executing
  <2>4. QED
    BY <2>2, <2>3, SettleSettles
<1>4. ASSUME NEW s \in Slots, FailThrows(s)
      PROVE  D!Next \/ UNCHANGED Placed
  <2>1. PICK j \in Jobs : Runs(s, j)
    BY <1>4, <1>h DEF FailThrows, Runs
  <2>2. /\ UNCHANGED job
        /\ \A t \in Slots, k \in Jobs : Runs(t, k)' <=> Runs(t, k) /\ t # s
    BY <1>4 DEF FailThrows, Runs, Executing, Idle
  <2>3. \A t \in Slots : Runs(t, j) => t = s
    BY <2>1 DEF Runs, ExclusiveExecution
  <2>4. \A k \in Jobs \ {j} : Stays(k)
    BY <2>1, <2>2 DEF Stays, Runs
  <2>5. CASE job[j].status = "running"
    <3>1. D!Lose({j})
      BY <2>1, <2>2, <2>3, <2>4, <2>5, LossLoses
    <3>2. QED
      BY <3>1 DEF D!Next
  <2>6. CASE job[j].status # "running"
    <3>1. Place(j)' = Place(j)
      BY <1>l, <2>1, <2>2, <2>6 DEF WellPlaced
    <3>2. QED
      BY <2>4, <3>1, StaysPut DEF Placed
  <2>7. QED
    BY <2>5, <2>6
<1>5. ASSUME NEW s \in Slots, ClaimThrows(s)
      PROVE  D!Next \/ UNCHANGED Placed
  <2>1. \A t \in Slots, k \in Jobs : Runs(t, k)' <=> Runs(t, k)
    BY <1>5 DEF ClaimThrows, Runs, Executing, Idle
  <2>2. CASE UNCHANGED job
    BY <2>1, <2>2, StaysPut DEF Stays, Placed
  <2>3. ASSUME NEW j \in Jobs, Oldest(j), Lease(j)
        PROVE  D!Next
    <3>1. /\ job[j].status = "queued" /\ job'[j].status = "running"
          /\ \A k \in Jobs \ {j} : job'[k] = job[k]
      BY <2>3 DEF Oldest, Lease
    <3>2. D!Lose({j})
      BY <1>l, <2>1, <3>1, LossLoses DEF Stays
    <3>3. QED
      BY <3>2 DEF D!Next
  <2>4. QED
    BY <1>5, <2>2, <2>3 DEF ClaimThrows
<1>6. ASSUME NEW p \in Processes, Crash(p)
      PROVE  D!Next
  <2> DEFINE S == {j \in Jobs : /\ job[j].status = "running"
                                /\ \E s \in Slots : Runs(s, j) /\ ProcessOf[s] = p}
  <2>1. /\ UNCHANGED job
        /\ \A t \in Slots, k \in Jobs : Runs(t, k)' <=> Runs(t, k) /\ ProcessOf[t] # p
    BY <1>6 DEF Crash, Runs, Executing, Idle
  <2>2. \A t, u \in Slots, k \in Jobs : Runs(t, k) /\ Runs(u, k) => t = u
    BY DEF Runs, ExclusiveExecution
  <2>3. ASSUME NEW k \in Jobs \ S
        PROVE  Place(k)' = Place(k)
    <3>1. CASE job[k].status = "running"
      BY <2>1, <2>3, <3>1, StaysPut DEF Stays
    <3>2. CASE job[k].status # "running"
      BY <2>1, <3>2 DEF WellPlaced
    <3>3. QED
      BY <3>1, <3>2
  <2>4. \A k \in S : Place(k) \in Slots /\ Place(k)' = "lost"
    BY <2>1, <2>2 DEF WellPlaced
  <2>5. D!Lose(S)
    BY <2>3, <2>4 DEF D!Lose
  <2>6. QED
    BY <2>5 DEF D!Next
<1>7. CASE Reap
  <2> DEFINE S == {j \in Jobs : Expired(j)}
  <2>1. /\ \A j \in S : job[j].status = "running" /\ job'[j].status = "queued"
        /\ \A j \in Jobs \ S : job'[j] = job[j]
        /\ UNCHANGED slot
    BY <1>7 DEF Reap, ReapExpired, Expired, Row
  <2>2. \A j \in S : Place(j) = "lost" /\ Place(j)' = "waiting"
    BY <1>l, <2>1 DEF WellPlaced, Expired
  <2>3. \A j \in Jobs \ S : Place(j)' = Place(j)
    BY <2>1, StaysPut DEF Stays, Runs, Executing
  <2>4. D!Recover(S)
    BY <2>2, <2>3 DEF D!Recover, D!Move
  <2>5. QED
    BY <2>4 DEF D!Next
<1>8. ASSUME NEW s \in Slots
      PROVE  ~Supersede(s)
  BY <1>h, <1>l DEF Supersede, CancelQueuedRow, Runs
<1>9. ASSUME NEW s \in Slots, NEW j \in Jobs, Claim(s, j)
      PROVE  D!Next
  BY <1>9, ClaimAssigns DEF D!Next
<1>10. QED
  BY <1>1, <1>2, <1>3, <1>4, <1>5, <1>6, <1>7, <1>8, <1>9, QuietStep DEF Next, Loop, D!Next

\* The queue with its leases, reaper and restarting workers implements the
\* dispatcher, for any number of jobs, slots, processes, crashes, drains and lost
\* answers: what waits is given to one worker, what is lost waits again.
THEOREM Dispatches ==
  ASSUME Faults \cap {"stall", "miss"} = {},
         Slots \cap {"unborn", "waiting", "lost", "settled"} = {}
  PROVE  Spec => ImplementsDispatch
<1>1. Init => D!Init
  <2>1. Init => WellPlaced
    BY InitSecured, PlacedWell
  <2>2. QED
    BY <2>1 DEF Init, JobsInit, WellPlaced, D!Init
<1>2. Secured /\ [Next]_vars => Secured'
  BY NextSecured
<1>3. Secured /\ WellPlaced /\ WellPlaced' /\ [Next]_vars => [D!Next]_Placed
  BY NextDispatches
<1>4. QED
  BY InitSecured, PlacedWell, <1>1, <1>2, <1>3, PTL DEF Spec, ImplementsDispatch, D!Spec, Placed
=============================================================================
