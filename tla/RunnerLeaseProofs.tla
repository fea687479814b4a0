------------------------- MODULE RunnerLeaseProofs -------------------------
(***************************************************************************)
(* What holds of the sandboxes for every number of runs, workers, calls    *)
(* and faults: whatever the service created is filed or in the hands of a  *)
(* call, a first claim keeps the sandbox it was given, and the whole       *)
(* implements Custody.                                                     *)
(***************************************************************************)
EXTENDS RunnerLeaseCustody, JobTableProofs

(* Types, and which call works for which worker *)

RowType    == [live: BOOLEAN, box: Nat, aged: BOOLEAN]
WorkerType == [at: WorkerSteps, run: Runs \cup {NoRun}]
CallType   == [at: Allocating \cup Releasing \cup {"free"},
               run: Runs \cup {NoRun}, by: Workers \cup {Nobody}, box: Nat]

Workers_OK == /\ worker \in [Workers -> WorkerType]
              /\ \A w \in Workers : worker[w].at = "idle" <=> worker[w].run = NoRun
Calls_OK   == /\ call \in [Calls -> CallType]
              /\ \A c \in Calls : call[c].at = "free" <=> call[c].run = NoRun
Sandbox_OK == /\ row \in [Runs -> RowType]
              /\ box \in [Runs -> Nat]
              /\ made \in [Runs -> Nat]
              /\ disk \in [Runs -> BOOLEAN]
Rest_OK    == /\ stuck \subseteq Runs
              /\ struck \subseteq Runs
              /\ faults \in 0..MaxFaults
Runs_OK    == job \in [Jobs -> Row] /\ run \in [Runs -> RunStatuses]

\* A call whose caller waits for it is the only one that caller waits for.
Paired ==
  /\ call[Sweep].by = Nobody
  /\ \A c \in Calls : /\ Serves(c, "free") => call[c].by = Nobody
                      /\ call[c].by # Nobody =>
                           /\ Of(call[c].by) = For(c)
                           /\ call[c].at \in Allocating => At(call[c].by, "allocating")
                           /\ call[c].at \in Releasing => At(call[c].by, "releasing")
  /\ \A c, d \in Calls : call[c].by = call[d].by /\ call[c].by # Nobody => c = d

LEMMA TypeParts ==
  /\ TypeOK <=> Workers_OK /\ Calls_OK /\ Sandbox_OK /\ Rest_OK /\ Runs_OK
  /\ TypeOK' <=> Workers_OK' /\ Calls_OK' /\ Sandbox_OK' /\ Rest_OK' /\ Runs_OK'
BY DEF TypeOK, Workers_OK, Calls_OK, Sandbox_OK, Rest_OK, Runs_OK, RowType, WorkerType, CallType

\* A call that works for a run is one of the calls of a run.
LEMMA Serving ==
  ASSUME Calls_OK, NEW c \in Calls, call[c].at # "free"
  PROVE  For(c) \in Runs
BY NoRunAssumption DEF Calls_OK, CallType, For

LEMMA Employed ==
  ASSUME Workers_OK, NEW w \in Workers, ~At(w, "idle")
  PROVE  Of(w) \in Runs
BY NoRunAssumption DEF Workers_OK, WorkerType, Of, At

LEMMA ProceedPaired ==
  ASSUME Workers_OK, Calls_OK, Paired, NEW c \in Calls, NEW step, NEW n \in Nat,
         \/ call[c].at \in Allocating /\ step \in Allocating
         \/ call[c].at \in Releasing /\ step \in Releasing,
         Proceed(c, step) \/ call' = [call EXCEPT ![c].at = step, ![c].box = n],
         UNCHANGED worker
  PROVE  Workers_OK' /\ Calls_OK' /\ Paired'
<1>1. /\ \A d \in Calls : /\ call'[d].run = call[d].run
                          /\ call'[d].by = call[d].by
                          /\ d # c => call'[d] = call[d]
      /\ call'[c].at = step
      /\ call' \in [Calls -> CallType]
  BY DEF Calls_OK, CallType, Proceed
<1>2. step # "free" /\ call[c].at # "free"
  BY DEF Allocating, Releasing
<1>3. Calls_OK'
  BY <1>1, <1>2 DEF Calls_OK
<1>4. Sweep \in Calls
  BY DEF Calls
<1>5. Paired'
  BY <1>1, <1>2, <1>4 DEF Paired, Serves, For, Of, At, Allocating, Releasing
<1>6. Workers_OK'
  BY DEF Workers_OK
<1> QED
  BY <1>3, <1>5, <1>6

LEMMA AnswerPaired ==
  ASSUME Workers_OK, Calls_OK, Paired, NEW c \in Calls, NEW step \in WorkerSteps \ {"idle"},
         call[c].at # "free", Answer(c, step)
  PROVE  Workers_OK' /\ Calls_OK' /\ Paired'
<1>1. Free \in CallType
  BY DEF Free, CallType
<1>2. call' = [call EXCEPT ![c] = Free]
  BY DEF Answer
<1>3. /\ call' \in [Calls -> CallType]
      /\ call'[c] = Free
      /\ \A d \in Calls \ {c} : call'[d] = call[d]
  BY <1>1, <1>2 DEF Calls_OK
<1>4. Free.at = "free" /\ Free.run = NoRun /\ Free.by = Nobody
  BY DEF Free
<1>5. Calls_OK'
  BY <1>3, <1>4 DEF Calls_OK
<1>6. worker' = [w \in Workers |-> IF w = call[c].by THEN [worker[w] EXCEPT !.at = step] ELSE worker[w]]
  BY DEF Answer, Answered
<1>7. \A w \in Workers : w = call[c].by => ~At(w, "idle")
  BY CallsAssumption DEF Paired, Calls_OK, CallType, At, Allocating, Releasing
<1>8. \A w \in Workers : /\ worker'[w].run = worker[w].run
                         /\ w # call[c].by => worker'[w] = worker[w]
                         /\ w = call[c].by => worker'[w].at = step
                         /\ worker'[w] \in WorkerType
  BY <1>6 DEF Workers_OK, WorkerType
<1>9. Workers_OK'
  <2>1. worker' \in [Workers -> WorkerType]
    BY <1>6, <1>8
  <2>2. \A w \in Workers : worker'[w].at = "idle" <=> worker'[w].run = NoRun
    BY <1>7, <1>8 DEF Workers_OK, At
  <2> QED
    BY <2>1, <2>2 DEF Workers_OK
<1>10. \A d \in Calls : call'[d].by # Nobody =>
          d # c /\ call'[d] = call[d] /\ call[d].by \in Workers /\ call[d].by # call[c].by
  BY <1>3, <1>4 DEF Paired, Calls_OK, CallType
<1>11. Paired'
  <2>1. call'[Sweep].by = Nobody
    BY <1>3, <1>4 DEF Paired, Calls
  <2>2. ASSUME NEW d \in Calls
        PROVE  /\ Serves(d, "free")' => call'[d].by = Nobody
               /\ call'[d].by # Nobody =>
                    /\ Of(call[d].by)' = For(d)'
                    /\ call'[d].at \in Allocating => At(call[d].by, "allocating")'
                    /\ call'[d].at \in Releasing => At(call[d].by, "releasing")'
                    /\ call'[d].by = call[d].by
    BY <1>3, <1>4, <1>8, <1>10 DEF Paired, Serves, For, Of, At
  <2>3. \A d, e \in Calls : call'[d].by = call'[e].by /\ call'[d].by # Nobody => d = e
    BY <1>10 DEF Paired
  <2> QED
    BY <2>1, <2>2, <2>3 DEF Paired, Serves, For, Of, At
<1> QED
  BY <1>5, <1>9, <1>11

\* A worker moves on and no call is waited for.
LEMMA MovePaired ==
  ASSUME Workers_OK, Calls_OK, Paired, NEW w \in Workers,
         worker[w].at \notin {"allocating", "releasing"},
         NEW s \in WorkerType, s.at = "idle" <=> s.run = NoRun,
         worker' = [worker EXCEPT ![w] = s], UNCHANGED call
  PROVE  Workers_OK' /\ Calls_OK' /\ Paired'
<1>1. Workers_OK'
  BY DEF Workers_OK
<1>2. \A c \in Calls : call[c].by # w
  BY CallsAssumption DEF Paired, Calls_OK, CallType, Serves, At
<1>3. \A v \in Workers \ {w} : worker'[v] = worker[v]
  BY DEF Workers_OK
<1>4. Paired'
  BY <1>2, <1>3 DEF Paired, Serves, For, Of, At, Calls_OK, CallType
<1> QED
  BY <1>1, <1>4 DEF Calls_OK

\* GoTo is such a move.
LEMMA GoToMoves ==
  ASSUME Workers_OK, NEW w \in Workers, ~At(w, "idle"),
         NEW step \in WorkerSteps \ {"idle"}, GoTo(w, step)
  PROVE  \E s \in WorkerType : /\ s.at = "idle" <=> s.run = NoRun
                               /\ s.run = Of(w) /\ s.at = step
                               /\ worker' = [worker EXCEPT ![w] = s]
<1> DEFINE s == [worker[w] EXCEPT !.at = step]
<1>1. s \in WorkerType /\ s.at = step /\ s.run = worker[w].run
  BY DEF Workers_OK, WorkerType
<1>2. worker' = [worker EXCEPT ![w] = s]
  BY DEF GoTo
<1>3. worker[w].run # NoRun
  BY DEF Workers_OK, At
<1> HIDE DEF s
<1> QED
  BY <1>1, <1>2, <1>3 DEF Of

\* A free call is opened for the run of a worker who waits for it, or by the
\* sweeper for nobody.
LEMMA OpenPaired ==
  ASSUME Workers_OK, Calls_OK, Paired, NEW c \in Requests, NEW w \in Workers,
         At(w, "claimed") \/ At(w, "leaving"),
         NEW step, NEW wait,
         \/ step \in Allocating /\ wait = "allocating"
         \/ step \in Releasing /\ wait = "releasing",
         Opened(c, Of(w), w, step), GoTo(w, wait)
  PROVE  Workers_OK' /\ Calls_OK' /\ Paired'
<1> DEFINE open == [at |-> step, run |-> Of(w), by |-> w, box |-> 0]
<1>1. Of(w) \in Runs /\ w # Nobody /\ Of(w) # NoRun
  BY Employed, CallsAssumption, NoRunAssumption DEF At
<1>2. /\ open \in CallType
      /\ open.at = step /\ open.run = Of(w) /\ open.by = w
  BY <1>1 DEF CallType
<1>3. call' = [call EXCEPT ![c] = open] /\ call[c].at = "free" /\ c \in Calls /\ c # Sweep
  BY CallsAssumption DEF Opened, Calls
<1> HIDE DEF open
<1>4. /\ call' \in [Calls -> CallType]
      /\ call'[c] = open
      /\ \A d \in Calls \ {c} : call'[d] = call[d]
  BY <1>2, <1>3 DEF Calls_OK
<1>5. step # "free"
  BY DEF Allocating, Releasing
<1>6. Calls_OK'
  BY <1>1, <1>2, <1>4, <1>5 DEF Calls_OK
<1>7. ~At(w, "idle") /\ wait \in WorkerSteps \ {"idle"}
  BY DEF At, WorkerSteps
<1>8. PICK s \in WorkerType : /\ s.at = "idle" <=> s.run = NoRun
                              /\ s.run = Of(w) /\ s.at = wait
                              /\ worker' = [worker EXCEPT ![w] = s]
  BY <1>7, GoToMoves
<1>9. /\ worker' \in [Workers -> WorkerType]
      /\ worker'[w] = s
      /\ \A v \in Workers \ {w} : worker'[v] = worker[v]
  BY <1>8 DEF Workers_OK
<1>10. Workers_OK'
  BY <1>8, <1>9 DEF Workers_OK
<1>11. \A d \in Calls : call[d].by # w
  BY CallsAssumption DEF Paired, Calls_OK, CallType, Serves, At
<1>12. Paired'
  <2>1. call'[Sweep].by = Nobody
    BY <1>3, <1>4 DEF Paired, Calls
  <2>2. ASSUME NEW d \in Calls
        PROVE  /\ call'[d].at = "free" => call'[d].by = Nobody
               /\ call'[d].by # Nobody =>
                    /\ worker'[call'[d].by].run = call'[d].run
                    /\ call'[d].at \in Allocating => worker'[call'[d].by].at = "allocating"
                    /\ call'[d].at \in Releasing => worker'[call'[d].by].at = "releasing"
    <3>1. CASE d = c
      BY <1>2, <1>4, <1>5, <1>8, <1>9, <3>1 DEF Allocating, Releasing
    <3>2. CASE d # c
      BY <1>4, <1>9, <1>11, <3>2 DEF Paired, Calls_OK, CallType, Serves, For, Of, At
    <3> QED
      BY <3>1, <3>2
  <2>3. \A d, e \in Calls : call'[d].by = call'[e].by /\ call'[d].by # Nobody => d = e
    BY <1>2, <1>4, <1>11 DEF Paired
  <2> QED
    BY <2>1, <2>2, <2>3 DEF Paired, Serves, For, Of, At
<1> QED
  BY <1>6, <1>10, <1>12

\* A worker who is gone, or takes its call for lost, waits for no call.
LEMMA AbandonPaired ==
  ASSUME Workers_OK, Calls_OK, Paired, NEW w \in Workers, Abandon(w),
         NEW s \in WorkerType, s.at = "idle" <=> s.run = NoRun,
         worker' = [worker EXCEPT ![w] = s]
  PROVE  Workers_OK' /\ Calls_OK' /\ Paired'
<1>1. Workers_OK'
  BY DEF Workers_OK
<1>2. \A c \in Calls : [call[c] EXCEPT !.by = Nobody] \in CallType
  BY DEF Calls_OK, CallType
<1>3. /\ call' \in [Calls -> CallType]
      /\ \A c \in Calls : /\ call'[c].at = call[c].at
                          /\ call'[c].run = call[c].run
                          /\ call'[c].by = IF call[c].by = w THEN Nobody ELSE call[c].by
  BY <1>2 DEF Abandon, Calls_OK, CallType
<1>4. Calls_OK'
  BY <1>3 DEF Calls_OK
<1>5. \A v \in Workers \ {w} : worker'[v] = worker[v]
  BY DEF Workers_OK
<1>6. Paired'
  <2>1. call'[Sweep].by = Nobody
    BY <1>3 DEF Paired, Calls
  <2>2. \A d \in Calls :
          /\ call'[d].at = "free" => call'[d].by = Nobody
          /\ call'[d].by # Nobody =>
               /\ worker'[call'[d].by].run = call'[d].run
               /\ call'[d].at \in Allocating => worker'[call'[d].by].at = "allocating"
               /\ call'[d].at \in Releasing => worker'[call'[d].by].at = "releasing"
    BY <1>3, <1>5 DEF Paired, Calls_OK, CallType, Serves, For, Of, At
  <2>3. \A d, e \in Calls : call'[d].by = call'[e].by /\ call'[d].by # Nobody => d = e
    BY <1>3 DEF Paired
  <2> QED
    BY <2>1, <2>2, <2>3 DEF Paired, Serves, For, Of, At
<1> QED
  BY <1>1, <1>4, <1>6

LEMMA FaultTyped ==
  ASSUME Rest_OK, NEW kind, Fault(kind)
  PROVE  faults' \in 0..MaxFaults
BY FaultsAssumption DEF Rest_OK, Fault

\* Nobody but workers and calls move.
LEMMA OthersTyped ==
  ASSUME TypeOK, Paired,
         \/ \E r \in Jobs : Enqueue(r) \/ LeaseLapses(r) \/ ResumePaused(r) \/ CancelRun(r)
         \/ Reap \/ Archive \/ \E r \in Runs : Age(r)
         \/ List
  PROVE  TypeOK' /\ Paired'
<1> USE TypeParts
<1>1. UNCHANGED <<worker, call>>
  BY DEF Enqueue, LeaseLapses, ResumePaused, CancelRun, Reap, Archive, Age, List
<1>2. Workers_OK' /\ Calls_OK' /\ Paired'
  BY <1>1 DEF Workers_OK, Calls_OK, Paired, Serves, For, Of, At
<1>3. CASE \E r \in Jobs : Enqueue(r) \/ LeaseLapses(r) \/ ResumePaused(r)
  <2>1. job' \in [Jobs -> Row]
    BY <1>3, WriteTyped DEF Runs_OK, Enqueue, LeaseLapses, ResumePaused, Write, Update
  <2>2. run' \in [Runs -> RunStatuses]
    BY <1>3 DEF Runs_OK, Enqueue, LeaseLapses, ResumePaused, RunStatuses
  <2>3. Sandbox_OK' /\ Rest_OK'
    BY <1>3 DEF Sandbox_OK, Rest_OK, Enqueue, LeaseLapses, ResumePaused, sandbox
  <2> QED
    BY <1>2, <2>1, <2>2, <2>3 DEF Runs_OK
<1>4. ASSUME NEW r \in Jobs, CancelRun(r)
      PROVE  TypeOK' /\ Paired'
  <2>1. job' \in [Jobs -> Row]
    BY <1>4, WriteTyped DEF Runs_OK, CancelRun, Reaped, Write, Update
  <2>2. run' \in [Runs -> RunStatuses]
    BY <1>4 DEF Runs_OK, CancelRun, RunStatuses
  <2>3. Sandbox_OK'
    BY <1>4 DEF Sandbox_OK, CancelRun, RowType
  <2>4. Rest_OK'
    BY <1>4 DEF Rest_OK, CancelRun, Runs
  <2> QED
    BY <1>2, <2>1, <2>2, <2>3, <2>4 DEF Runs_OK
<1>5. CASE Reap
  BY <1>2, <1>5, ReapTyped DEF Runs_OK, Sandbox_OK, Rest_OK, Reap, sandbox
<1>6. CASE Archive
  <2>1. run' \in [Runs -> RunStatuses]
    BY <1>6 DEF Runs_OK, Archive, RunStatuses
  <2> QED
    BY <1>2, <1>6, <2>1 DEF Runs_OK, Sandbox_OK, Rest_OK, Archive, sandbox
<1>7. CASE \E r \in Runs : Age(r)
  <2>1. Sandbox_OK'
    BY <1>7 DEF Sandbox_OK, Age, RowType
  <2> QED
    BY <1>2, <1>7, <2>1 DEF Runs_OK, Rest_OK, Age
<1>8. CASE List
  BY <1>2, <1>8 DEF Runs_OK, Sandbox_OK, Rest_OK, List, sandbox
<1> QED
  BY <1>3, <1>4, <1>5, <1>6, <1>7, <1>8

LEMMA ClaimTyped ==
  ASSUME TypeOK, Paired, NEW w \in Workers, NEW r \in Jobs, Claim(w, r)
  PROVE  TypeOK' /\ Paired'
<1> USE TypeParts
<1> DEFINE s == [at |-> "claimed", run |-> r]
<1>1. s \in WorkerType /\ s.at = "claimed" /\ s.run = r /\ r # NoRun
  BY NoRunAssumption DEF WorkerType, WorkerSteps, Runs
<1>2. worker' = [worker EXCEPT ![w] = s] /\ worker[w].at = "idle" /\ UNCHANGED call
  BY DEF Claim, At
<1> HIDE DEF s
<1>3. Workers_OK' /\ Calls_OK' /\ Paired'
  BY <1>1, <1>2, MovePaired
<1>4. job' \in [Jobs -> Row]
  BY WriteTyped DEF Claim, Write, Update, Runs_OK
<1> QED
  BY <1>3, <1>4 DEF Claim, Runs_OK, Sandbox_OK, Rest_OK, sandbox

LEMMA WorkTyped ==
  ASSUME TypeOK, Paired, NEW w \in Workers,
         \/ Work(w) \/ RecordReleaseFails(w)
         \/ Crash(w) \/ Stall(w) \/ LoseAnswer(w)
  PROVE  TypeOK' /\ Paired'
<1> USE TypeParts
<1>1. \A step \in WorkerSteps \ {"idle"} :
        /\ ~At(w, "idle") /\ ~At(w, "allocating") /\ ~At(w, "releasing")
        /\ GoTo(w, step) /\ UNCHANGED call
        => Workers_OK' /\ Calls_OK' /\ Paired'
  BY GoToMoves, MovePaired DEF At
<1>2. /\ Idle \in WorkerType /\ Idle.at = "idle" /\ Idle.run = NoRun
      /\ Leave(w) => worker' = [worker EXCEPT ![w] = Idle]
  BY DEF Idle, WorkerType, WorkerSteps, Leave
<1>3. ASSUME NEW c \in Requests, RequestSandbox(w, c) \/ RequestRelease(w, c)
      PROVE  TypeOK' /\ Paired'
  <2>1. Workers_OK' /\ Calls_OK' /\ Paired'
    BY <1>3, OpenPaired DEF RequestSandbox, RequestRelease, Allocating, Releasing
  <2> QED
    BY <1>3, <2>1 DEF RequestSandbox, RequestRelease, Runs_OK, Sandbox_OK, Rest_OK, sandbox
<1>4. CASE RecordAllocated(w)
  <2>1. Workers_OK' /\ Calls_OK' /\ Paired'
    BY <1>1, <1>4 DEF RecordAllocated, At, WorkerSteps
  <2> QED
    BY <1>4, <2>1, FaultTyped DEF RecordAllocated, Runs_OK, Sandbox_OK, Rest_OK, sandbox
<1>5. CASE Finish(w)
  <2>1. Workers_OK' /\ Calls_OK' /\ Paired'
    BY <1>1, <1>5 DEF Finish, At, WorkerSteps
  <2>2. run' \in [Runs -> RunStatuses]
    BY <1>5 DEF Finish, Runs_OK, RunStatuses
  <2> QED
    BY <1>5, <2>1, <2>2 DEF Finish, Runs_OK, Sandbox_OK, Rest_OK, sandbox
<1>6. CASE RecordReleaseFails(w)
  <2>1. Workers_OK' /\ Calls_OK' /\ Paired'
    BY <1>1, <1>6 DEF RecordReleaseFails, At, WorkerSteps
  <2> QED
    BY <1>6, <2>1, FaultTyped DEF RecordReleaseFails, Runs_OK, Sandbox_OK, Rest_OK, sandbox
<1>7. CASE Mirror(w)
  <2>1. Workers_OK' /\ Calls_OK' /\ Paired'
    BY <1>1, <1>7 DEF Mirror, At, WorkerSteps
  <2>2. Of(w) \in Runs
    BY <1>7, Employed DEF Mirror, At
  <2>3. Sandbox_OK' /\ Rest_OK'
    BY <1>7, <2>2 DEF Mirror, Sandbox_OK, Rest_OK, RowType
  <2> QED
    BY <1>7, <2>1, <2>3 DEF Mirror, Runs_OK
<1>8. CASE Complete(w) \/ FailJob(w)
  <2>1. Workers_OK' /\ Calls_OK' /\ Paired'
    <3>1. CASE Complete(w)
      BY <1>2, <3>1, MovePaired DEF Complete, At
    <3>2. CASE FailJob(w)
      BY <1>1, <3>2 DEF FailJob, At, WorkerSteps
    <3> QED
      BY <1>8, <3>1, <3>2
  <2>2. Of(w) \in Jobs
    BY <1>8, Employed DEF Complete, FailJob, At, Runs
  <2>3. job' \in [Jobs -> Row]
    BY <1>8, <2>2, WriteTyped DEF Complete, FailJob, Write, Update, Runs_OK
  <2> QED
    BY <1>8, <2>1, <2>3 DEF Complete, FailJob, Runs_OK, Sandbox_OK, Rest_OK, sandbox
<1>9. CASE FinalizeRun(w)
  <2>1. Workers_OK' /\ Calls_OK' /\ Paired'
    BY <1>2, <1>9, MovePaired DEF FinalizeRun, At
  <2>2. run' \in [Runs -> RunStatuses]
    BY <1>9 DEF FinalizeRun, Runs_OK, RunStatuses
  <2> QED
    BY <1>9, <2>1, <2>2 DEF FinalizeRun, Runs_OK, Sandbox_OK, Rest_OK, sandbox
<1>10. CASE Crash(w)
  <2>1. Workers_OK' /\ Calls_OK' /\ Paired'
    BY <1>2, <1>10, AbandonPaired DEF Crash
  <2> QED
    BY <1>10, <2>1, FaultTyped DEF Crash, Runs_OK, Sandbox_OK, Rest_OK, sandbox
<1>11. CASE Stall(w)
  <2>1. Of(w) \in Jobs
    BY <1>11, Employed DEF Stall, Runs
  <2>2. job' \in [Jobs -> Row]
    BY <1>11, <2>1, WriteTyped DEF Stall, Write, Update, Runs_OK
  <2> QED
    BY <1>11, <2>2, FaultTyped
       DEF Stall, Runs_OK, Sandbox_OK, Rest_OK, sandbox, Workers_OK, Calls_OK, Paired, Serves, For, Of, At
<1>12. CASE LoseAnswer(w)
  <2>1. ~At(w, "idle") /\ (GoTo(w, "raw") \/ GoTo(w, "done")) /\ Abandon(w)
    BY <1>12 DEF LoseAnswer, At
  <2>2. PICK s \in WorkerType : /\ s.at = "idle" <=> s.run = NoRun
                                /\ worker' = [worker EXCEPT ![w] = s]
    BY <2>1, GoToMoves DEF WorkerSteps
  <2>3. Workers_OK' /\ Calls_OK' /\ Paired'
    BY <2>1, <2>2, AbandonPaired
  <2> QED
    BY <1>12, <2>3, FaultTyped DEF LoseAnswer, Runs_OK, Sandbox_OK, Rest_OK, sandbox
<1> QED
  BY <1>3, <1>4, <1>5, <1>6, <1>7, <1>8, <1>9, <1>10, <1>11, <1>12 DEF Work

LEMMA ServeTyped ==
  ASSUME TypeOK, Paired, NEW c \in Calls,
         Serve(c) \/ BootFails(c) \/ WriteFails(c) \/ DockerFails(c) \/ DockerUnheard(c)
  PROVE  TypeOK' /\ Paired'
<1> USE TypeParts
<1>1. call[c].at # "free" /\ For(c) \in Runs /\ call[c].box \in Nat
  <2>1. call[c].at # "free" /\ call[c].box \in Nat
    BY DEF Serve, Look, CreateVolumes, CreateContainer, Start, InsertRow, Record, Undo, Clear,
           Mark, Stop, Wipe, BootFails, WriteFails, DockerFails, DockerUnheard, Serves, Calls_OK, CallType
  <2> QED
    BY <2>1, Serving
<1>2. \A step : /\ \/ call[c].at \in Allocating /\ step \in Allocating
                   \/ call[c].at \in Releasing /\ step \in Releasing
                /\ Proceed(c, step) /\ UNCHANGED worker
                => Workers_OK' /\ Calls_OK' /\ Paired'
  BY ProceedPaired
<1>3. \A step \in WorkerSteps \ {"idle"} :
        Answer(c, step) => Workers_OK' /\ Calls_OK' /\ Paired'
  BY <1>1, AnswerPaired
<1>4. CASE Look(c) \/ Record(c)
  <2>1. Workers_OK' /\ Calls_OK' /\ Paired'
    BY <1>2, <1>3, <1>4 DEF Look, Record, Serves, Allocating, WorkerSteps
  <2> QED
    BY <1>4, <2>1 DEF Look, Record, Runs_OK, Sandbox_OK, Rest_OK, sandbox
<1>5. CASE CreateVolumes(c) \/ Start(c)
  <2>1. Workers_OK' /\ Calls_OK' /\ Paired'
    BY <1>2, <1>5 DEF CreateVolumes, Start, Serves, Allocating
  <2> QED
    BY <1>1, <1>5, <2>1 DEF CreateVolumes, Start, Runs_OK, Sandbox_OK, Rest_OK, sandbox
<1>6. CASE CreateContainer(c)
  <2>1. made[For(c)] + 1 \in Nat
    BY <1>1 DEF Sandbox_OK
  <2>2. call[c].at \in Allocating /\ UNCHANGED worker
    BY <1>6 DEF CreateContainer, Serves, Allocating
  <2>3. Workers_OK' /\ Calls_OK' /\ Paired'
    <3>1. CASE box[For(c)] # 0
      BY <1>2, <1>6, <2>2, <3>1 DEF CreateContainer, Allocating
    <3>2. CASE box[For(c)] = 0
      BY <1>6, <2>1, <2>2, <3>2, ProceedPaired DEF CreateContainer, Allocating
    <3> QED
      BY <3>1, <3>2
  <2>4. Sandbox_OK'
    BY <1>1, <1>6, <2>1 DEF CreateContainer, Create, Sandbox_OK
  <2> QED
    BY <1>6, <2>3, <2>4 DEF CreateContainer, Runs_OK, Rest_OK
<1>7. CASE InsertRow(c)
  <2>1. Workers_OK' /\ Calls_OK' /\ Paired'
    BY <1>2, <1>7 DEF InsertRow, Serves, Allocating
  <2>2. [live |-> TRUE, box |-> call[c].box, aged |-> FALSE] \in RowType
    BY <1>1 DEF RowType
  <2>3. Sandbox_OK'
    BY <1>1, <1>7, <2>2 DEF InsertRow, Sandbox_OK
  <2> QED
    BY <1>7, <2>1, <2>3 DEF InsertRow, Runs_OK, Rest_OK
<1>8. CASE BootFails(c) \/ WriteFails(c)
  <2>1. Workers_OK' /\ Calls_OK' /\ Paired'
    BY <1>2, <1>8 DEF BootFails, WriteFails, Serves, Allocating
  <2> QED
    BY <1>8, <2>1, FaultTyped DEF BootFails, WriteFails, Runs_OK, Sandbox_OK, Rest_OK, sandbox
<1>9. CASE Undo(c) \/ Stop(c)
  <2>1. Workers_OK' /\ Calls_OK' /\ Paired'
    BY <1>2, <1>9 DEF Undo, Stop, Serves, Allocating, Releasing
  <2>2. Sandbox_OK'
    BY <1>1, <1>9 DEF Undo, Stop, Remove, Sandbox_OK
  <2> QED
    BY <1>9, <2>1, <2>2 DEF Undo, Stop, Runs_OK, Rest_OK
<1>10. CASE Clear(c) \/ Wipe(c)
  <2>1. Workers_OK' /\ Calls_OK' /\ Paired'
    BY <1>3, <1>10 DEF Clear, Wipe, WorkerSteps
  <2>2. Sandbox_OK'
    BY <1>1, <1>10 DEF Clear, Wipe, Sandbox_OK
  <2> QED
    BY <1>10, <2>1, <2>2 DEF Clear, Wipe, Unless, Runs_OK, Rest_OK
<1>11. CASE Mark(c)
  <2>1. row[For(c)].box \in Nat
    BY <1>1 DEF Sandbox_OK, RowType
  <2>2. Workers_OK' /\ Calls_OK' /\ Paired'
    <3>1. CASE row[For(c)].live
      BY <1>11, <2>1, <3>1, ProceedPaired DEF Mark, Serves, Releasing
    <3>2. CASE ~row[For(c)].live
      BY <1>3, <1>11, <3>2 DEF Mark, WorkerSteps
    <3> QED
      BY <3>1, <3>2
  <2>3. Sandbox_OK'
    BY <1>1, <1>11 DEF Mark, Sandbox_OK, RowType
  <2> QED
    BY <1>11, <2>2, <2>3 DEF Mark, Runs_OK, Rest_OK
<1>12. CASE DockerFails(c)
  <2>1. Workers_OK' /\ Calls_OK' /\ Paired'
    BY <1>2, <1>3, <1>12 DEF DockerFails, Serves, Allocating, WorkerSteps
  <2>2. Sandbox_OK'
    BY <1>1, <1>12 DEF DockerFails, Sandbox_OK
  <2>3. Rest_OK'
    BY <1>1, <1>12, FaultTyped DEF DockerFails, Unless, Rest_OK
  <2> QED
    BY <1>12, <2>1, <2>2, <2>3 DEF DockerFails, Runs_OK
<1>13. CASE DockerUnheard(c)
  <2>1. Workers_OK' /\ Calls_OK' /\ Paired'
    BY <1>2, <1>3, <1>13 DEF DockerUnheard, Serves, Allocating, WorkerSteps
  <2>2. Sandbox_OK'
    <3>1. ASSUME Create(For(c)) PROVE Sandbox_OK' \/ row' # row
      BY <1>1, <3>1 DEF Create, Sandbox_OK
    <3>2. ASSUME Remove(c), UNCHANGED <<row, made, disk>> PROVE Sandbox_OK'
      BY <1>1, <3>2 DEF Remove, Sandbox_OK
    <3> QED
      BY <1>1, <1>13, <3>1, <3>2 DEF DockerUnheard, Sandbox_OK
  <2>3. Rest_OK'
    BY <1>1, <1>13, FaultTyped DEF DockerUnheard, Unless, Rest_OK
  <2> QED
    BY <1>13, <2>1, <2>2, <2>3 DEF DockerUnheard, Runs_OK
<1> QED
  BY <1>4, <1>5, <1>6, <1>7, <1>8, <1>9, <1>10, <1>11, <1>12, <1>13 DEF Serve

LEMMA ServiceTyped ==
  ASSUME TypeOK, Paired, ServiceDies \/ (\E r \in Runs : Take(r))
  PROVE  TypeOK' /\ Paired'
<1> USE TypeParts
<1>1. CASE ServiceDies
  <2>1. Free \in CallType /\ Free.at = "free" /\ Free.run = NoRun /\ Free.by = Nobody
    BY DEF Free, CallType
  <2>2. Calls_OK' /\ Paired'
    BY <1>1, <2>1 DEF ServiceDies, Calls_OK, Paired, Serves, For, Of, At, Calls
  <2>3. \A w \in Workers : worker'[w].run = worker[w].run /\ worker'[w] \in WorkerType
                           /\ (worker'[w].at = "idle" <=> worker[w].at = "idle")
    BY <1>1 DEF ServiceDies, Workers_OK, WorkerType, WorkerSteps, At
  <2>4. Workers_OK'
    BY <1>1, <2>3 DEF ServiceDies, Workers_OK
  <2>5. Rest_OK'
    <3>1. \A d \in Calls : Halfway(d) => For(d) \in Runs
      BY Serving DEF Halfway, Allocating, Releasing
    <3> QED
      BY <1>1, <3>1, FaultTyped DEF ServiceDies, Rest_OK
  <2> QED
    BY <1>1, <2>2, <2>4, <2>5 DEF ServiceDies, Runs_OK, Sandbox_OK, sandbox
<1>2. ASSUME NEW r \in Runs, Take(r)
      PROVE  TypeOK' /\ Paired'
  <2> DEFINE m == [at |-> "marking", run |-> r, by |-> Nobody, box |-> 0]
  <2>1. /\ m \in CallType
        /\ m.at = "marking" /\ m.run = r /\ m.by = Nobody /\ r # NoRun
    BY NoRunAssumption DEF CallType, Releasing
  <2>2. call' = [call EXCEPT ![Sweep] = m] /\ UNCHANGED worker
    BY <1>2 DEF Take
  <2> HIDE DEF m
  <2>3. /\ call' \in [Calls -> CallType] /\ call'[Sweep] = m
        /\ \A d \in Calls \ {Sweep} : call'[d] = call[d]
    BY <2>1, <2>2 DEF Calls_OK, Calls
  <2>4. Calls_OK'
    BY <2>1, <2>3 DEF Calls_OK
  <2>5. Paired'
    BY <2>1, <2>2, <2>3 DEF Paired, Serves, For, Of, At
  <2> QED
    BY <1>2, <2>2, <2>4, <2>5 DEF Take, Runs_OK, Sandbox_OK, Rest_OK, Workers_OK, sandbox
<1> QED
  BY <1>1, <1>2

LEMMA InitTyped == Init => TypeOK /\ Paired
<1> SUFFICES ASSUME Init PROVE TypeOK /\ Paired
  OBVIOUS
<1>1. Free \in CallType /\ Free.at = "free" /\ Free.run = NoRun /\ Free.by = Nobody
  BY DEF Free, CallType
<1>2. Idle \in WorkerType /\ Idle.at = "idle" /\ Idle.run = NoRun
  BY DEF Idle, WorkerType, WorkerSteps
<1>3. Workers_OK /\ Calls_OK /\ Paired
  BY <1>1, <1>2 DEF Init, Workers_OK, Calls_OK, Paired, Serves, Calls
<1>4. Sandbox_OK
  BY DEF Init, Sandbox_OK, RowType
<1>5. Rest_OK
  BY FaultsAssumption DEF Init, Rest_OK
<1>6. Runs_OK
  BY DEF Init, JobsInit, Runs_OK, Row, Statuses, Leases, RunStatuses
<1> QED
  BY <1>3, <1>4, <1>5, <1>6, TypeParts

LEMMA NextTyped ==
  ASSUME TypeOK, Paired, [Next]_vars
  PROVE  TypeOK' /\ Paired'
<1>1. CASE Next
  BY <1>1, OthersTyped, ClaimTyped, WorkTyped, ServeTyped, ServiceTyped DEF Next, Sweeping
<1>2. CASE UNCHANGED vars
  BY <1>2 DEF vars, sandbox, TypeOK, Paired, Serves, For, Of, At
<1> QED
  BY <1>1, <1>2

\* Rows, calls and workers keep the shapes and the pairing the service and the
\* worker loop give them: an answer reaches the worker who waits for it.
THEOREM Typed == Spec => [](TypeOK /\ Paired)
<1>1. Init => TypeOK /\ Paired
  BY InitTyped
<1>2. TypeOK /\ Paired /\ [Next]_vars => (TypeOK /\ Paired)'
  BY NextTyped
<1> QED
  BY <1>1, <1>2, PTL DEF Spec

-----------------------------------------------------------------------------
(* What the service created is known *)

\* Where neither sandboxes nor the calls at them change, all stays known.
LEMMA KnownStays ==
  ASSUME SandboxesKnown, struck \subseteq struck', UNCHANGED <<box, disk>>,
         \A r \in Runs \ struck' : row'[r].live = row[r].live /\ row'[r].box = row[r].box,
         \A c \in Calls : /\ call'[c].run = call[c].run /\ call'[c].box = call[c].box
                          /\ call'[c].at = call[c].at
  PROVE  SandboxesKnown'
BY DEF SandboxesKnown, Filed, InHand, For

\* Nor does it matter what a call does that no sandbox hangs on.
LEMMA KnownBeside ==
  ASSUME SandboxesKnown, struck \subseteq struck', UNCHANGED <<row, box, disk>>,
         \A c \in Calls : \/ call'[c] = call[c]
                          \/ call[c].at \in {"free", "looking", "wiring", "recording", "marking"}
                          \/ For(c) \in struck'
  PROVE  SandboxesKnown'
<1> SUFFICES ASSUME NEW r \in Runs \ struck'
             PROVE  /\ box[r] # 0 => \/ row[r].live /\ row[r].box = box[r]
                                     \/ \E c \in Calls : InHand(c, r)'
                    /\ disk[r] => \/ box[r] # 0
                                  \/ \E c \in Calls : /\ call'[c].run = r
                                                      /\ call'[c].at \in {"creating", "clearing", "wiping"}
  BY DEF SandboxesKnown, Filed, For
<1>1. \A c \in Calls : InHand(c, r) => InHand(c, r)'
  BY DEF InHand, For
<1>2. \A c \in Calls : call[c].run = r /\ call[c].at \in {"creating", "clearing", "wiping"} => call'[c] = call[c]
  BY DEF For
<1> QED
  BY <1>1, <1>2 DEF SandboxesKnown, Filed, For

\* Of the rows that are not struck, a release of the row alone changes none.
LEMMA Released ==
  ASSUME Sandbox_OK, NEW r \in Runs, row' = [row EXCEPT ![r].live = FALSE]
  PROVE  \A q \in Runs : q # r \/ ~row[r].live =>
            row'[q].live = row[q].live /\ row'[q].box = row[q].box
BY DEF Sandbox_OK, RowType

\* Nobody but workers and calls move, or a worker does.
LEMMA KnownAside ==
  ASSUME TypeOK, Paired, SandboxesKnown,
         \/ \E r \in Jobs : Enqueue(r) \/ LeaseLapses(r) \/ ResumePaused(r) \/ CancelRun(r)
         \/ Reap \/ Archive \/ \E r \in Runs : Age(r)
         \/ List
         \/ \E w \in Workers : \/ RecordAllocated(w) \/ Finish(w) \/ Mirror(w) \/ Complete(w)
                               \/ FailJob(w) \/ FinalizeRun(w) \/ RecordReleaseFails(w)
                               \/ Crash(w) \/ Stall(w) \/ LoseAnswer(w)
                               \/ \E r \in Jobs : Claim(w, r)
  PROVE  SandboxesKnown'
<1> USE TypeParts
<1>1. CASE \E r \in Jobs : CancelRun(r)
  <2>1. PICK r \in Runs : CancelRun(r)
    BY <1>1 DEF Runs
  <2>2. /\ row' = [row EXCEPT ![r].live = FALSE]
        /\ UNCHANGED <<box, disk, call>>
        /\ struck' = IF row[r].live THEN struck \cup {r} ELSE struck
    BY <2>1 DEF CancelRun
  <2> QED
    BY <2>2, Released, KnownStays
<1>2. CASE \E r \in Runs : Age(r)
  BY <1>2, KnownStays DEF Age, Sandbox_OK, RowType
<1>3. CASE \E w \in Workers : Mirror(w)
  <2>1. PICK w \in Workers : Mirror(w)
    BY <1>3
  <2>2. Of(w) \in Runs
    BY <2>1, Employed DEF Mirror, At
  <2>3. /\ row' = [row EXCEPT ![Of(w)].live = FALSE]
        /\ UNCHANGED <<box, disk, call>>
        /\ struck' = IF row[Of(w)].live THEN struck \cup {Of(w)} ELSE struck
    BY <2>1 DEF Mirror
  <2> QED
    BY <2>2, <2>3, Released, KnownStays
<1>4. CASE \E w \in Workers : Crash(w) \/ LoseAnswer(w)
  <2>1. \A c \in Calls : /\ call'[c].run = call[c].run /\ call'[c].box = call[c].box
                         /\ call'[c].at = call[c].at
    BY <1>4 DEF Crash, LoseAnswer, Abandon, Calls_OK, CallType
  <2> QED
    BY <1>4, <2>1, KnownStays DEF Crash, LoseAnswer, sandbox
<1>5. CASE \/ \E r \in Jobs : Enqueue(r) \/ LeaseLapses(r) \/ ResumePaused(r)
           \/ Reap \/ Archive \/ List
  BY <1>5, KnownStays DEF Enqueue, LeaseLapses, ResumePaused, Reap, Archive, List, sandbox
<1>6. CASE \E w \in Workers : \/ RecordAllocated(w) \/ Finish(w) \/ Complete(w)
                              \/ FailJob(w) \/ FinalizeRun(w) \/ RecordReleaseFails(w)
                              \/ Stall(w) \/ \E r \in Jobs : Claim(w, r)
  <2>1. UNCHANGED <<row, box, disk, call, struck>>
    BY <1>6 DEF RecordAllocated, Finish, Complete, FailJob, FinalizeRun, RecordReleaseFails,
                Stall, Claim, sandbox
  <2> QED
    BY <2>1, KnownStays
<1> QED
  BY <1>1, <1>2, <1>3, <1>4, <1>5, <1>6

\* A call is opened, asks, or ends with nothing in its hands.
LEMMA KnownOpening ==
  ASSUME TypeOK, Paired, SandboxesKnown,
         \/ \E w \in Workers, c \in Requests : RequestSandbox(w, c) \/ RequestRelease(w, c)
         \/ \E r \in Runs : Take(r)
         \/ ServiceDies
         \/ \E c \in Calls : Look(c) \/ Record(c)
  PROVE  SandboxesKnown'
<1> USE TypeParts
<1>1. UNCHANGED <<row, box, disk>> /\ struck \subseteq struck'
  BY DEF RequestSandbox, RequestRelease, Take, ServiceDies, Look, Record, sandbox
<1>2. CASE ServiceDies
  <2>1. \A c \in Calls : \/ call[c].at \in {"free", "looking", "wiring", "recording", "marking"}
                         \/ For(c) \in struck'
    BY <1>2 DEF ServiceDies, Halfway, Calls_OK, CallType
  <2> QED
    BY <1>1, <2>1, KnownBeside
<1>3. CASE \E w \in Workers, c \in Requests : RequestSandbox(w, c) \/ RequestRelease(w, c)
  <2>1. PICK w \in Workers, c \in Requests : RequestSandbox(w, c) \/ RequestRelease(w, c)
    BY <1>3
  <2>2. call[c].at = "free" /\ \A d \in Calls : d # c => call'[d] = call[d]
    BY <2>1 DEF RequestSandbox, RequestRelease, Opened, Calls_OK
  <2> QED
    BY <1>1, <2>2, KnownBeside
<1>4. CASE \E r \in Runs : Take(r)
  BY <1>1, <1>4, KnownBeside DEF Take, Serves, Calls_OK
<1>5. CASE \E c \in Calls : Look(c) \/ Record(c)
  <2>1. PICK c \in Calls : Look(c) \/ Record(c)
    BY <1>5
  <2>2. /\ call[c].at \in {"looking", "recording"}
        /\ \A d \in Calls : d # c => call'[d] = call[d]
    BY <2>1 DEF Look, Record, Serves, Answer, Proceed, Calls_OK
  <2> QED
    BY <1>1, <2>2, KnownBeside
<1> QED
  BY <1>2, <1>3, <1>4, <1>5

\* The steps of a call that creates, files, undoes or removes.
LEMMA KnownServing ==
  ASSUME TypeOK, Paired, SandboxesKnown, NEW c \in Calls,
         \/ CreateVolumes(c) \/ CreateContainer(c) \/ Start(c) \/ InsertRow(c)
         \/ Undo(c) \/ Clear(c) \/ Mark(c) \/ Stop(c) \/ Wipe(c)
         \/ BootFails(c) \/ WriteFails(c) \/ DockerFails(c) \/ DockerUnheard(c)
  PROVE  SandboxesKnown'
<1> USE TypeParts
<1>1. call[c].at # "free" /\ For(c) \in Runs /\ call[c].box \in Nat
  <2>1. call[c].at # "free" /\ call[c].box \in Nat
    BY DEF CreateVolumes, CreateContainer, Start, InsertRow, Undo, Clear,
           Mark, Stop, Wipe, BootFails, WriteFails, DockerFails, DockerUnheard, Serves, Calls_OK, CallType
  <2> QED
    BY <2>1, Serving
<1>2. struck \subseteq struck'
  BY DEF CreateVolumes, CreateContainer, Start, InsertRow, Undo, Clear,
         Mark, Stop, Wipe, BootFails, WriteFails, DockerFails, DockerUnheard, Create, sandbox
<1>3. \A d \in Calls \ {c} : call'[d] = call[d]
  BY DEF CreateVolumes, CreateContainer, Start, InsertRow, Undo, Clear, Proceed, Answer,
         Mark, Stop, Wipe, BootFails, WriteFails, DockerFails, DockerUnheard, Calls_OK
<1>4. \A r \in Runs \ {For(c)} : row'[r] = row[r] /\ box'[r] = box[r] /\ disk'[r] = disk[r]
  BY <1>1 DEF CreateVolumes, CreateContainer, Start, InsertRow, Undo, Clear, Remove,
         Mark, Stop, Wipe, BootFails, WriteFails, DockerFails, DockerUnheard, Create, sandbox, Sandbox_OK
<1>5. SUFFICES ASSUME For(c) \notin struck'
               PROVE  /\ box'[For(c)] # 0 => \/ row'[For(c)].live /\ row'[For(c)].box = box'[For(c)]
                                             \/ \E d \in Calls :
                                                  /\ call'[d].run = For(c) /\ call'[d].box = box'[For(c)]
                                                  /\ call'[d].at \in {"starting", "inserting", "undoing", "stopping"}
                      /\ disk'[For(c)] => \/ box'[For(c)] # 0
                                          \/ \E d \in Calls :
                                               /\ call'[d].run = For(c)
                                               /\ call'[d].at \in {"creating", "clearing", "wiping"}
  <2> SUFFICES ASSUME NEW r \in Runs \ struck'
               PROVE  /\ box'[r] # 0 => \/ row'[r].live /\ row'[r].box = box'[r]
                                        \/ \E d \in Calls :
                                             /\ call'[d].run = r /\ call'[d].box = box'[r]
                                             /\ call'[d].at \in {"starting", "inserting", "undoing", "stopping"}
                      /\ disk'[r] => \/ box'[r] # 0
                                     \/ \E d \in Calls :
                                          /\ call'[d].run = r
                                          /\ call'[d].at \in {"creating", "clearing", "wiping"}
    BY DEF SandboxesKnown, Filed, InHand, For
  <2>1. CASE r = For(c)
    BY <2>1, <1>5
  <2>2. CASE r # For(c)
    <3>1. \A d \in Calls : call[d].run = r => call'[d] = call[d]
      BY <1>3, <2>2 DEF For
    <3> QED
      BY <1>2, <1>4, <2>2, <3>1 DEF SandboxesKnown, Filed, InHand, For
  <2> QED
    BY <2>1, <2>2
<1> DEFINE r == For(c)
           HeldBy(d)   == /\ call[d].run = r /\ call[d].box = box[r]
                          /\ call[d].at \in {"starting", "inserting", "undoing", "stopping"}
           MindedBy(d) == call[d].run = r /\ call[d].at \in {"creating", "clearing", "wiping"}
<1>6. /\ box[r] # 0 => (row[r].live /\ row[r].box = box[r]) \/ \E d \in Calls : HeldBy(d)
      /\ disk[r] => box[r] # 0 \/ \E d \in Calls : MindedBy(d)
  BY <1>1, <1>2, <1>5 DEF SandboxesKnown, Filed, InHand, For
<1>7. /\ \A d \in Calls \ {c} : HeldBy(d) /\ box'[r] = box[r] => /\ call'[d].run = r /\ call'[d].box = box'[r]
                                       /\ call'[d].at \in {"starting", "inserting", "undoing", "stopping"}
      /\ \A d \in Calls \ {c} : MindedBy(d) => /\ call'[d].run = r
                                             /\ call'[d].at \in {"creating", "clearing", "wiping"}
  BY <1>3
<1>8. \A step : Proceed(c, step) => call'[c].run = r /\ call'[c].box = call[c].box /\ call'[c].at = step
  BY DEF Proceed, Calls_OK, CallType, For
<1>9. call[c].run = r
  BY DEF For
<1> HIDE DEF r
<1>10. CASE CreateVolumes(c)
  BY <1>1, <1>6, <1>7, <1>8, <1>9, <1>10 DEF CreateVolumes, Serves, r, Sandbox_OK
<1>11. CASE CreateContainer(c)
  <2>1. CASE box[r] # 0
    BY <1>6, <1>7, <1>8, <1>9, <1>11, <2>1 DEF CreateContainer, Serves, r
  <2>2. CASE box[r] = 0
    <3>1. /\ call' = [call EXCEPT ![c].at = "starting", ![c].box = made[r] + 1]
          /\ box' = [box EXCEPT ![r] = made[r] + 1]
      BY <1>11, <2>2 DEF CreateContainer, Create, r
    <3>2. made[r] + 1 # 0 /\ box'[r] = made[r] + 1
      BY <1>1, <3>1 DEF Sandbox_OK, r
    <3>3. call'[c].at = "starting" /\ call'[c].box = made[r] + 1 /\ call'[c].run = r
      BY <1>9, <3>1 DEF Calls_OK, CallType
    <3> QED
      BY <3>2, <3>3 DEF r
  <2> QED
    BY <2>1, <2>2
<1>12. CASE Start(c) \/ BootFails(c)
  BY <1>6, <1>7, <1>8, <1>9, <1>12 DEF Start, BootFails, Serves, sandbox, r
<1>13. CASE InsertRow(c)
  <2>1. CASE row[r].live
    BY <1>6, <1>7, <1>8, <1>9, <1>13, <2>1 DEF InsertRow, Serves, r
  <2>2. CASE ~row[r].live
    <3>1. /\ row'[r] = [live |-> TRUE, box |-> call[c].box, aged |-> FALSE]
          /\ UNCHANGED <<box, disk>>
      BY <1>1, <1>13, <2>2 DEF InsertRow, Sandbox_OK, r
    <3>2. row'[r].live /\ row'[r].box = call[c].box
      BY <3>1
    <3>3. call[c].at = "inserting" /\ call'[c].at = "recording"
      BY <1>8, <1>13, <2>2 DEF InsertRow, Serves, r
    <3> QED
      BY <1>6, <1>7, <2>2, <3>1, <3>2, <3>3 DEF r
  <2> QED
    BY <2>1, <2>2
<1>14. CASE WriteFails(c)
  BY <1>6, <1>7, <1>8, <1>9, <1>14 DEF WriteFails, Serves, sandbox, r
<1>15. CASE Undo(c) \/ Stop(c)
  <2>1. UNCHANGED <<row, disk>> /\ (call'[c].at = "clearing" \/ call'[c].at = "wiping") /\ call'[c].run = r
    BY <1>8, <1>15 DEF Undo, Stop
  <2>2. CASE box[r] = call[c].box
    <3>1. box'[r] = 0
      BY <1>1, <1>15, <2>2 DEF Undo, Stop, Remove, Sandbox_OK, r
    <3> QED
      BY <2>1, <3>1 DEF r
  <2>3. CASE box[r] # call[c].box
    <3>1. box' = box
      BY <1>15, <2>3 DEF Undo, Stop, Remove, r
    <3> QED
      BY <1>6, <1>7, <2>1, <2>3, <3>1 DEF r
  <2> QED
    BY <2>2, <2>3
<1>16. CASE Clear(c) \/ Wipe(c)
  <2>1. UNCHANGED <<row, box>>
    BY <1>16 DEF Clear, Wipe
  <2>2. box[r] = 0 => ~disk'[r]
    BY <1>1, <1>16 DEF Clear, Wipe, Sandbox_OK, r
  <2>3. ~HeldBy(c)
    BY <1>16 DEF Clear, Wipe, Serves
  <2> QED
    BY <1>6, <1>7, <2>1, <2>2, <2>3 DEF r
<1>17. CASE Mark(c)
  <2>1. UNCHANGED <<box, disk>> /\ call[c].at = "marking"
    BY <1>17 DEF Mark, Serves
  <2>2. CASE ~row[r].live
    <3>1. row' = row
      BY <1>17, <2>2 DEF Mark, r
    <3> QED
      BY <1>6, <1>7, <2>1, <3>1 DEF r
  <2>3. CASE row[r].live
    <3>1. call' = [call EXCEPT ![c].at = "stopping", ![c].box = row[r].box]
      BY <1>17, <2>3 DEF Mark, r
    <3>2. call'[c].at = "stopping" /\ call'[c].box = row[r].box /\ call'[c].run = r
      BY <1>9, <3>1 DEF Calls_OK, CallType
    <3> QED
      BY <1>6, <1>7, <2>1, <3>2 DEF r
  <2> QED
    BY <2>2, <2>3
<1>18. CASE DockerFails(c)
  <2>1. UNCHANGED <<row, box, disk>>
    BY <1>1, <1>5, <1>18 DEF DockerFails
  <2>2. \/ Serves(c, "creating") /\ Proceed(c, "clearing")
        \/ Serves(c, "wiring")
    BY <1>1, <1>5, <1>18 DEF DockerFails
  <2> QED
    BY <1>6, <1>7, <1>8, <2>1, <2>2 DEF Serves, r
<1>19. CASE DockerUnheard(c)
  <2>1. UNCHANGED <<row, box>> /\ box[r] = 0 /\ ~disk'[r]
    BY <1>1, <1>5, <1>19 DEF DockerUnheard, Sandbox_OK, r
  <2> QED
    BY <2>1 DEF r
<1> QED
  BY <1>10, <1>11, <1>12, <1>13, <1>14, <1>15, <1>16, <1>17, <1>18, <1>19

LEMMA InitKnown == Init => SandboxesKnown
BY DEF Init, SandboxesKnown

\* Whatever the faults and whoever asks: a container is filed in its live row
\* or in the hands of a call that will file or remove it, and volumes belong to
\* a container or to a call (RunnerLifecycle.allocate and release).
THEOREM Known == Spec => []SandboxesKnown
<1>1. TypeOK /\ Paired /\ SandboxesKnown /\ [Next]_vars => SandboxesKnown'
  <2> SUFFICES ASSUME TypeOK, Paired, SandboxesKnown, [Next]_vars
               PROVE  SandboxesKnown'
    OBVIOUS
  <2>1. CASE Next
    BY <2>1, KnownAside, KnownOpening, KnownServing DEF Next, Work, Serve, Sweeping
  <2>2. CASE UNCHANGED vars
    BY <2>2, KnownStays DEF vars, sandbox
  <2> QED
    BY <2>1, <2>2
<1> QED
  BY <1>1, InitKnown, Typed, PTL DEF Spec

-----------------------------------------------------------------------------
(* A first claim keeps its sandbox *)

\* Before the first claim of its job a run has nothing and nobody.  While the
\* run is healthy nobody but the worker of that claim asks for it, no call but
\* his serves it, and the sandbox is as far as that call has come.
Pristine(r) == ~row[r].live /\ box[r] = 0
Uncalled(r) == \A c \in Calls : For(c) # r
Owned(r)    == Filed(r) /\ box[r] # 0

Building(c, r) ==
  /\ call[c].at \in {"looking", "wiring", "creating"} => Pristine(r)
  /\ call[c].at \in {"starting", "inserting"} =>
       ~row[r].live /\ box[r] # 0 /\ call[c].box = box[r]
  /\ call[c].at = "recording" => Owned(r)

Stage(w, r) ==
  /\ At(w, "claimed") => Pristine(r) /\ Uncalled(r)
  /\ At(w, "allocating") => \A c \in Calls : For(c) = r => call[c].by = w /\ Building(c, r)
  /\ AtWork(w) \/ At(w, "leaving") => Owned(r) /\ Uncalled(r)

Untouched(r) == /\ Pristine(r) /\ Uncalled(r) /\ r \notin stuck
                /\ \A w \in Workers : Of(w) # r
Exclusive(r) == /\ r \notin stuck /\ For(Sweep) # r
                /\ \A w, v \in Workers : Of(w) = r /\ Of(v) = r => w = v
                /\ \A w \in Workers : Of(w) = r => Stage(w, r)

First(r) == /\ job[r].attempts = 0 => Untouched(r)
            /\ Healthy(r) => Exclusive(r)

\* What a step leaves alone when it is about another run.
Beside(r) ==
  /\ row'[r].live = row[r].live /\ row'[r].box = row[r].box /\ box'[r] = box[r]
  /\ r \in stuck' => r \in stuck
  /\ \A w \in Workers : worker'[w].run = r => worker'[w] = worker[w]
  /\ \A c \in Calls : call'[c].run = r => call'[c] = call[c]

LEMMA BesideKeeps ==
  ASSUME NEW r \in Runs, First(r), Beside(r),
         job'[r].attempts = 0 => job[r].attempts = 0, Healthy(r)' => Healthy(r)
  PROVE  First(r)'
<1>1. (Pristine(r) => Pristine(r)') /\ (Owned(r) => Owned(r)') /\ (Uncalled(r) => Uncalled(r)')
  BY DEF Beside, Pristine, Owned, Filed, Uncalled, For
<1>2. ASSUME job'[r].attempts = 0
      PROVE  Untouched(r)'
  BY <1>1, <1>2 DEF First, Untouched, Beside, Of
<1>3. ASSUME Healthy(r)'
      PROVE  Exclusive(r)'
  <2>1. Exclusive(r)
    BY <1>3 DEF First
  <2>2. ASSUME NEW w \in Workers, Of(w)' = r
        PROVE  Stage(w, r)'
    <3>1. worker'[w] = worker[w] /\ Of(w) = r /\ Stage(w, r)
      BY <2>1, <2>2 DEF Beside, Exclusive, Of
    <3>2. \A c \in Calls : For(c)' = r =>
             For(c) = r /\ call'[c] = call[c] /\ (Building(c, r) => Building(c, r)')
      BY <1>1 DEF Beside, For, Building
    <3> QED
      BY <1>1, <3>1, <3>2 DEF Stage, At, AtWork
  <2>3. r \notin stuck' /\ For(Sweep)' # r
    BY <2>1 DEF Exclusive, Beside, For, Calls
  <2>4. \A w, v \in Workers : Of(w)' = r /\ Of(v)' = r => w = v
    BY <2>1 DEF Exclusive, Beside, Of
  <2> QED
    BY <2>2, <2>3, <2>4 DEF Exclusive
<1> QED
  BY <1>2, <1>3 DEF First

\* Only a claim makes a run healthy, and only a claim counts attempts.
LEMMA JobBeside ==
  ASSUME TypeOK, NEW r \in Jobs,
         \/ UNCHANGED job
         \/ \E q \in Jobs : Lapse(q) \/ CancelRow(q) \/ Settle(q, "done") \/ Settle(q, "failed")
         \/ \E q \in Jobs : Insert(q)
         \/ ReapExpired
  PROVE  /\ job'[r].attempts = 0 => job[r].attempts = 0
         /\ job'[r] = [status |-> "running", lease |-> "live", attempts |-> 1] => job'[r] = job[r]
<1>1. job \in [Jobs -> Row]
  BY DEF TypeOK
<1>2. CASE UNCHANGED job
  BY <1>2
<1>3. ASSUME NEW q \in Jobs, Lapse(q) \/ CancelRow(q) \/ Settle(q, "done") \/ Settle(q, "failed")
      PROVE  /\ job'[r].attempts = job[r].attempts
             /\ q = r => job'[r].lease # "live"
             /\ q # r => job'[r] = job[r]
  BY <1>1, <1>3 DEF Lapse, CancelRow, Settle, Row
<1>4. ASSUME NEW q \in Jobs, Insert(q)
      PROVE  /\ job'[r].attempts = job[r].attempts
             /\ q = r => job'[r].status = "queued"
             /\ q # r => job'[r] = job[r]
  BY <1>1, <1>4 DEF Insert, Row
<1>5. CASE ReapExpired
  <2>1. job'[r] = IF Expired(r) THEN [job[r] EXCEPT !.status = "queued", !.lease = "none"] ELSE job[r]
    BY <1>5 DEF ReapExpired
  <2>2. [job[r] EXCEPT !.status = "queued", !.lease = "none"].lease = "none"
    BY <1>1 DEF Row
  <2>3. job'[r].attempts = job[r].attempts
    BY <1>1, <1>5, ReapCounts
  <2>4. job'[r].lease = "live" => job'[r] = job[r]
    BY <2>1, <2>2
  <2> DEFINE first == [status |-> "running", lease |-> "live", attempts |-> 1]
  <2>5. first.lease = "live"
    OBVIOUS
  <2> HIDE DEF first
  <2>6. job'[r] = first => job'[r] = job[r]
    BY <2>4, <2>5
  <2> QED
    BY <2>3, <2>6 DEF first
<1>6. ASSUME job'[r] = [status |-> "running", lease |-> "live", attempts |-> 1]
      PROVE  job'[r].lease = "live" /\ job'[r].status = "running"
  BY <1>6
<1> QED
  BY <1>2, <1>3, <1>4, <1>5, <1>6

LEMMA HealthBeside ==
  ASSUME TypeOK, NEW r \in Runs,
         \/ UNCHANGED job
         \/ \E q \in Jobs : Lapse(q) \/ CancelRow(q) \/ Settle(q, "done") \/ Settle(q, "failed")
         \/ ReapExpired,
         run'[r] \in {"open", "paused"} => run[r] \in {"open", "paused"}
  PROVE  /\ job'[r].attempts = 0 => job[r].attempts = 0
         /\ Healthy(r)' => Healthy(r)
<1>1. r \in Jobs
  BY DEF Runs
<1> QED
  BY <1>1, JobBeside DEF Healthy

\* A settled or lapsed row is not that of a healthy run.
LEMMA Unhealthy ==
  ASSUME TypeOK, NEW r \in Jobs,
         Lapse(r) \/ CancelRow(r) \/ Settle(r, "done") \/ Settle(r, "failed") \/ Insert(r)
  PROVE  /\ ~Healthy(r)'
         /\ \A q \in Jobs \ {r} : job'[q] = job[q]
<1>1. job \in [Jobs -> Row]
  BY DEF TypeOK
<1>2. job'[r].lease # "live" \/ job'[r].status = "queued"
  BY <1>1 DEF Lapse, CancelRow, Settle, Insert, Row
<1>3. ASSUME job'[r] = [status |-> "running", lease |-> "live", attempts |-> 1]
      PROVE  job'[r].lease = "live" /\ job'[r].status = "running"
  BY <1>3
<1>4. \A q \in Jobs \ {r} : job'[q] = job[q]
  BY <1>1 DEF Lapse, CancelRow, Settle, Insert
<1> QED
  BY <1>2, <1>3, <1>4 DEF Healthy

LEMMA FirstAside ==
  ASSUME TypeOK, Paired, \A r \in Runs : First(r),
         \/ \E q \in Jobs : Enqueue(q) \/ LeaseLapses(q) \/ ResumePaused(q)
         \/ Reap \/ Archive \/ (\E q \in Runs : Age(q))
         \/ List \/ (\E q \in Runs : Take(q)) \/ ServiceDies
  PROVE  \A r \in Runs : First(r)'
<1> USE TypeParts
<1> SUFFICES ASSUME NEW r \in Runs PROVE First(r)'
  OBVIOUS
<1>1. r \in Jobs
  BY DEF Runs
<1>2. CASE \/ \E q \in Jobs : LeaseLapses(q) \/ ResumePaused(q)
           \/ Reap \/ Archive \/ \E q \in Runs : Age(q)
  <2>1. \/ UNCHANGED job
        \/ \E q \in Jobs : Lapse(q) \/ CancelRow(q) \/ Settle(q, "done") \/ Settle(q, "failed")
        \/ ReapExpired
    BY <1>2 DEF LeaseLapses, ResumePaused, Reap, Archive, Age
  <2>2. run'[r] \in {"open", "paused"} => run[r] \in {"open", "paused"}
    BY <1>2 DEF LeaseLapses, ResumePaused, Reap, Archive, Age, Runs_OK
  <2>3. Beside(r)
    BY <1>2 DEF LeaseLapses, ResumePaused, Reap, Archive, Age, Beside, sandbox, Sandbox_OK, RowType
  <2> QED
    BY <2>1, <2>2, <2>3, HealthBeside, BesideKeeps
<1>3. ASSUME NEW q \in Jobs, Enqueue(q)
      PROVE  First(r)'
  <2>1. Beside(r)
    BY <1>3 DEF Enqueue, Beside, sandbox
  <2>2. job'[r].attempts = 0 => job[r].attempts = 0
    BY <1>1, <1>3, JobBeside DEF Enqueue
  <2>3. Healthy(r)' => Healthy(r)
    BY <1>1, <1>3, Unhealthy DEF Enqueue, Healthy, Runs_OK, Runs
  <2> QED
    BY <2>1, <2>2, <2>3, BesideKeeps
<1>4. CASE List
  <2>1. UNCHANGED <<job, run, row, box, worker, call>> /\ stuck' = {q \in Runs : Stuck(q)}
    BY <1>4 DEF List, sandbox
  <2>2. Pristine(r) => ~Stuck(r)
    BY DEF Pristine, Stuck
  <2>3. Healthy(r) => ~Stuck(r)
    <3>1. ASSUME job[r] = [status |-> "running", lease |-> "live", attempts |-> 1]
          PROVE  job[r].status = "running" /\ job[r].lease = "live"
      BY <3>1
    <3> QED
      BY <3>1 DEF Healthy, Stuck, Terminal, LiveJob
  <2>4. /\ Untouched(r) => Untouched(r)'
        /\ Healthy(r) /\ Exclusive(r) => Exclusive(r)'
    BY <2>1, <2>2, <2>3 DEF Untouched, Exclusive, Pristine, Uncalled, Owned, Filed, Stage, Building,
                            At, AtWork, Of, For
  <2> QED
    BY <2>1, <2>4 DEF First, Healthy
<1>5. ASSUME NEW q \in Runs, Take(q)
      PROVE  First(r)'
  <2>1. /\ UNCHANGED <<job, run, row, box, worker>> /\ q \in stuck /\ stuck' = stuck \ {q}
        /\ call' = [call EXCEPT ![Sweep] = [at |-> "marking", run |-> q, by |-> Nobody, box |-> 0]]
    BY <1>5 DEF Take, sandbox
  <2>2. CASE q = r
    <3>1. job[r].attempts # 0 /\ ~Healthy(r)
      BY <2>1, <2>2 DEF First, Untouched, Exclusive
    <3> QED
      BY <2>1, <3>1 DEF First, Healthy
  <2>3. CASE q # r
    <3>1. \A c \in Calls : call'[c].run = r => call'[c] = call[c]
      BY <2>1, <2>3 DEF Calls_OK
    <3>2. Beside(r)
      BY <2>1, <3>1 DEF Beside
    <3> QED
      BY <2>1, <3>2, BesideKeeps DEF Healthy
  <2> QED
    BY <2>2, <2>3
<1>6. CASE ServiceDies
  <2>1. /\ UNCHANGED <<job, run, row, box>> /\ stuck' = {}
        /\ \A c \in Calls : call'[c] = Free
        /\ \A w \in Workers : /\ worker'[w].run = worker[w].run
                              /\ worker'[w] = worker[w] \/ worker'[w].at \in {"raw", "done"}
                              /\ worker'[w].at # "allocating"
    BY <1>6 DEF ServiceDies, sandbox, Workers_OK, WorkerType, At
  <2>2. Free.run = NoRun
    BY DEF Free
  <2>3. Uncalled(r)' /\ For(Sweep)' # r
    BY <2>1, <2>2, NoRunAssumption DEF Uncalled, For, Calls
  <2>4. (Pristine(r) => Pristine(r)') /\ (Owned(r) => Owned(r)')
    BY <2>1 DEF Pristine, Owned, Filed
  <2>5. \A w \in Workers : Stage(w, r) => Stage(w, r)'
    BY <2>1, <2>3, <2>4 DEF Stage, At, AtWork
  <2> QED
    BY <2>1, <2>3, <2>4, <2>5 DEF First, Untouched, Exclusive, Healthy, Of
<1> QED
  BY <1>2, <1>3, <1>4, <1>5, <1>6

LEMMA FirstCancel ==
  ASSUME TypeOK, Paired, \A r \in Runs : First(r), NEW q \in Jobs, CancelRun(q)
  PROVE  \A r \in Runs : First(r)'
<1> USE TypeParts
<1> SUFFICES ASSUME NEW r \in Runs PROVE First(r)'
  OBVIOUS
<1>1. /\ UNCHANGED job \/ CancelRow(q)
      /\ run' = [run EXCEPT ![q] = "over"]
      /\ row' = [row EXCEPT ![q].live = FALSE]
      /\ UNCHANGED <<box, stuck, worker, call>>
  BY DEF CancelRun, Reaped
<1>2. run'[r] \in {"open", "paused"} => run[r] \in {"open", "paused"} /\ r # q
  BY <1>1 DEF Runs_OK, Runs
<1>3. /\ job'[r].attempts = 0 => job[r].attempts = 0
      /\ Healthy(r)' => Healthy(r)
  BY <1>1, <1>2, HealthBeside
<1>4. CASE q = r
  <2>1. ~Healthy(r)'
    BY <1>2, <1>4 DEF Healthy
  <2>2. row'[r].live = FALSE
    BY <1>1, <1>4 DEF Sandbox_OK, RowType
  <2> QED
    BY <1>1, <1>3, <2>1, <2>2 DEF First, Untouched, Pristine, Uncalled, For, Of
<1>5. CASE q # r
  <2>1. Beside(r)
    BY <1>1, <1>5 DEF Beside, Sandbox_OK
  <2> QED
    BY <1>3, <2>1, BesideKeeps
<1> QED
  BY <1>4, <1>5

LEMMA FirstClaim ==
  ASSUME TypeOK, Paired, \A r \in Runs : First(r), NEW w \in Workers, NEW q \in Jobs, Claim(w, q)
  PROVE  \A r \in Runs : First(r)'
<1> USE TypeParts
<1> SUFFICES ASSUME NEW r \in Runs PROVE First(r)'
  OBVIOUS
<1> DEFINE taken == [at |-> "claimed", run |-> q]
<1>1. /\ Oldest(q) /\ Lease(q) /\ worker' = [worker EXCEPT ![w] = taken]
      /\ UNCHANGED <<run, row, box, stuck, call>>
      /\ taken.at = "claimed" /\ taken.run = q
  BY DEF Claim, sandbox
<1> HIDE DEF taken
<1>2. /\ worker'[w] = taken
      /\ \A v \in Workers \ {w} : worker'[v] = worker[v]
  BY <1>1 DEF Workers_OK
<1>3. /\ \A k \in Jobs \ {q} : job'[k] = job[k]
      /\ job'[q].attempts = job[q].attempts + 1
      /\ job[q].attempts \in Nat
  BY <1>1 DEF Lease, Runs_OK, Row
<1>4. CASE q = r
  <2>1. job'[r].attempts # 0
    BY <1>3, <1>4
  <2>2. ASSUME Healthy(r)'
        PROVE  Exclusive(r)'
    <3>1. job'[r].attempts = 1
      <4>1. job'[r] = [status |-> "running", lease |-> "live", attempts |-> 1]
        BY <2>2 DEF Healthy
      <4> QED
        BY <4>1
    <3>2. Untouched(r)
      BY <1>3, <1>4, <3>1 DEF First
    <3>3. Pristine(r)' /\ Uncalled(r)' /\ For(Sweep)' # r /\ r \notin stuck'
      BY <1>1, <3>2 DEF Untouched, Pristine, Uncalled, For, Calls
    <3>4. \A v \in Workers : Of(v)' = r => v = w
      BY <1>2, <3>2 DEF Untouched, Of
    <3>5. Stage(w, r)'
      BY <1>1, <1>2, <3>3 DEF Stage, At, AtWork
    <3> QED
      BY <3>3, <3>4, <3>5 DEF Exclusive
  <2> QED
    BY <2>1, <2>2 DEF First
<1>5. CASE q # r
  <2>1. Beside(r)
    BY <1>1, <1>2, <1>5 DEF Beside
  <2>2. job'[r] = job[r]
    BY <1>3, <1>5 DEF Runs
  <2> QED
    BY <1>1, <2>1, <2>2, BesideKeeps DEF Healthy
<1> QED
  BY <1>4, <1>5

\* A worker of a run without attempts does not exist.
LEMMA Counted ==
  ASSUME TypeOK, NEW w \in Workers, Of(w) \in Runs, First(Of(w))
  PROVE  job[Of(w)].attempts # 0
BY DEF First, Untouched

\* Where the only worker of a healthy run goes to a step at which nothing is
\* promised to him, nothing has to be shown about the sandbox.
LEMMA FirstLoose ==
  ASSUME TypeOK, NEW w \in Workers, NEW r \in Runs, Of(w) = r, First(r),
         job'[r].attempts = 0 => job[r].attempts = 0,
         Healthy(r)' => Healthy(r),
         r \in stuck' => r \in stuck,
         For(Sweep)' = r => For(Sweep) = r,
         NEW s \in WorkerType,
         s.at \in {"idle", "raw", "done", "finalizing", "releasing"},
         worker' = [worker EXCEPT ![w] = s]
  PROVE  First(r)'
<1> USE TypeParts
<1>1. worker'[w] = s /\ \A v \in Workers \ {w} : worker'[v] = worker[v]
  BY DEF Workers_OK
<1>2. job'[r].attempts # 0
  BY Counted
<1>3. ASSUME Healthy(r)'
      PROVE  /\ r \notin stuck' /\ For(Sweep)' # r
             /\ \A v \in Workers : v # w => worker[v].run # r
  BY <1>3 DEF First, Exclusive, Of
<1>4. ASSUME Healthy(r)'
      PROVE  \A v \in Workers : Of(v)' = r => v = w /\ Stage(v, r)'
  BY <1>1, <1>3, <1>4 DEF Stage, At, AtWork, Of
<1> QED
  BY <1>2, <1>3, <1>4 DEF First, Exclusive

\* The steps after which the worker is promised nothing.
LEMMA FirstEnding ==
  ASSUME TypeOK, Paired, \A r \in Runs : First(r), NEW w \in Workers,
         \/ RecordReleaseFails(w) \/ Mirror(w) \/ Complete(w) \/ FailJob(w) \/ FinalizeRun(w)
         \/ Crash(w) \/ LoseAnswer(w)
  PROVE  \A r \in Runs : First(r)'
<1> USE TypeParts
<1>1. ~At(w, "idle")
  BY DEF RecordReleaseFails, Mirror, Complete, FailJob, FinalizeRun, Crash, LoseAnswer, At
<1>2. Of(w) \in Runs /\ Of(w) \in Jobs
  BY <1>1, Employed DEF Runs
<1>3. PICK s \in WorkerType : /\ s.run \in {Of(w), NoRun}
                              /\ s.at \in {"idle", "raw", "done", "finalizing", "releasing"}
                              /\ worker' = [worker EXCEPT ![w] = s]
  <2>1. Idle \in WorkerType /\ Idle.at = "idle" /\ Idle.run = NoRun
    BY DEF Idle, WorkerType, WorkerSteps
  <2>2. CASE Leave(w)
    BY <2>1, <2>2 DEF Leave
  <2>3. CASE GoTo(w, "raw") \/ GoTo(w, "done") \/ GoTo(w, "finalizing")
    <3>1. PICK step \in {"raw", "done", "finalizing"} : GoTo(w, step)
      BY <2>3
    <3>2. PICK s \in WorkerType : s.run = Of(w) /\ s.at = step /\ worker' = [worker EXCEPT ![w] = s]
      BY <1>1, <3>1, GoToMoves DEF WorkerSteps
    <3> QED
      BY <3>2
  <2> QED
    BY <2>2, <2>3 DEF RecordReleaseFails, Mirror, Complete, FailJob, FinalizeRun, Crash, LoseAnswer
<1>4. \/ UNCHANGED job
      \/ \E q \in Jobs : Lapse(q) \/ CancelRow(q) \/ Settle(q, "done") \/ Settle(q, "failed")
  BY <1>2 DEF RecordReleaseFails, Mirror, Complete, FailJob, FinalizeRun, Crash, LoseAnswer
<1>5. \A r \in Runs : run'[r] \in {"open", "paused"} => run[r] \in {"open", "paused"}
  BY DEF RecordReleaseFails, Mirror, Complete, FailJob, FinalizeRun, Crash, LoseAnswer, Runs_OK
<1>6. \A r \in Runs : /\ job'[r].attempts = 0 => job[r].attempts = 0
                      /\ Healthy(r)' => Healthy(r)
  BY <1>4, <1>5, HealthBeside
<1>7. \A c \in Calls : call'[c].run = call[c].run /\ (call[c].by # w => call'[c] = call[c])
  <2>1. CASE Abandon(w)
    BY <2>1 DEF Abandon, Calls_OK, CallType
  <2>2. CASE UNCHANGED call
    BY <2>2
  <2> QED
    BY <2>1, <2>2 DEF RecordReleaseFails, Mirror, Complete, FailJob, FinalizeRun, Crash, LoseAnswer
<1>8. /\ UNCHANGED <<box, stuck>>
      /\ \A r \in Runs \ {Of(w)} : row'[r] = row[r]
  BY <1>2 DEF RecordReleaseFails, Mirror, Complete, FailJob, FinalizeRun, Crash, LoseAnswer, sandbox,
              Sandbox_OK
<1> SUFFICES ASSUME NEW r \in Runs PROVE First(r)'
  OBVIOUS
<1>9. CASE r = Of(w)
  <2>1. For(Sweep)' = Of(w) => For(Sweep) = Of(w)
    BY <1>7 DEF For, Calls
  <2> QED
    BY <1>3, <1>6, <1>8, <1>9, <2>1, FirstLoose
<1>10. CASE r # Of(w)
  <2>1. \A c \in Calls : call'[c].run = r => call'[c] = call[c]
    BY <1>2, <1>7, <1>10, CallsAssumption DEF Paired, For
  <2>2. \A v \in Workers : worker'[v].run = r => worker'[v] = worker[v]
    BY <1>3, <1>10, NoRunAssumption DEF Workers_OK
  <2>3. Beside(r)
    BY <1>8, <1>10, <2>1, <2>2 DEF Beside
  <2> QED
    BY <1>6, <2>3, BesideKeeps
<1> QED
  BY <1>9, <1>10

\* The steps of a worker who has the sandbox, or asks for it or its release.
LEMMA FirstWorking ==
  ASSUME TypeOK, Paired, \A r \in Runs : First(r), NEW w \in Workers,
         \/ RecordAllocated(w) \/ Finish(w) \/ Stall(w)
         \/ \E c \in Requests : RequestSandbox(w, c) \/ RequestRelease(w, c)
  PROVE  \A r \in Runs : First(r)'
<1> USE TypeParts
<1>1. ~At(w, "idle")
  BY DEF RecordAllocated, Finish, Stall, RequestSandbox, RequestRelease, At
<1>2. Of(w) \in Runs /\ Of(w) \in Jobs
  BY <1>1, Employed DEF Runs
<1> SUFFICES ASSUME NEW r \in Runs PROVE First(r)'
  OBVIOUS
<1>3. UNCHANGED <<row, box, stuck>>
  BY DEF RecordAllocated, Finish, Stall, RequestSandbox, RequestRelease, sandbox
<1>4. /\ job'[r].attempts = 0 => job[r].attempts = 0
      /\ Healthy(r)' => Healthy(r)
  <2>1. UNCHANGED job \/ \E q \in Jobs : Lapse(q)
    BY <1>2 DEF RecordAllocated, Finish, Stall, RequestSandbox, RequestRelease
  <2>2. run'[r] \in {"open", "paused"} => run[r] \in {"open", "paused"}
    BY DEF RecordAllocated, Finish, Stall, RequestSandbox, RequestRelease, Runs_OK
  <2> QED
    BY <2>1, <2>2, HealthBeside
<1>5. (Pristine(r) => Pristine(r)') /\ (Owned(r) => Owned(r)')
  BY <1>3 DEF Pristine, Owned, Filed
<1>6. CASE Stall(w)
  <2>1. Beside(r)
    BY <1>6 DEF Stall, Beside, sandbox
  <2> QED
    BY <1>4, <2>1, BesideKeeps
<1>7. CASE RecordAllocated(w) \/ Finish(w)
  <2>1. UNCHANGED call /\ AtWork(w)
    BY <1>7 DEF RecordAllocated, Finish, AtWork
  <2>2. PICK step \in {"working", "raw", "leaving"} : GoTo(w, step)
    BY <1>7 DEF RecordAllocated, Finish
  <2>3. PICK s \in WorkerType : s.run = Of(w) /\ s.at = step /\ worker' = [worker EXCEPT ![w] = s]
    BY <1>1, <2>2, GoToMoves DEF WorkerSteps
  <2>4. worker'[w] = s /\ \A v \in Workers \ {w} : worker'[v] = worker[v]
    BY <2>3 DEF Workers_OK
  <2>5. CASE r # Of(w)
    <3>1. Beside(r)
      BY <1>3, <2>1, <2>3, <2>4, <2>5 DEF Beside
    <3> QED
      BY <1>4, <3>1, BesideKeeps
  <2>6. CASE r = Of(w)
    <3>1. job'[r].attempts # 0
      BY <1>2, <1>4, <2>6, Counted
    <3>2. ASSUME Healthy(r)'
          PROVE  Exclusive(r)'
      <4>1. Exclusive(r)
        BY <1>4, <3>2 DEF First
      <4>2. Owned(r)' /\ Uncalled(r)'
        BY <1>5, <2>1, <2>6, <4>1 DEF Exclusive, Stage, Uncalled, For
      <4>3. Stage(w, r)'
        BY <2>3, <2>4, <4>2 DEF Stage, At, AtWork
      <4>4. \A v \in Workers : worker'[v].run = r => v = w
        BY <2>4, <2>6, <4>1 DEF Exclusive, Of
      <4> QED
        BY <1>3, <2>1, <4>1, <4>3, <4>4 DEF Exclusive, Of, For
    <3> QED
      BY <3>1, <3>2 DEF First
  <2> QED
    BY <2>5, <2>6
<1>8. ASSUME NEW c \in Requests, RequestSandbox(w, c) \/ RequestRelease(w, c)
      PROVE  First(r)'
  <2>1. PICK step \in {"looking", "marking"} :
           /\ Opened(c, Of(w), w, step)
           /\ GoTo(w, IF step = "looking" THEN "allocating" ELSE "releasing")
           /\ step = "looking" => At(w, "claimed")
    BY <1>8 DEF RequestSandbox, RequestRelease
  <2> DEFINE open == [at |-> step, run |-> Of(w), by |-> w, box |-> 0]
             wait == IF step = "looking" THEN "allocating" ELSE "releasing"
  <2>2. call' = [call EXCEPT ![c] = open] /\ c \in Calls /\ c # Sweep
    BY <2>1, CallsAssumption DEF Opened, Calls
  <2>3. open.at = step /\ open.run = Of(w) /\ open.by = w
    OBVIOUS
  <2> HIDE DEF open
  <2>4. call'[c] = open /\ \A d \in Calls \ {c} : call'[d] = call[d]
    BY <2>2 DEF Calls_OK
  <2>5. PICK s \in WorkerType : s.run = Of(w) /\ s.at = wait /\ worker' = [worker EXCEPT ![w] = s]
    <3>1. wait \in WorkerSteps \ {"idle"}
      BY DEF WorkerSteps
    <3> QED
      BY <1>1, <2>1, <3>1, GoToMoves
  <2>6. worker'[w] = s /\ \A v \in Workers \ {w} : worker'[v] = worker[v]
    BY <2>5 DEF Workers_OK
  <2>7. CASE r # Of(w)
    <3>1. Beside(r)
      BY <1>3, <2>3, <2>4, <2>5, <2>6, <2>7 DEF Beside
    <3> QED
      BY <1>4, <3>1, BesideKeeps
  <2>8. CASE r = Of(w)
    <3>1. job'[r].attempts # 0
      BY <1>2, <1>4, <2>8, Counted
    <3>2. ASSUME Healthy(r)'
          PROVE  Exclusive(r)'
      <4>1. Exclusive(r)
        BY <1>4, <3>2 DEF First
      <4>2. \A v \in Workers : worker'[v].run = r => v = w
        BY <2>6, <2>8, <4>1 DEF Exclusive, Of
      <4>3. ASSUME step = "looking"
            PROVE  \A d \in Calls : call'[d].run = r => call'[d].by = w /\ Building(d, r)'
        <5>1. Pristine(r) /\ Uncalled(r)
          BY <2>1, <2>8, <4>1, <4>3 DEF Exclusive, Stage
        <5>2. \A d \in Calls : call'[d].run = r => d = c
          BY <2>4, <5>1 DEF Uncalled, For
        <5> QED
          BY <1>5, <2>3, <2>4, <4>3, <5>1, <5>2 DEF Building
      <4>4. Stage(w, r)'
        BY <2>5, <2>6, <4>3 DEF Stage, At, AtWork, For
      <4>5. For(Sweep)' # r /\ r \notin stuck'
        BY <1>3, <2>2, <2>4, <4>1 DEF Exclusive, For, Calls
      <4> QED
        BY <4>2, <4>4, <4>5 DEF Exclusive, Of
    <3> QED
      BY <3>1, <3>2 DEF First
  <2> QED
    BY <2>7, <2>8
<1> QED
  BY <1>6, <1>7, <1>8

\* What a step of a call leaves alone, and what it does to its caller.
Served(c) == Serve(c) \/ BootFails(c) \/ WriteFails(c) \/ DockerFails(c) \/ DockerUnheard(c)

LEMMA ServeFrame ==
  ASSUME TypeOK, Paired, NEW c \in Calls, Served(c)
  PROVE  /\ For(c) \in Runs
         /\ UNCHANGED <<job, run>>
         /\ stuck' \subseteq stuck
         /\ \A d \in Calls \ {c} : call'[d] = call[d]
         /\ \A r \in Runs \ {For(c)} : row'[r] = row[r] /\ box'[r] = box[r]
         /\ \/ /\ UNCHANGED worker
               /\ call'[c].run = For(c) /\ call'[c].by = call[c].by
            \/ /\ call'[c] = Free
               /\ \E step \in {"allocated", "raw", "done", "mirroring"} :
                    /\ Answered(c, step)
                    /\ call[c].at \in Releasing => step \in {"done", "mirroring"}
<1> USE TypeParts
<1>1. call[c].at # "free" /\ For(c) \in Runs
  <2>1. call[c].at # "free"
    BY DEF Served, Serve, Look, Record, CreateVolumes, CreateContainer, Start, InsertRow, Undo, Clear,
           Mark, Stop, Wipe, BootFails, WriteFails, DockerFails, DockerUnheard, Serves
  <2> QED
    BY <2>1, Serving
<1>2. UNCHANGED <<job, run>>
  BY DEF Served, Serve, Look, Record, CreateVolumes, CreateContainer, Start, InsertRow, Undo, Clear,
         Mark, Stop, Wipe, BootFails, WriteFails, DockerFails, DockerUnheard
<1>3. stuck' \subseteq stuck
  BY DEF Served, Serve, Look, Record, CreateVolumes, CreateContainer, Start, InsertRow, Undo, Clear,
         Mark, Stop, Wipe, BootFails, WriteFails, DockerFails, DockerUnheard, Unless
<1>4. \A d \in Calls \ {c} : call'[d] = call[d]
  BY DEF Served, Serve, Look, Record, CreateVolumes, CreateContainer, Start, InsertRow, Undo, Clear,
         Mark, Stop, Wipe, BootFails, WriteFails, DockerFails, DockerUnheard, Proceed, Answer, Calls_OK
<1>5. \A r \in Runs \ {For(c)} : row'[r] = row[r] /\ box'[r] = box[r]
  BY <1>1 DEF Served, Serve, Look, Record, CreateVolumes, CreateContainer, Start, InsertRow, Undo, Clear,
              Remove, Mark, Stop, Wipe, BootFails, WriteFails, DockerFails, DockerUnheard, Create, sandbox, Sandbox_OK
<1>6. /\ \A step : Proceed(c, step) => call'[c].run = For(c) /\ call'[c].by = call[c].by
      /\ \A step, n : call' = [call EXCEPT ![c].at = step, ![c].box = n]
                      => call'[c].run = For(c) /\ call'[c].by = call[c].by
  BY DEF Proceed, Calls_OK, CallType, For
<1>7. \A step : Answer(c, step) => call'[c] = Free /\ Answered(c, step)
  BY DEF Answer, Calls_OK
<1>8. \/ UNCHANGED worker /\ call'[c].run = For(c) /\ call'[c].by = call[c].by
      \/ /\ call'[c] = Free
         /\ \E step \in {"allocated", "raw", "done", "mirroring"} :
              /\ Answered(c, step)
              /\ call[c].at \in Releasing => step \in {"done", "mirroring"}
  <2>1. CASE \/ Look(c) \/ Record(c) \/ CreateVolumes(c) \/ CreateContainer(c) \/ Start(c)
             \/ InsertRow(c) \/ Undo(c) \/ Clear(c) \/ BootFails(c)
    BY <1>6, <1>7, <2>1 DEF Look, Record, CreateVolumes, CreateContainer, Start, InsertRow,
                            Undo, Clear, BootFails, Serves, Releasing
  <2>2. CASE Mark(c) \/ Stop(c) \/ Wipe(c) \/ WriteFails(c)
    BY <1>6, <1>7, <2>2 DEF Mark, Stop, Wipe, WriteFails, Serves, Releasing
  <2>3. CASE DockerFails(c) \/ DockerUnheard(c)
    BY <1>6, <1>7, <2>3 DEF DockerFails, DockerUnheard, Serves, Releasing
  <2> QED
    BY <2>1, <2>2, <2>3 DEF Served, Serve
<1> QED
  BY <1>1, <1>2, <1>3, <1>4, <1>5, <1>8

\* The call that builds the sandbox of a healthy run gets on with it, gives it
\* up, or hands it over.
LEMMA BuildingGoesOn ==
  ASSUME TypeOK, Paired, NEW c \in Calls, NEW r \in Runs, For(c) = r,
         call[c].at \in Allocating, Building(c, r),
         Served(c)
  PROVE  \/ UNCHANGED worker /\ Building(c, r)'
         \/ Answered(c, "raw") \/ (Answered(c, "allocated") /\ Owned(r)')
<1> USE TypeParts
<1>1. call[c].box \in Nat
  BY DEF Calls_OK, CallType
<1>2. /\ \A step : Proceed(c, step) => call'[c].at = step /\ call'[c].box = call[c].box
      /\ \A step, n : call' = [call EXCEPT ![c].at = step, ![c].box = n]
                      => call'[c].at = step /\ call'[c].box = n
  BY DEF Proceed, Calls_OK, CallType
<1>3. CASE Look(c)
  BY <1>2, <1>3 DEF Look, Serves, Building, Pristine, Answer, sandbox
<1>4. CASE CreateVolumes(c)
  BY <1>2, <1>4 DEF CreateVolumes, Serves, Building, Pristine
<1>5. CASE CreateContainer(c)
  <2>1. box[r] = 0 /\ ~row[r].live /\ made[r] \in Nat
    BY <1>5 DEF CreateContainer, Serves, Building, Pristine, Sandbox_OK
  <2>2. /\ call' = [call EXCEPT ![c].at = "starting", ![c].box = made[r] + 1]
        /\ box' = [box EXCEPT ![r] = made[r] + 1]
        /\ UNCHANGED <<row, worker>>
    BY <1>5, <2>1 DEF CreateContainer, Create
  <2>3. box'[r] = made[r] + 1 /\ made[r] + 1 # 0
    BY <2>1, <2>2 DEF Sandbox_OK
  <2> QED
    BY <1>2, <2>1, <2>2, <2>3 DEF Building
<1>6. CASE Start(c)
  BY <1>2, <1>6 DEF Start, Serves, Building, sandbox
<1>7. CASE InsertRow(c)
  <2>1. ~row[r].live /\ box[r] # 0 /\ call[c].box = box[r]
    BY <1>7 DEF InsertRow, Serves, Building
  <2>2. /\ row' = [row EXCEPT ![r] = [live |-> TRUE, box |-> call[c].box, aged |-> FALSE]]
        /\ Proceed(c, "recording") /\ UNCHANGED <<box, worker>>
    BY <1>7, <2>1 DEF InsertRow
  <2>3. row'[r] = [live |-> TRUE, box |-> call[c].box, aged |-> FALSE]
    BY <2>2 DEF Sandbox_OK
  <2>4. row'[r].live /\ row'[r].box = call[c].box
    BY <2>3
  <2> QED
    BY <1>2, <2>1, <2>2, <2>4 DEF Building, Owned, Filed
<1>8. CASE Record(c)
  BY <1>8 DEF Record, Serves, Building, Owned, Filed, Answer, sandbox
<1>9. CASE Undo(c) \/ BootFails(c) \/ WriteFails(c)
  BY <1>2, <1>9 DEF Undo, BootFails, WriteFails, Building
<1>10. CASE Clear(c)
  BY <1>10 DEF Clear, Answer
<1>11. CASE DockerFails(c) \/ DockerUnheard(c)
  BY <1>2, <1>11 DEF DockerFails, DockerUnheard, Serves, Answer, Building, Allocating
<1>12. CASE Mark(c) \/ Stop(c) \/ Wipe(c)
  BY <1>12 DEF Mark, Stop, Wipe, Serves, Allocating
<1> QED
  BY <1>3, <1>4, <1>5, <1>6, <1>7, <1>8, <1>9, <1>10, <1>11, <1>12 DEF Served, Serve

LEMMA FirstServing ==
  ASSUME TypeOK, Paired, \A r \in Runs : First(r), NEW c \in Calls, Served(c)
  PROVE  \A r \in Runs : First(r)'
<1> USE TypeParts
<1> SUFFICES ASSUME NEW r \in Runs PROVE First(r)'
  OBVIOUS
<1>1. For(c) \in Runs /\ UNCHANGED <<job, run>> /\ stuck' \subseteq stuck
  BY ServeFrame
<1>2. \A d \in Calls \ {c} : call'[d] = call[d]
  BY ServeFrame
<1>3. call'[c].run = For(c) \/ call'[c].run = NoRun
  BY ServeFrame DEF Free
<1>4. \A v \in Workers : /\ worker'[v].run = worker[v].run
                         /\ v # call[c].by => worker'[v] = worker[v]
  <2>1. CASE UNCHANGED worker
    BY <2>1
  <2>2. ASSUME NEW step, Answered(c, step)
        PROVE  \A v \in Workers : /\ worker'[v].run = worker[v].run
                                  /\ v # call[c].by => worker'[v] = worker[v]
    BY <2>2 DEF Answered, Workers_OK, WorkerType
  <2> QED
    BY <2>1, <2>2, ServeFrame
<1>5. (Healthy(r)' => Healthy(r)) /\ job'[r].attempts = job[r].attempts
  BY <1>1 DEF Healthy
<1>6. CASE r # For(c)
  <2>1. row'[r] = row[r] /\ box'[r] = box[r]
    BY <1>6, ServeFrame
  <2>2. \A v \in Workers : worker'[v].run = r => worker'[v] = worker[v]
    BY <1>4, <1>6, CallsAssumption DEF Paired, For, Of
  <2>3. \A d \in Calls : call'[d].run = r => call'[d] = call[d]
    BY <1>2, <1>3, <1>6, NoRunAssumption
  <2>4. Beside(r)
    BY <1>1, <2>1, <2>2, <2>3 DEF Beside
  <2> QED
    BY <1>5, <2>4, BesideKeeps
<1>7. CASE r = For(c)
  <2>1. job[r].attempts # 0
    BY <1>7 DEF First, Untouched, Uncalled
  <2>2. ASSUME Healthy(r)'
        PROVE  Exclusive(r)'
    <3>1. Exclusive(r) /\ c # Sweep
      BY <1>5, <1>7, <2>2 DEF First, Exclusive
    <3>2. r \notin stuck' /\ For(Sweep)' # r
      BY <1>1, <1>2, <3>1 DEF Exclusive, For, Calls
    <3>3. \A w, v \in Workers : Of(w)' = r /\ Of(v)' = r => w = v
      BY <1>4, <3>1 DEF Exclusive, Of
    <3>4. ASSUME NEW v \in Workers, Of(v)' = r
          PROVE  Stage(v, r)'
      <4>1. Of(v) = r /\ Stage(v, r)
        BY <1>4, <3>1, <3>4 DEF Exclusive, Of
      <4>2. worker[v].at \notin {"claimed", "allocated", "working", "leaving"}
        BY <1>7, <4>1 DEF Stage, Uncalled, At, AtWork
      <4>3. CASE At(v, "allocating")
        <5>1. call[c].by = v /\ Building(c, r)
          BY <1>7, <4>1, <4>3 DEF Stage
        <5>2. call[c].at \in Allocating
          BY <4>3, <5>1, CallsAssumption DEF Paired, At, Serves, Calls_OK, CallType
        <5>3. \A d \in Calls : For(d) = r => d = c
          BY <4>1, <4>3, <5>1, CallsAssumption DEF Stage, Paired
        <5>4. CASE UNCHANGED worker /\ Building(c, r)' /\ call'[c].by = call[c].by
          BY <1>2, <4>2, <4>3, <5>1, <5>3, <5>4 DEF Stage, At, AtWork, For
        <5>5. CASE Answered(c, "raw")
          <6>1. worker'[v].at = "raw"
            BY <5>1, <5>5 DEF Answered, Workers_OK, WorkerType
          <6> QED
            BY <6>1 DEF Stage, At, AtWork
        <5>6. CASE Answered(c, "allocated") /\ Owned(r)' /\ call'[c] = Free
          <6>1. worker'[v].at = "allocated"
            BY <5>1, <5>6 DEF Answered, Workers_OK, WorkerType
          <6>2. Free.run = NoRun
            BY DEF Free
          <6>3. Uncalled(r)'
            BY <1>2, <5>3, <5>6, <6>2, NoRunAssumption DEF Uncalled, For
          <6> QED
            BY <5>6, <6>1, <6>3 DEF Stage, At, AtWork
        <5>7. worker # worker' => call'[c] = Free
          BY ServeFrame
        <5>8. Answered(c, "allocated") => worker' # worker
          <6>1. ASSUME Answered(c, "allocated") PROVE worker'[v].at = "allocated"
            BY <5>1, <6>1 DEF Answered, Workers_OK, WorkerType
          <6> QED
            BY <4>3, <6>1 DEF At
        <5>9. UNCHANGED worker => call'[c].by = call[c].by
          <6>1. ASSUME UNCHANGED worker, NEW step \in {"allocated", "raw", "done", "mirroring"}, Answered(c, step)
                PROVE  FALSE
            <7>1. worker'[v].at = step
              BY <5>1, <6>1 DEF Answered, Workers_OK, WorkerType
            <7> QED
              BY <4>3, <6>1, <7>1 DEF At
          <6> QED
            BY <6>1, ServeFrame
        <5> QED
          BY <1>7, <5>1, <5>2, <5>4, <5>5, <5>6, <5>7, <5>8, <5>9, BuildingGoesOn
      <4>4. CASE ~At(v, "allocating")
        <5>1. CASE worker'[v] = worker[v]
          BY <4>2, <4>4, <5>1 DEF Stage, At, AtWork
        <5>2. CASE worker'[v] # worker[v]
          <6>1. v = call[c].by /\ call[c].at \in Releasing
            BY <1>4, <4>4, <5>2, CallsAssumption DEF Paired, Serves, Calls_OK, CallType
          <6>2. PICK step \in {"done", "mirroring"} : Answered(c, step)
            BY <5>2, <6>1, ServeFrame
          <6>3. worker'[v].at = step
            BY <6>1, <6>2 DEF Answered, Workers_OK, WorkerType
          <6> QED
            BY <6>3 DEF Stage, At, AtWork
        <5> QED
          BY <5>1, <5>2
      <4> QED
        BY <4>3, <4>4
    <3> QED
      BY <3>2, <3>3, <3>4 DEF Exclusive
  <2> QED
    BY <1>5, <2>1, <2>2 DEF First
<1> QED
  BY <1>6, <1>7

LEMMA InitFirst == Init => \A r \in Runs : First(r)
<1> SUFFICES ASSUME Init, NEW r \in Runs PROVE First(r)
  OBVIOUS
<1>1. Free.run = NoRun /\ Idle.run = NoRun /\ r # NoRun
  BY NoRunAssumption DEF Free, Idle
<1>2. job[r] = [status |-> "absent", lease |-> "none", attempts |-> 0]
  BY DEF Init, JobsInit, Runs
<1>3. job[r].status # "running"
  BY <1>2
<1>4. ASSUME job[r] = [status |-> "running", lease |-> "live", attempts |-> 1]
      PROVE  job[r].status = "running"
  BY <1>4
<1>5. Untouched(r)
  BY <1>1 DEF Init, Untouched, Pristine, Uncalled, For, Of
<1> QED
  BY <1>3, <1>4, <1>5 DEF First, Healthy

\* While a worker is at work on the first claim of a healthy run no sweep, no
\* late call and no other worker takes the sandbox from him
\* (RunnerLifecycle.sweepStuck, release; PgRunnerStore.listStuck).
THEOREM KeptWhileAtWork == Spec => []SandboxKept
<1>1. TypeOK /\ Paired /\ (\A r \in Runs : First(r)) /\ [Next]_vars => (\A r \in Runs : First(r))'
  <2> SUFFICES ASSUME TypeOK, Paired, \A r \in Runs : First(r), [Next]_vars
               PROVE  \A r \in Runs : First(r)'
    OBVIOUS
  <2>1. CASE Next
    <3>1. ASSUME NEW c \in Calls, Serve(c) \/ BootFails(c) \/ WriteFails(c) \/ DockerFails(c) \/ DockerUnheard(c)
          PROVE  \A r \in Runs : First(r)'
      BY <3>1, FirstServing DEF Served
    <3> QED
      BY <2>1, <3>1, FirstAside, FirstCancel, FirstClaim, FirstEnding, FirstWorking DEF Next, Work, Sweeping
  <2>2. CASE UNCHANGED vars
    BY <2>2, BesideKeeps DEF vars, sandbox, Beside, Healthy
  <2> QED
    BY <2>1, <2>2
<1>2. TypeOK /\ (\A r \in Runs : First(r)) => SandboxKept
  <2> SUFFICES ASSUME TypeOK, \A r \in Runs : First(r), NEW w \in Workers, AtWork(w), Healthy(Of(w))
               PROVE  Filed(Of(w)) /\ box[Of(w)] # 0
    BY DEF SandboxKept
  <2>1. Of(w) \in Runs
    BY TypeParts, Employed DEF AtWork, At
  <2> QED
    BY <2>1 DEF First, Exclusive, Stage, Owned
<1> QED
  BY <1>1, <1>2, InitFirst, Typed, PTL DEF Spec

-----------------------------------------------------------------------------
(* The refinement of Custody *)

\* A container has volumes: they are removed only where there is none.
Mounted == \A r \in Runs : box[r] # 0 => disk[r]

\* Containers are numbered as they are made: nobody has the number of the next.
Numbered == \A r \in Runs : /\ row[r].box <= made[r]
                           /\ \A c \in Calls : For(c) = r => call[c].box <= made[r]

CustodyInv == TypeOK /\ Paired /\ SandboxesKnown /\ Mounted /\ Numbered

LEMMA ContainerIs ==
  ASSUME NEW r \in Runs
  PROVE  /\ Container[r] = "none" <=> box[r] = 0
         /\ Container[r] = "held" <=> box[r] # 0 /\ (Held(r) \/ (~Filed(r) /\ Reported(r)))
         /\ Container[r] = "filed" <=> box[r] # 0 /\ ~Held(r) /\ Filed(r)
         /\ Container[r] = "lost" <=> box[r] # 0 /\ ~Held(r) /\ ~Filed(r) /\ ~Reported(r)
         /\ Container[r] \in {"none", "held", "filed", "lost"}
BY DEF Container

LEMMA VolumesAre ==
  ASSUME NEW r \in Runs
  PROVE  /\ Volumes[r] = "used" <=> box[r] # 0
         /\ Volumes[r] = "none" <=> box[r] = 0 /\ ~disk[r]
         /\ Volumes[r] = "held" <=> box[r] = 0 /\ disk[r] /\ Minded(r)
         /\ Volumes[r] = "lost" <=> box[r] = 0 /\ disk[r] /\ ~Minded(r)
         /\ Volumes[r] \in {"none", "held", "used", "lost"}
BY DEF Volumes

LEMMA ContainerNext ==
  ASSUME NEW r \in Runs
  PROVE  /\ Container'[r] = "none" <=> box'[r] = 0
         /\ Container'[r] = "held" <=> box'[r] # 0 /\ (Held(r)' \/ (~Filed(r)' /\ Reported(r)'))
         /\ Container'[r] = "filed" <=> box'[r] # 0 /\ ~Held(r)' /\ Filed(r)'
         /\ Container'[r] = "lost" <=> box'[r] # 0 /\ ~Held(r)' /\ ~Filed(r)' /\ ~Reported(r)'
         /\ Container'[r] \in {"none", "held", "filed", "lost"}
BY DEF Container

LEMMA VolumesNext ==
  ASSUME NEW r \in Runs
  PROVE  /\ Volumes'[r] = "used" <=> box'[r] # 0
         /\ Volumes'[r] = "none" <=> box'[r] = 0 /\ ~disk'[r]
         /\ Volumes'[r] = "held" <=> box'[r] = 0 /\ disk'[r] /\ Minded(r)'
         /\ Volumes'[r] = "lost" <=> box'[r] = 0 /\ disk'[r] /\ ~Minded(r)'
         /\ Volumes'[r] \in {"none", "held", "used", "lost"}
BY DEF Volumes

LEMMA PlacesAreFunctions ==
  /\ Container = [r \in Runs |-> Container[r]] /\ Container' = [r \in Runs |-> Container'[r]]
  /\ Volumes = [r \in Runs |-> Volumes[r]] /\ Volumes' = [r \in Runs |-> Volumes'[r]]
BY DEF Container, Volumes

\* What a step may do to the sandbox of one run.
Passes(q) ==
  \/ UNCHANGED struck /\
     \/ Container'[q] = Container[q] /\ Volumes'[q] = Volumes[q]
     \/ Container[q] = "none" /\ Container'[q] = "none" /\ Volumes'[q] = "held"
     \/ Container[q] = "none" /\ Container'[q] = "held" /\ Volumes'[q] = "used"
     \/ Container[q] = "held" /\ Container'[q] = "filed" /\ Volumes'[q] = Volumes[q]
     \/ Container[q] = "filed" /\ Container'[q] = "held" /\ Volumes'[q] = Volumes[q]
     \/ Container[q] = "held" /\ Container'[q] = "none" /\ Volumes'[q] = "held"
     \/ Container'[q] = Container[q] /\ Volumes[q] = "held" /\ Volumes'[q] = "none"
  \/ /\ struck' = struck \/ struck' = struck \cup {q}
     /\ \/ q \in struck' /\ C!Falls(q)
        \/ Container'[q] = Container[q] /\ Volumes'[q] = Volumes[q]

LEMMA PassesMapped ==
  ASSUME NEW q \in Runs, Passes(q),
         \A r \in Runs \ {q} : Container'[r] = Container[r] /\ Volumes'[r] = Volumes[r]
  PROVE  [C!Next]_(C!custody)
<1>1. /\ \A s : Container'[q] = s => Container' = [Container EXCEPT ![q] = s]
      /\ \A s : Volumes'[q] = s => Volumes' = [Volumes EXCEPT ![q] = s]
  BY PlacesAreFunctions
<1>2. /\ Container'[q] = Container[q] => Container' = Container
      /\ Volumes'[q] = Volumes[q] => Volumes' = Volumes
  BY PlacesAreFunctions
<1>3. CASE /\ struck' = struck \/ struck' = struck \cup {q}
           /\ \/ q \in struck' /\ C!Falls(q)
              \/ Container'[q] = Container[q] /\ Volumes'[q] = Volumes[q]
  <2>1. \E runs \in SUBSET Runs : struck' = struck \cup runs
    <3>1. CASE struck' = struck
      <4> WITNESS {} \in SUBSET Runs
      <4> QED
        BY <3>1
    <3>2. CASE struck' = struck \cup {q}
      <4> WITNESS {q} \in SUBSET Runs
      <4> QED
        BY <3>2
    <3> QED
      BY <1>3, <3>1, <3>2
  <2>2. /\ Container' \in [Runs -> {"none", "held", "filed", "lost"}]
        /\ Volumes' \in [Runs -> {"none", "held", "used", "lost"}]
    BY ContainerNext, VolumesNext, PlacesAreFunctions
  <2>3. C!Accident
    BY <1>3, <2>1, <2>2 DEF C!Accident
  <2> QED
    BY <2>3 DEF C!Next
<1>4. CASE /\ UNCHANGED struck
           /\ Container'[q] = Container[q] /\ Volumes'[q] = Volumes[q]
  BY <1>2, <1>4 DEF C!custody
<1>5. CASE UNCHANGED struck /\ Container[q] = "none" /\ Container'[q] = "none" /\ Volumes'[q] = "held"
  BY <1>1, <1>2, <1>5 DEF C!Next, C!Prepare
<1>6. CASE UNCHANGED struck /\ Container[q] = "none" /\ Container'[q] = "held" /\ Volumes'[q] = "used"
  BY <1>1, <1>6 DEF C!Next, C!Build
<1>7. CASE UNCHANGED struck /\ Container[q] = "held" /\ Container'[q] = "filed" /\ Volumes'[q] = Volumes[q]
  BY <1>1, <1>2, <1>7 DEF C!Next, C!File
<1>8. CASE UNCHANGED struck /\ Container[q] = "filed" /\ Container'[q] = "held" /\ Volumes'[q] = Volumes[q]
  BY <1>1, <1>2, <1>8 DEF C!Next, C!Fetch
<1>9. CASE UNCHANGED struck /\ Container[q] = "held" /\ Container'[q] = "none" /\ Volumes'[q] = "held"
  BY <1>1, <1>9 DEF C!Next, C!Remove
<1>10. CASE UNCHANGED struck /\ Container'[q] = Container[q] /\ Volumes[q] = "held" /\ Volumes'[q] = "none"
  BY <1>1, <1>2, <1>10 DEF C!Next, C!Wipe
<1> QED
  BY <1>3, <1>4, <1>5, <1>6, <1>7, <1>8, <1>9, <1>10 DEF Passes

\* A step that moves no call in or out of the steps that count, and neither
\* rows nor Docker.
LEMMA CustodyQuiet ==
  ASSUME UNCHANGED <<box, disk, struck>>,
         \A r \in Runs : row'[r].live = row[r].live /\ row'[r].box = row[r].box,
         \A c \in Calls :
           \/ /\ call'[c].run = call[c].run /\ call'[c].box = call[c].box
              /\ call'[c].at = call[c].at
           \/ /\ call[c].at \in {"free", "looking", "wiring", "marking"}
              /\ call'[c].at \in {"free", "looking", "wiring", "marking"}
  PROVE  UNCHANGED C!custody
<1>1. ASSUME NEW r \in Runs
      PROVE  Container'[r] = Container[r] /\ Volumes'[r] = Volumes[r]
  <2>1. Held(r)' <=> Held(r)
    BY DEF Held, InHand, For
  <2>2. Reported(r)' <=> Reported(r)
    BY DEF Reported, Serves, For
  <2>3. Minded(r)' <=> Minded(r)
    BY DEF Minded, For
  <2>4. Filed(r)' <=> Filed(r)
    BY DEF Filed
  <2> QED
    BY <2>1, <2>2, <2>3, <2>4, ContainerIs, ContainerNext, VolumesAre, VolumesNext
<1> QED
  BY <1>1, PlacesAreFunctions DEF C!custody

\* The step of a call is of no concern to the other runs.
LEMMA ServeOthers ==
  ASSUME TypeOK, Paired, NEW c \in Calls, Served(c), NEW r \in Runs, r # For(c)
  PROVE  Container'[r] = Container[r] /\ Volumes'[r] = Volumes[r]
<1> USE TypeParts
<1>1. row'[r] = row[r] /\ box'[r] = box[r] /\ For(c) \in Runs
  BY ServeFrame
<1>2. disk'[r] = disk[r]
  BY <1>1 DEF Served, Serve, Look, Record, CreateVolumes, CreateContainer, Start, InsertRow, Undo, Clear,
              Mark, Stop, Wipe, BootFails, WriteFails, DockerFails, DockerUnheard, Create, sandbox, Sandbox_OK
<1>3. \A d \in Calls : (call'[d].run = r <=> call[d].run = r) /\ (call[d].run = r => call'[d] = call[d])
  <2>1. \A d \in Calls \ {c} : call'[d] = call[d]
    BY ServeFrame
  <2>2. call'[c].run = For(c) \/ call'[c].run = NoRun
    BY ServeFrame DEF Free
  <2>3. call'[c].run # r /\ call[c].run # r
    BY <2>2, NoRunAssumption DEF For
  <2> QED
    BY <2>1, <2>3
<1>4. /\ Held(r)' <=> Held(r)
      /\ Reported(r)' <=> Reported(r)
      /\ Minded(r)' <=> Minded(r)
      /\ Filed(r)' <=> Filed(r)
  BY <1>1, <1>3 DEF Held, InHand, Reported, Minded, Serves, Filed, For
<1> QED
  BY <1>1, <1>2, <1>4, ContainerIs, ContainerNext, VolumesAre, VolumesNext

\* Who knows a sandbox: this call, another one, or its row.
HeldElse(c)     == \E d \in Calls \ {c} : InHand(d, For(c))
ReportedElse(c) == \E d \in Calls \ {c} : For(d) = For(c) /\ Serves(d, "recording") /\ call[d].box = box[For(c)]
MindedElse(c)   == \E d \in Calls \ {c} : For(d) = For(c) /\ call[d].at \in {"creating", "clearing", "wiping"}

HoldSteps == {"starting", "inserting", "undoing", "stopping"}
MindSteps == {"creating", "clearing", "wiping"}

LEMMA KnownBy ==
  ASSUME NEW c \in Calls, NEW q, q = For(c)
  PROVE  /\ Held(q) <=> HeldElse(c) \/ (call[c].at \in HoldSteps /\ call[c].box = box[q])
         /\ Reported(q) <=> ReportedElse(c) \/ (call[c].at = "recording" /\ call[c].box = box[q])
         /\ Minded(q) <=> MindedElse(c) \/ call[c].at \in MindSteps
BY DEF Held, InHand, HeldElse, Reported, ReportedElse, Minded, MindedElse, Serves, For, HoldSteps, MindSteps

\* After the step of the call: the call itself still works for the run, or is
\* free, which is none of the steps that count.
LEMMA KnownNext ==
  ASSUME NEW c \in Calls, NEW q, q = For(c), q # NoRun,
         \A d \in Calls \ {c} : call'[d] = call[d],
         call'[c].run = q \/ call'[c] = Free
  PROVE  /\ box'[q] = box[q] =>
              /\ Held(q)' <=> HeldElse(c) \/ (call'[c].at \in HoldSteps /\ call'[c].box = box[q])
              /\ Reported(q)' <=> ReportedElse(c) \/ (call'[c].at = "recording" /\ call'[c].box = box[q])
         /\ Minded(q)' <=> MindedElse(c) \/ call'[c].at \in MindSteps
<1>1. Free.at = "free" /\ Free.run = NoRun
  BY DEF Free
<1>2. \A d \in Calls : call'[d].run = q => (d = c \/ (call'[d] = call[d] /\ For(d) = q))
  BY DEF For
<1>3. call'[c].at \in HoldSteps \cup MindSteps \cup {"recording"} => call'[c].run = q
  BY <1>1 DEF HoldSteps, MindSteps
<1>4. ASSUME box'[q] = box[q]
      PROVE  Held(q)' <=> HeldElse(c) \/ (call'[c].at \in HoldSteps /\ call'[c].box = box[q])
  <2>1. Held(q)' <=> \E d \in Calls : /\ call'[d].run = q /\ call'[d].box = box[q]
                                      /\ call'[d].at \in HoldSteps
    BY <1>4 DEF Held, InHand, For, HoldSteps
  <2>2. HeldElse(c) <=> \E d \in Calls \ {c} : /\ call[d].run = q /\ call[d].box = box[q]
                                               /\ call[d].at \in HoldSteps
    BY DEF HeldElse, InHand, For, HoldSteps
  <2> QED
    BY <1>3, <2>1, <2>2
<1>5. ASSUME box'[q] = box[q]
      PROVE  Reported(q)' <=> ReportedElse(c) \/ (call'[c].at = "recording" /\ call'[c].box = box[q])
  <2>1. Reported(q)' <=> \E d \in Calls : /\ call'[d].run = q /\ call'[d].box = box[q]
                                          /\ call'[d].at = "recording"
    BY <1>5 DEF Reported, Serves, For
  <2>2. ReportedElse(c) <=> \E d \in Calls \ {c} : /\ call[d].run = q /\ call[d].box = box[q]
                                                   /\ call[d].at = "recording"
    BY DEF ReportedElse, Serves, For
  <2> QED
    BY <1>3, <2>1, <2>2
<1>6. Minded(q)' <=> MindedElse(c) \/ call'[c].at \in MindSteps
  <2>1. Minded(q)' <=> \E d \in Calls : call'[d].run = q /\ call'[d].at \in MindSteps
    BY DEF Minded, For, MindSteps
  <2>2. MindedElse(c) <=> \E d \in Calls \ {c} : call[d].run = q /\ call[d].at \in MindSteps
    BY DEF MindedElse, For, MindSteps
  <2> QED
    BY <1>3, <2>1, <2>2
<1> QED
  BY <1>4, <1>5, <1>6

\* What it does to the sandbox of its own.
LEMMA ServeSelf ==
  ASSUME CustodyInv, SandboxesKnown', NEW c \in Calls, Served(c)
  PROVE  \E q \in Runs : q = For(c) /\ Passes(q)
<1> USE TypeParts DEF CustodyInv
<1>1. PICK q \in Runs : q = For(c)
  BY ServeFrame
<1>2. /\ q \in Runs /\ q # NoRun
      /\ \A d \in Calls \ {c} : call'[d] = call[d]
      /\ call'[c].run = q \/ call'[c] = Free
  BY <1>1, ServeFrame, NoRunAssumption
<1>3. /\ Held(q) <=> HeldElse(c) \/ (call[c].at \in HoldSteps /\ call[c].box = box[q])
      /\ Reported(q) <=> ReportedElse(c) \/ (call[c].at = "recording" /\ call[c].box = box[q])
      /\ Minded(q) <=> MindedElse(c) \/ call[c].at \in MindSteps
  BY <1>1, KnownBy
<1>4. /\ box'[q] = box[q] =>
           /\ Held(q)' <=> HeldElse(c) \/ (call'[c].at \in HoldSteps /\ call'[c].box = box[q])
           /\ Reported(q)' <=> ReportedElse(c) \/ (call'[c].at = "recording" /\ call'[c].box = box[q])
      /\ Minded(q)' <=> MindedElse(c) \/ call'[c].at \in MindSteps
  BY <1>1, <1>2, KnownNext
<1>5. /\ \A step : Proceed(c, step) => call'[c].at = step /\ call'[c].box = call[c].box
      /\ \A step : Answer(c, step) => call'[c].at = "free"
  BY DEF Proceed, Answer, Free, Calls_OK, CallType
\* The container is where it was if the same calls hold it, and so is its row.
<1>6. ASSUME box'[q] = box[q], Held(q)' <=> Held(q), Filed(q)' <=> Filed(q), Reported(q)' <=> Reported(q)
      PROVE  Container'[q] = Container[q]
  BY <1>2, <1>6, ContainerIs, ContainerNext
<1>7. ASSUME box'[q] = box[q], disk'[q] = disk[q] \/ box[q] # 0, (Minded(q)' <=> Minded(q)) \/ box[q] # 0
      PROVE  Volumes'[q] = Volumes[q]
  BY <1>2, <1>7, VolumesAre, VolumesNext
<1>8. CASE Look(c) \/ Start(c) \/ BootFails(c)
  <2>1. UNCHANGED <<row, box, disk, struck>>
    BY <1>8 DEF Look, Start, BootFails, sandbox
  <2>2. \/ call[c].at = "looking" /\ call'[c].at \in {"free", "wiring"}
        \/ /\ call[c].at = "starting" /\ call'[c].at \in {"inserting", "undoing"}
           /\ call'[c].box = call[c].box
    BY <1>5, <1>8 DEF Look, Start, BootFails, Serves
  <2>3. (Held(q)' <=> Held(q)) /\ (Reported(q)' <=> Reported(q)) /\ (Minded(q)' <=> Minded(q))
    BY <1>3, <1>4, <2>1, <2>2 DEF HoldSteps, MindSteps
  <2>4. Filed(q)' <=> Filed(q)
    BY <2>1 DEF Filed
  <2> QED
    BY <1>1, <1>6, <1>7, <2>1, <2>3, <2>4 DEF Passes
<1>9. CASE CreateVolumes(c)
  <2>1. UNCHANGED <<row, box, struck>> /\ disk'[q] = TRUE
    BY <1>1, <1>2, <1>9 DEF CreateVolumes, Sandbox_OK
  <2>2. call[c].at = "wiring" /\ call'[c].at = "creating"
    BY <1>5, <1>9 DEF CreateVolumes, Serves
  <2>3. (Held(q)' <=> Held(q)) /\ (Reported(q)' <=> Reported(q)) /\ (Filed(q)' <=> Filed(q)) /\ Minded(q)'
    BY <1>3, <1>4, <2>1, <2>2 DEF HoldSteps, MindSteps, Filed
  <2>4. Container'[q] = Container[q]
    BY <1>6, <2>1, <2>3
  <2>5. CASE box[q] = 0
    BY <1>1, <1>2, <2>1, <2>3, <2>4, <2>5, ContainerIs, VolumesNext DEF Passes
  <2>6. CASE box[q] # 0
    BY <1>1, <1>7, <2>1, <2>4, <2>6 DEF Passes
  <2> QED
    BY <2>5, <2>6
<1>10. CASE CreateContainer(c)
  <2>1. call[c].at = "creating" /\ UNCHANGED <<row, struck>>
    BY <1>10 DEF CreateContainer, Serves
  <2>2. CASE box[q] # 0
    <3>1. UNCHANGED <<box, disk>> /\ call'[c].at = "clearing"
      BY <1>1, <1>5, <1>10, <2>2 DEF CreateContainer
    <3>2. (Held(q)' <=> Held(q)) /\ (Reported(q)' <=> Reported(q)) /\ (Filed(q)' <=> Filed(q))
      BY <1>3, <1>4, <2>1, <3>1 DEF HoldSteps, Filed
    <3> QED
      BY <1>1, <1>6, <1>7, <2>1, <2>2, <3>1, <3>2 DEF Passes
  <2>3. CASE box[q] = 0
    <3>1. made[q] \in Nat /\ made[q] + 1 # 0
      BY <1>2 DEF Sandbox_OK
    <3>2. /\ call' = [call EXCEPT ![c].at = "starting", ![c].box = made[q] + 1]
          /\ box' = [box EXCEPT ![q] = made[q] + 1]
      BY <1>1, <1>10, <2>3 DEF CreateContainer, Create
    <3>3. call'[c].at = "starting" /\ call'[c].box = made[q] + 1 /\ call'[c].run = q
      BY <1>1, <3>2 DEF Calls_OK, CallType, For
    <3>4. box'[q] = made[q] + 1
      BY <1>2, <3>2 DEF Sandbox_OK
    <3>5. Held(q)'
      BY <3>3, <3>4 DEF Held, InHand, For
    <3>6. Container[q] = "none" /\ Container'[q] = "held" /\ Volumes'[q] = "used"
      BY <1>2, <2>3, <3>1, <3>4, <3>5, ContainerIs, ContainerNext, VolumesNext
    <3> QED
      BY <1>1, <2>1, <3>6 DEF Passes
  <2> QED
    BY <2>2, <2>3
<1>11. CASE InsertRow(c)
  <2>1. call[c].at = "inserting" /\ UNCHANGED <<box, disk, struck>>
    BY <1>11 DEF InsertRow, Serves
  <2>2. CASE row[q].live
    <3>1. UNCHANGED row /\ call'[c].at = "undoing" /\ call'[c].box = call[c].box
      BY <1>1, <1>5, <1>11, <2>2 DEF InsertRow
    <3>2. /\ Held(q)' <=> Held(q)
          /\ Reported(q)' <=> Reported(q)
          /\ Minded(q)' <=> Minded(q)
          /\ Filed(q)' <=> Filed(q)
      BY <1>3, <1>4, <2>1, <3>1 DEF HoldSteps, MindSteps, Filed
    <3> QED
      BY <1>1, <1>6, <1>7, <2>1, <3>2 DEF Passes
  <2>3. CASE ~row[q].live
    <3>1. row' = [row EXCEPT ![q] = [live |-> TRUE, box |-> call[c].box, aged |-> FALSE]]
      BY <1>1, <1>11, <2>3 DEF InsertRow
    <3>2. row'[q] = [live |-> TRUE, box |-> call[c].box, aged |-> FALSE]
      BY <1>2, <3>1 DEF Sandbox_OK
    <3>3. row'[q].live /\ row'[q].box = call[c].box
      BY <3>2
    <3>4. call'[c].at = "recording" /\ call'[c].box = call[c].box
      BY <1>1, <1>5, <1>11, <2>3 DEF InsertRow
    <3>5. Minded(q)' <=> Minded(q)
      BY <1>3, <1>4, <2>1, <3>4 DEF MindSteps
    <3>6. Volumes'[q] = Volumes[q]
      BY <1>7, <2>1, <3>5
    <3>7. (Filed(q)' <=> call[c].box = box[q]) /\ ~Filed(q)
      BY <2>1, <2>3, <3>3 DEF Filed
    <3>8. Held(q)' <=> HeldElse(c)
      BY <1>4, <2>1, <3>4 DEF HoldSteps
    <3>9. CASE call[c].box = box[q]
      <4>1. Held(q)
        BY <1>3, <2>1, <3>9 DEF HoldSteps
      <4>2. \/ Container'[q] = Container[q]
            \/ Container[q] = "held" /\ Container'[q] = "filed"
        BY <1>2, <2>1, <3>7, <3>9, <4>1, ContainerIs, ContainerNext
      <4> QED
        BY <1>1, <2>1, <3>6, <4>2 DEF Passes
    <3>10. CASE call[c].box # box[q]
      <4>1. (Held(q)' <=> Held(q)) /\ (Reported(q)' <=> Reported(q)) /\ (Filed(q)' <=> Filed(q))
        BY <1>3, <1>4, <2>1, <3>4, <3>7, <3>8, <3>10
      <4> QED
        BY <1>1, <1>6, <2>1, <3>6, <4>1 DEF Passes
    <3> QED
      BY <3>9, <3>10
  <2> QED
    BY <2>2, <2>3
<1>12. CASE Record(c)
  <2>1. call[c].at = "recording" /\ call'[c].at = "free" /\ UNCHANGED <<row, box, disk, struck>>
    BY <1>5, <1>12 DEF Record, Serves, sandbox
  <2>2. /\ Held(q)' <=> Held(q)
        /\ Minded(q)' <=> Minded(q)
        /\ Filed(q)' <=> Filed(q)
    BY <1>3, <1>4, <2>1 DEF HoldSteps, MindSteps, Filed
  <2>3. Volumes'[q] = Volumes[q]
    BY <1>7, <2>1, <2>2
  <2>4. q \in struck' \/ box[q] = 0 \/ Filed(q)' \/ Held(q)'
    BY <1>2, <2>1 DEF SandboxesKnown, Held
  <2>5. CASE Container'[q] = Container[q]
    BY <1>1, <2>1, <2>3, <2>5 DEF Passes
  <2>6. CASE Container'[q] # Container[q]
    <3>1. q \in struck' /\ Container[q] = "held" /\ Container'[q] = "lost"
      BY <1>2, <1>3, <1>4, <2>1, <2>2, <2>4, <2>6, ContainerIs, ContainerNext
    <3> QED
      BY <1>1, <2>1, <2>3, <3>1 DEF Passes, C!Falls
  <2> QED
    BY <2>5, <2>6
<1>13. CASE WriteFails(c)
  <2>1. /\ call[c].at \in {"inserting", "recording"} /\ call'[c].at = "undoing"
        /\ call'[c].box = call[c].box
        /\ UNCHANGED <<row, box, disk, struck>>
    BY <1>5, <1>13 DEF WriteFails, Serves, sandbox
  <2>2. (Minded(q)' <=> Minded(q)) /\ (Filed(q)' <=> Filed(q))
    BY <1>3, <1>4, <2>1 DEF MindSteps, Filed
  <2>3. Volumes'[q] = Volumes[q]
    BY <1>7, <2>1, <2>2
  <2>4. CASE call[c].box = box[q]
    <3>1. Held(q)' /\ (Held(q) \/ Reported(q))
      BY <1>3, <1>4, <2>1, <2>4 DEF HoldSteps
    <3>2. \/ Container'[q] = Container[q]
          \/ Container[q] = "filed" /\ Container'[q] = "held"
      BY <1>2, <2>1, <3>1, ContainerIs, ContainerNext
    <3> QED
      BY <1>1, <2>1, <2>3, <3>2 DEF Passes
  <2>5. CASE call[c].box # box[q]
    <3>1. (Held(q)' <=> Held(q)) /\ (Reported(q)' <=> Reported(q))
      BY <1>3, <1>4, <2>1, <2>5
    <3> QED
      BY <1>1, <1>6, <2>1, <2>2, <2>3, <3>1 DEF Passes
  <2> QED
    BY <2>4, <2>5
<1>14. CASE Undo(c) \/ Stop(c)
  <2>1. /\ call[c].at \in {"undoing", "stopping"} /\ call'[c].at \in {"clearing", "wiping"}
        /\ call'[c].box = call[c].box
        /\ UNCHANGED <<row, disk, struck>> /\ Remove(c)
    BY <1>5, <1>14 DEF Undo, Stop, Serves
  <2>2. Minded(q)'
    BY <1>4, <2>1 DEF MindSteps
  <2>3. CASE box[q] = call[c].box /\ box[q] # 0
    <3>1. box'[q] = 0 /\ disk'[q]
      BY <1>1, <1>2, <2>1, <2>3 DEF Remove, Sandbox_OK, Mounted
    <3>2. Held(q)
      BY <1>3, <2>1, <2>3 DEF HoldSteps
    <3>3. Container[q] = "held" /\ Container'[q] = "none" /\ Volumes'[q] = "held"
      BY <1>2, <2>2, <2>3, <3>1, <3>2, ContainerIs, ContainerNext, VolumesNext
    <3> QED
      BY <1>1, <2>1, <3>3 DEF Passes
  <2>4. CASE box[q] = 0
    <3>1. box'[q] = 0
      BY <1>1, <1>2, <2>1, <2>4 DEF Remove, Sandbox_OK
    <3>2. Container[q] = "none" /\ Container'[q] = "none"
      BY <1>2, <2>4, <3>1, ContainerIs, ContainerNext
    <3>3. \/ Volumes'[q] = "held"
          \/ Volumes'[q] = Volumes[q]
      BY <1>2, <2>1, <2>2, <2>4, <3>1, VolumesAre, VolumesNext
    <3> QED
      BY <1>1, <2>1, <3>2, <3>3 DEF Passes
  <2>5. CASE box[q] # call[c].box /\ box[q] # 0
    <3>1. UNCHANGED box
      BY <1>1, <2>1, <2>5 DEF Remove
    <3>2. (Held(q)' <=> Held(q)) /\ (Reported(q)' <=> Reported(q)) /\ (Filed(q)' <=> Filed(q))
      BY <1>3, <1>4, <2>1, <2>5, <3>1 DEF Filed
    <3> QED
      BY <1>1, <1>6, <1>7, <2>1, <2>5, <3>1, <3>2 DEF Passes
  <2> QED
    BY <2>3, <2>4, <2>5
<1>15. CASE Clear(c) \/ Wipe(c)
  <2>1. /\ call[c].at \in {"clearing", "wiping"} /\ call'[c].at = "free"
        /\ UNCHANGED <<row, box, struck>>
    BY <1>5, <1>15 DEF Clear, Wipe, Serves
  <2>2. (Held(q)' <=> Held(q)) /\ (Reported(q)' <=> Reported(q)) /\ (Filed(q)' <=> Filed(q)) /\ Minded(q)
    BY <1>3, <1>4, <2>1 DEF HoldSteps, MindSteps, Filed
  <2>3. Container'[q] = Container[q]
    BY <1>6, <2>1, <2>2
  <2>4. CASE box[q] # 0
    BY <1>1, <1>7, <2>1, <2>3, <2>4 DEF Passes
  <2>5. CASE box[q] = 0
    <3>1. disk'[q] = FALSE /\ disk[q] \in BOOLEAN
      BY <1>1, <1>2, <1>15, <2>5 DEF Clear, Wipe, Sandbox_OK
    <3>2. Volumes'[q] = "none" /\ Volumes[q] \in {"none", "held"}
      BY <1>2, <2>1, <2>2, <2>5, <3>1, VolumesAre, VolumesNext
    <3> QED
      BY <1>1, <2>1, <2>3, <3>2 DEF Passes
  <2> QED
    BY <2>4, <2>5
<1>16. CASE Mark(c)
  <2>1. call[c].at = "marking" /\ UNCHANGED <<box, disk, struck>>
    BY <1>16 DEF Mark, Serves
  <2>2. CASE ~row[q].live
    <3>1. UNCHANGED row /\ call'[c].at = "free"
      BY <1>1, <1>5, <1>16, <2>2 DEF Mark
    <3>2. /\ Held(q)' <=> Held(q)
          /\ Reported(q)' <=> Reported(q)
          /\ Minded(q)' <=> Minded(q)
          /\ Filed(q)' <=> Filed(q)
      BY <1>3, <1>4, <2>1, <3>1 DEF HoldSteps, MindSteps, Filed
    <3> QED
      BY <1>1, <1>6, <1>7, <2>1, <3>2 DEF Passes
  <2>3. CASE row[q].live
    <3>1. /\ row' = [row EXCEPT ![q].live = FALSE]
          /\ call' = [call EXCEPT ![c].at = "stopping", ![c].box = row[q].box]
      BY <1>1, <1>16, <2>3 DEF Mark
    <3>2. call'[c].at = "stopping" /\ call'[c].box = row[q].box
      BY <3>1 DEF Calls_OK, CallType
    <3>3. ~row'[q].live
      BY <1>2, <3>1 DEF Sandbox_OK, RowType
    <3>4. ~Filed(q)' /\ (Minded(q)' <=> Minded(q)) /\ (Reported(q)' <=> Reported(q))
      BY <1>3, <1>4, <2>1, <3>2, <3>3 DEF MindSteps, Filed
    <3>5. Volumes'[q] = Volumes[q]
      BY <1>7, <2>1, <3>4
    <3>6. CASE row[q].box = box[q]
      <4>1. Filed(q) /\ Held(q)'
        BY <1>4, <2>1, <2>3, <3>2, <3>6 DEF Filed, HoldSteps
      <4>2. \/ Container'[q] = Container[q]
            \/ Container[q] = "filed" /\ Container'[q] = "held"
        BY <1>2, <2>1, <4>1, ContainerIs, ContainerNext
      <4> QED
        BY <1>1, <2>1, <3>5, <4>2 DEF Passes
    <3>7. CASE row[q].box # box[q]
      <4>1. (Held(q)' <=> Held(q)) /\ (Filed(q)' <=> Filed(q))
        BY <1>3, <1>4, <2>1, <3>2, <3>4, <3>7 DEF Filed, HoldSteps
      <4> QED
        BY <1>1, <1>6, <2>1, <3>4, <3>5, <4>1 DEF Passes
    <3> QED
      BY <3>6, <3>7
  <2> QED
    BY <2>2, <2>3
<1>17. CASE DockerFails(c)
  <2>1. UNCHANGED <<row, box>>
    BY <1>17 DEF DockerFails
  <2>2. CASE Serves(c, "creating")
    <3>1. call[c].at = "creating" /\ call'[c].at = "clearing" /\ UNCHANGED <<disk, struck>>
      BY <1>5, <1>17, <2>2 DEF DockerFails, Serves
    <3>2. /\ Held(q)' <=> Held(q)
          /\ Reported(q)' <=> Reported(q)
          /\ Minded(q)' <=> Minded(q)
          /\ Filed(q)' <=> Filed(q)
      BY <1>3, <1>4, <2>1, <3>1 DEF HoldSteps, MindSteps, Filed
    <3> QED
      BY <1>1, <1>6, <1>7, <2>1, <3>1, <3>2 DEF Passes
  <2>3. CASE ~Serves(c, "creating")
    <3>1. /\ call[c].at \in {"wiring", "undoing", "clearing", "stopping", "wiping"}
          /\ call'[c].at \in {"free", "clearing"}
          /\ \/ struck' = struck \cup {q}
             \/ call[c].at = "wiring" /\ UNCHANGED <<disk, struck>>
      BY <1>1, <1>5, <1>17, <2>3 DEF DockerFails, Serves
    <3>2. disk'[q] = disk[q] \/ disk'[q] = TRUE
      BY <1>1, <1>2, <1>17 DEF DockerFails, Sandbox_OK
    <3>3. /\ Held(q)' => Held(q)
          /\ Reported(q)' <=> Reported(q)
          /\ Filed(q)' <=> Filed(q)
      BY <1>3, <1>4, <2>1, <3>1 DEF HoldSteps, Filed
    <3>4. \/ Container'[q] = Container[q]
          \/ Container[q] = "held" /\ Container'[q] \in {"filed", "lost"}
      BY <1>2, <2>1, <3>3, ContainerIs, ContainerNext
    <3>5. \/ Volumes'[q] = Volumes[q]
          \/ Volumes[q] # "used" /\ Volumes'[q] \in {"held", "lost"}
      BY <1>2, <2>1, <3>2, VolumesAre, VolumesNext
    <3>6. CASE struck' = struck \cup {q}
      BY <1>1, <3>4, <3>5, <3>6 DEF Passes, C!Falls
    <3>7. CASE call[c].at = "wiring" /\ UNCHANGED <<disk, struck>>
      <4>1. call'[c].at = "free"
        BY <1>5, <1>17, <3>7 DEF DockerFails, Serves
      <4>2. (Held(q)' <=> Held(q)) /\ (Minded(q)' <=> Minded(q))
        BY <1>3, <1>4, <2>1, <3>7, <4>1 DEF HoldSteps, MindSteps
      <4> QED
        BY <1>1, <1>6, <1>7, <2>1, <3>3, <3>7, <4>2 DEF Passes
    <3> QED
      BY <3>1, <3>6, <3>7
  <2> QED
    BY <2>2, <2>3
<1>18. CASE DockerUnheard(c)
  <2>1. row' = row
    BY <1>18 DEF DockerUnheard
\* It was created: the number is new, so no row and no call has it.
  <2>2. CASE Serves(c, "creating")
    <3>1. /\ box[q] = 0 /\ Create(q) /\ struck' = struck \cup {q}
          /\ call'[c].at = "clearing" /\ call'[c].run = q
      BY <1>1, <1>5, <1>18, <2>2 DEF DockerUnheard, Serves, Proceed, Calls_OK, CallType, For
    <3>2. made[q] \in Nat /\ box'[q] = made[q] + 1
      BY <1>2, <3>1 DEF Create, Sandbox_OK
    <3>3. \A d \in Calls : call[d].run = q => call[d].box \in Nat /\ call[d].box <= made[q]
      BY <1>2 DEF Numbered, Calls_OK, CallType, For
    <3>4. ~Held(q)' /\ ~Reported(q)'
      <4>1. \A d \in Calls : call'[d].run = q =>
                d = c \/ call'[d].box # box'[q]
        BY <1>2, <3>2, <3>3
      <4> QED
        BY <3>1, <4>1 DEF Held, InHand, Reported, Serves, For
    <3>5. ~Filed(q)'
      BY <1>2, <2>1, <3>2 DEF Numbered, Filed, Sandbox_OK, RowType
    <3>6. Container[q] = "none" /\ Container'[q] = "lost" /\ Volumes'[q] = "used"
      BY <1>2, <3>1, <3>2, <3>4, <3>5, ContainerIs, ContainerNext, VolumesNext
    <3> QED
      BY <1>1, <3>1, <3>6 DEF Passes, C!Falls
  <2>3. CASE Serves(c, "stopping")
    <3>1. /\ call[c].at = "stopping" /\ call'[c].at = "free"
          /\ Remove(c) /\ UNCHANGED disk /\ struck' = struck \cup {q}
      BY <1>1, <1>5, <1>18, <2>3 DEF DockerUnheard, Serves
    <3>2. CASE box[q] = call[c].box /\ box[q] # 0
      <4>1. box'[q] = 0 /\ disk'[q]
        BY <1>1, <1>2, <3>1, <3>2 DEF Remove, Sandbox_OK, Mounted
      <4>2. Held(q)
        BY <1>3, <3>1, <3>2 DEF HoldSteps
      <4>3. Container[q] = "held" /\ Container'[q] = "none" /\ Volumes'[q] \in {"held", "lost"}
        BY <1>2, <3>2, <4>1, <4>2, ContainerIs, ContainerNext, VolumesNext
      <4> QED
        BY <1>1, <3>1, <4>3 DEF Passes, C!Falls
    <3>3. CASE box[q] = 0
      <4>1. box'[q] = 0
        BY <1>1, <1>2, <3>1, <3>3 DEF Remove, Sandbox_OK
      <4>2. Container[q] = "none" /\ Container'[q] = "none"
        BY <1>2, <3>3, <4>1, ContainerIs, ContainerNext
      <4>3. Minded(q)' <=> Minded(q)
        BY <1>3, <1>4, <3>1 DEF MindSteps
      <4>4. Volumes'[q] = Volumes[q]
        BY <1>7, <3>1, <3>3, <4>1, <4>3
      <4> QED
        BY <1>1, <3>1, <4>2, <4>4 DEF Passes
    <3>4. CASE box[q] # call[c].box /\ box[q] # 0
      <4>1. UNCHANGED box
        BY <1>1, <3>1, <3>4 DEF Remove
      <4>2. /\ Held(q)' <=> Held(q)
            /\ Reported(q)' <=> Reported(q)
            /\ Filed(q)' <=> Filed(q)
        BY <1>3, <1>4, <2>1, <3>1, <3>4, <4>1 DEF Filed, HoldSteps
      <4> QED
        BY <1>1, <1>6, <1>7, <3>1, <3>4, <4>1, <4>2 DEF Passes
    <3> QED
      BY <3>2, <3>3, <3>4
  <2>4. CASE Serves(c, "wiping")
    <3>1. /\ call[c].at = "wiping" /\ call'[c].at = "free"
          /\ box[q] = 0 /\ disk' = [disk EXCEPT ![q] = FALSE] /\ UNCHANGED <<box, struck>>
      BY <1>1, <1>5, <1>18, <2>4 DEF DockerUnheard, Serves
    <3>2. disk'[q] = FALSE /\ disk[q] \in BOOLEAN
      BY <1>2, <3>1 DEF Sandbox_OK
    <3>3. Minded(q)
      BY <1>3, <3>1 DEF MindSteps
    <3>4. Container'[q] = Container[q]
      BY <1>2, <3>1, ContainerIs, ContainerNext
    <3>5. Volumes'[q] = "none" /\ Volumes[q] \in {"none", "held"}
      BY <1>2, <3>1, <3>2, <3>3, VolumesAre, VolumesNext
    <3> QED
      BY <1>1, <3>1, <3>4, <3>5 DEF Passes
  <2> QED
    BY <1>18, <2>2, <2>3, <2>4 DEF DockerUnheard
<1> QED
  BY <1>8, <1>9, <1>10, <1>11, <1>12, <1>13, <1>14, <1>15, <1>16, <1>17, <1>18
     DEF Served, Serve

\* A row that is released under the container, by a cancel or by the release
\* record of a worker, strikes its run.
LEMMA ReleasedPasses ==
  ASSUME Sandbox_OK, NEW q \in Runs, row' = [row EXCEPT ![q].live = FALSE],
         UNCHANGED <<box, disk, call>>,
         struck' = IF row[q].live THEN struck \cup {q} ELSE struck
  PROVE  /\ Passes(q)
         /\ \A r \in Runs \ {q} : Container'[r] = Container[r] /\ Volumes'[r] = Volumes[r]
<1>1. /\ \A r \in Runs \ {q} : row'[r] = row[r]
      /\ ~row'[q].live /\ row'[q].box = row[q].box
  BY DEF Sandbox_OK, RowType
<1>2. ASSUME NEW r \in Runs
      PROVE  /\ Held(r)' <=> Held(r)
             /\ Reported(r)' <=> Reported(r)
             /\ Minded(r)' <=> Minded(r)
  BY DEF Held, InHand, Reported, Minded, Serves, For
<1>3. ASSUME NEW r \in Runs
      PROVE  Volumes'[r] = Volumes[r]
  BY <1>2, <1>3, VolumesAre, VolumesNext
<1>4. ASSUME NEW r \in Runs, Filed(r)' <=> Filed(r)
      PROVE  Container'[r] = Container[r]
  BY <1>2, <1>4, ContainerIs, ContainerNext
<1>5. \A r \in Runs \ {q} : Filed(r)' <=> Filed(r)
  BY <1>1 DEF Filed
<1>6. CASE Filed(q)
  <2>1. q \in struck' /\ struck' = struck \cup {q}
    BY <1>6 DEF Filed
  <2>2. ~Filed(q)'
    BY <1>1 DEF Filed
  <2>3. \/ Container'[q] = Container[q]
        \/ Container[q] = "filed" /\ Container'[q] \in {"held", "lost"}
    BY <1>2, <1>6, <2>2, ContainerIs, ContainerNext
  <2> QED
    BY <1>3, <1>4, <1>5, <2>1, <2>3 DEF Passes, C!Falls
<1>7. CASE ~Filed(q)
  <2>1. Filed(q)' <=> Filed(q)
    BY <1>1, <1>7 DEF Filed
  <2> QED
    BY <1>3, <1>4, <1>5, <2>1 DEF Passes
<1> QED
  BY <1>6, <1>7

\* With the service go all its calls: what they held is lost or in the file.
LEMMA DeathMapped ==
  ASSUME CustodyInv, ServiceDies
  PROVE  C!Accident
<1> USE TypeParts DEF CustodyInv
<1>1. /\ UNCHANGED <<row, box, disk>>
      /\ \A c \in Calls : call'[c] = Free
      /\ struck' = struck \cup {For(c) : c \in {d \in Calls : Halfway(d)}}
  BY DEF ServiceDies, sandbox
<1>2. Free.at = "free" /\ Free.run = NoRun
  BY DEF Free
<1>3. ASSUME NEW r \in Runs
      PROVE  /\ ~Held(r)' /\ ~Reported(r)' /\ ~Minded(r)'
             /\ Filed(r)' <=> Filed(r)
  BY <1>1, <1>2 DEF Held, InHand, Reported, Minded, Serves, Filed, For
<1>4. \A r \in Runs : Held(r) \/ Minded(r) => r \in struck'
  <2>1. \A c \in Calls : call[c].at \in HoldSteps \cup MindSteps => Halfway(c)
    BY DEF Halfway, Allocating, Releasing, HoldSteps, MindSteps
  <2> QED
    BY <1>1, <2>1 DEF Held, InHand, Minded, HoldSteps, MindSteps
<1>5. \A r \in Runs : box[r] # 0 => Filed(r) \/ r \in struck'
  BY <1>1, <1>4 DEF SandboxesKnown, Held
<1>6. ASSUME NEW r \in Runs
      PROVE  \/ Container'[r] = Container[r] /\ Volumes'[r] = Volumes[r]
             \/ r \in struck' /\ C!Falls(r)
  <2>1. \/ Container'[r] = Container[r]
        \/ r \in struck' /\ Container[r] = "held" /\ Container'[r] \in {"filed", "lost"}
    BY <1>1, <1>3, <1>4, <1>5, ContainerIs, ContainerNext
  <2>2. \/ Volumes'[r] = Volumes[r]
        \/ r \in struck' /\ Volumes[r] = "held" /\ Volumes'[r] = "lost"
    BY <1>1, <1>3, <1>4, VolumesAre, VolumesNext
  <2> QED
    BY <2>1, <2>2 DEF C!Falls
<1>7. {For(c) : c \in {d \in Calls : Halfway(d)}} \in SUBSET Runs
  BY Serving DEF Halfway, Allocating, Releasing
<1>8. /\ Container' \in [Runs -> {"none", "held", "filed", "lost"}]
      /\ Volumes' \in [Runs -> {"none", "held", "used", "lost"}]
  BY ContainerNext, VolumesNext, PlacesAreFunctions
<1> QED
  BY <1>1, <1>6, <1>7, <1>8 DEF C!Accident

LEMMA NumberedStays ==
  ASSUME Sandbox_OK, Calls_OK, Sandbox_OK', Numbered,
         \A r \in Runs : made[r] <= made'[r],
         \A r \in Runs : row'[r].box = row[r].box \/ row'[r].box <= made'[r],
         \A c \in Calls : \/ call'[c].run = call[c].run /\ call'[c].box = call[c].box
                          \/ call'[c].run \notin Runs
                          \/ call'[c].box = 0
                          \/ call'[c].box <= made'[call'[c].run]
  PROVE  Numbered'
<1>1. ASSUME NEW r \in Runs
      PROVE  row[r].box \in Nat /\ row'[r].box \in Nat /\ made[r] \in Nat /\ made'[r] \in Nat
  BY DEF Sandbox_OK, RowType
<1>2. \A c \in Calls : call[c].box \in Nat
  BY DEF Calls_OK, CallType
<1>3. ASSUME NEW r \in Runs
      PROVE  row'[r].box <= made'[r]
  BY <1>1 DEF Numbered
<1>4. ASSUME NEW r \in Runs, NEW c \in Calls, call'[c].run = r
      PROVE  call'[c].box <= made'[r]
  <2>1. CASE call[c].run = r /\ call'[c].box = call[c].box
    BY <1>1, <1>2, <2>1 DEF Numbered, For
  <2> QED
    BY <1>1, <1>4, <2>1
<1> QED
  BY <1>3, <1>4 DEF Numbered, For

LEMMA ServeNumbered ==
  ASSUME TypeOK, TypeOK', Paired, Numbered, NEW c \in Calls, Served(c)
  PROVE  Numbered'
<1> USE TypeParts
<1>1. PICK q \in Runs : q = For(c)
  BY ServeFrame
<1>2. /\ \A d \in Calls \ {c} : call'[d] = call[d]
      /\ \A r \in Runs \ {q} : row'[r] = row[r]
  BY <1>1, ServeFrame
<1>3. /\ \A r \in Runs : made[r] \in Nat
      /\ call[c].run = q /\ call[c].box \in Nat /\ call[c].box <= made[q]
      /\ row[q].box \in Nat /\ row[q].box <= made[q]
  BY <1>1 DEF Sandbox_OK, RowType, Calls_OK, CallType, Numbered, For
<1>4. Sandbox_OK'
  OBVIOUS
<1>5. /\ \A step : Proceed(c, step) => call'[c].run = q /\ call'[c].box = call[c].box
      /\ \A step : Answer(c, step) => call'[c].box = 0
      /\ \A step, n : call' = [call EXCEPT ![c].at = step, ![c].box = n]
                      => call'[c].run = q /\ call'[c].box = n
  BY <1>3 DEF Proceed, Answer, Free, Calls_OK, CallType
<1>6. CASE \/ Look(c) \/ CreateVolumes(c) \/ Start(c) \/ Record(c) \/ Undo(c) \/ Clear(c)
           \/ Stop(c) \/ Wipe(c) \/ BootFails(c) \/ WriteFails(c) \/ DockerFails(c)
  <2>1. UNCHANGED <<row, made>>
    BY <1>6 DEF Look, CreateVolumes, Start, Record, Undo, Clear, Stop, Wipe, BootFails, WriteFails,
                DockerFails, sandbox
  <2>2. (call'[c].run = q /\ call'[c].box = call[c].box) \/ call'[c].box = 0
    BY <1>5, <1>6 DEF Look, CreateVolumes, Start, Record, Undo, Clear, Stop, Wipe, BootFails,
                      WriteFails, DockerFails
  <2> QED
    BY <1>2, <1>3, <1>4, <2>1, <2>2, NumberedStays
<1>7. CASE CreateContainer(c) \/ DockerUnheard(c)
  <2>1. UNCHANGED row /\ (UNCHANGED made \/ made' = [made EXCEPT ![q] = made[q] + 1])
    BY <1>1, <1>7 DEF CreateContainer, DockerUnheard, Create
  <2>2. \A r \in Runs : made[r] <= made'[r]
    BY <1>3, <2>1 DEF Sandbox_OK
  <2>3. \/ call'[c].run = q /\ call'[c].box = call[c].box
        \/ call'[c].box = 0
        \/ call'[c].run = q /\ call'[c].box <= made'[q]
    BY <1>1, <1>3, <1>5, <1>7 DEF CreateContainer, DockerUnheard, Create, Sandbox_OK
  <2> QED
    BY <1>2, <1>3, <1>4, <2>1, <2>2, <2>3, NumberedStays
<1>8. CASE InsertRow(c)
  <2>1. UNCHANGED made /\ (UNCHANGED row \/ row'[q].box = call[c].box)
    BY <1>1, <1>8 DEF InsertRow, Sandbox_OK
  <2>2. call'[c].run = q /\ call'[c].box = call[c].box
    BY <1>5, <1>8 DEF InsertRow
  <2> QED
    BY <1>2, <1>3, <1>4, <2>1, <2>2, NumberedStays
<1>9. CASE Mark(c)
  <2>1. UNCHANGED made /\ row'[q].box = row[q].box
    BY <1>1, <1>9 DEF Mark, Sandbox_OK, RowType
  <2>2. call'[c].box = 0 \/ (call'[c].run = q /\ call'[c].box = row[q].box)
    BY <1>1, <1>5, <1>9 DEF Mark
  <2> QED
    BY <1>2, <1>3, <1>4, <2>1, <2>2, NumberedStays
<1> QED
  BY <1>6, <1>7, <1>8, <1>9 DEF Served, Serve

LEMMA NextNumbered ==
  ASSUME TypeOK, TypeOK', Paired, Numbered, [Next]_vars
  PROVE  Numbered'
<1> USE TypeParts
<1>1. Sandbox_OK'
  OBVIOUS
<1>2. ASSUME UNCHANGED made, \A r \in Runs : row'[r].box = row[r].box,
             \A c \in Calls : \/ call'[c].run = call[c].run /\ call'[c].box = call[c].box
                              \/ call'[c].box = 0
      PROVE  Numbered'
  BY <1>1, <1>2, NumberedStays DEF Sandbox_OK
<1>3. ASSUME NEW c \in Calls, Served(c)
      PROVE  Numbered'
  BY <1>3, ServeNumbered
<1>4. CASE \/ \E r \in Jobs : Enqueue(r) \/ LeaseLapses(r) \/ ResumePaused(r)
           \/ Reap \/ Archive \/ List
           \/ \E w \in Workers : \/ RecordAllocated(w) \/ Finish(w) \/ Complete(w)
                                 \/ FailJob(w) \/ FinalizeRun(w) \/ RecordReleaseFails(w)
                                 \/ Stall(w) \/ \E r \in Jobs : Claim(w, r)
           \/ UNCHANGED vars
  <2>1. UNCHANGED <<made, row, call>>
    BY <1>4 DEF Enqueue, LeaseLapses, ResumePaused, Reap, Archive, List, RecordAllocated, Finish,
                Complete, FailJob, FinalizeRun, RecordReleaseFails, Stall, Claim, sandbox, vars
  <2> QED
    BY <1>2, <2>1
<1>5. CASE \/ \E r \in Jobs : CancelRun(r)
           \/ \E w \in Workers : Mirror(w)
           \/ \E r \in Runs : Age(r)
  <2>1. UNCHANGED <<made, call>>
    BY <1>5 DEF CancelRun, Mirror, Age
  <2>2. \A r \in Runs : row'[r].box = row[r].box
    BY <1>5 DEF CancelRun, Mirror, Age, Sandbox_OK, RowType
  <2> QED
    BY <1>2, <2>1, <2>2
<1>6. CASE \/ ServiceDies
           \/ \E r \in Runs : Take(r)
           \/ \E w \in Workers : Crash(w) \/ LoseAnswer(w)
           \/ \E w \in Workers, c \in Requests : RequestSandbox(w, c) \/ RequestRelease(w, c)
  <2>1. UNCHANGED <<made, row>>
    BY <1>6 DEF ServiceDies, Take, Crash, LoseAnswer, RequestSandbox, RequestRelease, sandbox
  <2>2. \A c \in Calls : \/ call'[c].run = call[c].run /\ call'[c].box = call[c].box
                         \/ call'[c].box = 0
    BY <1>6 DEF ServiceDies, Take, Crash, LoseAnswer, RequestSandbox, RequestRelease, Opened,
                Abandon, Free, Calls_OK, CallType
  <2> QED
    BY <1>2, <2>1, <2>2
<1> QED
  BY <1>3, <1>4, <1>5, <1>6 DEF Next, Work, Sweeping, Served

LEMMA NextMounted ==
  ASSUME TypeOK, Paired, Mounted, [Next]_vars
  PROVE  Mounted'
<1> USE TypeParts
<1>1. CASE UNCHANGED <<box, disk>>
  BY <1>1 DEF Mounted
<1>2. ASSUME NEW c \in Calls, Served(c)
      PROVE  Mounted'
  <2>1. For(c) \in Runs
    BY <1>2, ServeFrame
  <2>2. CASE \/ Look(c) \/ Start(c) \/ InsertRow(c) \/ Record(c) \/ Mark(c)
             \/ BootFails(c) \/ WriteFails(c)
    BY <1>1, <2>2 DEF Look, Start, InsertRow, Record, Mark, BootFails, WriteFails, sandbox
  <2>3. CASE CreateVolumes(c) \/ CreateContainer(c) \/ DockerFails(c)
    BY <2>1, <2>3 DEF CreateVolumes, CreateContainer, Create, DockerFails, Mounted, Sandbox_OK
  <2>4. CASE Undo(c) \/ Stop(c)
    BY <2>1, <2>4 DEF Undo, Stop, Remove, Mounted, Sandbox_OK
  <2>5. CASE Clear(c) \/ Wipe(c)
    BY <2>1, <2>5 DEF Clear, Wipe, Mounted, Sandbox_OK
  <2>6. CASE DockerUnheard(c)
    BY <2>1, <2>6 DEF DockerUnheard, Create, Remove, Mounted, Sandbox_OK
  <2> QED
    BY <1>2, <2>2, <2>3, <2>4, <2>5, <2>6 DEF Served, Serve
<1>3. CASE \/ \E r \in Jobs : Enqueue(r) \/ LeaseLapses(r) \/ ResumePaused(r) \/ CancelRun(r)
           \/ Reap \/ Archive \/ ServiceDies \/ Sweeping
           \/ \E r \in Runs : Age(r)
  BY <1>1, <1>3 DEF Enqueue, LeaseLapses, ResumePaused, CancelRun, Reap, Archive, ServiceDies,
                    Sweeping, List, Take, Age, sandbox
<1>4. ASSUME NEW w \in Workers,
             \/ Work(w) \/ RecordReleaseFails(w) \/ Crash(w) \/ Stall(w) \/ LoseAnswer(w)
             \/ \E r \in Jobs : Claim(w, r)
      PROVE  Mounted'
  BY <1>1, <1>4 DEF Work, RequestSandbox, RequestRelease, RecordAllocated, Finish, Mirror, Complete,
                    FailJob, FinalizeRun, RecordReleaseFails, Crash, Stall, LoseAnswer, Claim, sandbox
<1>5. CASE UNCHANGED vars
  BY <1>1, <1>5 DEF vars, sandbox
<1> QED
  BY <1>2, <1>3, <1>4, <1>5 DEF Next, Served

\* Runs, jobs, workers and the sweeper: they open calls and leave them.
LEMMA QuietSteps ==
  ASSUME TypeOK, Paired,
         \/ \E r \in Jobs : Enqueue(r) \/ LeaseLapses(r) \/ ResumePaused(r)
         \/ Reap \/ Archive \/ Sweeping
         \/ \E r \in Runs : Age(r)
         \/ \E w \in Workers : \/ Work(w) /\ ~Mirror(w)
                               \/ RecordReleaseFails(w) \/ Crash(w) \/ Stall(w) \/ LoseAnswer(w)
                               \/ \E r \in Jobs : Claim(w, r)
  PROVE  UNCHANGED C!custody
<1> USE TypeParts
<1>1. UNCHANGED <<box, disk, struck>>
  BY DEF Enqueue, LeaseLapses, ResumePaused, Reap, Archive, Sweeping, List, Take, Age, Work,
         RequestSandbox, RequestRelease, RecordAllocated, Finish, Complete, FailJob, FinalizeRun,
         RecordReleaseFails, Crash, Stall, LoseAnswer, Claim, sandbox
<1>2. \A r \in Runs : row'[r].live = row[r].live /\ row'[r].box = row[r].box
  <2>1. CASE \E r \in Runs : Age(r)
    BY <2>1 DEF Age, Sandbox_OK, RowType
  <2>2. CASE ~\E r \in Runs : Age(r)
    BY <2>2 DEF Enqueue, LeaseLapses, ResumePaused, Reap, Archive, Sweeping, List, Take, Work,
                RequestSandbox, RequestRelease, RecordAllocated, Finish, Complete, FailJob, FinalizeRun,
                RecordReleaseFails, Crash, Stall, LoseAnswer, Claim, sandbox
  <2> QED
    BY <2>1, <2>2
<1>3. CASE \E w \in Workers, c \in Requests : RequestSandbox(w, c) \/ RequestRelease(w, c)
  <2>1. PICK w \in Workers, c \in Requests, step \in {"looking", "marking"} : Opened(c, Of(w), w, step)
    BY <1>3 DEF RequestSandbox, RequestRelease
  <2>2. /\ call[c].at = "free" /\ c \in Calls
        /\ call' = [call EXCEPT ![c] = [at |-> step, run |-> Of(w), by |-> w, box |-> 0]]
    BY <2>1 DEF Opened, Calls
  <2>3. call'[c].at = step /\ \A d \in Calls \ {c} : call'[d] = call[d]
    BY <2>2 DEF Calls_OK
  <2> QED
    BY <1>1, <1>2, <2>2, <2>3, CustodyQuiet
<1>4. CASE \E r \in Runs : Take(r)
  <2>1. PICK r \in Runs : Take(r)
    BY <1>4
  <2>2. /\ call[Sweep].at = "free" /\ Sweep \in Calls
        /\ call' = [call EXCEPT ![Sweep] = [at |-> "marking", run |-> r, by |-> Nobody, box |-> 0]]
    BY <2>1 DEF Take, Serves, Calls
  <2>3. call'[Sweep].at = "marking" /\ \A d \in Calls \ {Sweep} : call'[d] = call[d]
    BY <2>2 DEF Calls_OK
  <2> QED
    BY <1>1, <1>2, <2>2, <2>3, CustodyQuiet
<1>5. CASE \E w \in Workers : Crash(w) \/ LoseAnswer(w)
  <2>1. \A c \in Calls : /\ call'[c].run = call[c].run /\ call'[c].box = call[c].box
                         /\ call'[c].at = call[c].at
    BY <1>5 DEF Crash, LoseAnswer, Abandon, Calls_OK, CallType
  <2> QED
    BY <1>1, <1>2, <2>1, CustodyQuiet
<1>6. CASE UNCHANGED call
  BY <1>1, <1>2, <1>6, CustodyQuiet
<1> QED
  BY <1>3, <1>4, <1>5, <1>6
     DEF Enqueue, LeaseLapses, ResumePaused, Reap, Archive, Sweeping, List, Age, Work,
         RecordAllocated, Finish, Complete, FailJob, FinalizeRun, RecordReleaseFails, Stall, Claim

LEMMA CustodyStep ==
  ASSUME CustodyInv, SandboxesKnown', [Next]_vars
  PROVE  [C!Next]_(C!custody)
<1> USE TypeParts DEF CustodyInv
<1>1. ASSUME NEW c \in Calls, Served(c)
      PROVE  [C!Next]_(C!custody)
  <2>1. PICK q \in Runs : q = For(c) /\ Passes(q)
    BY <1>1, ServeSelf
  <2>2. \A r \in Runs \ {q} : Container'[r] = Container[r] /\ Volumes'[r] = Volumes[r]
    BY <1>1, <2>1, ServeOthers
  <2> QED
    BY <2>1, <2>2, PassesMapped
<1>2. ASSUME NEW r \in Jobs, CancelRun(r)
      PROVE  [C!Next]_(C!custody)
  <2>1. /\ r \in Runs
        /\ row' = [row EXCEPT ![r].live = FALSE]
        /\ UNCHANGED <<box, disk, call>>
        /\ struck' = IF row[r].live THEN struck \cup {r} ELSE struck
    BY <1>2 DEF CancelRun, Runs
  <2> QED
    BY <2>1, ReleasedPasses, PassesMapped
<1>3. ASSUME NEW w \in Workers, Mirror(w)
      PROVE  [C!Next]_(C!custody)
  <2>1. PICK q \in Runs : q = Of(w)
    BY <1>3, Employed DEF Mirror, At
  <2>2. /\ row' = [row EXCEPT ![q].live = FALSE]
        /\ UNCHANGED <<box, disk, call>>
        /\ struck' = IF row[q].live THEN struck \cup {q} ELSE struck
    BY <1>3, <2>1 DEF Mirror
  <2> QED
    BY <2>2, ReleasedPasses, PassesMapped
<1>4. CASE ServiceDies
  BY <1>4, DeathMapped DEF C!Next
<1>5. CASE \/ \E r \in Jobs : Enqueue(r) \/ LeaseLapses(r) \/ ResumePaused(r)
           \/ Reap \/ Archive \/ Sweeping
           \/ \E r \in Runs : Age(r)
           \/ \E w \in Workers : \/ Work(w) /\ ~Mirror(w)
                                 \/ RecordReleaseFails(w) \/ Crash(w) \/ Stall(w) \/ LoseAnswer(w)
                                 \/ \E r \in Jobs : Claim(w, r)
  BY <1>5, QuietSteps
<1>6. CASE UNCHANGED vars
  BY <1>6, CustodyQuiet DEF vars, sandbox
<1> QED
  BY <1>1, <1>2, <1>3, <1>4, <1>5, <1>6 DEF Next, Served

LEMMA InitCustody == Init => C!Init /\ Mounted /\ Numbered
<1> SUFFICES ASSUME Init PROVE C!Init /\ Mounted /\ Numbered
  OBVIOUS
<1>1. \A r \in Runs : Container[r] = "none" /\ Volumes[r] = "none"
  BY ContainerIs, VolumesAre DEF Init
<1>2. Numbered
  <2>1. \A c \in Calls : call[c].box = 0
    BY DEF Init, Free
  <2> QED
    BY <2>1 DEF Init, Numbered
<1> QED
  BY <1>1, <1>2, PlacesAreFunctions DEF Init, C!Init, Mounted

\* For any number of runs, workers and calls, and under every fault: what the
\* service does to sandboxes cannot be told from one container a run that is
\* built, filed, fetched and removed by hand.  Nothing removes a container that
\* is filed or that nobody knows, and only an accident loses one
\* (RunnerLifecycle.allocate, release, sweepStuck).
THEOREM InCustody == Spec => ImplementsCustody
<1>1. TypeOK /\ Paired /\ Mounted /\ [Next]_vars => Mounted'
  BY NextMounted
<1>2. TypeOK /\ TypeOK' /\ Paired /\ Numbered /\ [Next]_vars => Numbered'
  BY NextNumbered
<1>3. CustodyInv /\ SandboxesKnown' /\ [Next]_vars => [C!Next]_(C!custody)
  BY CustodyStep
<1>4. Init => Mounted /\ Numbered /\ C!Init
  BY InitCustody
<1>5. TypeOK /\ Paired /\ SandboxesKnown /\ Mounted /\ Numbered <=> CustodyInv
  BY DEF CustodyInv
<1> QED
  BY <1>1, <1>2, <1>3, <1>4, <1>5, Typed, Known, PTL DEF Spec, ImplementsCustody, C!Spec
=============================================================================
