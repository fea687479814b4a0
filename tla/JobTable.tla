------------------------------ MODULE JobTable ------------------------------
(***************************************************************************)
(* The rows of job_queue and the SQL statements that write them            *)
(* (engine/contracts/jobQueue.ts, PgJobQueue, and the two statements of    *)
(* the workflow that cancel rows).  No statement names the claim it speaks *)
(* for: the row is found by its id, and at most its status is asked for.   *)
(*                                                                         *)
(* Job ids are the bigserial ids of the table, so their order is the order *)
(* of enqueueing.                                                          *)
(***************************************************************************)
EXTENDS Naturals

CONSTANT Jobs  \* ids of the rows that may ever be inserted

ASSUME JobsAssumption == Jobs \subseteq Nat

VARIABLE job   \* a row per job: its status, its lease, how often it was claimed

Statuses == {"absent", "queued", "running", "done", "failed", "cancelled"}
Leases   == {"none", "live", "lapsed"}

Row == [status: Statuses, lease: Leases, attempts: Nat]

JobsInit ==
  job = [j \in Jobs |-> [status |-> "absent", lease |-> "none", attempts |-> 0]]

Insert(j) ==
  /\ job[j].status = "absent"
  /\ \A k \in Jobs : k < j => job[k].status # "absent"
  /\ job' = [job EXCEPT ![j].status = "queued"]

\* Mutant: the claim does not ask for status queued.
OldestUnsettled(j) ==
  /\ job[j].status \in {"queued", "running"}
  /\ \A k \in Jobs : job[k].status = "queued" => j <= k

Oldest(j) == /\ job[j].status = "queued"
             /\ \A k \in Jobs : job[k].status = "queued" => j <= k

\* Mutant: a status that the table does not know.
LeaseMarksClaimed(j) == job' = [job EXCEPT ![j] = [status   |-> "claimed",
                                                   lease    |-> "live",
                                                   attempts |-> @.attempts + 1]]

Lease(j) == job' = [job EXCEPT ![j] = [status   |-> "running",
                                       lease    |-> "live",
                                       attempts |-> @.attempts + 1]]

Settle(j, status) ==
  job' = [job EXCEPT ![j].status = status, ![j].lease = "none"]

\* cancelSpec reaps the rows of a cancelled run: queued or running.
CancelRow(j) ==
  /\ job[j].status \in {"queued", "running"}
  /\ Settle(j, "cancelled")

\* supersedeQueuedPlannerTask: only a row that is queued, the lease stays.
CancelQueuedRow(j) ==
  /\ job[j].status = "queued"
  /\ job' = [job EXCEPT ![j].status = "cancelled"]

\* leased_until passes.
Lapse(j) == /\ job[j].status = "running" /\ job[j].lease = "live"
            /\ job' = [job EXCEPT ![j].lease = "lapsed"]

\* A beat matters to the model when the lease had lapsed before it came; the
\* UPDATE names the job and asks for status running, and nothing else.
Renew(j) == /\ job[j].status = "running" /\ job[j].lease = "lapsed"
            /\ job' = [job EXCEPT ![j].lease = "live"]

\* Mutant: the reaper does not look at leased_until.
ExpiredAnyway(j) == job[j].status = "running"

Expired(j) == job[j].status = "running" /\ job[j].lease = "lapsed"

\* Mutants: a requeued row starts to count anew; a row that failed its retry
\* is left to rot.
ReapAnew ==
  /\ \E j \in Jobs : Expired(j)
  /\ job' = [j \in Jobs |-> IF Expired(j)
                            THEN [status |-> "queued", lease |-> "none", attempts |-> 0]
                            ELSE job[j]]

ReapOnce ==
  /\ \E j \in Jobs : Expired(j) /\ job[j].attempts < 2
  /\ job' = [j \in Jobs |-> IF Expired(j) /\ job[j].attempts < 2
                            THEN [job[j] EXCEPT !.status = "queued", !.lease = "none"]
                            ELSE job[j]]

\* One UPDATE requeues every expired row, however often it was claimed.
ReapExpired ==
  /\ \E j \in Jobs : Expired(j)
  /\ job' = [j \in Jobs |-> IF Expired(j)
                            THEN [job[j] EXCEPT !.status = "queued", !.lease = "none"]
                            ELSE job[j]]
=============================================================================
