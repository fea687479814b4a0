--------------------------- MODULE JobTableProofs ---------------------------
(***************************************************************************)
(* Lemmas about the writes of job_queue, cited by the proofs about the     *)
(* modules that use the table.                                             *)
(***************************************************************************)
EXTENDS JobTable, TLAPS

\* What may be done to a row that is there, and to the row of any job.
Update(j) == \/ (Oldest(j) /\ Lease(j)) \/ CancelRow(j) \/ CancelQueuedRow(j)
             \/ Lapse(j) \/ Renew(j)
             \/ Settle(j, "done") \/ Settle(j, "failed")

Write(j) == Insert(j) \/ Update(j)

\* Every write of the table leaves rows of the table's shape.
LEMMA WriteTyped ==
  ASSUME job \in [Jobs -> Row], NEW j \in Jobs, Write(j)
  PROVE  job' \in [Jobs -> Row]
<1>1. job[j].attempts + 1 \in Nat /\ job[j] \in Row
  BY DEF Row
<1>2. CASE Lease(j)
  BY <1>1, <1>2 DEF Lease, Row, Statuses, Leases
<1>3. CASE Insert(j) \/ CancelQueuedRow(j)
  BY <1>3 DEF Insert, CancelQueuedRow, Row, Statuses
<1>4. CASE CancelRow(j) \/ Settle(j, "done") \/ Settle(j, "failed")
  BY <1>4 DEF CancelRow, Settle, Row, Statuses, Leases
<1>5. CASE Lapse(j) \/ Renew(j)
  BY <1>5 DEF Lapse, Renew, Row, Leases
<1>6. QED
  BY <1>2, <1>3, <1>4, <1>5 DEF Write, Update

\* So does the reaper's UPDATE of many rows.
LEMMA ReapTyped ==
  ASSUME job \in [Jobs -> Row], ReapExpired
  PROVE  job' \in [Jobs -> Row]
<1>1. \A j \in Jobs : [job[j] EXCEPT !.status = "queued", !.lease = "none"] \in Row
  BY DEF Row, Statuses, Leases
<1>2. QED
  BY <1>1 DEF ReapExpired

\* A claim counts its attempt; no other write changes the counter.
LEMMA WriteCounts ==
  ASSUME job \in [Jobs -> Row], NEW j \in Jobs, Write(j)
  PROVE  /\ \A k \in Jobs \ {j} : job'[k] = job[k]
         /\ job'[j].attempts \in {job[j].attempts, job[j].attempts + 1}
         /\ Lease(j) \/ job'[j].attempts = job[j].attempts
BY DEF Write, Update, Insert, Lease, CancelRow, CancelQueuedRow, Lapse, Renew, Settle, Row

\* The reaper changes no counter.
LEMMA ReapCounts ==
  ASSUME job \in [Jobs -> Row], ReapExpired
  PROVE  \A j \in Jobs : job'[j].attempts = job[j].attempts
BY DEF ReapExpired, Row

\* A row that was cancelled is neither claimable nor claimed afterwards.
LEMMA WriteKeepsCancel ==
  ASSUME job \in [Jobs -> Row], NEW j \in Jobs, Write(j),
         NEW k \in Jobs, job[k].status = "cancelled"
  PROVE  job'[k].status \notin {"queued", "running"}
BY DEF Write, Update, Insert, Lease, Oldest, CancelRow, CancelQueuedRow, Lapse, Renew, Settle, Row

\* The reaper leaves it alone.
LEMMA ReapKeepsCancel ==
  ASSUME job \in [Jobs -> Row], ReapExpired, NEW k \in Jobs, job[k].status = "cancelled"
  PROVE  job'[k].status = "cancelled"
BY DEF ReapExpired, Expired

\* A write of a row that is there inserts none, and no write deletes one.
LEMMA RowsStay ==
  ASSUME job \in [Jobs -> Row],
         ReapExpired \/ (\E k \in Jobs : job[k].status # "absent" /\ Update(k))
  PROVE  \A j \in Jobs : job'[j].status = "absent" <=> job[j].status = "absent"
<1>1. CASE ReapExpired
  <2>1. \A j \in Jobs : [job[j] EXCEPT !.status = "queued", !.lease = "none"].status = "queued"
    BY DEF Row
  <2>2. QED
    BY <1>1, <2>1 DEF ReapExpired, Expired
<1>2. ASSUME NEW k \in Jobs, job[k].status # "absent", Update(k)
      PROVE  \A j \in Jobs : job'[j].status = "absent" <=> job[j].status = "absent"
  BY <1>2 DEF Update, Lease, CancelRow, CancelQueuedRow, Lapse, Renew, Settle, Row
<1>3. QED
  BY <1>1, <1>2

\* An insertion adds the row it names and no other.
LEMMA InsertAdds ==
  ASSUME job \in [Jobs -> Row], NEW k \in Jobs, Insert(k)
  PROVE  /\ job[k].status = "absent" /\ job'[k].status = "queued"
         /\ \A j \in Jobs \ {k} : job'[j] = job[j]
BY DEF Insert, Row
=============================================================================
