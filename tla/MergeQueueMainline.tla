------------------------- MODULE MergeQueueMainline -------------------------
(***************************************************************************)
(* MergeQueue implements Mainline, whatever coordinators, faults and       *)
(* operators do.                                                           *)
(***************************************************************************)
EXTENDS MergeQueue

PlaceOf(status) ==
  CASE status = "none"     -> "outside"
    [] status = "merged"   -> "merged"
    [] status = "dequeued" -> "dequeued"
    [] OTHER               -> "inside"

Place == [e \in Entries |-> PlaceOf(row[e].status)]

M == INSTANCE Mainline WITH place <- Place, landed <- OnMain

\* Passes that overlap, stale claims, retries, lost answers and failed receipts
\* cannot be told from one queue that lands founded sets, records what landed
\* and lets every entry leave once (the headers of batchMergeCoordinator.ts and
\* of mergeAuthorityLandFinalizer.ts promise the parts).
ImplementsMainline == M!Spec
=============================================================================
