------------------------------ MODULE Dispatch ------------------------------
(***************************************************************************)
(* What the job queue promises its workers, with no lease and no row in    *)
(* sight: a job is in one place at a time.  It waits, or one worker has    *)
(* it, or it was lost with its worker and will wait again, or it is        *)
(* settled for good.  A worker has at most one job.  JobQueueDispatch      *)
(* shows that the queue implements it while no live lease lapses.          *)
(***************************************************************************)
CONSTANTS Jobs, Workers

VARIABLE place

Places == {"unborn", "waiting", "lost", "settled"} \cup Workers

Init == place = [j \in Jobs |-> "unborn"]

\* All the jobs of S go from the place `from` to the place `to`.
Move(S, from, to) ==
  /\ \A j \in S : place[j] = from
  /\ place' = [j \in Jobs |-> IF j \in S THEN to ELSE place[j]]

Enqueue(j) == Move({j}, "unborn", "waiting")

Assign(j, w) ==
  /\ \A k \in Jobs : place[k] # w
  /\ Move({j}, "waiting", w)

\* A process dies with every worker it runs, an answer is lost with its job.
Lose(S) ==
  /\ \A j \in S : place[j] \in Workers \cup {"waiting"}
  /\ place' = [j \in Jobs |-> IF j \in S THEN "lost" ELSE place[j]]

Recover(S) == Move(S, "lost", "waiting")

Settle(j) ==
  /\ place[j] # "unborn"
  /\ place' = [place EXCEPT ![j] = "settled"]

Next ==
  \/ \E j \in Jobs : Enqueue(j) \/ Settle(j) \/ \E w \in Workers : Assign(j, w)
  \/ \E S \in SUBSET Jobs : Lose(S) \/ Recover(S)

Spec == Init /\ [][Next]_place
=============================================================================
