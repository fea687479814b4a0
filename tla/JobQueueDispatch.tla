-------------------------- MODULE JobQueueDispatch --------------------------
(***************************************************************************)
(* JobQueue implements Dispatch as long as no live holder loses its lease  *)
(* (Faults without stall and miss).                                        *)
(***************************************************************************)
EXTENDS JobQueue

Executor(j) == {s \in Slots : Executing(s) /\ slot[s].job = j}

Place(j) ==
  CASE job[j].status = "absent"  -> "unborn"
    [] job[j].status = "queued"  -> "waiting"
    [] job[j].status = "running" -> IF Executor(j) = {} THEN "lost"
                                    ELSE CHOOSE s \in Executor(j) : TRUE
    [] OTHER -> "settled"

D == INSTANCE Dispatch WITH Workers <- Slots, place <- [j \in Jobs |-> Place(j)]

\* The queue, its leases, its reaper and its restarting workers behave like a
\* dispatcher that hands a waiting job to one worker and settles it once: the
\* header of runExecutor.ts promises this of crashes between claim and finalize.
ImplementsDispatch == D!Spec
=============================================================================
