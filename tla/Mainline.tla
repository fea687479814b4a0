------------------------------ MODULE Mainline ------------------------------
(***************************************************************************)
(* What the merge queue promises, with no coordinator, claim, policy or    *)
(* fault in sight.  An entry enters the queue once and leaves it once.     *)
(* Main only grows, by sets of entries that contain what they depend on.   *)
(* A set that has landed is recorded as merged in one step, and only then  *)
(* does a member leave as merged.  MergeQueueMainline shows that the       *)
(* coordinators implement it.                                              *)
(***************************************************************************)
CONSTANTS Entries, DependsOn

VARIABLES
  place,  \* place[e]: not yet in the queue, in it, or how e left it
  spec,   \* spec[e]: the status of its spec
  landed  \* the entries whose work main contains

queue == <<place, spec, landed>>

Places == {"outside", "inside", "merged", "dequeued"}

Init ==
  /\ place = [e \in Entries |-> "outside"]
  /\ spec = [e \in Entries |-> "review"]
  /\ landed = {}

Enter(e) ==
  /\ place[e] = "outside"
  /\ place' = [place EXCEPT ![e] = "inside"]
  /\ UNCHANGED <<spec, landed>>

\* A dependency comes with its dependent or before it, or was cancelled.
Founded(B) ==
  \A e \in B : \A d \in DependsOn[e] : d \in B \cup landed \/ spec[d] = "cancelled"

Land(B) ==
  /\ \A e \in B : place[e] # "outside"
  /\ Founded(B)
  /\ landed' = landed \cup B
  /\ UNCHANGED <<place, spec>>

\* What has landed is merged, whatever was said of it in between.
Record(B) ==
  /\ B \subseteq landed
  /\ spec' = [e \in Entries |-> IF e \in B THEN "merged" ELSE spec[e]]
  /\ UNCHANGED <<place, landed>>

Leave(e, how) ==
  /\ place[e] = "inside"
  /\ place' = [place EXCEPT ![e] = how]

Mark(e) ==
  /\ spec[e] = "merged"
  /\ Leave(e, "merged")
  /\ UNCHANGED <<spec, landed>>

\* A successor takes the spec on when what it depends on is merged.
Rework(e) ==
  /\ place[e] = "inside"
  /\ spec[e] = "review"
  /\ \A d \in DependsOn[e] : spec[d] = "merged"
  /\ spec' = [spec EXCEPT ![e] = "in_flight"]
  /\ UNCHANGED <<place, landed>>

\* By a rework or by an operator.
Dequeue(e) ==
  /\ Leave(e, "dequeued")
  /\ UNCHANGED <<spec, landed>>

Park(e) ==
  /\ spec[e] \in {"review", "in_flight"}
  /\ spec' = [spec EXCEPT ![e] = "needs_attention"]
  /\ Leave(e, "dequeued")
  /\ UNCHANGED landed

\* Live dependents are parked, their entries stay.
Cancel(e) ==
  /\ spec[e] \notin {"merged", "cancelled"}
  /\ spec' = [f \in Entries |->
       IF f = e THEN "cancelled"
       ELSE IF e \in DependsOn[f] /\ spec[f] \in {"review", "in_flight"}
       THEN "needs_attention" ELSE spec[f]]
  /\ UNCHANGED <<place, landed>>

Next ==
  \/ \E B \in SUBSET Entries : Land(B) \/ Record(B)
  \/ \E e \in Entries : \/ Enter(e) \/ Mark(e) \/ Dequeue(e)
                        \/ Rework(e) \/ Park(e) \/ Cancel(e)

Spec == Init /\ [][Next]_queue
=============================================================================
