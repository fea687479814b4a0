------------------------------- MODULE Rollout -------------------------------
(***************************************************************************)
(* What the delivery of land groups promises, with no worker, lease, token *)
(* or fault in sight.  Each group gets one verdict.  The provider does each *)
(* effect for a group once, and never promotes what was rejected.  One     *)
(* release of a group goes live, after it was promoted, and takes the      *)
(* place of whatever was live.  The verdict tells what became of it.       *)
(* DeliveryRollout shows that the workers implement it.                    *)
(***************************************************************************)
EXTENDS Naturals

CONSTANTS Groups, Effects, Verdicts,
          Releases   \* pairs: the group, and which of its releases

VARIABLES
  verdict,  \* verdict[g]: not begun, in progress, or what it came to
  done,     \* how often each effect of a group was had from the provider
  standing, \* standing[r]: r never was live, it is, or it was
  verified  \* the groups whose deployment is in evidence

rollout == <<verdict, done, standing, verified>>

Init ==
  /\ verdict = [g \in Groups |-> "absent"]
  /\ done = [g \in Groups |-> [e \in Effects |-> 0]]
  /\ standing = [r \in Releases |-> "never"]
  /\ verified = {}

Of(g) == {r \in Releases : r[1] = g}

Begin(g) ==
  /\ verdict[g] = "absent"
  /\ verdict' = [verdict EXCEPT ![g] = "in_progress"]
  /\ UNCHANGED <<done, standing, verified>>

Fire(g, e) ==
  /\ verdict[g] # "absent" /\ done[g][e] = 0
  /\ e = "promote" => verdict[g] # "preview_failed"
  /\ done' = [done EXCEPT ![g] = [done[g] EXCEPT ![e] = 1]]
  /\ UNCHANGED <<verdict, standing, verified>>

\* An owner that was taken over may still do this, when the group was left to
\* somebody's attention, but not against any other verdict.
GoLive(r) ==
  /\ verdict[r[1]] \in {"in_progress", "needs_attention"}
  /\ done[r[1]]["promote"] = 1
  /\ \A q \in Of(r[1]) : standing[q] = "never"
  /\ standing' = [q \in Releases |-> IF q = r THEN "live"
                                     ELSE IF standing[q] = "live" THEN "past" ELSE standing[q]]
  /\ UNCHANGED <<verdict, done, verified>>

\* There is something to go back to.
Withdraw ==
  /\ \E q \in Releases : standing[q] = "past"
  /\ standing' = [q \in Releases |-> IF standing[q] = "live" THEN "past" ELSE standing[q]]
  /\ UNCHANGED <<verdict, done, verified>>

Verify(g) ==
  /\ \E r \in Of(g) : standing[r] # "never"
  /\ verified' = verified \cup {g}
  /\ UNCHANGED <<verdict, done, standing>>

Conclude(g, v) ==
  /\ verdict[g] = "in_progress"
  /\ v = "completed" => g \in verified
  /\ v = "rolled_back" => \E r \in Of(g) : standing[r] = "past"
  /\ v = "preview_failed" => /\ done[g]["promote"] = 0
                             /\ \A r \in Of(g) : standing[r] = "never"
  /\ verdict' = [verdict EXCEPT ![g] = v]
  /\ UNCHANGED <<done, standing, verified>>

Next ==
  \/ \E g \in Groups : \/ Begin(g) \/ Verify(g)
                       \/ \E e \in Effects : Fire(g, e)
                       \/ \E v \in Verdicts : Conclude(g, v)
  \/ \E r \in Releases : GoLive(r)
  \/ Withdraw

Spec == Init /\ [][Next]_rollout
=============================================================================
