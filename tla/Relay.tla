-------------------------------- MODULE Relay --------------------------------
(***************************************************************************)
(* What the life cycle of runs promises about specs, with no job, slot,    *)
(* safety net or background loop in sight.  An open spec is taken by a new *)
(* run when nobody holds it.  Only the run that holds a spec moves it, and *)
(* lets go of it with the write that ends its work: the spec is open for   *)
(* the next run, merged, or in need of attention.  RunLifecycleRelay shows *)
(* that the workers and loops implement it.                                *)
(***************************************************************************)
CONSTANTS Specs, DependsOn, Runs, NoSpec,
          Operations  \* what operators may do, of "cancel" and "archive"

VARIABLES
  spec,     \* the status of each spec
  attempt,  \* attempt[r]: the spec that r was created for
  holds     \* the runs that may still write their spec

relay == <<spec, attempt, holds>>

Init ==
  /\ spec = [p \in Specs |-> "open"]
  /\ attempt = [r \in Runs |-> NoSpec]
  /\ holds = {}

HoldersOf(p) == {r \in holds : attempt[r] = p}

Take(p, r) ==
  /\ spec[p] = "open" /\ HoldersOf(p) = {}
  /\ \A d \in DependsOn[p] : spec[d] = "merged"
  /\ attempt[r] = NoSpec
  /\ spec' = [spec EXCEPT ![p] = "in_flight"]
  /\ attempt' = [attempt EXCEPT ![r] = p]
  /\ holds' = holds \cup {r}

\* It makes a difference to a run that was not told of a cancel.
GoOn(r) ==
  /\ r \in holds
  /\ spec' = [spec EXCEPT ![attempt[r]] = "in_flight"]
  /\ UNCHANGED <<attempt, holds>>

HandOver(r, to) ==
  /\ r \in holds
  /\ spec' = [spec EXCEPT ![attempt[r]] = to]
  /\ holds' = holds \ {r}
  /\ UNCHANGED attempt

\* Only what operators do can keep a run from handing its spec over.
Drop(r) ==
  /\ r \in holds
  /\ Operations # {}
  /\ holds' = holds \ {r}
  /\ UNCHANGED <<spec, attempt>>

Settled(p) == spec[p] \in {"merged", "cancelled", "needs_attention"}

\* A holder may lose its hold with it.
Cancel(p) ==
  /\ "cancel" \in Operations
  /\ ~Settled(p)
  /\ spec' = [q \in Specs |-> CASE q = p -> "cancelled"
                                [] p \in DependsOn[q] /\ ~Settled(q) -> "needs_attention"
                                [] OTHER -> spec[q]]
  /\ holds' = holds \/ \E r \in HoldersOf(p) : holds' = holds \ {r}
  /\ UNCHANGED attempt

Next ==
  \/ \E p \in Specs : Cancel(p) \/ \E r \in Runs : Take(p, r)
  \/ \E r \in Runs : \/ GoOn(r) \/ Drop(r)
                     \/ \E to \in {"open", "merged", "needs_attention"} : HandOver(r, to)

Spec == Init /\ [][Next]_relay
=============================================================================
