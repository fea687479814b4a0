------------------------------- MODULE Custody -------------------------------
(***************************************************************************)
(* What the allocator service promises about the sandboxes of runs, with   *)
(* no request, row, worker or sweeper in sight.  A container is built in   *)
(* somebody's hands, filed, fetched from the file, and removed by hand; a  *)
(* run has one at a time.  Only an accident loses one, and a lost          *)
(* container stays.  RunnerLeaseCustody shows that the calls, the workers  *)
(* and the sweeper implement it.                                           *)
(***************************************************************************)
CONSTANT Runs

VARIABLES
  container,  \* "none", "held" in hand, "filed" or "lost"
  volumes,    \* "none", "held", "used" by the container, or "lost"
  struck      \* the runs that met with an accident

custody == <<container, volumes, struck>>

Init ==
  /\ container = [r \in Runs |-> "none"]
  /\ volumes = [r \in Runs |-> "none"]
  /\ struck = {}

Prepare(r) ==
  /\ container[r] = "none"
  /\ volumes' = [volumes EXCEPT ![r] = "held"]
  /\ UNCHANGED <<container, struck>>

Build(r) ==
  /\ container[r] = "none"
  /\ container' = [container EXCEPT ![r] = "held"]
  /\ volumes' = [volumes EXCEPT ![r] = "used"]
  /\ UNCHANGED struck

File(r) ==
  /\ container[r] = "held"
  /\ container' = [container EXCEPT ![r] = "filed"]
  /\ UNCHANGED <<volumes, struck>>

Fetch(r) ==
  /\ container[r] = "filed"
  /\ container' = [container EXCEPT ![r] = "held"]
  /\ UNCHANGED <<volumes, struck>>

Remove(r) ==
  /\ container[r] = "held"
  /\ container' = [container EXCEPT ![r] = "none"]
  /\ volumes' = [volumes EXCEPT ![r] = "held"]
  /\ UNCHANGED struck

Wipe(r) ==
  /\ volumes[r] = "held"
  /\ volumes' = [volumes EXCEPT ![r] = "none"]
  /\ UNCHANGED <<container, struck>>

\* What an accident may do to the container and the volumes of a run that it
\* strikes: to lose what there is, to end a teardown halfway, to leave behind a
\* container that nobody learns of; it brings nothing back.
Falls(r) ==
  \/ /\ \/ UNCHANGED container[r]
        \/ /\ container[r] \in {"held", "filed"}
           /\ container'[r] \in {"held", "filed", "lost"}
     /\ \/ UNCHANGED volumes[r]
        \/ volumes[r] # "used" /\ volumes'[r] \in {"held", "lost"}
  \/ /\ container[r] = "held" /\ container'[r] = "none"
     /\ volumes'[r] \in {"held", "lost"}
  \/ /\ container[r] = "none" /\ container'[r] = "lost"
     /\ volumes'[r] = "used"

Accident ==
  /\ \E runs \in SUBSET Runs : struck' = struck \cup runs
  /\ \E place \in [Runs -> {"none", "held", "filed", "lost"}] : container' = place
  /\ \E place \in [Runs -> {"none", "held", "used", "lost"}] : volumes' = place
  /\ \A r \in Runs : \/ UNCHANGED <<container[r], volumes[r]>>
                     \/ r \in struck' /\ Falls(r)

Next ==
  \/ \E r \in Runs : Prepare(r) \/ Build(r) \/ File(r) \/ Fetch(r) \/ Remove(r) \/ Wipe(r)
  \/ Accident

Spec == Init /\ [][Next]_custody
=============================================================================
