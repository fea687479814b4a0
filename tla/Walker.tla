------------------------------- MODULE Walker -------------------------------
(***************************************************************************)
(* The DAG walker of one project: it reads the specs and the lifecycle of  *)
(* their latest runs, chooses what to start, and starts it one spec at a   *)
(* time, while runs progress and die, specs merge and operators intervene. *)
(*                                                                         *)
(* The two reads of a walk are concurrent statements, the starts are       *)
(* transactions of their own: everything between them is interleaved.  A   *)
(* notification only asks for a walk, as the timer of the subscriber does, *)
(* so whether one is lost makes no difference to what can happen.          *)
(*                                                                         *)
(* Specs are numbered in the order in which ready specs are started        *)
(* (priority, then creation).  How far a run has come is one of Stages:    *)
(* pull request open, audited, or flagged (audited with an open P0 or P1). *)
(***************************************************************************)
EXTENDS FiniteSets, Integers

CONSTANTS Specs, DependsOn,
          Ceiling,      \* how many specs may be in flight
          Threshold,    \* how far an ancestor must be before one builds on it
          DepthCap,     \* how many unmerged ancestors a stack may have
          Operations,   \* what operators may do in this instance
          Faults,       \* the kinds of fault that may occur
          MaxTurns      \* bound on operations, faults and deaths of runs

ASSUME SpecsAssumption   == Specs \subseteq Nat /\ IsFiniteSet(Specs)
ASSUME DagAssumption     == DependsOn \in [Specs -> SUBSET Specs]
ASSUME CeilingAssumption == Ceiling \in Nat \ {0} /\ DepthCap \in Nat \ {0}
ASSUME ConfigAssumption  ==
  /\ Threshold \in {"conservative", "moderate", "aggressive"}
  /\ Operations \subseteq {"cancel", "requeue", "hand", "budget", "archive",
                           "lax"}
  /\ Faults \subseteq {"crash", "db"}
  /\ MaxTurns \in Nat

VARIABLES
  spec,    \* specs.status
  stage,   \* what the events of the spec's latest run say
  start,   \* of that run: who asked for it, and its ancestor_stack
  gate,    \* whether the project may start work
  walk,    \* the walk under way, and what it has read and chosen
  wake,    \* a walk is wanted
  held,    \* the back-off of speculative specs, in the walker's memory
  turns    \* how many operations, faults and deaths there have been

vars == <<spec, stage, start, gate, walk, wake, held, turns>>

Statuses == {"open", "in_flight", "merged", "cancelled", "needs_attention"}
Alive    == {"building", "pr_open", "flagged", "audited"}
Stages   == Alive \cup {"none", "dead"}
States   == {"pending", "building", "pr_open", "audited", "merged", "blocked", "absent"}
Gates    == {"open", "budget", "archived"}
Keys     == UNION {[A -> States] : A \in SUBSET Specs}

TypeOK ==
  /\ spec \in [Specs -> Statuses]
  /\ stage \in [Specs -> Stages]
  /\ start \in [Specs -> [by: {"nobody", "walker", "hand"}, stack: SUBSET Specs]]
  /\ gate \in Gates
  /\ walk \in [at: {"idle", "snapped", "projected", "enqueuing"},
               snap: [Specs -> Statuses \cup {"absent"}],
               life: [Specs -> [state: States, blocking: BOOLEAN]],
               todo: SUBSET Specs]
  /\ wake \in BOOLEAN
  /\ held \in [Specs -> [window: BOOLEAN, key: Keys]]
  /\ turns \in Nat

NoRead == [p \in Specs |-> "absent"]
NoLife == [p \in Specs |-> [state |-> "absent", blocking |-> TRUE]]
Resting == [at |-> "idle", snap |-> NoRead, life |-> NoLife, todo |-> {}]

NoKey  == [a \in {} |-> "absent"]
NoHold == [window |-> FALSE, key |-> NoKey]

\* A worker starts with a walk of every project.
Init ==
  /\ spec = [p \in Specs |-> "open"]
  /\ stage = [p \in Specs |-> "none"]
  /\ start = [p \in Specs |-> [by |-> "nobody", stack |-> {}]]
  /\ gate = "open"
  /\ walk = Resting
  /\ wake = TRUE
  /\ held = [p \in Specs |-> NoHold]
  /\ turns = 0

Turn == turns < MaxTurns /\ turns' = turns + 1

-----------------------------------------------------------------------------
(* What a walk reads *)

\* An archived project has no nodes.
Snapshot == IF gate = "archived" THEN NoRead ELSE spec

State(p) == CASE spec[p] = "merged"    -> "merged"
              [] spec[p] = "cancelled" -> "blocked"
              [] OTHER -> CASE stage[p] = "none"    -> "pending"
                            [] stage[p] = "dead"    -> "blocked"
                            [] stage[p] = "flagged" -> "audited"
                            [] OTHER -> stage[p]

\* The severity is that of the latest run's audit, also for a merged spec.
Lifecycle == [p \in Specs |-> [state    |-> State(p),
                               blocking |-> stage[p] # "audited"]]

-----------------------------------------------------------------------------
(* What it chooses *)

Published == {"pr_open", "audited", "merged"}

\* ancestorCrossedThreshold
Crossed(l) == CASE Threshold = "conservative" -> l.state = "merged"
                [] Threshold = "moderate"     -> l.state \in {"audited", "merged"} /\ ~l.blocking
                [] Threshold = "aggressive"   -> l.state \in Published

\* Mutant: only the direct dependencies are stacked.
DirectAncestors(p, life) == {a \in DependsOn[p] : life[a].state # "merged"}

\* transitiveUnmergedAncestors: the least set that has every unmerged
\* dependency of p and of its own members.
Follows(U, p, life) ==
  \A a \in Specs : (a \in DependsOn[p] \/ \E b \in U : a \in DependsOn[b])
                   => a \in U \/ life[a].state = "merged"
UnmergedAncestors(p, life) ==
  {a \in Specs : \A U \in SUBSET Specs : Follows(U, p, life) => a \in U}

InFlight(snap) == {p \in Specs : snap[p] = "in_flight"}

Ready(snap, life) ==
  {p \in Specs : /\ snap[p] = "open"
                 /\ \A d \in DependsOn[p] : Crossed(life[d])
                 /\ Cardinality(UnmergedAncestors(p, life)) =< DepthCap}

\* Mutant: what is in flight is not deducted.
FullCeiling(snap) == Ceiling
\* Mutant: one slot is never used.
HeadroomShort(snap) == LET n == Cardinality(InFlight(snap)) + 1
                       IN  IF n < Ceiling THEN Ceiling - n ELSE 0

Headroom(snap) == LET n == Cardinality(InFlight(snap))
                  IN  IF n < Ceiling THEN Ceiling - n ELSE 0

\* T is what slice(0, n) leaves of the ordered set R.
FirstOf(T, R, n) ==
  /\ T \subseteq R
  /\ Cardinality(T) =< n
  /\ T = R \/ Cardinality(T) = n
  /\ \A t \in T, r \in R \ T : t < r

-----------------------------------------------------------------------------
(* The walk *)

Wake == /\ ~wake
        /\ wake' = TRUE
        /\ UNCHANGED <<spec, stage, start, gate, walk, held, turns>>

BeginWalk ==
  /\ walk.at = "idle" /\ wake
  /\ wake' = FALSE
  /\ \/ walk' = [Resting EXCEPT !.at = "snapped", !.snap = Snapshot]
     \/ walk' = [Resting EXCEPT !.at = "projected", !.life = Lifecycle]
  /\ UNCHANGED <<spec, stage, start, gate, held, turns>>

Pruned(snap) == [p \in Specs |-> IF snap[p] \in {"open", "in_flight"} THEN held[p] ELSE NoHold]

Plan ==
  /\ walk.at \in {"snapped", "projected"}
  /\ LET snap == IF walk.at = "snapped" THEN walk.snap ELSE Snapshot
         life == IF walk.at = "projected" THEN walk.life ELSE Lifecycle
     IN  /\ held' = Pruned(snap)
         /\ \E T \in SUBSET Specs :
              /\ FirstOf(T, Ready(snap, life), Headroom(snap))
              /\ walk' = IF gate = "budget" \/ T = {}
                         THEN Resting
                         ELSE [at |-> "enqueuing", snap |-> snap, life |-> life, todo |-> T]
  /\ UNCHANGED <<spec, stage, start, gate, wake, turns>>

\* One of the reads fails: the chain of walks goes on with the next trigger.
WalkThrows ==
  /\ "db" \in Faults /\ Turn
  /\ walk.at \in {"snapped", "projected"}
  /\ walk' = Resting
  /\ UNCHANGED <<spec, stage, start, gate, wake, held>>

Next1(p) ==
  /\ walk.at = "enqueuing"
  /\ p \in walk.todo /\ \A q \in walk.todo : p =< q
  /\ walk' = IF walk.todo = {p} THEN Resting ELSE [walk EXCEPT !.todo = walk.todo \ {p}]

Stack(p) == UnmergedAncestors(p, walk.life)

\* ancestorLifecycleKey
Key(p) == [a \in Stack(p) |-> walk.life[a].state]

\* createQueuedRunFromSpec: only a run without a stack looks at the
\* dependencies, and every run claims a spec that is open.
Claimable(p, stack) ==
  /\ spec[p] = "open"
  /\ stack = {} => \A d \in DependsOn[p] : spec[d] = "merged"

Claim(p, by, stack) ==
  /\ Claimable(p, stack)
  /\ spec' = [spec EXCEPT ![p] = "in_flight"]
  /\ stage' = [stage EXCEPT ![p] = "building"]
  /\ start' = [start EXCEPT ![p] = [by |-> by, stack |-> stack]]

EnqueueDirect(p) ==
  /\ Next1(p)
  /\ Stack(p) = {}
  /\ Claim(p, "walker", {})
  /\ UNCHANGED <<gate, wake, held, turns>>

\* decideAncestorWait: the window is over, every ancestor has a head, and one
\* of them is elsewhere than at the last attempt.
HasHeads(p)  == \A a \in Stack(p) : walk.life[a].state \in Published
Proceeds(p)  == ~held[p].window /\ HasHeads(p) /\ held[p].key # Key(p)

EnqueueSpeculative(p) ==
  /\ Next1(p)
  /\ Stack(p) # {}
  /\ Proceeds(p)
  /\ Claim(p, "walker", Stack(p))
  /\ held' = [held EXCEPT ![p] = [window |-> TRUE, key |-> Key(p)]]
  /\ UNCHANGED <<gate, wake, turns>>

\* Deferred for want of a head, or re-armed for want of progress: the window
\* starts again and the key stays.
Wait(p) ==
  /\ Next1(p)
  /\ Stack(p) # {}
  /\ ~held[p].window /\ ~Proceeds(p)
  /\ held' = [held EXCEPT ![p].window = TRUE]
  /\ UNCHANGED <<spec, stage, start, gate, wake, turns>>

\* Inside the window, or the transaction finds the spec not runnable.
Skip(p) ==
  /\ Next1(p)
  /\ \/ Stack(p) # {} /\ held[p].window
     \/ Stack(p) # {} /\ Proceeds(p) /\ ~Claimable(p, Stack(p))
     \/ Stack(p) = {} /\ ~Claimable(p, {})
  /\ UNCHANGED <<spec, stage, start, gate, wake, held, turns>>

\* Whatever an enqueue throws costs this spec its place in this walk only.
EnqueueThrows(p) ==
  /\ "db" \in Faults /\ Turn
  /\ Next1(p)
  /\ UNCHANGED <<spec, stage, start, gate, wake, held>>

WindowElapses(p) ==
  /\ held[p].window
  /\ held' = [held EXCEPT ![p].window = FALSE]
  /\ UNCHANGED <<spec, stage, start, gate, walk, wake, turns>>

\* The back-off is memory of the process; the next one begins with a walk.
Crash ==
  /\ "crash" \in Faults /\ Turn
  /\ walk' = Resting
  /\ held' = [p \in Specs |-> NoHold]
  /\ wake' = TRUE
  /\ UNCHANGED <<spec, stage, start, gate>>

-----------------------------------------------------------------------------
(* The runs and the merge queue *)

Advance(p) ==
  /\ spec[p] # "merged"
  /\ \/ stage[p] = "building" /\ stage' = [stage EXCEPT ![p] = "pr_open"]
     \/ /\ stage[p] \in {"pr_open", "flagged"}
        /\ \E s \in {"flagged", "audited"} \ {stage[p]} : stage' = [stage EXCEPT ![p] = s]
  /\ UNCHANGED <<spec, start, gate, walk, wake, held, turns>>

\* A posture that blocks from P0 on lets a P1 land.
Merge(p) ==
  /\ spec[p] = "in_flight"
  /\ \/ stage[p] = "audited"
     \/ stage[p] = "flagged" /\ "lax" \in Operations
  /\ \A d \in DependsOn[p] : spec[d] = "merged"
  /\ spec' = [spec EXCEPT ![p] = "merged"]
  /\ UNCHANGED <<stage, start, gate, walk, wake, held, turns>>

Die(p) ==
  /\ Turn
  /\ spec[p] # "merged" /\ stage[p] \in Alive
  /\ stage' = [stage EXCEPT ![p] = "dead"]
  /\ UNCHANGED <<spec, start, gate, walk, wake, held>>

\* Mutant: the spec gets the status of its run.
ReopenHalted(p) ==
  /\ spec[p] = "in_flight" /\ stage[p] = "dead"
  /\ spec' = [spec EXCEPT ![p] = "halted"]
  /\ UNCHANGED <<stage, start, gate, walk, wake, held, turns>>

Reopen(p) ==
  /\ spec[p] = "in_flight" /\ stage[p] = "dead"
  /\ spec' = [spec EXCEPT ![p] = "open"]
  /\ UNCHANGED <<stage, start, gate, walk, wake, held, turns>>

\* By the end of a run, or by the merge queue when the run is complete.
Park(p) ==
  /\ spec[p] = "in_flight" /\ stage[p] \in {"dead", "flagged", "audited"}
  /\ spec' = [spec EXCEPT ![p] = "needs_attention"]
  /\ UNCHANGED <<stage, start, gate, walk, wake, held, turns>>

-----------------------------------------------------------------------------
(* The operators *)

\* Mutant: dependents that have not started are not parked.
CancelRunningOnly(p) ==
  /\ "cancel" \in Operations /\ Turn
  /\ spec[p] \in {"open", "in_flight"}
  /\ spec' = [q \in Specs |-> IF q = p THEN "cancelled"
                              ELSE IF p \in DependsOn[q] /\ spec[q] = "in_flight"
                              THEN "needs_attention" ELSE spec[q]]
  /\ stage' = IF stage[p] \in Alive THEN [stage EXCEPT ![p] = "dead"] ELSE stage
  /\ UNCHANGED <<start, gate, walk, wake, held>>

\* The run of a spec that is open was left behind by a park and a requeue.
Cancel(p) ==
  /\ "cancel" \in Operations /\ Turn
  /\ spec[p] \in {"open", "in_flight"}
  /\ spec' = [q \in Specs |-> IF q = p THEN "cancelled"
                              ELSE IF p \in DependsOn[q] /\ spec[q] \in {"open", "in_flight"}
                              THEN "needs_attention" ELSE spec[q]]
  /\ stage' = IF stage[p] \in Alive THEN [stage EXCEPT ![p] = "dead"] ELSE stage
  /\ UNCHANGED <<start, gate, walk, wake, held>>

Requeue(p) ==
  /\ "requeue" \in Operations /\ Turn
  /\ spec[p] = "needs_attention"
  /\ spec' = [spec EXCEPT ![p] = "open"]
  /\ UNCHANGED <<stage, start, gate, walk, wake, held>>

StartByHand(p) ==
  /\ "hand" \in Operations /\ Turn
  /\ Claim(p, "hand", {})
  /\ UNCHANGED <<gate, walk, wake, held>>

\* Archiving cancels the runs that have not completed, and no spec.
Archive ==
  /\ "archive" \in Operations /\ Turn
  /\ gate # "archived"
  /\ gate' = "archived"
  /\ \E done \in SUBSET {p \in Specs : stage[p] \in {"flagged", "audited"}} :
       stage' = [p \in Specs |-> IF stage[p] \in Alive /\ p \notin done /\ spec[p] # "merged"
                                 THEN "dead" ELSE stage[p]]
  /\ UNCHANGED <<spec, start, walk, wake, held>>

Unarchive ==
  /\ gate = "archived"
  /\ gate' = "open"
  /\ UNCHANGED <<spec, stage, start, walk, wake, held, turns>>

SpendBudget ==
  /\ "budget" \in Operations /\ Turn
  /\ gate = "open"
  /\ gate' = "budget"
  /\ UNCHANGED <<spec, stage, start, walk, wake, held>>

RaiseBudget ==
  /\ gate = "budget"
  /\ gate' = "open"
  /\ UNCHANGED <<spec, stage, start, walk, wake, held, turns>>

-----------------------------------------------------------------------------
Enqueue(p) == EnqueueDirect(p) \/ EnqueueSpeculative(p) \/ Wait(p) \/ Skip(p)

Walking == BeginWalk \/ Plan \/ \E p \in Specs : Enqueue(p)

Next ==
  \/ Wake \/ Walking \/ WalkThrows \/ Crash
  \/ Archive \/ Unarchive \/ SpendBudget \/ RaiseBudget
  \/ \E p \in Specs : \/ EnqueueThrows(p) \/ WindowElapses(p)
                      \/ Advance(p) \/ Merge(p) \/ Die(p) \/ Reopen(p) \/ Park(p)
                      \/ Cancel(p) \/ Requeue(p) \/ StartByHand(p)

\* The timer wakes the walker, a walk that has begun goes on, a back-off ends.
\* Nothing is asked of runs, the merge queue, operators or notifications.
Fairness == /\ WF_vars(Wake)
            /\ WF_vars(Walking)
            /\ \A p \in Specs : WF_vars(WindowElapses(p))

Spec == Init /\ [][Next]_vars /\ Fairness
-----------------------------------------------------------------------------
(* Properties *)

\* The walker never has more specs in flight than the ceiling, whatever is
\* started by hand, dies, is reopened or is archived between the snapshot of a
\* walk and its last enqueue (planSpeculativeDagTick, walk).
Walked == {p \in Specs : spec[p] = "in_flight" /\ start[p].by = "walker"}
WithinCeiling == Cardinality(Walked) =< Ceiling

\* A spec is worked on over its whole prospective world: each ancestor of a
\* spec in flight has merged or is in the stack of its run, although the stack
\* was computed from an older lifecycle and stops at merged ancestors
\* (transitiveUnmergedAncestors).
Ancestors(p) ==
  {a \in Specs : \A U \in SUBSET Specs :
                   (/\ DependsOn[p] \subseteq U
                    /\ \A c \in U : DependsOn[c] \subseteq U) => a \in U}
StackComplete ==
  \A p \in Specs : spec[p] = "in_flight" =>
    \A a \in Ancestors(p) : spec[a] = "merged" \/ a \in start[p].stack

\* Cancelling a spec stops its direct dependents, those in flight and those the
\* walk under way is about to start (parkLiveDependents).  Only a requeue brings
\* one back, so it is a property of instances without.
NoWorkOnCancelled ==
  \A p \in Specs : spec[p] = "in_flight" => \A d \in DependsOn[p] : spec[d] # "cancelled"

\* Work that may start is started, whatever was lost, died or was in the way
\* before (walk, DagWalkerSubscriber): in the end the project may not start
\* work, or the ceiling is reached, or no spec is open with its dependencies
\* merged.  The one thing that may keep it waiting for ever is a ready spec that
\* the ancestor gate holds for want of progress (decideAncestorWait).
Startable(p) == spec[p] = "open" /\ \A d \in DependsOn[p] : spec[d] = "merged"
Occupied     == gate # "open" \/ Cardinality(InFlight(spec)) >= Ceiling
Gated(p) ==
  LET life  == Lifecycle
      stack == UnmergedAncestors(p, life)
  IN  /\ p \in Ready(spec, life) /\ stack # {}
      /\ held[p].key = [a \in stack |-> life[a].state]
NothingLeftWaiting ==
  <>[](Occupied \/ (\E p \in Specs : Gated(p)) \/ \A p \in Specs : ~Startable(p))

\* The same without the exception.
NothingStarves == <>[](Occupied \/ \A p \in Specs : ~Startable(p))

\* A spec that awaits an operator is a dependency nothing is started on: no walk
\* chooses a spec whose dependency its own snapshot shows as parked.
ParkedBlocks ==
  walk.at = "enqueuing" =>
    \A p \in walk.todo : \A d \in DependsOn[p] : walk.snap[d] # "needs_attention"

\* A merged ancestor has crossed every threshold (ancestorCrossedThreshold).
MergedCrosses == \A p \in Specs : spec[p] = "merged" => Crossed(Lifecycle[p])

\* A spec that was re-driven is picked again: in the end no open spec is left
\* that is ready and on top of work in flight or merged, while a slot is free.
Unparked(p) == \A d \in DependsOn[p] : spec[d] \in {"in_flight", "merged"}
RedrivenIsPicked ==
  <>[](Occupied \/ \A p \in Ready(spec, Lifecycle) : ~Unparked(p))
=============================================================================
