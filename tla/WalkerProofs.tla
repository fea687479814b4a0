---------------------------- MODULE WalkerProofs ----------------------------
(***************************************************************************)
(* What holds of the walker for every DAG, ceiling, threshold and depth:   *)
(* the ceiling, the completeness of the stacks it starts specs on, and     *)
(* that it implements Board.                                               *)
(***************************************************************************)
EXTENDS WalkerBoard, FiniteSetTheorems, TLAPS

(* Types *)

LEMMA BlankTypes ==
  /\ NoRead \in [Specs -> Statuses \cup {"absent"}]
  /\ NoLife \in [Specs -> [state: States, blocking: BOOLEAN]]
  /\ NoHold \in [window: BOOLEAN, key: Keys]
<1>1. NoKey \in [{} -> States]
  BY DEF NoKey
<1>2. {} \in SUBSET Specs
  OBVIOUS
<1>3. NoKey \in Keys
  BY <1>1, <1>2 DEF Keys
<1> QED
  BY <1>3 DEF NoRead, NoLife, NoHold, States

LEMMA RestingType ==
  Resting \in [at: {"idle", "snapped", "projected", "enqueuing"},
               snap: [Specs -> Statuses \cup {"absent"}],
               life: [Specs -> [state: States, blocking: BOOLEAN]],
               todo: SUBSET Specs]
  BY BlankTypes DEF Resting

LEMMA ReadTypes ==
  ASSUME TypeOK
  PROVE  /\ Snapshot \in [Specs -> Statuses \cup {"absent"}]
         /\ Lifecycle \in [Specs -> [state: States, blocking: BOOLEAN]]
<1>1. Snapshot \in [Specs -> Statuses \cup {"absent"}]
  BY BlankTypes DEF TypeOK, Snapshot
<1>2. \A p \in Specs : State(p) \in States
  BY DEF TypeOK, State, States, Stages, Alive
<1> QED
  BY <1>1, <1>2 DEF Lifecycle

LEMMA InitTyped == Init => TypeOK
  BY RestingType, BlankTypes, CeilingAssumption
     DEF Init, TypeOK, Statuses, Stages, Gates

\* Key(p) is a key: the states of the ancestors on the stack.
LEMMA KeyType ==
  ASSUME TypeOK, NEW p \in Specs
  PROVE  Key(p) \in Keys
<1>1. Stack(p) \in SUBSET Specs
  BY DEF Stack, UnmergedAncestors
<1>2. \A a \in Stack(p) : walk.life[a].state \in States
  BY <1>1 DEF TypeOK
<1>3. Key(p) \in [Stack(p) -> States]
  BY <1>2 DEF Key
<1> QED
  BY <1>1, <1>3 DEF Keys

LEMMA Next1Type ==
  ASSUME TypeOK, NEW p \in Specs, Next1(p)
  PROVE  walk' \in [at: {"idle", "snapped", "projected", "enqueuing"},
                    snap: [Specs -> Statuses \cup {"absent"}],
                    life: [Specs -> [state: States, blocking: BOOLEAN]],
                    todo: SUBSET Specs]
<1>1. CASE walk.todo = {p}
  BY <1>1, RestingType DEF Next1
<1>2. CASE walk.todo # {p}
  <2> DEFINE rest == walk.todo \ {p}
  <2>1. walk' = [walk EXCEPT !.todo = rest]
    BY <1>2 DEF Next1
  <2>2. rest \in SUBSET Specs
    BY DEF TypeOK
  <2> QED
    BY <2>1, <2>2 DEF TypeOK
<1> QED
  BY <1>1, <1>2

LEMMA ClaimType ==
  ASSUME TypeOK, NEW p \in Specs, NEW by \in {"walker", "hand"}, NEW stack \in SUBSET Specs,
         Claim(p, by, stack)
  PROVE  /\ spec' \in [Specs -> Statuses]
         /\ stage' \in [Specs -> Stages]
         /\ start' \in [Specs -> [by: {"nobody", "walker", "hand"}, stack: SUBSET Specs]]
<1>1. [by |-> by, stack |-> stack] \in [by: {"nobody", "walker", "hand"}, stack: SUBSET Specs]
  OBVIOUS
<1> QED
  BY <1>1 DEF TypeOK, Claim, Statuses, Stages, Alive

\* A walk: what it reads, chooses, starts and remembers.
LEMMA WalkTyped ==
  ASSUME TypeOK, Walking \/ WalkThrows \/ Crash
  PROVE  TypeOK'
<1>1. CASE BeginWalk
  BY <1>1, ReadTypes, RestingType DEF TypeOK, BeginWalk, Resting
<1>2. CASE Plan
  <2> DEFINE snap == IF walk.at = "snapped" THEN walk.snap ELSE Snapshot
             life == IF walk.at = "projected" THEN walk.life ELSE Lifecycle
  <2>1. /\ snap \in [Specs -> Statuses \cup {"absent"}]
        /\ life \in [Specs -> [state: States, blocking: BOOLEAN]]
    BY ReadTypes DEF TypeOK
  <2>2. Pruned(snap) \in [Specs -> [window: BOOLEAN, key: Keys]]
    BY BlankTypes DEF TypeOK, Pruned
  <2> HIDE DEF snap, life
  <2>3. PICK T \in SUBSET Specs :
           walk' = IF gate = "budget" \/ T = {}
                   THEN Resting
                   ELSE [at |-> "enqueuing", snap |-> snap, life |-> life, todo |-> T]
    BY <1>2 DEF Plan, snap, life
  <2>4. held' = Pruned(snap)
    BY <1>2 DEF Plan, snap, life
  <2> QED
    BY <1>2, <2>1, <2>2, <2>3, <2>4, RestingType DEF TypeOK, Plan
<1>3. ASSUME NEW p \in Specs, Enqueue(p)
      PROVE  TypeOK'
  <2> USE <1>3
  <2>1. Stack(p) \in SUBSET Specs
    BY DEF Stack, UnmergedAncestors
  <2>2. CASE EnqueueDirect(p)
    BY <2>2, Next1Type, ClaimType DEF TypeOK, EnqueueDirect
  <2>3. CASE EnqueueSpeculative(p)
    <3> DEFINE hold == [window |-> TRUE, key |-> Key(p)]
    <3>1. hold \in [window: BOOLEAN, key: Keys]
      BY KeyType
    <3> HIDE DEF hold
    <3>2. held' = [held EXCEPT ![p] = hold]
      BY <2>3 DEF EnqueueSpeculative, hold
    <3>3. held' \in [Specs -> [window: BOOLEAN, key: Keys]]
      BY <3>1, <3>2 DEF TypeOK
    <3> QED
      BY <2>1, <2>3, <3>3, Next1Type, ClaimType DEF TypeOK, EnqueueSpeculative
  <2>4. CASE Wait(p)
    BY <2>4, Next1Type DEF TypeOK, Wait
  <2>5. CASE Skip(p)
    BY <2>5, Next1Type DEF TypeOK, Skip
  <2> QED
    BY <2>2, <2>3, <2>4, <2>5 DEF Enqueue
<1>4. CASE WalkThrows
  BY <1>4, RestingType DEF TypeOK, WalkThrows, Turn
<1>5. CASE Crash
  BY <1>5, RestingType, BlankTypes DEF TypeOK, Crash, Turn
<1> QED
  BY <1>1, <1>2, <1>3, <1>4, <1>5 DEF Walking

\* Everything else leaves the walk alone.
LEMMA GateTyped ==
  ASSUME TypeOK, Wake \/ Archive \/ Unarchive \/ SpendBudget \/ RaiseBudget
  PROVE  TypeOK'
<1> USE DEF TypeOK, Gates
<1>1. CASE Wake
  BY <1>1 DEF Wake
<1>2. CASE Archive
  BY <1>2 DEF Archive, Turn, Stages, Alive
<1>3. CASE Unarchive
  BY <1>3 DEF Unarchive
<1>4. CASE SpendBudget
  BY <1>4 DEF SpendBudget, Turn
<1>5. CASE RaiseBudget
  BY <1>5 DEF RaiseBudget
<1> QED
  BY <1>1, <1>2, <1>3, <1>4, <1>5

LEMMA WorldTyped ==
  ASSUME TypeOK, NEW p \in Specs,
         \/ EnqueueThrows(p) \/ WindowElapses(p) \/ Advance(p) \/ Merge(p) \/ Die(p)
         \/ Reopen(p) \/ Park(p) \/ Cancel(p) \/ Requeue(p) \/ StartByHand(p)
  PROVE  TypeOK'
<1>1. CASE EnqueueThrows(p)
  BY <1>1, Next1Type DEF TypeOK, EnqueueThrows, Turn
<1>2. CASE WindowElapses(p)
  BY <1>2 DEF TypeOK, WindowElapses
<1>3. CASE Advance(p)
  BY <1>3 DEF TypeOK, Advance, Stages, Alive
<1>4. CASE Merge(p)
  BY <1>4 DEF TypeOK, Merge, Statuses
<1>5. CASE Die(p)
  BY <1>5 DEF TypeOK, Die, Turn, Stages
<1>6. CASE Reopen(p)
  BY <1>6 DEF TypeOK, Reopen, Statuses
<1>7. CASE Park(p)
  BY <1>7 DEF TypeOK, Park, Statuses
<1>8. CASE Cancel(p)
  BY <1>8 DEF TypeOK, Cancel, Turn, Statuses, Stages
<1>9. CASE Requeue(p)
  BY <1>9 DEF TypeOK, Requeue, Turn, Statuses
<1>10. CASE StartByHand(p)
  <2>1. Claim(p, "hand", {}) /\ {} \in SUBSET Specs
    BY <1>10 DEF StartByHand
  <2>2. /\ spec' \in [Specs -> Statuses]
        /\ stage' \in [Specs -> Stages]
        /\ start' \in [Specs -> [by: {"nobody", "walker", "hand"}, stack: SUBSET Specs]]
    BY <2>1, ClaimType
  <2>3. gate' = gate /\ walk' = walk /\ wake' = wake /\ held' = held /\ turns' \in Nat
    BY <1>10 DEF TypeOK, StartByHand, Turn
  <2> QED
    BY <2>2, <2>3 DEF TypeOK
<1> QED
  BY <1>1, <1>2, <1>3, <1>4, <1>5, <1>6, <1>7, <1>8, <1>9, <1>10

LEMMA StepTyped == TypeOK /\ [Next]_vars => TypeOK'
<1> SUFFICES ASSUME TypeOK, [Next]_vars PROVE TypeOK'
  OBVIOUS
<1>1. CASE UNCHANGED vars
  BY <1>1 DEF vars, TypeOK
<1>2. CASE Walking \/ WalkThrows \/ Crash
  BY <1>2, WalkTyped
<1>3. CASE Wake \/ Archive \/ Unarchive \/ SpendBudget \/ RaiseBudget
  BY <1>3, GateTyped
<1>4. ASSUME NEW p \in Specs,
             \/ EnqueueThrows(p) \/ WindowElapses(p) \/ Advance(p) \/ Merge(p) \/ Die(p)
             \/ Reopen(p) \/ Park(p) \/ Cancel(p) \/ Requeue(p) \/ StartByHand(p)
      PROVE  TypeOK'
  BY <1>4, WorldTyped
<1> QED
  BY <1>1, <1>2, <1>3, <1>4 DEF Next

\* The statuses, the reads of a walk, its plan and the back-off keep their
\* types, whatever runs, operators and crashes do.
THEOREM Typed == Spec => []TypeOK
  BY InitTyped, StepTyped, PTL DEF Spec

-----------------------------------------------------------------------------
(* The stacks *)

\* Specs merge after their dependencies, and what a walk has seen merged still
\* is: a stack may stop at such a spec.
MergedClosed == \A p \in Specs : spec[p] = "merged" => \A d \in DependsOn[p] : spec[d] = "merged"
LifeHolds == \A p \in Specs : walk.life[p].state = "merged" => spec[p] = "merged"

StackInv == TypeOK /\ MergedClosed /\ LifeHolds /\ StackComplete

\* The induction that Ancestors stands for.
LEMMA AncestorsWithin ==
  ASSUME NEW p \in Specs, NEW U \in SUBSET Specs, DependsOn[p] \subseteq U,
         \A c \in U : DependsOn[c] \subseteq U
  PROVE  Ancestors(p) \subseteq U
  BY DEF Ancestors

\* What a walk stacks, together with what has merged, is all there is below p.
LEMMA StackCovers ==
  ASSUME StackInv, NEW p \in Specs
  PROVE  \A a \in Ancestors(p) : spec[a] = "merged" \/ a \in Stack(p)
<1> DEFINE U == {a \in Specs : spec[a] = "merged" \/ a \in Stack(p)}
<1>1. ASSUME NEW b \in Specs, b \in DependsOn[p] \/ \E c \in Stack(p) : b \in DependsOn[c]
      PROVE  b \in U
  <2>1. CASE walk.life[b].state = "merged"
    BY <2>1 DEF StackInv, LifeHolds
  <2>2. CASE walk.life[b].state # "merged"
    <3>1. ASSUME NEW V \in SUBSET Specs, Follows(V, p, walk.life)
          PROVE  b \in V
      <4>1. Stack(p) \subseteq V
        BY <3>1 DEF Stack, UnmergedAncestors
      <4> QED
        BY <1>1, <2>2, <3>1, <4>1 DEF Follows
    <3> QED
      BY <3>1 DEF Stack, UnmergedAncestors
  <2> QED
    BY <2>1, <2>2
<1>2. DependsOn[p] \subseteq U
  BY <1>1, DagAssumption
<1>3. ASSUME NEW c \in U PROVE DependsOn[c] \subseteq U
  <2>1. CASE spec[c] = "merged"
    BY <2>1, DagAssumption DEF StackInv, MergedClosed
  <2>2. CASE c \in Stack(p)
    BY <2>2, <1>1, DagAssumption
  <2> QED
    BY <2>1, <2>2
<1>4. Ancestors(p) \subseteq U
  BY <1>2, <1>3, AncestorsWithin
<1> QED
  BY <1>4

\* The same of a run that starts with no stack, its dependencies being merged.
LEMMA MergedCovers ==
  ASSUME StackInv, NEW p \in Specs, \A d \in DependsOn[p] : spec[d] = "merged"
  PROVE  \A a \in Ancestors(p) : spec[a] = "merged"
<1> DEFINE U == {a \in Specs : spec[a] = "merged"}
<1>1. DependsOn[p] \subseteq U
  BY DagAssumption
<1>2. \A c \in U : DependsOn[c] \subseteq U
  BY DagAssumption DEF StackInv, MergedClosed
<1>3. Ancestors(p) \subseteq U
  BY <1>1, <1>2, AncestorsWithin
<1> QED
  BY <1>3

\* A step claims one spec, merges one, or does neither: then what it changes
\* is not merged, and ends neither merged nor in flight.
Claims(p) == \/ Next1(p) /\ Claim(p, "walker", Stack(p))
             \/ walk' = walk /\ Claim(p, "hand", {})
Moves ==
  /\ start' = start
  /\ \A q \in Specs :
       \/ spec'[q] = spec[q]
       \/ spec[q] # "merged" /\ spec'[q] \notin {"in_flight", "merged"}

LEMMA SpecStep ==
  ASSUME TypeOK, [Next]_vars
  PROVE  Moves \/ \E p \in Specs : Claims(p) \/ Merge(p)
<1>1. CASE UNCHANGED <<spec, start>>
  BY <1>1 DEF Moves
<1>2. ASSUME NEW p \in Specs, Enqueue(p)
      PROVE  UNCHANGED <<spec, start>> \/ Claims(p)
  BY <1>2 DEF Enqueue, EnqueueDirect, EnqueueSpeculative, Wait, Skip, Claims
<1>3. CASE Walking \/ WalkThrows \/ Crash
  BY <1>1, <1>2, <1>3 DEF Walking, BeginWalk, Plan, WalkThrows, Crash
<1>4. CASE Wake \/ Archive \/ Unarchive \/ SpendBudget \/ RaiseBudget \/ UNCHANGED vars
  BY <1>1, <1>4 DEF Wake, Archive, Unarchive, SpendBudget, RaiseBudget, vars
<1>5. ASSUME NEW p \in Specs, Reopen(p) \/ Park(p) \/ Requeue(p)
      PROVE  Moves
  BY <1>5 DEF TypeOK, Reopen, Park, Requeue, Moves
<1>6. ASSUME NEW p \in Specs, Cancel(p)
      PROVE  Moves
  BY <1>6 DEF TypeOK, Cancel, Moves
<1>7. ASSUME NEW p \in Specs,
             EnqueueThrows(p) \/ WindowElapses(p) \/ Advance(p) \/ Die(p)
      PROVE  UNCHANGED <<spec, start>>
  BY <1>7 DEF EnqueueThrows, WindowElapses, Advance, Die
<1>8. ASSUME NEW p \in Specs, StartByHand(p)
      PROVE  Claims(p)
  BY <1>8 DEF StartByHand, Claims
<1> QED
  BY <1>1, <1>3, <1>4, <1>5, <1>6, <1>7, <1>8 DEF Next

\* What has merged stays merged, and merges after its dependencies.
LEMMA MergedStep ==
  ASSUME TypeOK, [Next]_vars, NEW p \in Specs
  PROVE  /\ spec[p] = "merged" => spec'[p] = "merged"
         /\ spec'[p] = "merged" =>
              spec[p] = "merged" \/ \A d \in DependsOn[p] : spec[d] = "merged"
<1>1. CASE Moves
  BY <1>1 DEF Moves
<1>2. ASSUME NEW q \in Specs, Claims(q)
      PROVE  /\ spec[p] = "merged" => spec'[p] = "merged"
             /\ spec'[p] = "merged" => spec[p] = "merged"
  BY <1>2 DEF TypeOK, Claims, Claim, Claimable
<1>3. ASSUME NEW q \in Specs, Merge(q)
      PROVE  /\ spec[p] = "merged" => spec'[p] = "merged"
             /\ spec'[p] = "merged" =>
                  spec[p] = "merged" \/ \A d \in DependsOn[p] : spec[d] = "merged"
  BY <1>3 DEF TypeOK, Merge
<1> QED
  BY <1>1, <1>2, <1>3, SpecStep

\* A walk has read nothing of the lifecycle, or reads it, or has it already.
LEMMA LifeStep ==
  ASSUME TypeOK, [Next]_vars
  PROVE  walk'.life = walk.life \/ walk'.life = NoLife \/ walk'.life = Lifecycle
<1>1. CASE BeginWalk
  BY <1>1 DEF BeginWalk, Resting
<1>2. CASE Plan
  BY <1>2 DEF Plan, Resting
<1>3. ASSUME NEW p \in Specs, Next1(p)
      PROVE  walk'.life = walk.life \/ walk'.life = NoLife
  BY <1>3 DEF Next1, Resting, TypeOK
<1>4. CASE WalkThrows \/ Crash
  BY <1>4 DEF WalkThrows, Crash, Resting
<1>5. ASSUME NEW p \in Specs, Enqueue(p) \/ EnqueueThrows(p)
      PROVE  Next1(p)
  BY <1>5 DEF Enqueue, EnqueueDirect, EnqueueSpeculative, Wait, Skip, EnqueueThrows
<1>6. CASE Wake \/ Archive \/ Unarchive \/ SpendBudget \/ RaiseBudget \/ UNCHANGED vars
  BY <1>6 DEF Wake, Archive, Unarchive, SpendBudget, RaiseBudget, vars
<1>7. ASSUME NEW p \in Specs,
             \/ WindowElapses(p) \/ Advance(p) \/ Merge(p) \/ Die(p) \/ Reopen(p)
             \/ Park(p) \/ Cancel(p) \/ Requeue(p) \/ StartByHand(p)
      PROVE  walk' = walk
  BY <1>7 DEF WindowElapses, Advance, Merge, Die, Reopen, Park, Cancel, Requeue, StartByHand
<1> QED
  BY <1>1, <1>2, <1>3, <1>4, <1>5, <1>6, <1>7 DEF Next, Walking

LEMMA StackStep == StackInv /\ [Next]_vars => StackInv'
<1> SUFFICES ASSUME StackInv, [Next]_vars PROVE StackInv'
  OBVIOUS
<1>1. TypeOK /\ TypeOK'
  BY StepTyped DEF StackInv
<1>2. MergedClosed'
  <2> SUFFICES ASSUME NEW p \in Specs, spec'[p] = "merged", NEW d \in DependsOn[p]
               PROVE  spec'[d] = "merged"
    BY DEF MergedClosed
  <2>1. d \in Specs
    BY DagAssumption
  <2>2. spec[d] = "merged"
    BY <1>1, MergedStep DEF StackInv, MergedClosed
  <2> QED
    BY <1>1, <2>1, <2>2, MergedStep
<1>3. LifeHolds'
  <2> SUFFICES ASSUME NEW p \in Specs, walk'.life[p].state = "merged"
               PROVE  spec'[p] = "merged"
    BY DEF LifeHolds
  <2>1. NoLife[p].state # "merged"
    BY DEF NoLife
  <2>2. Lifecycle[p].state = "merged" => spec[p] = "merged"
    BY <1>1 DEF Lifecycle, State, TypeOK, Stages, Alive
  <2>3. spec[p] = "merged"
    BY <1>1, <2>1, <2>2, LifeStep DEF StackInv, LifeHolds
  <2> QED
    BY <1>1, <2>3, MergedStep
<1>4. StackComplete'
  <2> SUFFICES ASSUME NEW p \in Specs, spec'[p] = "in_flight", NEW a \in Ancestors(p)
               PROVE  spec'[a] = "merged" \/ a \in start'[p].stack
    BY DEF StackComplete
  <2>1. a \in Specs
    BY DEF Ancestors
  <2>2. CASE Claims(p)
    <3>1. CASE Claim(p, "walker", Stack(p))
      <4>1. start'[p].stack = Stack(p)
        BY <1>1, <3>1 DEF Claim, TypeOK
      <4>2. spec[a] = "merged" \/ a \in Stack(p)
        BY StackCovers
      <4> QED
        BY <1>1, <2>1, <4>1, <4>2, MergedStep
    <3>2. CASE Claim(p, "hand", {})
      <4>1. \A d \in DependsOn[p] : spec[d] = "merged"
        BY <3>2 DEF Claim, Claimable
      <4>2. spec[a] = "merged"
        BY <4>1, MergedCovers
      <4> QED
        BY <1>1, <2>1, <4>2, MergedStep
    <3> QED
      BY <2>2, <3>1, <3>2 DEF Claims
  <2>3. CASE ~Claims(p)
    <3>1. spec[p] = "in_flight" /\ start'[p] = start[p]
      <4>1. CASE Moves
        BY <4>1 DEF Moves
      <4>2. ASSUME NEW q \in Specs, Claims(q), q # p
            PROVE  spec[p] = "in_flight" /\ start'[p] = start[p]
        BY <1>1, <4>2 DEF Claims, Claim, TypeOK
      <4>3. ASSUME NEW q \in Specs, Merge(q)
            PROVE  spec[p] = "in_flight" /\ start'[p] = start[p]
        BY <1>1, <4>3 DEF Merge, TypeOK
      <4> QED
        BY <1>1, <2>3, <4>1, <4>2, <4>3, SpecStep
    <3>2. spec[a] = "merged" \/ a \in start[p].stack
      BY <3>1 DEF StackInv, StackComplete
    <3> QED
      BY <1>1, <2>1, <3>1, <3>2, MergedStep
  <2> QED
    BY <2>2, <2>3
<1> QED
  BY <1>1, <1>2, <1>3, <1>4 DEF StackInv

LEMMA StackInit == Init => StackInv
  BY InitTyped DEF Init, StackInv, MergedClosed, LifeHolds, StackComplete, Resting, NoLife

\* Whatever the DAG, the threshold and the depth are, and whatever merged or
\* was re-driven since the walk read the lifecycle: no run lacks an ancestor.
THEOREM StacksAreComplete == Spec => []StackComplete
<1>1. StackInv => StackComplete
  BY DEF StackInv
<1> QED
  BY <1>1, StackInit, StackStep, PTL DEF Spec

-----------------------------------------------------------------------------
(* The ceiling *)

\* From the snapshot on, what the walker has in flight only shrinks, but for
\* what it is about to start: that, with it, stays below the ceiling.
Foreseen == /\ walk.at = "snapped" => \/ walk.snap = NoRead
                                      \/ Walked \subseteq InFlight(walk.snap)
            /\ walk.at = "enqueuing" => Cardinality(Walked \cup walk.todo) =< Ceiling

CeilingInv == TypeOK /\ WithinCeiling /\ Foreseen

LEMMA Small ==
  ASSUME NEW S, S \subseteq Specs
  PROVE  IsFiniteSet(S) /\ Cardinality(S) \in Nat
  BY SpecsAssumption, FS_Subset, FS_CardinalityType

LEMMA Fewer ==
  ASSUME NEW S, NEW T, S \subseteq T, T \subseteq Specs, Cardinality(T) =< Ceiling
  PROVE  Cardinality(S) =< Ceiling
<1>1. Cardinality(S) =< Cardinality(T)
  BY Small, FS_Subset
<1>2. Cardinality(S) \in Nat /\ Cardinality(T) \in Nat
  BY Small
<1> QED
  BY <1>1, <1>2, CeilingAssumption

\* What fits into the headroom fits under the ceiling.
LEMMA PlanFits ==
  ASSUME NEW snap, NEW life, NEW T, FirstOf(T, Ready(snap, life), Headroom(snap)), T # {},
         Walked \subseteq InFlight(snap)
  PROVE  Cardinality(Walked \cup T) =< Ceiling
<1> DEFINE F == InFlight(snap)
<1>1. F \subseteq Specs /\ T \subseteq Specs
  BY DEF InFlight, FirstOf, Ready
<1>2. Cardinality(T) =< Headroom(snap) /\ Cardinality(T) \in Nat /\ Cardinality(F) \in Nat
  BY <1>1, Small DEF FirstOf
<1>3. Cardinality(T) # 0
  BY <1>1, Small, FS_EmptySet
<1>4. Cardinality(F) + Cardinality(T) =< Ceiling
  BY <1>2, <1>3, CeilingAssumption DEF Headroom
<1>5. Cardinality(F \cup T) = Cardinality(F) + Cardinality(T) - Cardinality(F \cap T)
  BY <1>1, Small, FS_Union
<1>6. Cardinality(F \cap T) \in Nat
  BY <1>1, Small
<1>7. Cardinality(F \cup T) =< Ceiling
  BY <1>2, <1>4, <1>5, <1>6, CeilingAssumption
<1>8. Walked \cup T \subseteq F \cup T /\ F \cup T \subseteq Specs
  BY <1>1
<1> HIDE DEF F
<1> QED
  BY <1>7, <1>8, Fewer

\* Only an enqueue of the walk adds to what the walker has in flight.
LEMMA WalkedStep ==
  ASSUME TypeOK, [Next]_vars
  PROVE  \/ Walked' \subseteq Walked
         \/ \E p \in Specs : Next1(p) /\ Walked' \subseteq Walked \cup {p}
<1>1. CASE Moves
  BY <1>1 DEF Moves, Walked
<1>2. ASSUME NEW p \in Specs, Merge(p)
      PROVE  Walked' \subseteq Walked
  BY <1>2 DEF TypeOK, Merge, Walked
<1>3. ASSUME NEW p \in Specs, Claim(p, "hand", {})
      PROVE  Walked' \subseteq Walked
  BY <1>3 DEF TypeOK, Claim, Walked
<1>4. ASSUME NEW p \in Specs, Claim(p, "walker", Stack(p))
      PROVE  Walked' \subseteq Walked \cup {p}
  BY <1>4 DEF TypeOK, Claim, Walked
<1> QED
  BY <1>1, <1>2, <1>3, <1>4, SpecStep DEF Claims

\* What a step makes of the walk.
LEMMA WalkStep ==
  ASSUME TypeOK, [Next]_vars
  PROVE  walk' = walk \/ walk' = Resting \/ BeginWalk \/ Plan \/ \E p \in Specs : Next1(p)
<1>1. ASSUME NEW p \in Specs, Enqueue(p) \/ EnqueueThrows(p)
      PROVE  Next1(p)
  BY <1>1 DEF Enqueue, EnqueueDirect, EnqueueSpeculative, Wait, Skip, EnqueueThrows
<1>2. CASE WalkThrows \/ Crash
  BY <1>2 DEF WalkThrows, Crash
<1>3. CASE Wake \/ Archive \/ Unarchive \/ SpendBudget \/ RaiseBudget \/ UNCHANGED vars
  BY <1>3 DEF Wake, Archive, Unarchive, SpendBudget, RaiseBudget, vars
<1>4. ASSUME NEW p \in Specs,
             \/ WindowElapses(p) \/ Advance(p) \/ Merge(p) \/ Die(p) \/ Reopen(p)
             \/ Park(p) \/ Cancel(p) \/ Requeue(p) \/ StartByHand(p)
      PROVE  walk' = walk
  BY <1>4 DEF WindowElapses, Advance, Merge, Die, Reopen, Park, Cancel, Requeue, StartByHand
<1> QED
  BY <1>1, <1>2, <1>3, <1>4 DEF Next, Walking

LEMMA CeilingStep == CeilingInv /\ [Next]_vars => CeilingInv'
<1> SUFFICES ASSUME CeilingInv, [Next]_vars PROVE WithinCeiling' /\ Foreseen'
  BY StepTyped DEF CeilingInv
<1>1. TypeOK /\ TypeOK' /\ Walked \subseteq Specs /\ Walked' \subseteq Specs
  BY StepTyped DEF CeilingInv, Walked
<1>2. ASSUME NEW p \in Specs, Next1(p), Walked' \subseteq Walked \cup {p}
      PROVE  WithinCeiling' /\ Foreseen'
  <2>1. /\ Cardinality(Walked \cup walk.todo) =< Ceiling
        /\ Walked \cup walk.todo \subseteq Specs
        /\ p \in walk.todo
    BY <1>1, <1>2 DEF CeilingInv, Foreseen, Next1, TypeOK
  <2>2. WithinCeiling'
    BY <1>2, <2>1, Fewer DEF WithinCeiling
  <2>3. CASE walk' = Resting
    BY <2>2, <2>3 DEF Foreseen, Resting
  <2>4. CASE walk' = [walk EXCEPT !.todo = walk.todo \ {p}]
    <3>1. walk'.at = "enqueuing" /\ walk'.todo = walk.todo \ {p}
      BY <1>1, <1>2, <2>4 DEF TypeOK, Next1
    <3>2. Walked' \cup walk'.todo \subseteq Walked \cup walk.todo
      BY <1>2, <2>1, <3>1
    <3>3. Cardinality(Walked' \cup walk'.todo) =< Ceiling
      BY <2>1, <3>2, Fewer
    <3> QED
      BY <2>2, <3>1, <3>3 DEF Foreseen
  <2> QED
    BY <1>2, <2>3, <2>4 DEF Next1
<1>3. ASSUME ~ \E p \in Specs : Next1(p) /\ Walked' \subseteq Walked \cup {p}
      PROVE  WithinCeiling' /\ Foreseen'
  <2>1. Walked' \subseteq Walked
    BY <1>1, <1>3, WalkedStep
  <2>2. WithinCeiling'
    BY <1>1, <2>1, Fewer DEF CeilingInv, WithinCeiling
  <2>3. CASE walk' = walk
    <3>1. walk.at = "enqueuing" => Cardinality(Walked' \cup walk.todo) =< Ceiling
      <4>1. Walked' \cup walk.todo \subseteq Walked \cup walk.todo
        BY <2>1
      <4>2. Walked \cup walk.todo \subseteq Specs
        BY <1>1 DEF TypeOK
      <4> QED
        BY <4>1, <4>2, Fewer DEF CeilingInv, Foreseen
    <3>2. walk.at = "snapped" => walk.snap = NoRead \/ Walked' \subseteq InFlight(walk.snap)
      BY <2>1 DEF CeilingInv, Foreseen
    <3> QED
      BY <2>2, <2>3, <3>1, <3>2 DEF Foreseen
  <2>4. CASE walk' = Resting
    BY <2>2, <2>4 DEF Foreseen, Resting
  <2>5. CASE BeginWalk
    <3>1. Snapshot = NoRead \/ Walked \subseteq InFlight(Snapshot)
      BY DEF Snapshot, Walked, InFlight
    <3> QED
      BY <2>1, <2>2, <2>5, <3>1 DEF Foreseen, BeginWalk, Resting
  <2>6. CASE Plan
    <3> DEFINE snap == IF walk.at = "snapped" THEN walk.snap ELSE Snapshot
               life == IF walk.at = "projected" THEN walk.life ELSE Lifecycle
    <3>1. snap = NoRead \/ Walked \subseteq InFlight(snap)
      BY DEF CeilingInv, Foreseen, Snapshot, Walked, InFlight
    <3> HIDE DEF snap, life
    <3>2. PICK T \in SUBSET Specs :
             /\ FirstOf(T, Ready(snap, life), Headroom(snap))
             /\ walk' = IF gate = "budget" \/ T = {}
                        THEN Resting
                        ELSE [at |-> "enqueuing", snap |-> snap, life |-> life, todo |-> T]
      BY <2>6 DEF Plan, snap, life
    <3>3. CASE walk' = Resting
      BY <2>4, <3>3
    <3>4. CASE walk' = [at |-> "enqueuing", snap |-> snap, life |-> life, todo |-> T] /\ T # {}
      <4>1. snap # NoRead
        BY <3>2, <3>4 DEF FirstOf, Ready, NoRead
      <4>2. Cardinality(Walked \cup T) =< Ceiling
        BY <3>1, <3>2, <3>4, <4>1, PlanFits
      <4>3. Walked' \cup T \subseteq Walked \cup T /\ Walked \cup T \subseteq Specs
        BY <1>1, <2>1
      <4>4. Cardinality(Walked' \cup T) =< Ceiling
        BY <4>2, <4>3, Fewer
      <4>5. walk'.at = "enqueuing" /\ walk'.todo = T
        BY <3>4
      <4> QED
        BY <2>2, <4>4, <4>5 DEF Foreseen
    <3> QED
      BY <3>2, <3>3, <3>4
  <2>7. ASSUME NEW p \in Specs, Next1(p)
        PROVE  FALSE
    BY <1>3, <2>1, <2>7
  <2> QED
    BY <1>1, <2>3, <2>4, <2>5, <2>6, <2>7, WalkStep
<1> QED
  BY <1>2, <1>3

LEMMA CeilingInit == Init => CeilingInv
<1> SUFFICES ASSUME Init PROVE WithinCeiling /\ Foreseen
  BY InitTyped DEF CeilingInv
<1>1. Walked = {}
  BY DEF Init, Walked
<1>2. Cardinality(Walked) = 0
  BY <1>1, FS_EmptySet
<1> QED
  BY <1>2, CeilingAssumption DEF Init, WithinCeiling, Foreseen, Resting

\* One walker never exceeds the ceiling, for any ceiling and number of specs.
THEOREM CeilingHolds == Spec => []WithinCeiling
<1>1. CeilingInv => WithinCeiling
  BY DEF CeilingInv
<1> QED
  BY <1>1, CeilingInit, CeilingStep, PTL DEF Spec

-----------------------------------------------------------------------------
(* Cancels *)

Startables == {"open", "in_flight"}

\* A cancel leaves no dependent open either, for a walk under way would start it.
Cleared == \A p \in Specs : spec[p] \in Startables =>
             \A d \in DependsOn[p] : spec[d] # "cancelled"

\* What every other step does, as long as nobody requeues.
Calm == \A p \in Specs : /\ spec'[p] \in Startables => spec[p] \in Startables
                         /\ spec'[p] = "cancelled" => spec[p] = "cancelled"

LEMMA CalmStep ==
  ASSUME TypeOK, [Next]_vars, "requeue" \notin Operations
  PROVE  Calm \/ \E p \in Specs : Cancel(p)
<1>1. ASSUME UNCHANGED spec
      PROVE  Calm
  BY <1>1 DEF Calm
<1>2. ASSUME NEW p \in Specs, Claim(p, "walker", Stack(p)) \/ Claim(p, "hand", {}) \/ Claim(p, "walker", {})
      PROVE  Calm
  BY <1>2 DEF TypeOK, Claim, Claimable, Calm, Startables
<1>3. ASSUME NEW p \in Specs, Enqueue(p)
      PROVE  Calm
  <2>1. CASE EnqueueDirect(p)
    BY <1>2, <2>1 DEF EnqueueDirect
  <2>2. CASE EnqueueSpeculative(p)
    BY <1>2, <2>2 DEF EnqueueSpeculative
  <2>3. CASE Wait(p) \/ Skip(p)
    BY <1>1, <2>3 DEF Wait, Skip
  <2> QED
    BY <1>3, <2>1, <2>2, <2>3 DEF Enqueue
<1>4. CASE Walking \/ WalkThrows \/ Crash
  BY <1>1, <1>3, <1>4 DEF Walking, BeginWalk, Plan, WalkThrows, Crash
<1>5. CASE Wake \/ Archive \/ Unarchive \/ SpendBudget \/ RaiseBudget \/ UNCHANGED vars
  BY <1>1, <1>5 DEF Wake, Archive, Unarchive, SpendBudget, RaiseBudget, vars
<1>6. ASSUME NEW p \in Specs, Reopen(p) \/ Park(p) \/ Merge(p)
      PROVE  Calm
  BY <1>6 DEF TypeOK, Reopen, Park, Merge, Calm, Startables
<1>7. ASSUME NEW p \in Specs,
             EnqueueThrows(p) \/ WindowElapses(p) \/ Advance(p) \/ Die(p)
      PROVE  UNCHANGED spec
  BY <1>7 DEF EnqueueThrows, WindowElapses, Advance, Die
<1>8. ASSUME NEW p \in Specs, StartByHand(p) \/ Requeue(p)
      PROVE  Calm
  BY <1>2, <1>8 DEF StartByHand, Requeue
<1> QED
  BY <1>1, <1>4, <1>5, <1>6, <1>7, <1>8 DEF Next

LEMMA ClearedStep ==
  ASSUME TypeOK, Cleared, [Next]_vars, "requeue" \notin Operations
  PROVE  Cleared'
<1> SUFFICES ASSUME NEW p \in Specs, spec'[p] \in Startables, NEW d \in DependsOn[p]
             PROVE  spec'[d] # "cancelled"
  BY DEF Cleared, Startables
<1>1. d \in Specs
  BY DagAssumption
<1>2. CASE Calm
  BY <1>1, <1>2 DEF Calm, Cleared
<1>3. ASSUME NEW q \in Specs, Cancel(q)
      PROVE  spec'[d] # "cancelled"
  <2>1. spec'[p] = spec[p] /\ q \notin DependsOn[p]
    BY <1>3 DEF Cancel, Startables
  <2>2. spec'[d] = spec[d] \/ spec'[d] = "needs_attention"
    BY <1>1, <1>3, <2>1 DEF Cancel
  <2> QED
    BY <2>1, <2>2 DEF Cleared
<1> QED
  BY <1>2, <1>3, CalmStep

\* For every DAG, threshold and ceiling, and however many cancels, hand starts
\* and deaths meet a walk at any of its steps: where nobody requeues, nothing is
\* in flight on a cancelled dependency.
THEOREM NothingOnCancelled ==
  ASSUME "requeue" \notin Operations
  PROVE  Spec => []NoWorkOnCancelled
<1>1. Init => TypeOK /\ Cleared
  BY InitTyped, DagAssumption DEF Init, Cleared
<1>2. TypeOK /\ Cleared /\ [Next]_vars => TypeOK' /\ Cleared'
  BY StepTyped, ClearedStep
<1>3. Cleared => NoWorkOnCancelled
  BY DEF Cleared, Startables, NoWorkOnCancelled
<1> QED
  BY <1>1, <1>2, <1>3, PTL DEF Spec
-----------------------------------------------------------------------------
(* The refinement of Board *)

\* What a walk is about to start was within the depth cap when it was chosen,
\* and the stack is the one that was counted.
Chosen == walk.at = "enqueuing" => \A p \in walk.todo : Cardinality(Stack(p)) =< DepthCap

BoardInv == StackInv /\ CeilingInv /\ Chosen

LEMMA ChosenStep ==
  ASSUME TypeOK, Chosen, [Next]_vars
  PROVE  Chosen'
<1> USE DEF Chosen, Stack
<1>1. CASE walk' = walk
  BY <1>1
<1>2. CASE walk' = Resting
  BY <1>2 DEF Resting
<1>3. CASE BeginWalk
  BY <1>3 DEF BeginWalk, Resting
<1>4. CASE Plan
  <2> DEFINE snap == IF walk.at = "snapped" THEN walk.snap ELSE Snapshot
             life == IF walk.at = "projected" THEN walk.life ELSE Lifecycle
  <2> HIDE DEF snap, life
  <2>1. PICK T \in SUBSET Specs :
           /\ FirstOf(T, Ready(snap, life), Headroom(snap))
           /\ walk' = IF gate = "budget" \/ T = {}
                      THEN Resting
                      ELSE [at |-> "enqueuing", snap |-> snap, life |-> life, todo |-> T]
    BY <1>4 DEF Plan, snap, life
  <2>2. \A p \in T : Cardinality(UnmergedAncestors(p, life)) =< DepthCap
    BY <2>1 DEF FirstOf, Ready
  <2>3. CASE walk' = [at |-> "enqueuing", snap |-> snap, life |-> life, todo |-> T]
    BY <2>2, <2>3
  <2> QED
    BY <1>2, <2>1, <2>3
<1>5. ASSUME NEW p \in Specs, Next1(p)
      PROVE  Chosen'
  <2>1. CASE walk' = [walk EXCEPT !.todo = walk.todo \ {p}]
    <3>1. /\ walk'.at = walk.at /\ walk'.life = walk.life
          /\ walk'.todo = walk.todo \ {p}
      BY <2>1 DEF TypeOK
    <3> QED
      BY <3>1
  <2> QED
    BY <1>2, <1>5, <2>1 DEF Next1
<1> QED
  BY <1>1, <1>2, <1>3, <1>4, <1>5, WalkStep

LEMMA BoardStep == BoardInv /\ [Next]_vars => BoardInv'
  BY StackStep, CeilingStep, ChosenStep DEF BoardInv, CeilingInv

LEMMA BoardInit == Init => BoardInv
  BY StackInit, CeilingInit DEF Init, BoardInv, Chosen, Resting

LEMMA SameAncestors ==
  ASSUME NEW p \in Specs
  PROVE  B!Ancestors[p] = Ancestors(p)
  BY DEF Ancestors, B!Ancestors

\* Board has its own instance of FiniteSets.
LEMMA SameCardinality ==
  ASSUME NEW S
  PROVE  B!Cardinality(S) = Cardinality(S)
  BY DEF Cardinality, B!Cardinality

\* A stack holds ancestors only: they are one of the sets it is the least of.
LEMMA StackWithin ==
  ASSUME NEW p \in Specs
  PROVE  Stack(p) \subseteq Ancestors(p)
<1>1. DependsOn[p] \subseteq Ancestors(p)
  BY DagAssumption DEF Ancestors
<1>2. ASSUME NEW b \in Ancestors(p) PROVE DependsOn[b] \subseteq Ancestors(p)
  BY <1>2, DagAssumption DEF Ancestors
<1>3. Ancestors(p) \in SUBSET Specs
  BY DEF Ancestors
<1>4. Follows(Ancestors(p), p, walk.life)
  BY <1>1, <1>2 DEF Follows
<1> QED
  BY <1>3, <1>4 DEF Stack, UnmergedAncestors

\* The place that the plan saw below the ceiling is still there.
LEMMA RoomLeft ==
  ASSUME CeilingInv, NEW p \in Specs, Next1(p), spec[p] = "open"
  PROVE  Cardinality(Walked) < Ceiling
<1>1. Walked \cup walk.todo \subseteq Specs /\ p \in walk.todo
  BY DEF CeilingInv, TypeOK, Walked, Next1
<1>2. Cardinality(Walked \cup walk.todo) =< Ceiling
  BY DEF CeilingInv, Foreseen, Next1
<1>3. Walked \cup {p} \subseteq Walked \cup walk.todo
  BY <1>1
<1>4. Cardinality(Walked \cup {p}) =< Ceiling
  BY <1>1, <1>2, <1>3, Fewer
<1>5. p \notin Walked
  BY DEF Walked
<1>6. Walked \subseteq Specs
  BY DEF Walked
<1>7. Cardinality(Walked \cup {p}) = Cardinality(Walked) + 1
  BY <1>5, <1>6, Small, FS_AddElement
<1> QED
  BY <1>4, <1>6, <1>7, Small, CeilingAssumption

LEMMA StartMapped ==
  ASSUME BoardInv, NEW p \in Specs, Claims(p)
  PROVE  B!StartByWalker(p) \/ B!StartByHand(p)
<1>1. StackInv /\ CeilingInv /\ Chosen /\ TypeOK
  BY DEF BoardInv, StackInv
<1>2. CASE Next1(p) /\ Claim(p, "walker", Stack(p))
  <2>1. spec[p] = "open" /\ B!Start(p, "walker", Stack(p))
    BY <1>2 DEF Claim, Claimable, B!Start
  <2>2. Cardinality(B!Walked) < Ceiling
    BY <1>1, <1>2, <2>1, RoomLeft DEF B!Walked, Walked
  <2>3. Stack(p) \in SUBSET B!Ancestors[p]
    BY StackWithin, SameAncestors
  <2>4. B!Unmerged(B!Ancestors[p]) \subseteq Stack(p)
    BY <1>1, StackCovers, SameAncestors DEF B!Unmerged
  <2>5. Cardinality(Stack(p)) =< DepthCap
    BY <1>1, <1>2 DEF Chosen, Next1
  <2>6. /\ B!Cardinality(B!Walked) = Cardinality(B!Walked)
        /\ B!Cardinality(Stack(p)) = Cardinality(Stack(p))
    BY SameCardinality
  <2> QED
    BY <2>1, <2>2, <2>3, <2>4, <2>5, <2>6 DEF B!StartByWalker
<1>3. CASE Claim(p, "hand", {})
  <2>1. spec[p] = "open" /\ B!Start(p, "hand", {})
    BY <1>3 DEF Claim, Claimable, B!Start
  <2>2. \A d \in DependsOn[p] : spec[d] = "merged"
    BY <1>3 DEF Claim, Claimable
  <2>3. B!Unmerged(B!Ancestors[p]) = {}
    BY <1>1, <2>2, MergedCovers, SameAncestors DEF B!Unmerged
  <2> QED
    BY <2>1, <2>3 DEF B!StartByHand
<1> QED
  BY <1>2, <1>3 DEF Claims

\* A merge asks for direct dependencies only; all that is below them merged
\* before they did.
LEMMA MergeMapped ==
  ASSUME BoardInv, NEW p \in Specs, Merge(p)
  PROVE  B!Merge(p)
<1>1. B!Unmerged(B!Ancestors[p]) = {}
  BY MergedCovers, SameAncestors DEF BoardInv, Merge, B!Unmerged
<1> QED
  BY <1>1 DEF Merge, B!Merge

LEMMA BoardMapped ==
  ASSUME BoardInv, [Next]_vars
  PROVE  [B!Next]_(B!board)
<1>1. CASE UNCHANGED <<spec, start>>
  BY <1>1 DEF B!board
<1>2. ASSUME NEW p \in Specs, Enqueue(p)
      PROVE  UNCHANGED <<spec, start>> \/ Claims(p)
  BY <1>2 DEF Enqueue, EnqueueDirect, EnqueueSpeculative, Wait, Skip, Claims
<1>3. ASSUME NEW p \in Specs, Claims(p)
      PROVE  B!Next
  BY <1>3, StartMapped DEF B!Next
<1>4. CASE Walking \/ WalkThrows \/ Crash
  BY <1>1, <1>2, <1>3, <1>4 DEF Walking, BeginWalk, Plan, WalkThrows, Crash
<1>5. CASE Wake \/ Archive \/ Unarchive \/ SpendBudget \/ RaiseBudget \/ UNCHANGED vars
  BY <1>1, <1>5 DEF Wake, Archive, Unarchive, SpendBudget, RaiseBudget, vars
<1>6. ASSUME NEW p \in Specs,
             EnqueueThrows(p) \/ WindowElapses(p) \/ Advance(p) \/ Die(p)
      PROVE  UNCHANGED <<spec, start>>
  BY <1>6 DEF EnqueueThrows, WindowElapses, Advance, Die
<1>7. ASSUME NEW p \in Specs, Merge(p)
      PROVE  B!Next
  BY <1>7, MergeMapped DEF B!Next
<1>8. ASSUME NEW p \in Specs, Reopen(p) \/ Park(p)
      PROVE  B!Next
  BY <1>8 DEF Reopen, Park, B!Next, B!GiveBack
<1>9. ASSUME NEW p \in Specs, Requeue(p) \/ Cancel(p)
      PROVE  B!Next
  BY <1>9 DEF Requeue, Cancel, B!Next, B!Requeue, B!Cancel
<1>10. ASSUME NEW p \in Specs, StartByHand(p)
       PROVE  Claims(p)
  BY <1>10 DEF StartByHand, Claims
<1> QED
  BY <1>1, <1>3, <1>4, <1>5, <1>6, <1>7, <1>8, <1>9, <1>10 DEF Next

LEMMA BoardInitMapped == Init => B!Init
  BY DEF Init, B!Init

\* For every DAG, ceiling, threshold and depth cap, with any faults and
\* operators: whatever moved between the reads of a walk and its starts, each
\* start is one that the board allows at that very moment.
THEOREM KeepsTheBoard == Spec => ImplementsBoard
<1>1. BoardInv /\ [Next]_vars => [B!Next]_(B!board)
  BY BoardMapped
<1> QED
  BY <1>1, BoardInit, BoardStep, BoardInitMapped, PTL DEF Spec, ImplementsBoard, B!Spec
=============================================================================
