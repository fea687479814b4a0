-------------------------------- MODULE Board --------------------------------
(***************************************************************************)
(* What the walker promises about the specs of a project, with no walk,    *)
(* snapshot, back-off, run or fault in sight.  A spec that is open is      *)
(* started, by the walker as long as that keeps below the ceiling, or by   *)
(* hand; and always over all of its ancestors, each merged or on the       *)
(* stack, the stack holding ancestors only and not too many.  A spec       *)
(* merges once, after everything below it.  WalkerBoard shows that the     *)
(* walks implement it.                                                     *)
(***************************************************************************)
EXTENDS FiniteSets, Naturals

CONSTANTS Specs, DependsOn, Ceiling, DepthCap

VARIABLES
  spec,  \* the status of each spec
  start  \* who started it last, and on which stack

board == <<spec, start>>

Init ==
  /\ spec = [p \in Specs |-> "open"]
  /\ start = [p \in Specs |-> [by |-> "nobody", stack |-> {}]]

\* The least set that has the dependencies of p and of its own members.
Ancestors ==
  [p \in Specs |-> {a \in Specs : \A U \in SUBSET Specs :
                     (/\ DependsOn[p] \subseteq U
                      /\ \A c \in U : DependsOn[c] \subseteq U) => a \in U}]

Unmerged(A) == {a \in A : spec[a] # "merged"}

Walked == {p \in Specs : spec[p] = "in_flight" /\ start[p].by = "walker"}

Start(p, by, stack) ==
  /\ spec' = [spec EXCEPT ![p] = "in_flight"]
  /\ start' = [start EXCEPT ![p] = [by |-> by, stack |-> stack]]

StartByWalker(p) ==
  /\ spec[p] = "open"
  /\ Cardinality(Walked) < Ceiling
  /\ \E stack \in SUBSET Ancestors[p] :
       /\ Unmerged(Ancestors[p]) \subseteq stack
       /\ Cardinality(stack) =< DepthCap
       /\ Start(p, "walker", stack)

StartByHand(p) ==
  /\ spec[p] = "open"
  /\ Unmerged(Ancestors[p]) = {}
  /\ Start(p, "hand", {})

Merge(p) ==
  /\ spec[p] = "in_flight"
  /\ Unmerged(Ancestors[p]) = {}
  /\ spec' = [spec EXCEPT ![p] = "merged"]
  /\ UNCHANGED start

\* A run that died, or that somebody has to look at, gives its spec back.
GiveBack(p, to) ==
  /\ spec[p] = "in_flight"
  /\ spec' = [spec EXCEPT ![p] = to]
  /\ UNCHANGED start

Requeue(p) ==
  /\ spec[p] = "needs_attention"
  /\ spec' = [spec EXCEPT ![p] = "open"]
  /\ UNCHANGED start

\* What is about to build on it, or does already, is held up.
Cancel(p) ==
  /\ spec[p] \in {"open", "in_flight"}
  /\ spec' = [q \in Specs |-> IF q = p THEN "cancelled"
                              ELSE IF p \in DependsOn[q] /\ spec[q] \in {"open", "in_flight"}
                              THEN "needs_attention" ELSE spec[q]]
  /\ UNCHANGED start

Next ==
  \E p \in Specs : \/ StartByWalker(p) \/ StartByHand(p) \/ Merge(p)
                   \/ GiveBack(p, "open") \/ GiveBack(p, "needs_attention")
                   \/ Requeue(p) \/ Cancel(p)

Spec == Init /\ [][Next]_board
=============================================================================
