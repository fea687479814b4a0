------------------------------ MODULE MergeQueue ------------------------------
(***************************************************************************)
(* The native merge queue: rows of merge_queue, coordinators that form a   *)
(* batch, prove it on the head of main, claim its rows, and land it with a *)
(* compare-and-swap of main followed by the transaction that records it.   *)
(*                                                                         *)
(* A claim is identified by the row's epoch: every acquire draws a new     *)
(* owner and counts the epoch up.  Time is abstracted to the heartbeat of  *)
(* a claim growing stale.  An entry stands for a run and its spec.         *)
(***************************************************************************)
EXTENDS Naturals, Sequences, FiniteSets

CONSTANTS
  Entries,       \* queue entries, one for each spec
  Coordinators,  \* processes that run a merge coordinator
  DependsOn,     \* DependsOn[e]: the entries whose specs the spec of e needs
  Scope,         \* Scope[e]: the semantic partition of the diff of e
  Operations,    \* what operators do: subset of {"cancel", "dequeue", "policy"}
  Faults,        \* subset of {"crash", "receipt", "answer"}
  MaxFaults,     \* bound of the faults
  MaxClaims,     \* an entry claimed this often is not batched again
  MaxLands,      \* bound of the length of main
  MaxBatch       \* the governed maximum of a batch

ASSUME GraphAssumption == DependsOn \in [Entries -> SUBSET Entries]
ASSUME LimitAssumption == /\ {MaxFaults, MaxClaims, MaxLands, MaxBatch} \subseteq Nat
                          /\ Faults \subseteq {"crash", "receipt", "answer"}

VARIABLES
  row,     \* row[e]: the merge_queue row of e
  spec,    \* spec[e]: specs.status of its spec
  main,    \* main[n]: the entries whose work the n-th head of main contains
  receipt, \* land groups that are completed: base and members
  at,      \* at[c]: where coordinator c is in its pass
  claim,   \* claim[c][e]: the epoch under which c holds e, 0 if it does not
  policy,  \* what operators last commanded: everything, no admission, nothing
  faults   \* faults so far

vars == <<row, spec, main, receipt, at, claim, policy, faults>>

RowStatuses  == {"none", "queued", "merging", "held_policy", "merged", "dequeued"}
SpecStatuses == {"review", "in_flight", "needs_attention", "cancelled", "merged"}
Policies     == {"active", "draining", "frozen"}
Steps == {"idle", "forming", "checking", "settling", "isolating", "retiring",
          "claiming", "confirming", "landing", "landed", "marking", "releasing"}

Idle == [step |-> "idle", base |-> 1, batch |-> {}, left |-> {}, excluded |-> {}]

Init ==
  /\ row = [e \in Entries |->
              [status |-> "none", epoch |-> 0, fresh |-> FALSE, partition |-> Scope[e]]]
  /\ spec = [e \in Entries |-> "review"]
  /\ main = <<{}>>
  /\ receipt = {}
  /\ at = [c \in Coordinators |-> Idle]
  /\ claim = [c \in Coordinators |-> [e \in Entries |-> 0]]
  /\ policy = "active"
  /\ faults = 0
-----------------------------------------------------------------------------
(* The rows *)

OnMain    == main[Len(main)]
Active(e) == row[e].status \in {"queued", "merging"}
Holds(c, e) == row[e].status = "merging" /\ claim[c][e] = row[e].epoch

\* A partition has one lease.
Conflict(e, f) == row[e].partition = row[f].partition
Leased(e) == \E f \in Entries : row[f].status = "merging" /\ Conflict(e, f)

SetRow(e, status)  == row' = [row EXCEPT ![e].status = status, ![e].fresh = FALSE]
Forget(c, e) == claim' = [claim EXCEPT ![c][e] = 0]
Rest(c) == at' = [at EXCEPT ![c] = Idle]
\* On with the batch; or on with the members that are left and nothing else.
GoTo(c, step, left)  == at' = [at EXCEPT ![c] = [@ EXCEPT !.step = step, !.left = left, !.excluded = {}]]
Leave(c, step, left) == at' = [at EXCEPT ![c] = [Idle EXCEPT !.step = step, !.left = left]]

Admission == IF policy = "active" THEN "queued" ELSE "held_policy"

\* Admission under the policy of the moment.
Enqueue(e) ==
  /\ row[e].status = "none"
  /\ SetRow(e, Admission)
  /\ UNCHANGED <<spec, main, receipt, at, claim, policy, faults>>
-----------------------------------------------------------------------------
(* A pass: recover, form, check *)

\* Mutant: a project whose queue is frozen is not recovered.
RecoveredUnlessFrozen(e) ==
  IF row[e].status = "merging" /\ ~row[e].fresh /\ policy # "frozen" THEN "queued" ELSE row[e].status

\* A claim that shows no progress goes back to the queue, whoever holds it.
Recovered(e) == IF row[e].status = "merging" /\ ~row[e].fresh THEN "queued" ELSE row[e].status

\* recoverStaleClaims, then the policy's reconciliation of the queued rows.
Begin(c) ==
  /\ at[c].step = "idle"
  /\ Leave(c, "forming", {})
  /\ row' = [e \in Entries |-> [row[e] EXCEPT !.status =
       IF Recovered(e) = "queued" THEN Admission ELSE Recovered(e)]]
  /\ UNCHANGED <<spec, main, receipt, claim, policy, faults>>

\* Mutant: the dependencies are not looked at.
FormableLoosely(F) ==
  /\ Cardinality(F) \in 1..MaxBatch
  /\ \A e \in F : /\ row[e].status = "queued" /\ ~Leased(e)
                  /\ \A f \in F \ {e} : ~Conflict(e, f)
                  /\ row[e].epoch < MaxClaims
  /\ Len(main) < MaxLands

\* formBatch and the scheduler: every dependency is merged or in the batch, no
\* two partitions conflict, none is leased.
Formable(F) ==
  /\ Cardinality(F) \in 1..MaxBatch
  /\ \A e \in F : /\ row[e].status = "queued" /\ ~Leased(e)
                  /\ \A d \in DependsOn[e] : d \in F \/ spec[d] = "merged"
                  /\ \A f \in F \ {e} : ~Conflict(e, f)
                  /\ row[e].epoch < MaxClaims
  /\ Len(main) < MaxLands

\* Mutant: the node expects the land before it.
FormAhead(c, F) ==
  /\ at[c].step = "forming"
  /\ Formable(F)
  /\ F \ at[c].excluded # {}
  /\ at' = [at EXCEPT ![c] = [@ EXCEPT !.step = "checking", !.base = Len(main) + 1,
                                       !.batch = F \ at[c].excluded]]
  /\ UNCHANGED <<row, spec, main, receipt, claim, policy, faults>>

\* The node is materialized on the head of main.  A batch that is re-formed in
\* a pass leaves out what the pass has settled.
Form(c, F) ==
  /\ at[c].step = "forming"
  /\ Formable(F)
  /\ F \ at[c].excluded # {}
  /\ at' = [at EXCEPT ![c] = [@ EXCEPT !.step = "checking", !.base = Len(main),
                                       !.batch = F \ at[c].excluded]]
  /\ UNCHANGED <<row, spec, main, receipt, claim, policy, faults>>

\* Nothing to form, stale facts, a check that is pending or could not run.
Hold(c) ==
  /\ at[c].step \in {"forming", "checking"}
  /\ Rest(c)
  /\ UNCHANGED <<row, spec, main, receipt, claim, policy, faults>>

\* The integrated tree passes and the authority admits every member; or the
\* gate fails and bisection names culprits; or the authority fails members.
Check(c) ==
  /\ at[c].step = "checking"
  /\ \/ GoTo(c, "claiming", at[c].batch)
     \/ \E K \in SUBSET at[c].batch :
          K # {} /\ at' = [at EXCEPT ![c] = [Idle EXCEPT !.step = "settling", !.left = K,
                                                       !.excluded = at[c].excluded]]
     \/ \E K \in SUBSET at[c].batch : K # {} /\ Leave(c, "isolating", K)
  /\ UNCHANGED <<row, spec, main, receipt, claim, policy, faults>>
-----------------------------------------------------------------------------
(* A failed member: isolate, hand to a writer or park.  None of it is fenced *)
(* by a claim: another coordinator may hold the row.                         *)

Settling(c, e) == at[c].step \in {"settling", "retiring"} /\ e \in at[c].left

\* The bisection settles all its culprits and re-forms; the authority's failed
\* members are isolated and settled one after the other (the rest are "batch").
Settled(c, e) ==
  IF at[c].step = "retiring"
  THEN IF at[c].batch = {} THEN Rest(c) ELSE Leave(c, "isolating", at[c].batch)
  ELSE at' = [at EXCEPT ![c] =
         [@ EXCEPT !.step = IF at[c].left = {e} THEN "forming" ELSE "settling",
                   !.left = at[c].left \ {e}, !.excluded = at[c].excluded \cup {e}]]

SetApart(c, e) ==
  /\ row' = [row EXCEPT ![e].status = "queued", ![e].fresh = FALSE, ![e].partition = e]
  /\ at' = [at EXCEPT ![c] =
       [@ EXCEPT !.step = "retiring", !.left = {e}, !.batch = at[c].left \ {e}]]

\* Mutant: the row is routed although it left the queue.
IsolateSettled(c, e) ==
  /\ at[c].step = "isolating"
  /\ e \in at[c].left
  /\ SetApart(c, e)
  /\ UNCHANGED <<spec, main, receipt, claim, policy, faults>>

\* The entry moves to a partition of its own and loses its lease.
Isolate(c, e) ==
  /\ at[c].step = "isolating"
  /\ e \in at[c].left
  /\ IF Active(e) THEN SetApart(c, e) ELSE Rest(c) /\ UNCHANGED row
  /\ UNCHANGED <<spec, main, receipt, claim, policy, faults>>

\* First transaction of a rework: the spec is reopened and a successor run, for
\* which every dependency must be merged, takes it in flight.
PrepareRework(c, e) ==
  /\ Settling(c, e)
  /\ Active(e)
  /\ spec[e] = "review"
  /\ \A d \in DependsOn[e] : spec[d] = "merged"
  /\ spec' = [spec EXCEPT ![e] = "in_flight"]
  /\ UNCHANGED <<row, main, receipt, at, claim, policy, faults>>

\* Second one: the row leaves the queue.  A replay finds it has.
RetireReworked(c, e) ==
  /\ Settling(c, e)
  /\ spec[e] = "in_flight"
  /\ Active(e) \/ row[e].status = "dequeued"
  /\ SetRow(e, "dequeued")
  /\ Settled(c, e)
  /\ UNCHANGED <<spec, main, receipt, claim, policy, faults>>

Park(c, e) ==
  /\ Settling(c, e)
  /\ Active(e)
  /\ spec[e] \in {"review", "in_flight"}
  /\ spec' = [spec EXCEPT ![e] = "needs_attention"]
  /\ SetRow(e, "dequeued")
  /\ Settled(c, e)
  /\ UNCHANGED <<main, receipt, claim, policy, faults>>

\* terminal_noop: the dequeue goes through a claim the pass does not hold, so
\* the row stays where it is.
SettleTerminal(c, e) ==
  /\ Settling(c, e)
  /\ Active(e)
  /\ spec[e] \in {"merged", "cancelled"}
  /\ Settled(c, e)
  /\ UNCHANGED <<row, spec, main, receipt, claim, policy, faults>>

\* The settlement fails, or finds that the row or the spec has moved.
Retain(c) ==
  /\ at[c].step \in {"settling", "retiring"}
  /\ Rest(c)
  /\ UNCHANGED <<row, spec, main, receipt, claim, policy, faults>>
-----------------------------------------------------------------------------
(* Claims *)

\* Mutant: a claim that was held before keeps its epoch.
AcquireSameEpoch(c, e) ==
  LET n == IF row[e].epoch = 0 THEN 1 ELSE row[e].epoch
  IN  /\ row' = [row EXCEPT ![e].status = "merging", ![e].epoch = n, ![e].fresh = TRUE]
      /\ claim' = [claim EXCEPT ![c][e] = n]

Acquire(c, e) ==
  /\ row' = [row EXCEPT ![e].status = "merging", ![e].epoch = @ + 1, ![e].fresh = TRUE]
  /\ claim' = [claim EXCEPT ![c][e] = row[e].epoch + 1]

\* A partition refuses a claim unless it is active; one that was made after the
\* command, for an isolated or a new row, is.
Claim(c, e) ==
  /\ at[c].step = "claiming"
  /\ e \in at[c].left
  /\ \/ /\ row[e].status = "queued" /\ ~Leased(e)
        /\ Acquire(c, e)
        /\ IF at[c].left = {e} THEN GoTo(c, "confirming", at[c].batch)
           ELSE GoTo(c, "claiming", at[c].left \ {e})
     \/ /\ row[e].status # "queued" \/ Leased(e) \/ policy # "active"
        /\ Leave(c, "releasing", at[c].batch \ at[c].left)
        /\ UNCHANGED <<row, claim>>
  /\ UNCHANGED <<spec, main, receipt, policy, faults>>

\* Renew under owner and epoch, then the policy.  A row held by the policy
\* loses its claim.
Confirm(c, e) ==
  /\ at[c].step = "confirming"
  /\ e \in at[c].left
  /\ IF Holds(c, e) /\ policy # "frozen"
     THEN /\ row' = [row EXCEPT ![e].fresh = TRUE]
          /\ IF at[c].left = {e} THEN GoTo(c, "landing", {})
             ELSE GoTo(c, "confirming", at[c].left \ {e})
     ELSE /\ Leave(c, "releasing", at[c].batch)
          /\ IF Holds(c, e) THEN SetRow(e, "held_policy") ELSE UNCHANGED row
  /\ UNCHANGED <<spec, main, receipt, claim, policy, faults>>

\* Give back what is still held; forget the rest.
Release(c) ==
  /\ at[c].step = "releasing"
  /\ IF at[c].left = {} THEN Rest(c) /\ UNCHANGED <<row, claim>>
     ELSE \E e \in at[c].left :
            /\ Leave(c, "releasing", at[c].left \ {e})
            /\ IF Holds(c, e) THEN SetRow(e, "queued") ELSE UNCHANGED row
            /\ Forget(c, e)
  /\ UNCHANGED <<spec, main, receipt, policy, faults>>

\* A holder that shows no progress for a second.
GrowStale(e) ==
  /\ row[e].status = "merging" /\ row[e].fresh
  /\ row' = [row EXCEPT ![e].fresh = FALSE]
  /\ UNCHANGED <<spec, main, receipt, at, claim, policy, faults>>
-----------------------------------------------------------------------------
(* Land *)

\* Mutant: no compare.
CurrentUnchecked(c) == Len(main) < MaxLands

Group(c)   == [base |-> at[c].base, members |-> at[c].batch]
Current(c) == Len(main) = at[c].base

\* The tree that was proved: the base and the batch on it.
Proved(c) == main[at[c].base] \cup at[c].batch

\* Revalidation, then the fast-forward of main from the base of the proof.
Advance(c) ==
  /\ at[c].step = "landing"
  /\ Group(c) \notin receipt
  /\ Current(c)
  /\ main' = Append(main, Proved(c))

\* Somebody advanced main to the very head that was proved, after the
\* revalidation: the host answers that it has landed.
Advanced(c) ==
  /\ at[c].step = "landing"
  /\ Group(c) \notin receipt
  /\ Len(main) = at[c].base + 1 /\ main[Len(main)] = Proved(c)
  /\ UNCHANGED main

Land(c) ==
  /\ Advance(c) \/ Advanced(c)
  /\ GoTo(c, "landed", {})
  /\ UNCHANGED <<row, spec, receipt, claim, policy, faults>>

\* A retry of a group whose receipt is written.
LandAgain(c) ==
  /\ at[c].step = "landing"
  /\ Group(c) \in receipt
  /\ Leave(c, "marking", at[c].batch)
  /\ UNCHANGED <<row, spec, main, receipt, claim, policy, faults>>

\* Mutant: a rejected compare is taken for a land that happened before.
RederiveAsLanded(c) ==
  /\ at[c].step = "landing"
  /\ Group(c) \notin receipt /\ ~Current(c)
  /\ GoTo(c, "landed", {})
  /\ UNCHANGED <<row, spec, main, receipt, claim, policy, faults>>

\* Main, or a fact the proof is bound to, has changed: release, and prove again
\* in a later pass.
Rederive(c) ==
  /\ at[c].step = "landing"
  /\ Group(c) \notin receipt
  /\ Leave(c, "releasing", at[c].batch)
  /\ UNCHANGED <<row, spec, main, receipt, claim, policy, faults>>

\* One transaction: every member's spec is merged, the group is completed.
Receipt(c) ==
  /\ at[c].step = "landed"
  /\ receipt' = receipt \cup {Group(c)}
  /\ spec' = [e \in Entries |-> IF e \in at[c].batch THEN "merged" ELSE spec[e]]
  /\ Leave(c, "marking", at[c].batch)
  /\ UNCHANGED <<row, main, claim, policy, faults>>

Mark(c, e) ==
  /\ at[c].step = "marking"
  /\ e \in at[c].left
  /\ IF Holds(c, e)
     THEN /\ SetRow(e, "merged")
          /\ IF at[c].left = {e} THEN Rest(c) ELSE Leave(c, "marking", at[c].left \ {e})
     ELSE Rest(c) /\ UNCHANGED row
  /\ Forget(c, e)
  /\ UNCHANGED <<spec, main, receipt, policy, faults>>
-----------------------------------------------------------------------------
(* Faults and operators *)

Fault(kind) == kind \in Faults /\ faults < MaxFaults /\ faults' = faults + 1

\* Mutant: the host has landed it, so the rows are marked.
ReceiptFailsQuietly(c) ==
  /\ Fault("receipt")
  /\ at[c].step = "landed"
  /\ Leave(c, "marking", at[c].batch)
  /\ UNCHANGED <<row, spec, main, receipt, claim, policy>>

\* merge_state_unknown: main has moved, the receipt was not written.
ReceiptFails(c) ==
  /\ Fault("receipt")
  /\ at[c].step = "landed"
  /\ Leave(c, "releasing", at[c].batch)
  /\ UNCHANGED <<row, spec, main, receipt, claim, policy>>

\* The host moves main and its answer is lost: the pass throws, and its claims
\* stay until they are stale.
AnswerLost(c) ==
  /\ Fault("answer")
  /\ Advance(c)
  /\ Rest(c)
  /\ UNCHANGED <<row, spec, receipt, claim, policy>>

Crash(c) ==
  /\ Fault("crash")
  /\ at[c].step # "idle"
  /\ Rest(c)
  /\ claim' = [claim EXCEPT ![c] = [e \in Entries |-> 0]]
  /\ UNCHANGED <<row, spec, main, receipt, policy>>

LiveDependent(f, e) == e \in DependsOn[f] /\ spec[f] \in {"review", "in_flight"}

\* cancelSpec parks the live dependents; no row of the queue is touched.
CancelSpec(e) ==
  /\ "cancel" \in Operations
  /\ spec[e] \notin {"merged", "cancelled"}
  /\ spec' = [f \in Entries |->
       IF f = e THEN "cancelled"
       ELSE IF LiveDependent(f, e) THEN "needs_attention" ELSE spec[f]]
  /\ UNCHANGED <<row, main, receipt, at, claim, policy, faults>>

Dequeue(e) ==
  /\ "dequeue" \in Operations
  /\ row[e].status \in {"queued", "held_policy"}
  /\ SetRow(e, "dequeued")
  /\ UNCHANGED <<spec, main, receipt, at, claim, policy, faults>>

\* freeze and pause, drain, and what lifts them.
Command(next) ==
  /\ "policy" \in Operations
  /\ policy' = next
  /\ UNCHANGED <<row, spec, main, receipt, at, claim, faults>>

\* The commands that evaluate one row again, or hold it.
Reevaluate(e) ==
  /\ "policy" \in Operations
  /\ row[e].status \in {"queued", "held_policy"}
  /\ SetRow(e, Admission) \/ SetRow(e, "held_policy")
  /\ UNCHANGED <<spec, main, receipt, at, claim, policy, faults>>
-----------------------------------------------------------------------------
Settle(c, e) == \/ Isolate(c, e) \/ PrepareRework(c, e) \/ RetireReworked(c, e)
                \/ Park(c, e) \/ SettleTerminal(c, e)

Work(c) == \/ Hold(c) \/ Check(c) \/ Retain(c) \/ Release(c)
           \/ Land(c) \/ LandAgain(c) \/ Rederive(c) \/ Receipt(c)
           \/ \E F \in SUBSET Entries : Form(c, F)
           \/ \E e \in Entries : Settle(c, e) \/ Claim(c, e) \/ Confirm(c, e) \/ Mark(c, e)

Next ==
  \/ \E c \in Coordinators : \/ Begin(c) \/ Work(c)
                             \/ ReceiptFails(c) \/ AnswerLost(c) \/ Crash(c)
  \/ \E e \in Entries : \/ Enqueue(e) \/ GrowStale(e)
                        \/ CancelSpec(e) \/ Dequeue(e) \/ Reevaluate(e)
  \/ \E next \in Policies : Command(next)

\* A pass goes on, a coordinator is woken again, a claim nobody renews is stale.
Fairness ==
  /\ \A c \in Coordinators : WF_vars(Begin(c)) /\ WF_vars(Work(c))
  /\ \A e \in Entries : WF_vars(GrowStale(e))

Spec == Init /\ [][Next]_vars /\ Fairness
-----------------------------------------------------------------------------
(* Properties *)

TypeOK ==
  /\ row \in [Entries -> [status : RowStatuses, epoch : Nat, fresh : BOOLEAN,
                        partition : Entries \cup {Scope[e] : e \in Entries}]]
  /\ spec \in [Entries -> SpecStatuses]
  /\ main \in Seq(SUBSET Entries) /\ main # <<>>
  /\ receipt \subseteq [base : Nat, members : SUBSET Entries]
  /\ at \in [Coordinators -> [step : Steps, base : 1..Len(main), batch : SUBSET Entries,
                              left : SUBSET Entries, excluded : SUBSET Entries]]
  /\ claim \in [Coordinators -> [Entries -> Nat]]
  /\ policy \in Policies
  /\ faults \in Nat

\* Main never loses the work of an entry: what lands was proved on the very head
\* it replaces, whatever stale or concurrent passes do.
NothingLost == [][OnMain \subseteq OnMain']_vars

\* A spec is merged only if its work is on main, also after lost answers, failed
\* receipts, retries and groups that meet a completed one.
MergedIsOnMain == \A e \in Entries : spec[e] = "merged" => e \in OnMain

\* A row is marked merged only after the transaction that merged its spec: a
\* land whose receipt failed must not leave the queue.
MarkedIsMerged == \A e \in Entries : row[e].status = "merged" => spec[e] = "merged"

\* An entry lands with or after the entries it depends on, except for one
\* whose spec was cancelled.
AncestorsFirst ==
  \A e \in OnMain : \A d \in DependsOn[e] : d \in OnMain \/ spec[d] = "cancelled"

\* The contract of formBatch without that exception.
AncestorsAlwaysFirst == \A e \in OnMain : DependsOn[e] \subseteq OnMain

\* A row that left the queue does not come back: a late holder cannot release,
\* hold, isolate or mark it.
SettledForGood ==
  [][\A e \in Entries : row[e].status \in {"merged", "dequeued"} => row'[e] = row[e]]_vars

\* Two coordinators never both hold one row.
OneHolder ==
  \A c, d \in Coordinators : \A e \in Entries : Holds(c, e) /\ Holds(d, e) => c = d

\* A claim does not stay: whatever becomes of its holder, the row is released,
\* settled or recovered.
EveryClaimEnds == \A e \in Entries : row[e].status = "merging" ~> row[e].status # "merging"
=============================================================================
