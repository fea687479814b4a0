------------------------------ MODULE Delivery ------------------------------
(***************************************************************************)
(* The delivery of completed land groups of one project: build, preview,   *)
(* proof, promotion, production proof, rollback.  Each group has a row that *)
(* a worker claims and loses by its lease; two groups are delivered side by *)
(* side, for nothing orders the chains of two runs.                        *)
(*                                                                         *)
(* A release is a group and the number of the claim whose build made it.   *)
(* An operation and the renewal of the lease that follows it are one step: *)
(* a claim may be lost between that renewal and the next operation.  The   *)
(* proofs of a preview (readiness, demo, seal) are one step, and so are a  *)
(* rollback's record and the attribution.  The promotion that finds its    *)
(* own release live is left out: no drive that is not the first one comes  *)
(* so far.                                                                 *)
(***************************************************************************)
EXTENDS FiniteSets, Integers

CONSTANTS Groups, Workers,
          MaxClaims,    \* bound on how often a group is claimed
          Nodes,        \* where this instance takes the node of a build from
          Faults,       \* the kinds of fault that may occur
          MaxFaults     \* bound on crashes, stalls and refusals

ASSUME BoundsAssumption == MaxClaims \in Nat \ {0} /\ MaxFaults \in Nat
ASSUME FaultsAssumption == Faults \subseteq {"crash", "stall", "refuse", "throw"}
ASSUME NodesAssumption  == Nodes \subseteq {"run", "connection"}

VARIABLES
  node,      \* what a build is filed under: its run, or what its connection says
  row,       \* land_group_delivery_loops
  rel, prev, \* release_instances: the state, and the release it superseded
  prod,      \* the release that production serves, at the provider
  gone,      \* the releases whose deployment there was torn down
  verified,  \* the groups that have their deploy.verified
  done,      \* how often the provider deployed a preview, and promoted
  work,      \* what each worker is doing
  faults     \* how many faults there have been

vars     == <<node, row, rel, prev, prod, gone, verified, done, work, faults>>
provider == <<prod, gone, done>>
db       == <<rel, prev, verified>>

Claims   == 1..MaxClaims
Releases == Groups \X Claims
None     == <<>>
Effects  == {"preview", "promote"}
Verdicts == {"preview_failed", "completed", "rolled_back", "needs_attention"}
States   == {"absent", "built", "preview", "live", "superseded", "rolled_back", "torn_down"}
Steps    == {"building", "previewing", "intending_preview", "firing_preview",
             "persisting", "vetting", "rejecting", "promoting",
             "intending_promote", "firing_promote", "recording", "readying",
             "attesting", "proving", "rolling", "restoring", "abandoning", "finalizing"}

Row  == [state: {"absent", "in_progress"} \cup Verdicts, token: 0..MaxClaims,
         fresh: BOOLEAN, intents: SUBSET Effects]
Work == [at: Steps \cup {"idle", "claiming"}, g: Groups \cup {None}, k: 0..MaxClaims,
         r: Releases \cup {None}, prior: Releases \cup {None},
         out: Verdicts \cup {"none"}]

TypeOK ==
  /\ node \in {"run", "connection"}
  /\ row \in [Groups -> Row]
  /\ rel \in [Releases -> States]
  /\ prev \in [Releases -> Releases \cup {None}]
  /\ prod \in Releases \cup {None}
  /\ gone \subseteq Releases
  /\ verified \subseteq Groups
  /\ done \in [Groups -> [Effects -> Nat]]
  /\ work \in [Workers -> Work]
  /\ faults \in 0..MaxFaults

Idle == [at |-> "idle", g |-> None, k |-> 0, r |-> None, prior |-> None, out |-> "none"]

Init ==
  /\ node \in Nodes
  /\ row = [g \in Groups |-> [state |-> "absent", token |-> 0, fresh |-> FALSE, intents |-> {}]]
  /\ rel = [r \in Releases |-> "absent"]
  /\ prev = [r \in Releases |-> None]
  /\ prod = None
  /\ gone = {}
  /\ verified = {}
  /\ done = [g \in Groups |-> [e \in Effects |-> 0]]
  /\ work = [w \in Workers |-> Idle]
  /\ faults = 0

Fault(kind) == kind \in Faults /\ faults < MaxFaults /\ faults' = faults + 1

-----------------------------------------------------------------------------
(* Claims *)

\* The predicate of every fenced update.
Holds(w) == LET g == work[w].g IN row[g].state = "in_progress" /\ row[g].token = work[w].k

\* w goes on to step s, with release r; w ends with verdict v.
To(w, s)       == [work[w] EXCEPT !.at = s]
With(w, s, r)  == [work[w] EXCEPT !.at = s, !.r = r]
Ending(w, v)   == [work[w] EXCEPT !.at = "finalizing", !.out = v]
Becomes(w, next) == work' = [work EXCEPT ![w] = next]

\* assertOwned: the lease is renewed, or the claim is found lost.
Beat(w, next, lost) ==
  IF Holds(w) THEN row' = [row EXCEPT ![work[w].g].fresh = TRUE] /\ Becomes(w, next)
              ELSE UNCHANGED row /\ Becomes(w, lost)

LiveOf(g) == {r \in Releases : r[1] = g /\ rel[r] = "live"}

\* Mutant: a preview counts as live.
RecoverPreviewed(w, g) ==
  /\ work[w].at = "idle"
  /\ Becomes(w, [Idle EXCEPT !.at = "claiming", !.g = g])
  /\ \/ \E r \in Releases : r[1] = g /\ rel[r] \in {"preview", "live"} /\ verified' = verified \cup {g}
     \/ UNCHANGED verified
  /\ UNCHANGED <<node, row, rel, prev, provider, faults>>

\* A notification of the tail run: a live release that answers its smoke probe
\* gets the evidence it lacks, whatever the row says.
Recover(w, g) ==
  /\ work[w].at = "idle"
  /\ Becomes(w, [Idle EXCEPT !.at = "claiming", !.g = g])
  /\ \/ LiveOf(g) # {} /\ verified' = verified \cup {g}
     \/ UNCHANGED verified
  /\ UNCHANGED <<node, row, rel, prev, provider, faults>>

\* The row is inserted, or taken over when its lease has run out.
Claimable(g) == \/ row[g].state = "absent"
                \/ row[g].state = "in_progress" /\ ~row[g].fresh
Claim(w) ==
  LET g == work[w].g IN
  /\ work[w].at = "claiming"
  /\ IF Claimable(g)
     THEN /\ row[g].token < MaxClaims
          /\ row' = [row EXCEPT ![g].state = "in_progress", ![g].token = row[g].token + 1,
                                ![g].fresh = TRUE]
          /\ Becomes(w, [work[w] EXCEPT !.at = "building", !.k = row[g].token + 1])
     ELSE UNCHANGED row /\ Becomes(w, Idle)
  /\ UNCHANGED <<node, db, provider, faults>>

\* Time: the lease of a claim that nobody drives runs out.
Lapse(g) ==
  /\ row[g].state = "in_progress" /\ row[g].fresh
  /\ \A w \in Workers : work[w].g = g => work[w].k # row[g].token
  /\ row' = [row EXCEPT ![g].fresh = FALSE]
  /\ UNCHANGED <<node, db, provider, work, faults>>

\* The heartbeats of a living worker fail for longer than the lease.
Stall(g) ==
  /\ row[g].state = "in_progress" /\ row[g].fresh
  /\ row' = [row EXCEPT ![g].fresh = FALSE]
  /\ Fault("stall")
  /\ UNCHANGED <<node, db, provider, work>>

-----------------------------------------------------------------------------
(* Build and preview *)

\* Each drive builds, also when an earlier one has built.
Build(w) ==
  LET r == <<work[w].g, work[w].k>> IN
  /\ work[w].at = "building"
  /\ rel' = [rel EXCEPT ![r] = "built"]
  /\ Beat(w, To(w, "previewing"), Idle)
  /\ UNCHANGED <<node, prev, verified, provider, faults>>

\* findGroupRelease.  Whether an earlier build has the digest of this one is up
\* to the provider; a build filed under its connection's node is never found.
Reusable(w) ==
  {r \in Releases : node = "run" /\ r[1] = work[w].g /\ rel[r] \in {"built", "preview", "live"}}

Preview(w) ==
  /\ work[w].at = "previewing"
  /\ \/ \E r \in Reusable(w) : Beat(w, With(w, "vetting", r), With(w, "abandoning", r))
     \/ /\ Reusable(w) = {}
        /\ UNCHANGED row
        /\ Becomes(w, IF "preview" \in row[work[w].g].intents THEN Ending(w, "needs_attention")
                                                        ELSE To(w, "intending_preview"))
  /\ UNCHANGED <<node, db, provider, faults>>

\* Before there is a preview a lost claim ends the drive, later it tears down.
Intending(e) == IF e = "preview" THEN "intending_preview" ELSE "intending_promote"
Firing(e)    == IF e = "preview" THEN "firing_preview" ELSE "firing_promote"
Lost(w, e)   == IF e = "preview" THEN Idle ELSE To(w, "abandoning")

\* Mutant: the intent is not fenced by the token.
IntendUnfenced(w, e) ==
  LET g == work[w].g IN
  /\ work[w].at = Intending(e)
  /\ row' = [row EXCEPT ![g].intents = row[g].intents \cup {e}]
  /\ Becomes(w, To(w, Firing(e)))
  /\ UNCHANGED <<node, db, provider, faults>>

\* writeIntent, fenced, and it renews the lease.
Intend(w, e) ==
  LET g == work[w].g IN
  /\ work[w].at = Intending(e)
  /\ IF Holds(w)
     THEN /\ row' = [row EXCEPT ![g].intents = row[g].intents \cup {e}, ![g].fresh = TRUE]
          /\ Becomes(w, To(w, Firing(e)))
     ELSE UNCHANGED row /\ Becomes(w, Lost(w, e))
  /\ UNCHANGED <<node, db, provider, faults>>

\* The grant is refused before the provider is called: the owner takes its
\* intent back and leaves the row for a later notification.
Refuse(w, e) ==
  LET g == work[w].g IN
  /\ work[w].at = Firing(e)
  /\ Fault("refuse")
  /\ IF Holds(w)
     THEN /\ row' = [row EXCEPT ![g].intents = row[g].intents \ {e}, ![g].fresh = TRUE]
          /\ Becomes(w, Idle)
     ELSE UNCHANGED row /\ Becomes(w, Lost(w, e))
  /\ UNCHANGED <<node, db, provider>>

FirePreview(w) ==
  LET g == work[w].g IN
  /\ work[w].at = "firing_preview"
  /\ done' = [done EXCEPT ![g] = [done[g] EXCEPT !["preview"] = done[g]["preview"] + 1]]
  /\ Becomes(w, To(w, "persisting"))
  /\ UNCHANGED <<node, row, db, prod, gone, faults>>

\* applyPreview of the store takes a build of the same digest, not always its
\* own.  (Builds of two groups never have one digest.)
Persist(w) ==
  /\ work[w].at = "persisting"
  /\ \E r \in {q \in Releases : q[1] = work[w].g /\ rel[q] = "built"} :
       /\ rel' = [rel EXCEPT ![r] = "preview"]
       /\ Beat(w, With(w, "vetting", r), With(w, "abandoning", r))
  /\ UNCHANGED <<node, prev, verified, provider, faults>>

\* verifyPreview, the demo and the seal, with a renewal before each.
Vet(w) ==
  /\ work[w].at = "vetting"
  /\ \/ work[w].r \notin gone /\ Beat(w, To(w, "promoting"), To(w, "abandoning"))
     \/ UNCHANGED row /\ Becomes(w, To(w, "rejecting"))
  /\ UNCHANGED <<node, db, provider, faults>>

-----------------------------------------------------------------------------
(* Teardown *)

\* The provider first; then the row of the release, which must be a preview.
TearDown(r) ==
  /\ gone' = gone \cup {r}
  /\ rel' = IF rel[r] = "preview" THEN [rel EXCEPT ![r] = "torn_down"] ELSE rel

Reject(w) ==
  LET r == work[w].r IN
  /\ work[w].at = "rejecting"
  /\ TearDown(r)
  /\ Becomes(w, Ending(w, IF rel[r] \in {"preview", "torn_down"} THEN "preview_failed"
                                                             ELSE "needs_attention"))
  /\ UNCHANGED <<node, row, prev, prod, verified, done, faults>>

\* The claim is lost, so what follows a failure here changes nothing either.
Abandon(w) ==
  /\ work[w].at = "abandoning"
  /\ TearDown(work[w].r)
  /\ Becomes(w, Idle)
  /\ UNCHANGED <<node, row, prev, prod, verified, done, faults>>

-----------------------------------------------------------------------------
(* Promotion and rollback *)

Live == {r \in Releases : rel[r] = "live"}
SomeOf(S) == IF S = {} THEN {None} ELSE S

\* The release to supersede is read here and used when the promotion is recorded.
Promote(w) ==
  /\ work[w].at = "promoting"
  /\ IF "promote" \in row[work[w].g].intents
     THEN Becomes(w, Ending(w, "needs_attention"))
     ELSE \E p \in SomeOf(Live) :
            Becomes(w, [work[w] EXCEPT !.at = "intending_promote", !.prior = p])
  /\ UNCHANGED <<node, row, db, provider, faults>>

FirePromote(w) ==
  LET g == work[w].g IN
  /\ work[w].at = "firing_promote"
  /\ IF work[w].r \in gone
     THEN UNCHANGED <<done, prod>> /\ Becomes(w, Ending(w, "needs_attention"))
     ELSE /\ done' = [done EXCEPT ![g] = [done[g] EXCEPT !["promote"] = done[g]["promote"] + 1]]
          /\ prod' = work[w].r
          /\ Becomes(w, To(w, "recording"))
  /\ UNCHANGED <<node, row, db, gone, faults>>

\* supersedeLockedLive: every live release but r, also one that went live since
\* the prior was read.
Superseding(r, s) == [q \in Releases |-> IF q = r THEN s
                                         ELSE IF rel[q] = "live" THEN "superseded" ELSE rel[q]]
\* Mutant: only the release that was read before is superseded.
RecordPrior(w) ==
  LET r == work[w].r
      p == work[w].prior IN
  /\ work[w].at = "recording" /\ rel[r] = "preview"
  /\ rel' = [q \in Releases |-> IF q = r THEN "live" ELSE IF q = p THEN "superseded" ELSE rel[q]]
  /\ prev' = [prev EXCEPT ![r] = p]
  /\ Becomes(w, To(w, "readying"))
  /\ UNCHANGED <<node, row, provider, verified, faults>>

\* One transaction, and it fails on what is not a preview.
Record(w) ==
  LET r == work[w].r
      p == work[w].prior IN
  /\ work[w].at = "recording"
  /\ IF rel[r] = "preview"
     THEN /\ rel' = Superseding(r, "live")
          /\ \E q \in IF p \in Live THEN {p} ELSE SomeOf(Live) : prev' = [prev EXCEPT ![r] = q]
          /\ Becomes(w, To(w, "readying"))
     ELSE UNCHANGED <<rel, prev>> /\ Becomes(w, Ending(w, "needs_attention"))
  /\ UNCHANGED <<node, row, provider, verified, faults>>

\* The poll of production renews the lease, and finds it ready.
Ready(w) ==
  /\ work[w].at = "readying"
  /\ \/ Beat(w, To(w, "attesting"), To(w, "abandoning"))
     \/ UNCHANGED row /\ Becomes(w, Ending(w, "needs_attention"))
  /\ UNCHANGED <<node, db, provider, faults>>

\* It answers its smoke probe and the evidence is recorded: nothing asks again
\* whether the claim still holds.
Attest(w) ==
  /\ work[w].at = "attesting"
  /\ \/ /\ work[w].r \notin gone
        /\ verified' = verified \cup {work[w].g}
        /\ Becomes(w, To(w, "proving"))
     \/ UNCHANGED verified /\ Becomes(w, Ending(w, "needs_attention"))
  /\ UNCHANGED <<node, row, rel, prev, provider, faults>>

\* Mutant: a proven delivery ends without its verdict.
ProveSilently(w) ==
  /\ work[w].at = "proving"
  /\ Becomes(w, To(w, "finalizing"))
  /\ UNCHANGED <<node, row, db, provider, faults>>

\* The production demo: it proves the release, or traffic goes back.
Prove(w) ==
  /\ work[w].at = "proving"
  /\ \/ Becomes(w, Ending(w, "completed"))
     \/ prev[work[w].r] = None /\ Becomes(w, Ending(w, "needs_attention"))
     \/ prev[work[w].r] # None /\ Becomes(w, To(w, "rolling"))
  /\ UNCHANGED <<node, row, db, provider, faults>>

\* Traffic goes back to the deployment that the build of the release made: its
\* id is the release's, whatever was previewed since.
RollBack(w) ==
  LET q == prev[work[w].r] IN
  /\ work[w].at = "rolling"
  /\ prod' = q
  /\ gone' = gone \ {q}
  /\ Becomes(w, To(w, "restoring"))
  /\ UNCHANGED <<node, row, db, done, faults>>

\* The release that is restored is recorded as rolled back, not as live.
Restore(w) ==
  /\ work[w].at = "restoring"
  /\ rel' = Superseding(prev[work[w].r], "rolled_back")
  /\ \/ Becomes(w, Ending(w, "rolled_back"))
     \/ "throw" \in Faults /\ Becomes(w, Ending(w, "needs_attention"))
  /\ UNCHANGED <<node, row, prev, verified, provider, faults>>

-----------------------------------------------------------------------------
(* The end of a drive *)

\* Mutant: the verdict is not fenced by the token.
FinalizeUnfenced(w) ==
  /\ work[w].at = "finalizing"
  /\ row' = [row EXCEPT ![work[w].g].state = work[w].out]
  /\ Becomes(w, Idle)
  /\ UNCHANGED <<node, db, provider, faults>>

Finalize(w) ==
  /\ work[w].at = "finalizing"
  /\ row' = IF Holds(w) THEN [row EXCEPT ![work[w].g].state = work[w].out] ELSE row
  /\ Becomes(w, Idle)
  /\ UNCHANGED <<node, db, provider, faults>>

\* Mutant: the error leaves the loop before a verdict is recorded.
ThrowOut(w) ==
  /\ "throw" \in Faults /\ work[w].at \in Steps
  /\ Becomes(w, Idle)
  /\ UNCHANGED <<node, row, db, provider, faults>>

\* Whatever a step awaits may throw, once done or before.  (The verdict of an
\* error is recorded: that second write is not made to fail.)
Throw(w) ==
  /\ "throw" \in Faults /\ work[w].at \in Steps
  /\ Becomes(w, Ending(w, "needs_attention"))
  /\ UNCHANGED <<node, row, db, provider, faults>>

Crash(w) ==
  /\ work[w].at # "idle"
  /\ Fault("crash")
  /\ Becomes(w, Idle)
  /\ UNCHANGED <<node, row, db, provider>>

-----------------------------------------------------------------------------
Step(w) ==
  \/ Claim(w) \/ Build(w) \/ Preview(w) \/ FirePreview(w) \/ Persist(w) \/ Vet(w)
  \/ Reject(w) \/ Abandon(w) \/ Promote(w) \/ FirePromote(w) \/ Record(w)
  \/ Ready(w) \/ Attest(w) \/ Prove(w) \/ RollBack(w) \/ Restore(w) \/ Finalize(w)
  \/ \E e \in Effects : Intend(w, e)

Next ==
  \/ \E w \in Workers : \/ Step(w) \/ Throw(w) \/ Crash(w)
                        \/ \E e \in Effects : Refuse(w, e)
                        \/ \E g \in Groups : Recover(w, g)
  \/ \E g \in Groups : Lapse(g) \/ Stall(g)

\* A drive that has begun goes on.  Nothing wakes a worker again.
Fairness == \A w \in Workers : WF_vars(Step(w))

Spec == Init /\ [][Next]_vars /\ Fairness
-----------------------------------------------------------------------------
(* Properties *)

\* A provider is asked for a preview of a group, and for its promotion, at most
\* once, whoever drives the group: an owner that was taken over, a taker-over,
\* a retry after a refused grant (markIntentOrAbort, grantAfterOwnedIntent).
EffectsOnce == \A g \in Groups, e \in Effects : done[g][e] =< 1

\* At most one release is live, although the groups promote side by side and
\* each read the release it supersedes earlier (supersedeLockedLive).
OneLive == \A r, q \in Live : r = q

\* The evidence is of a release that is or was live, and a completed delivery
\* has it, whichever of the drive and the recovery on a later notification
\* recorded it (emitGroupDeployVerified, recoverDeployVerified).
Evidence ==
  /\ \A g \in verified : \E r \in Releases :
       r[1] = g /\ rel[r] \in {"live", "superseded", "rolled_back"}
  /\ \A g \in Groups : row[g].state = "completed" => g \in verified

\* A group gets one verdict: no owner that was taken over revises it, and no
\* notification claims the group again (claim, finalize).
VerdictStays ==
  [][\A g \in Groups : row[g].state \in Verdicts => row'[g].state = row[g].state]_vars

\* A drive that nobody kills, stalls or refuses a grant ends in a verdict,
\* whichever of its steps throw (check of LandGroupDeliveryLoop).
DeliveryEnds ==
  \/ <>(faults # 0)
  \/ \A g \in Groups : row[g].state = "in_progress" ~> row[g].state \in Verdicts

\* What a worker vets and promotes is a release whose preview was applied.
WorksOnPreview ==
  \A w \in Workers : work[w].at \in {"vetting", "promoting"} => done[work[w].g]["preview"] = 1

\* What production serves has not been torn down.
ServedIsUp == prod \notin gone

\* When no drive is under way, the live release is the one production serves.
LiveIsServed == (\A w \in Workers : work[w].at = "idle") => Live \subseteq {prod}
=============================================================================
